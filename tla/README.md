# A verification development for NanoJVM

NanoJVM is a small Java Virtual Machine in C for freestanding environments: a
library that reads class files, a heap with a first-fit allocator, an operand
stack, and an interpreter that runs one method at a time. These modules model
it in TLA+; TLC checks them on small instances, and TLAPS proves the theorems
below for all instances.

## 1. The system

| Component | Source | State | Operations | Interacts with |
|---|---|---|---|---|
| Heap | `util/heap.c`, `util/memory_region_ll.c` | the region lists inside one host block: `free_head`, `used_head`, a header (`metadata`, `size`, `next`) per region | `Malloc`, `Free` | called by the embedder and the object allocator |
| VM life cycle | `nanojvm.c` | `vm->heap.memory` | `CreateVirtualMachine`, `InitializeHeap`, `DestroyVirtualMachine`, `LoadClassFile` | host callbacks `heapAlloc` and `heapFree` |
| Operand stack | `util/array_stack.{c,h}` | `size`, `capacity`, bytes | `ArrayStackPush`/`Pop`, typed `Push*`/`Pop*` | one per frame; local variables use its bytes too |
| Interpreter | `interpreter.c` | a frame (`pc`, `opstack`, `localvars`, `prev`), and the bytecode itself, which it changes | `ThreadCurrentExecute`, 205 handlers | class file (finds the code), the caller's frame |
| Object allocator | `object/allocator.c` | none; writes region metadata | `AllocateObject`, `AllocateObjectArray`, `AllocatePrimitiveArray` | heap, `LoadClassFile`, constant pool |
| Class file reader | `nanojvm-classfile/src/reader.c` | offsets in a `ClassFile` | `ClassFileReadStatic`, `ClassFileRead` | constant pool and members start from its offsets |
| Constant pool | `constant_pool.c` | iterator position | iterator, `GetConstantPoolEntry` | everything that looks up a name |
| Fields, methods, attributes | `field.c`, `method.c`, `attribute.c` | iterator positions | iterators, `GetField`, `GetMethod`, `GetCodeAttribute`, `GetAttributeInfo` | constant pool |
| Common | `nanojvm-common` | none | byte, string and number helpers, logging | all |

The library creates no threads, takes no locks and has no timeouts; nothing is
persisted, and there are no messages. What is hard here is of other kinds:

- long sequences of legal calls that end in an illegal heap (list order, merging,
  reuse of holes) and sizes at a boundary, where a `size_t` wraps;
- errors that are only logged: a failed allocation, an overflow or underflow of
  the operand stack, after which the caller goes on;
- memory that was never written (an underflowed pop, local variables) and what
  it reaches;
- state shared from one call to the next: the dangling heap pointer after the VM
  is destroyed, and the bytecode that the interpreter uses up as it runs;
- loops without a bound of their own: every list walk, and the dispatch loop.

`PROJECT.json` lists these as hazards, each at its line, with the properties
that cover it. What makes each component correct:

- **heap**: the two lists partition the regions by their used bit, in address
  order; the regions tile the heap; blocks lie in the host block, never overlap,
  never move; freed memory can be recovered; every call comes back;
- **operand stack**: never more than its capacity, instructions move words as the
  JVM defines, an error loses nothing silently;
- **interpreter**: the loop ends, left-over memory never reaches a caller
  unnoticed, the code a call runs is the method's;
- **class file**: the reader never leaves step with the bytes and its offsets
  point where the format says; an index and an iterator find the entry, member
  or attribute they stand for;
- **object allocator**: the size of an object is that of the fields of all its
  classes, its block has room for it, and a program can follow a rule under which
  no object reaches into another.

## 2. Modules and plan

| Module | Models | Built on |
|---|---|---|
| `Heap` | heap and VM life cycle | |
| `BlockStore` | what a heap promises its clients; abstract specification that `Heap` implements | |
| `Objects` | object allocator and `LoadClassFile`, composed with the heap | `Heap` |
| `ArrayStack` | the stack and the instructions on it, as operators | |
| `OperandStack` | one `ArrayStack` under any sequence of operations | `ArrayStack` |
| `Interpreter` | frame, loop and handlers, without exception dispatch | `ArrayStack` |
| `ClassFileFormat` | the class file format: which structure starts at which byte, and what a reader follows | |
| `ClassFileReader` | `ClassFileReadStatic`, one action per iteration | `ClassFileFormat` |
| `ClassFileAccess` | look-ups, iterators and names on what the reader leaves | `ClassFileReader` |
| `HeapProofs`, `ObjectsProofs`, `OperandStackProofs`, `InterpreterProofs`, `ClassFileReaderProofs`, `ClassFileAccessProofs` | theorems | the module they name |
| `LoopProofs`, `ArrayStackProofs` | lemmas on loops and sums, and on the operations of a stack, that several of them use | |

Every invariant and action property that a passing run checks is also a theorem
for all values of the constants; `Terminates`, a liveness property, is not.

`MCHeap`, `MCObjects`, `MCInterpreter` and `MCClassFile` hold the values of
constants for TLC that a `.cfg` cannot write; `OperandStack` needs none and is
run as it is. Definitions whose
comment begins with "Mutant" are changed copies of a definition, the way a slip
in the code would change it; each property is violated under one of them.

## 3. How the modules correspond to the code

### Heap

Addresses are `VirtualAddress`es, offsets from the start of the host block.
Headers are kept as the functions `meta`, `size` and `next` over the addresses
where a header lies; a write that destroys a header removes it from their
domain. Of all other bytes the model keeps only whether they may have been
written since they were last cleared (`written`): a client may write anything
into its blocks. `held` is what the clients know: the address and requested size
of each block they were given and have not freed. `freed` is what they might free
once more: the addresses freed earlier that no block, and no header behind a
block, handed out since then has covered.

- `RegionAppend`, `RegionRemove`, `RegionFindFit` and `AttemptMergeWithAdjacent`
  have the names of the C functions. A loop `while (cond) current = next` is
  written as the set of nodes it visits (`Visited`, the least set closed under
  the step) and where it ends (`WalkEnd`). A walk round a cycle or into bytes
  that hold no header has no end; the operator then returns no result, and the
  call is `Lose`: it crashes or loops. The recursion of the merge telescopes:
  the first region takes the whole run of adjacent successors.
- `Malloc` composes them in the code's order: the region is linked into the used
  list *before* it is unlinked from the free list, so the unlinking reads the
  next field of the used list. That is faithful and matters: see the findings.
- Sizes are `size_t`, modulo `SizeMod`; header and area sizes are parameters.
- `Free` takes any address. 0 does nothing; at a header the used bit decides.
  Anywhere else, which a double free after a merge or a reuse may be, the code
  takes the bytes for a header, whatever they are: `MayReadUsed` says where the
  bit that it reads may be set (in what was written, inside a header, outside of
  the memory that the heap cleared). If it is not, the call reports a double
  free. If it is (`FreeBytes`), the bytes are released as a region: one of any
  size in `Requests`, where they touch no header and no link (`Loose`); otherwise
  the release writes into a header or the `HeapArea`, and the behaviour ends with
  `status = "overwritten"`, or does not come back.
- `CreateVirtualMachine` and `InitializeHeap` follow one another as in the test
  suite; `InitializeHeap` may fail, and nothing stops a client from going on
  without a heap or after `DestroyVirtualMachine`, which leaves the pointer.

Three clients: `Spec` asks for any size and frees any address, live or not;
`UntilDamage` does so up to the first state that is not sound; `CarefulSpec` is
the largest client for which the allocator works. A careful client calls a live
heap only and allocates only where first fit ends at the top region with room for
the next header inside the host block. It frees what it holds and, again, what is
in `freed`. These rules are not in the code; `CarefulIsExact` and
`OnlyTheseDamage` show that they are the boundary: each other allocation, each
release of bytes where no header begins, and each call without a heap does damage
or does not come back.

### Operand stack

All users move 4 or 8 bytes, so a stack is a sequence of words; `log` keeps
whether an overflow or underflow was reported. The word `GARBAGE` stands for the
contents of a variable that nobody has set. `ArrayStackPop` and `Popped` are the
two results of a pop: the stack that is left, and the words the caller holds.
The handlers are compositions of these in the order of the code's statements.

### Interpreter

An action per kind of handler, with the opcode's number, because the code counts
through the numbers: the loop's `(*pc)++` increments the *opcode in memory*.
`Dispatch` is the loop's head (fetch, increment, look up); a handler that reads
operands moves `pc`, and reads the incremented opcode first. The numbers follow
the table in `interpreter.c`, which from 167 on is not the JVM's order.

Values are abstracted to `"value"` and `GARBAGE`: results of arithmetic are
left out, except that operations on garbage give garbage and that integer
division may trap. Undefined behaviour is a choice: a store behind the locals
overwrites the operand stack with garbage or loses the call; an opcode outside
the table loses it; a call may crash at once or run any of `Codes`, because
`GetCodeAttribute` is handed the wrong pointer. `status = "lost"` ends a
behaviour. `code` survives a call, everything else in the frame is new.

### Class file

A file is a function from offsets to *places* (an entry of the constant pool, a
count, a member, an attribute) together with the few numbers in them that a
reader follows: tags, lengths, counts, references to names. `ClassFileFormat`
says from the Java format, not from this code, how long each place is and which
one comes after it. `Structured` says what the abstraction itself gives: numbers
are naturals, and what starts at an offset is a structure that the file has.
`WellFormed` adds that the places of a file follow one another without a gap,
each once, that indexes are those of entries of the right kind, and that a method
has at most one Code attribute. Bytes that a reader takes for something else than what starts there
send it *astray*: it may crash or come back with anything (`Blunder`, `ANY`).

`ClassFileReader` moves a pointer through the file, an action per iteration of
`skip_cpool`, `skip_fields`, `skip_methods` and `skip_attributes`, and one per
table; `skip_cpool` counts modulo `CountMod`, a `uint8_t` in the code. After it
`ClassFileAccess` lets a client make any call: its state is one iterator (`it`)
and the last structure that another call can take (`got`). Look-ups are loops
without state and are recursive functions of the number of iterations. A hash
of a name stands for the name: the constants in `constants.h` are the hashes of
the names they carry. A call that follows a NULL pointer ends the behaviour:
`GetCodeAttribute` of a method without code, and every `GetAttributeInfo`, which
looks names up in a NULL class file.

### Object allocator

`Objects` extends `Heap` by the array of class files and by what the client
believes it has (`objects`). Class files are reduced to name, super class and
the descriptors of their fields; one that was rejected is the structure `{0}`,
and looking for a name beyond it follows a NULL pointer; one without a name is
passed over. `LOST` is a size that
is never found: `get_classfile_member_size` recurses along the super classes,
through a NULL class file where one is missing, for ever where they run in a
circle. Each allocator is one action, the size, `Malloc` and the writes behind
it together. Those writes go through the virtual address taken for a pointer, to
the low end of the address space: they crash, or hit memory that is not modelled
(an embedder would have to place the heap there for them to hit it).

The allocators call `Malloc` whatever the heap is like, and so does the model. The
program asks for whatever it likes and frees in any order, also twice: it fills
holes, and then its heap is damaged; what it can still rely on are the sizes. It
is *tidy* as long as it keeps two rules, which it can do without a look into the
heap: it allocates only while its objects lie side by side from the first address
on, and only if the next one, with a header behind it, fits into the host block.
It frees in any order. `tidy` records whether it has kept them so far. That they
make it a careful client is not a matter of the rules alone: the holes it has made
must have been merged by the time its objects lie side by side again.

## 4. What is checked

Deadlock is checked where the client is careful and in `operand_stack`. In the
other runs a behaviour may end, because a call that crashes or loops for ever
(`status = "lost"`), or writes over a header, is the last step (`CHECK_DEADLOCK
FALSE`).

| Run | Instance | Properties | Shows |
|---|---|---|---|
| `heap_careful` | header 2, area 3, heap 27, 5 regions, requests 0, 1, 3, 8 | `StaysSound`, `DoubleFreeReported`, `NeverLost`, `FreshWhenEmpty`, `FirstFit`, `KeepsBlocks` | a careful client in any order of calls: lists, tiling and blocks stay right, a double free is noticed, memory is recovered, `Heap` implements `BlockStore` |
| `heap_until_damage` | header 2, area 3, heap 19, 4 regions, frees of any address | `TypeOK`, `CarefulIsExact`, `OnlyTheseDamage` | exactly which calls damage a sound heap or do not come back from one |
| `operand_stack` | 2 words, capacity 6 | `TypeOK`, `GarbageIsReported`, `AsJVM`, `OverflowLosesNothing` | all nine stack instructions against the JVM's definition, with and without room |
| `interpreter` | all methods of 2 opcodes of 20 kinds, and of 3 that touch stack and locals; 64-bit addresses | `TypeOK`, `Footprint`, `CleanResult`, `Terminates`, `UsesUpBytes` | calls repeated until the code is used up |
| `classfile` | 45 files: 10 constant pools with 4 arrangements of members each, and 5 damaged files; the counter wraps at 12 | `TypeOK`, `ReadsRight`, `StaysInStep`, `IndexFindsEntry`, `PoolIteratorExact`, `MembersExact`, `MembersIterate`, `NamesResolve`, `AttributesExact` | which files are read right, and which look-ups and iterators on them are exact |
| `objects` | header 2, heap 38, 3 regions, arrays of 8 elements; 4 arrays of up to 6 class files | `ObjectsTypeOK`, `SizeExact`, `MembersFit`, `UsesHeapCarefully` | any program, also on a heap that it has damaged: sizes along the super classes, objects and the sizes asked for them, with products that wrap; and that a program is a careful client of the heap as long as it is tidy |

Bounds. `MaxBlocks` limits into how many regions a heap is split before the next
`Malloc`: 4 and 5 in the runs of the heap, 3 under the allocator. Together with
heaps of 19 to 38 bytes and a 2-byte header that leaves room for three blocks
with holes between them, exact fits, holes too small by less than a header, and
wrapped sizes: each of the mutants and findings needs no more than three blocks.
The run that frees any address (`Addresses`) has the smallest heap, because its
clients free every byte of it.
`SizeMod` stands for 2^64 and only has to exceed the heap and what is asked of
it. The sizes of the C structures (header 17, area 24) and the 1024 bytes of
`test_heap.c` need no run of their own: the theorems hold for them too.
An opcode is counted through at most 256 values, so two or three bytes of code
reach every handler from many starting points; the depth of the state graph is
these bytes being used up. Three words of stack make it overflow; 57 locals let
some stores of the code stay in the frame and others leave it.
A class file has up to 25 slots, below, at and beyond the limit at which
`skip_cpool`'s counter wraps, with a long or double before, behind and across
it; 255 in the code and 11 here differ in nothing but the number of iterations,
and the reader's two properties are proved for any. The four arrays of class
files hold every way in which a chain of super classes can go: to its end, to a
class that is missing, nameless, rejected or behind a rejected one, into a circle,
and through the first of two classes of one name; most objects are too large for
the heap, so that the few that fit meet in every order.

Fairness. The heap has none: its properties are about safety, and `NeverLost`
states that calls come back as the absence of a walk without an end. The
interpreter assumes weak fairness of `Step`: once the loop is entered the CPU
goes on with it; nothing makes an embedder call again. `Terminates` rests on it.
The class file library and the allocator have none either: their loops run up to
a count, and that a recursion along the super classes has an end is part of
`SizeExact`.

### Findings

Runs that end in a violation, each of a sentence in the repository:

| Run | The code | The repository says |
|---|---|---|
| `heap_doc_disjoint` | `memory_region_ll.c:62` accepts a region too small by up to a header; blocks overlap | `nanojvm.h:84` |
| `heap_doc_area` | `nanojvm.c:46-47`: the heap reaches `sizeof(HeapArea)` bytes past its host block | `nanojvm.h:55` |
| `interpreter_doc_bytes` | `interpreter.c:1253` increments the opcode instead of `pc` | `nanojvm.h:166` |
| `classfile_doc_iterator` | `constant_pool.c:67`: behind a long or double the iterator and the index disagree | class file `README.md:29`, `test_classfile.c:57-59` |
| `classfile_doc_code` | `method.c:70` follows NULL for a method without code | `classfile.h:174` |
| `objects_doc_type` | `allocator.c:44`: the type bits are written through the virtual address taken for a pointer | `nanojvm.h:26`, `nanojvm.h:117` |

Others are consequences of these, or plain enough in the code to need no run.
Once a hole below a used block has been reused, `free_head` is that used block
(`heap.c:22-24`, against `nanojvm.h:56`); freeing every block then does not bring
back one free region (the assertions of `test_heap.c:70-71` hold for the orders
they try, and by `FreshWhenEmpty` for every careful client), and any later call
may fail to come back. `Free` accepts any address whose bytes look like a used
header (`heap.c:32`, against `nanojvm.h:90`), and so a second `Free` of a block
goes unnoticed once a later block covers the address; `OnlyTheseDamage` names it
among the calls that damage a heap, and `DoubleFreeReported` says until when it is
harmless. The loop ends on opcodes 172 to 177, but
`RETURN`, which "ends execution of the current method" (`interpreter.c:985`), is
entry 195 of the table and goes on. `classfile.h:9` says that the source type
bit is 0 for a static source, where `reader.c:76` sets it.
One disagreement is part of the
model rather than a property: `interpreter.c:1234` hands `GetCodeAttribute` the
address of the code attribute where it expects the `Method`
(`classfile.h:176`), so `Call` may crash, or run bytes that are not the
method's.

## 5. What is proved

For every value of the constants that satisfies the named assumptions
(`HeapAssumption`, `InterpreterAssumption`, `ReaderAssumption`,
`AccessAssumption`, `ObjectsAssumption`, and of `OperandStack` that its capacity
is a number and `GARBAGE` no word): sizes are naturals, the host block has room
for one header, sums of two addresses do not wrap, code is a finite sequence of
bytes, and an array of class files is a finite sequence. The reader assumes nothing of
its files; what is said of their use assumes that they are `Structured` and that
a 16-bit index reaches past the last slot, which a 16-bit count implies. Files
may be damaged in any other way; theorems about entries and members speak of
well-formed ones.

- `HeapProofs!TypeCorrect`: `Spec => []TypeOK`, in damaged heaps as well. One
  lemma per list operation says that it keeps the types wherever it returns.
- `HeapProofs`: `HeapStaysSound`, `HeapNeverLost`, `DoubleFreeIsReported` and
  `HeapKeepsBlocks` for `CarefulSpec`. The inductive invariant `IInv` is the
  conjunction of `TypeOK`, `status = "running"`,
  `memory = "live" => Sound /\ FreedReadFree`, and
  `memory # "live" => held = EmptyMap /\ freed = {} /\ Regions = {}`.
  `StaysSound` alone is not inductive without the types, and of the parts of
  `Sound` none is without the others: list order needs the tiling, the merge
  needs that the head of the free list has no free neighbour, the block sizes
  need that used regions are the held ones. The argument: on a sorted list with
  an upper bound every walk ends (`WalkEnds`, from well-ordering of the naturals
  and the set of visited nodes); `AppendSorted` and `RemoveSorted` say what the
  two operations do with a list and that they leave the other alone;
  `CarefulCarve` shows why the wrong order in `Malloc` is harmless for the top
  region: it is last on both lists, so the next field that is read is 0;
  `MergeAbsorbs` and `MergeSound` treat the merge. That what was freed still reads
  as free (`FreedReadFree`) is part of the invariant, because a careful client may
  free it again: a merge clears the headers that it removes (`FreeReads`), and a
  block writes only to what it covers (`CarefulMallocReads`). `MallocStep` and `FreeStep`
  join them, and the same steps give the refinement of `BlockStore`.
  `MallocIsFirstFit` and `EmptiedHeapIsFresh` follow from `IInv`: a search on a
  sorted list passes exactly the regions before the first that fits, and a tiling
  without a used region, in which no two free regions touch, is one region.
- `HeapProofs`, for the client of `UntilDamage`: `CarefulRuleIsExact` and
  `OnlyTheseCallsDamage`. A sound heap need not be one that a careful client
  made: the invariant `UInv` is only `TypeOK`, that in a sound heap what was freed
  reads as free, and that there are no regions without a heap. That a careful request keeps it sound is `MallocStep` again; that
  any other request does not is shown from where first fit ends
  (`UncarefulDamages`): the region is too small for both headers and the size of
  the rest wraps; or it is not the top, and the rest is linked in front of a used
  region or of none (`RestLeadsToUsed`), cut off from the free ones behind it; or
  it is the top and the rest reaches out of the host block. A `Free` of bytes
  where no header begins, other than at an address in `freed`, always damages the
  heap if it comes back: the bytes lie in the data of a region (`BytesInRegion`),
  whose header and size survive the merge (`BytesStay`), so that two regions
  overlap (`BytesDamage`).
- `OperandStackProofs`: `TypeCorrect` and `GarbageAlwaysReported`, from what each
  operation of `ArrayStackProofs` does to a stack; `WorksAsJVM` and
  `OverflowKeepsWords`, by computing each of the nine instructions on a stack
  that is what lies beneath its operands, followed by them.
- `InterpreterProofs`: `FootprintHolds`, with the invariant that every code is a
  finite sequence of bytes (`CodeOK /\ Footprint`); `BytesAreUsedUp`, the
  variant behind termination; `TypeCorrect`, with a lemma per stack operation;
  `ResultIsClean`, with the invariant that garbage on the frame's own stack, too,
  has one of the two causes that the property names (`Clean`).

- `ClassFileReaderProofs`: `ReadsRightAlways` and `StaysInStepAlways` for any set
  of files. Neither is inductive: that the reader is in step with a file's next
  place rests on where its counters say it is. The invariant (`ReaderInv`) says
  for each phase, of a readable file, that the pointer is at the place which the
  counters name (`IntoPool`, `IntoTable`, `IntoList`), that the bound of the loop
  is the file's number, and that the tables left behind are recorded rightly.
  Below `CountMod` slots the wrapping counter is an ordinary one; that is the
  only place where the limit is used. `ClassFileAccessProofs` carries both
  over to `Spec`: once the reader is done no call of a client writes to the
  structure.
- `ObjectsProofs`: `MembersAlwaysFit`, for any program and any heap, from
  `ObjectsHeld`: every object is a held block of exactly the size that was asked
  for it. `TidyIsCareful` says that every step of a program that has been tidy is
  one of `CarefulNext`, and `TidyKeepsHeapSound` what follows for the heap. The
  invariant is `ObjectsHeld` with `tidy => IInv`; the step rests on the heap's side
  of the bargain: while blocks lie side by side no block is behind a free region
  (`FreeIsBehind`), the head of the free list has no free neighbour, so it is the
  only free region and the top (`OneFree`), and it begins where a block ends
  (`TopIsFront`), where the program knows the room there is.

- `ClassFileAccessProofs`: `TypeCorrectInUse`, on any files; for well-formed ones
  `IndexExact`, `PoolIteratorIsExact`, `MembersAreExact`, `MembersIterateRight`,
  `NamesAlwaysResolve` and `AttributesAreExact`. A look-up is a loop: its
  invariant says that after n iterations it stands at the place that the layout
  gives (`SeekFinds`, `ListWalked`, `MemberSought`). An iterator is a loop over
  the client's calls: `PoolIt` says that after n of them it is behind exactly n
  entries, counted as a set, `MemberIt` that it is at member n, and `GotFrom`
  that a structure the client holds was read from the member it names.
- `ObjectsProofs`: `ObjectsTypeCorrect` and `SizeIsExact`. The lineage of a class
  is the least set with its super classes; a class has the lineage of its super
  class and itself, and is not in it if that ends at a class without a super
  class (`NotOwnAncestor`). By induction on the depth of the recursion, what it
  finds is the sum over a complete lineage (`SizesRight`), and a depth of the
  number of classes of a lineage is enough (`SizesFound`). What the recursion
  finds in a table with a circle, or with a class missing or rejected, follows:
  nothing.

Loops and recursions are recursive functions in the modules. `LoopProofs` shows
that such a function exists (`Histories`) and states induction up to a number
about the set of numbers for which a fact holds (`UpTo`), from the
well-foundedness of < on the naturals, so that it needs no schema.

Only model-checked: `Terminates`. Liveness is out of the prover's reach; its
safety part is proved, that every dispatch uses up a byte of finitely many
(`BytesAreUsedUp`) under the type invariant. It counts a crash, such as the trap
of a division by zero, as an end of the loop. The disagreements of section 4 are
counterexamples and are shown by TLC alone.

## 6. What is not modelled

- what the bytes of a heap mean once a call has written into a header or the
  `HeapArea` as if it were another header (`status = "overwritten"`);
- exception dispatch (`interpreter.c:1261-1293`): nothing sets
  `frame.exception`, so no state reaches it, and `ArrayStackClear`, which it
  calls, is defined nowhere;
- `ClassFileRead`: a stub that reports itself missing and returns `{0}`;
- several threads on one VM or class file: the library neither creates them nor
  speaks of them;
- `PopByte` and `PopShort`, which nothing calls, are pops of a word; the bytes
  they write behind their variable are left out;
- of a class file: access flags, versions, numbers and bootstrap indexes, which
  no function follows; a super class whose name is not a Utf8 entry;
- the results of arithmetic, floating point among them, and the contents of
  blocks, beyond whether they may have been written;
- memory, string, hash and number helpers of `nanojvm-common`: stateless, and
  modelled by what they do where they are called;
- logging, build files, tests and `greatest.h`.
