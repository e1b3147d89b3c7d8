-------------------------------- MODULE Heap --------------------------------
(***************************************************************************)
(* The managed heap of the VM: one block of host memory that starts with   *)
(* a HeapArea (the heads of two region lists) and is tiled by regions, a   *)
(* MemoryRegion header each followed by its data.  Malloc carves a block   *)
(* off the first free region that fits; Free puts it back and merges the   *)
(* free list from its head.                                                *)
(*                                                                         *)
(* Addresses are VirtualAddresses, byte offsets from the start of the      *)
(* block.  Headers are modelled as three functions (the header's fields)   *)
(* over the addresses that hold one; NULL and "no next" are 0.  Of all     *)
(* other bytes the model keeps whether they may have been written since    *)
(* they were last cleared: what a client writes into its blocks is open.   *)
(***************************************************************************)
EXTENDS Integers, FiniteSets

CONSTANTS
  HeaderSize,    \* sizeof(MemoryRegion), 17
  AreaSize,      \* sizeof(HeapArea), 24
  InitialSize,   \* vm->heap.initial_size, the size of the host block
  SizeMod,       \* size_t arithmetic is modulo this, 2^64
  Requests,      \* the sizes clients ask for
  MaxBlocks      \* bound: regions a client's calls may split the heap into

ASSUME HeapAssumption ==
  /\ HeaderSize \in Nat \ {0}
  /\ AreaSize \in Nat \ {0}
  /\ InitialSize \in Nat
  /\ AreaSize + HeaderSize <= InitialSize
  /\ SizeMod \in Nat
  /\ InitialSize + AreaSize < SizeMod
  /\ Requests \subseteq 0 .. SizeMod - 1
  /\ MaxBlocks \in Nat

VARIABLES
  memory,      \* vm->heap.memory: "null", "live", or "freed" (dangling)
  free_head,   \* HeapArea.free_head
  used_head,   \* HeapArea.used_head
  meta,        \* MemoryRegion.metadata of each header, a set of flags
  size,        \* MemoryRegion.size
  next,        \* MemoryRegion.next
  written,     \* the bytes outside of headers that need not be 0
  held,        \* the client: address -> requested size of each block it holds
  freed,       \* the client: addresses it has freed, and that no block handed out
               \* since then has covered
  status       \* "running"; "lost": a call does not come back; "overwritten": one
               \* has written into a header or the HeapArea as if it were another
               \* header, and what the bytes mean from here on is not modelled

lists == <<free_head, used_head, meta, size, next, written>>
vars == <<memory, lists, held, freed, status>>

HEAP_MEMORY_USED == "used"

Regions == DOMAIN next
Used == {a \in Regions : HEAP_MEMORY_USED \in meta[a]}
End(a) == a + HeaderSize + size[a]

\* Where the memory that the regions tile ends: InitializeHeap subtracts only
\* a header, so it lies AreaSize bytes past the host block.
TiledEnd == AreaSize + InitialSize

EmptyMap == [a \in {} |-> 0]

-----------------------------------------------------------------------------
(***************************************************************************)
(* Walking a list.  Every loop over regions starts at a node and goes from *)
(* a node b to nx[b] as long as b is in "onward" (the loop's condition).   *)
(* The nodes it visits are the smallest set that holds the first one and   *)
(* is closed under that step.  A walk that runs round a cycle, or that     *)
(* follows a link to bytes that hold no header, has no end.                *)
(***************************************************************************)
Visited(nx, from, onward) ==
  {a \in DOMAIN nx : \A X \in SUBSET DOMAIN nx :
     (from \in X /\ \A b \in X \cap onward : nx[b] \in DOMAIN nx => nx[b] \in X)
        => a \in X}

WalkEnd(nx, from, onward) ==
  IF from \in DOMAIN nx THEN Visited(nx, from, onward) \ onward ELSE {}

(***************************************************************************)
(* The list operations take a list head and the next fields and return the *)
(* set of possible results: one, or none when the walk has no end.         *)
(***************************************************************************)

\* Mutant: the element is linked behind itself.
RegionAppendSelf(head, nx, e) == {[head |-> e, next |-> [nx EXCEPT ![e] = e]]}

\* Insert before the first element whose successor is not below e.  An e that
\* is already the node where the walk ends is linked to itself.
RegionAppend(head, nx, e) ==
  IF head = 0
    THEN {[head |-> e, next |-> [nx EXCEPT ![e] = 0]]}
  ELSE IF e < head
    THEN {[head |-> e, next |-> [nx EXCEPT ![e] = head]]}
  ELSE {[head |-> head, next |-> [nx EXCEPT ![e] = nx[c], ![c] = e]] :
          c \in WalkEnd(nx, head, {b \in DOMAIN nx : nx[b] # 0 /\ nx[b] < e})}

\* Unlink e; its successor is whatever e's next field holds at that moment.
RegionRemove(head, nx, e) ==
  IF head = e
    THEN {[head |-> nx[e], next |-> nx]}
  ELSE IF head = 0
    THEN {[head |-> 0, next |-> nx]}
  ELSE {[head |-> head, next |-> IF nx[c] = e THEN [nx EXCEPT ![c] = nx[e]] ELSE nx] :
          c \in WalkEnd(nx, head, {b \in DOMAIN nx : nx[b] \notin {0, e}})}

\* Mutant: off by one.
FitsStrictly(a, s) == HEAP_MEMORY_USED \notin meta[a] /\ size[a] + HeaderSize > s

\* The test of RegionFindFit: it adds the header where it should require room
\* for one more.
Fits(a, s) ==
  /\ HEAP_MEMORY_USED \notin meta[a]
  /\ (size[a] + HeaderSize) % SizeMod >= s

\* A search of the free list that goes on over the regions in onward.
Search(s, onward) ==
  IF free_head = 0
    THEN {0}
    ELSE {IF Fits(a, s) THEN a ELSE 0 : a \in WalkEnd(next, free_head, onward)}

\* Mutant: the search does not stop at the end of the list.
RegionFindFitNoBreak(s) == Search(s, {b \in Regions : ~ Fits(b, s)})

\* First fit: {reg}, {0} for NULL, or {} when the walk has no end.
RegionFindFit(s) == Search(s, {b \in Regions : ~ Fits(b, s) /\ next[b] # 0})

\* The regions a walk over a whole list counts.
CountRegions(head) ==
  IF head = 0 THEN 0
  ELSE Cardinality(Visited(next, head, {b \in Regions : next[b] # 0}))

\* The headers among D that a write to the bytes lo .. hi - 1 destroys.
HeadersIn(D, lo, hi) == {a \in D : a < hi /\ lo < a + HeaderSize}

\* Mutant: nothing is merged.
MergeNothing(region, sz, nx) == {[size |-> sz, next |-> nx, cleared |-> {}]}

(***************************************************************************)
(* AttemptMergeWithAdjacent absorbs the run of list successors that follow *)
(* region without a gap: the recursion merges the run from its end, so its *)
(* sum telescopes to the end of the last region.  MemorySet clears every   *)
(* absorbed region, header and data.                                       *)
(***************************************************************************)
AttemptMergeWithAdjacent(region, sz, nx) ==
  LET adjacent == {b \in DOMAIN nx : /\ nx[b] # 0
                                     /\ (b + HeaderSize + sz[b]) % SizeMod = nx[b]}
      absorbed == Visited(nx, region, adjacent) \ {region}
      length   == [b \in absorbed |-> (HeaderSize + sz[b]) % SizeMod]
      kept     == DOMAIN nx \ UNION {HeadersIn(DOMAIN nx, b, b + length[b]) : b \in absorbed}
  IN {[size |-> [b \in kept |-> IF b = region THEN (last + sz[last] - region) % SizeMod
                                              ELSE sz[b]],
       next |-> [b \in kept |-> IF b = region THEN nx[last] ELSE nx[b]],
       cleared |-> UNION {b .. b + length[b] - 1 : b \in absorbed}] :
        last \in WalkEnd(nx, region, adjacent)}

-----------------------------------------------------------------------------
(***************************************************************************)
(* The calls.  A call that follows a NULL or dangling pointer, or a walk   *)
(* without an end, does not come back: it crashes, or loops for ever.      *)
(***************************************************************************)
NoHeap ==
  /\ free_head' = 0 /\ used_head' = 0
  /\ meta' = EmptyMap /\ size' = EmptyMap /\ next' = EmptyMap
  /\ written' = {}
  /\ held' = EmptyMap /\ freed' = {}

Lose ==
  /\ status' = "lost"
  /\ UNCHANGED <<memory, lists, held, freed>>

\* The call comes back with one of the outcomes, or not at all; the client then
\* holds the blocks in blocks and has freed those in old.
Return(outcomes, blocks, old) ==
  IF outcomes = {}
    THEN Lose
    ELSE /\ \E o \in outcomes :
              /\ free_head' = o.free_head /\ used_head' = o.used_head
              /\ meta' = o.meta /\ size' = o.size /\ next' = o.next
              /\ written' = o.written
         /\ held' = blocks /\ freed' = old
         /\ UNCHANGED <<memory, status>>

\* A VM without a heap; the program runs one VM after another, as test_heap.c
\* does in its setup and teardown.
CreateVirtualMachine ==
  /\ memory = "freed"
  /\ memory' = "null"
  /\ UNCHANGED <<lists, held, freed, status>>

\* heapAlloc either fails or returns a block, which is cleared and becomes one
\* free region.
\* The program does not call it on a live heap, which it would leak.
InitializeHeap ==
  /\ memory # "live"
  /\ \/ memory' = "null" /\ NoHeap
     \/ /\ memory' = "live"
        /\ free_head' = AreaSize /\ used_head' = 0
        /\ meta' = [a \in {AreaSize} |-> {}]
        /\ size' = [a \in {AreaSize} |-> InitialSize - HeaderSize]
        /\ next' = [a \in {AreaSize} |-> 0]
        /\ written' = {}
        /\ held' = EmptyMap /\ freed' = {}
  /\ UNCHANGED status

\* heap.memory keeps pointing at the block that heapFree took back.
DestroyVirtualMachine ==
  \/ memory = "null" /\ UNCHANGED vars
  \/ memory = "freed" /\ Lose
  \/ memory = "live" /\ memory' = "freed" /\ NoHeap /\ UNCHANGED status

\* The furthest address at which the model lets a header be written: the one
\* a Malloc in a fresh heap can reach.  A write further out faults.
LastAddress == TiledEnd + HeaderSize

\* reg is put on the used list before it is taken off the free list, so the
\* unlinking reads the next field of the used list; rest is linked last.
Relink(reg, rest, mt, sz, nx, wr) ==
  UNION {UNION {
    {[free_head |-> g.head, used_head |-> u.head,
      meta |-> mt, size |-> sz, next |-> g.next, written |-> wr] :
        g \in RegionAppend(f.head, f.next, rest)} :
        f \in RegionRemove(free_head, u.next, reg)} :
        u \in RegionAppend(used_head, nx, reg)}

\* Malloc splits reg: the header of the rest is written behind the block, over
\* whatever lies there.  The block is the client's to write to.
Split(reg, s, rest, restSize) ==
  LET hit  == HeadersIn(Regions, rest, rest + HeaderSize)
      kept == (Regions \ hit) \cup {rest}
  IN IF rest > LastAddress THEN {}
     ELSE Relink(reg, rest,
            [a \in kept |-> IF a = rest THEN {}
                            ELSE IF a = reg THEN meta[a] \cup {HEAP_MEMORY_USED}
                            ELSE meta[a]],
            [a \in kept |-> IF a = rest THEN restSize
                            ELSE IF a = reg THEN s
                            ELSE size[a]],
            [a \in kept |-> IF a \in Regions THEN next[a] ELSE 0],
            written \cup (reg + HeaderSize .. rest - 1)
              \cup UNION {b .. b + HeaderSize - 1 : b \in hit})

\* Mutants: the rest begins in the last byte of the block; its size is not a
\* size_t.
CarveOverlap(reg, s) ==
  Split(reg, s, reg + HeaderSize + s - 1, size[reg] - s - HeaderSize + 1)
CarveSigned(reg, s) == Split(reg, s, reg + HeaderSize + s, size[reg] - s - HeaderSize)

Carve(reg, s) ==
  Split(reg, s, reg + HeaderSize + s, (size[reg] - s - HeaderSize) % SizeMod)

\* The block at reg, and the header behind it, now cover addresses freed before.
HandOut(reg, s) ==
  Return(Carve(reg, s),
         [a \in DOMAIN held \cup {reg} |-> IF a = reg THEN s ELSE held[a]],
         freed \ (reg .. reg + HeaderSize + s + HeaderSize - 1))

\* Nothing is asked for, or nothing is found: Malloc returns 0.
Refuse(s) ==
  /\ s = 0 \/ (memory = "live" /\ 0 \in RegionFindFit(s))
  /\ UNCHANGED vars

Malloc(s) ==
  \/ Refuse(s)
  \/ s # 0 /\ (memory # "live" \/ RegionFindFit(s) = {}) /\ Lose
  \/ s # 0 /\ memory = "live" /\ \E reg \in RegionFindFit(s) \ {0} : HandOut(reg, s)

\* Mutant: the region stays marked.
UnmarkNothing(flags) == flags

Unmark(flags) == flags \ {HEAP_MEMORY_USED}

\* What Free does with a region marked used, given the headers it will read.
Release(a, mt, sz, nx) ==
  UNION {UNION {
    {[free_head |-> f.head, used_head |-> u.head,
      meta |-> [b \in DOMAIN m.next |-> IF b = a THEN Unmark(mt[b]) ELSE mt[b]],
      size |-> m.size, next |-> m.next, written |-> written \ m.cleared] :
        m \in AttemptMergeWithAdjacent(f.head, sz, f.next)} :
        f \in RegionAppend(free_head, u.next, a)} :
        u \in RegionRemove(used_head, nx, a)}

Without(a) == [b \in DOMAIN held \ {a} |-> held[b]]
FreedWith(a) == freed \cup ({a} \cap DOMAIN held)

\* Free reads a byte of any address and takes its lowest bit for the used bit.
\* Where no header begins it may be set in what a client has written, in the
\* later fields of a header, and outside what the heap clears of the host block.
MayReadUsed(a) ==
  \/ a \in written
  \/ \E b \in Regions : b < a /\ a < b + HeaderSize
  \/ a \notin AreaSize .. InitialSize - 1

\* A header read at a would lie in bytes that are all no header's, and no list
\* leads there.
Loose(a) ==
  /\ AreaSize <= a /\ a + HeaderSize <= TiledEnd
  /\ HeadersIn(Regions, a, a + HeaderSize) = {}
  /\ a \notin {free_head, used_head} \cup {next[b] : b \in Regions}

\* Free of an address where no header begins and whose bytes say "used": they are
\* released as a region.  Their size field may hold anything, their next field
\* is written before it is read.
FreeBytes(a) ==
  LET With(map, v) == [b \in Regions \cup {a} |-> IF b = a THEN v ELSE map[b]]
  IN /\ memory = "live" /\ a # 0 /\ a \notin Regions /\ MayReadUsed(a)
     /\ \/ /\ ~ Loose(a)
           /\ status' \in {"lost", "overwritten"}
           /\ UNCHANGED <<memory, lists, held, freed>>
        \/ /\ Loose(a)
           /\ \E sz \in Requests :
                Return(Release(a, With(meta, {HEAP_MEMORY_USED}), With(size, sz), With(next, 0)),
                       Without(a), FreedWith(a))

\* Free of any address: a region marked used is released, and bytes that look
\* like one; anything else is reported as a double free.
Free(a) ==
  \/ a = 0 /\ UNCHANGED vars
  \/ a # 0 /\ memory # "live" /\ Lose
  \/ a # 0 /\ memory = "live" /\ a \notin Used /\ UNCHANGED vars
  \/ a \in Used /\ Return(Release(a, meta, size, next), Without(a), FreedWith(a))
  \/ FreeBytes(a)

-----------------------------------------------------------------------------
Init ==
  /\ memory = "null"
  /\ free_head = 0 /\ used_head = 0
  /\ meta = EmptyMap /\ size = EmptyMap /\ next = EmptyMap
  /\ written = {}
  /\ held = EmptyMap /\ freed = {}
  /\ status = "running"

LifeCycle == CreateVirtualMachine \/ InitializeHeap \/ DestroyVirtualMachine

MayMalloc == Cardinality(Regions) <= MaxBlocks

\* Bound: clients free addresses up to here.
Addresses == 0 .. LastAddress

\* Any client: it asks for any size and frees any address, on any heap.
Next ==
  /\ status = "running"
  /\ \/ LifeCycle
     \/ MayMalloc /\ \E s \in Requests : Malloc(s)
     \/ \E a \in Addresses : Free(a)

Spec == Init /\ [][Next]_vars

(***************************************************************************)
(* A careful client calls a heap only while it is live, and frees what it  *)
(* holds or, again, what it has held before, unless a block handed out     *)
(* since then covers the address.  It allocates only where this code is    *)
(* able to: at the top of the heap, the region behind all blocks, and only *)
(* when the header of what remains still lies inside the host block.       *)
(***************************************************************************)
TopRegion(a) == End(a) = TiledEnd

CarefulRequest(s) ==
  \/ s = 0
  \/ \A a \in RegionFindFit(s) \ {0} :
       TopRegion(a) /\ s + HeaderSize + AreaSize <= size[a]

CarefulNext ==
  /\ status = "running"
  /\ \/ CreateVirtualMachine
     \/ InitializeHeap
     \/ memory # "freed" /\ DestroyVirtualMachine
     \/ memory = "live" /\ MayMalloc /\ \E s \in Requests : CarefulRequest(s) /\ Malloc(s)
     \/ memory = "live" /\ \E a \in DOMAIN held \cup freed \cup {0} : Free(a)

CarefulSpec == Init /\ [][CarefulNext]_vars
-----------------------------------------------------------------------------
(***************************************************************************)
(* A sound heap.                                                           *)
(***************************************************************************)

\* head starts a list of exactly the regions in S, in address order.
ListOf(head, nx, S) ==
  /\ head = 0 <=> S = {}
  /\ S # {} => head \in S /\ \A a \in S : head <= a
  /\ \A a \in S :
       \/ nx[a] = 0 /\ \A b \in S : b <= a
       \/ /\ nx[a] \in S /\ a < nx[a]
          /\ \A b \in S : b <= a \/ nx[a] <= b

\* The two lists partition the regions by their flag: a region is never on the
\* wrong list, on both, or on neither (Malloc, Free, RegionAppend, RegionRemove).
ListsSound ==
  /\ ListOf(used_head, next, Used)
  /\ ListOf(free_head, next, Regions \ Used)

\* The regions tile the heap from its first byte to its end without gap or
\* overlap (the split in Malloc, the merge in Free).
Tiled ==
  /\ AreaSize \in Regions
  /\ \A a \in Regions :
       /\ AreaSize <= a
       /\ End(a) \in Regions \cup {TiledEnd}
       /\ End(a) <= TiledEnd
       /\ \A b \in Regions : a < b => End(a) <= b

\* Behind all blocks there is free memory, and its header and every block lie
\* inside the bytes that heapAlloc returned, though the tiling reaches AreaSize
\* bytes beyond them (InitializeHeap).
TopIsFree == \E a \in Regions \ Used : TopRegion(a) /\ AreaSize <= size[a]

\* The regions marked used are the blocks clients hold, with the sizes they
\* asked for: none leaks, none is handed out twice (Malloc, Free).
HeldAreUsed == held = [a \in Used |-> size[a]]

\* The region at the head of the free list has no free neighbour behind it:
\* the one place where Free merges (AttemptMergeWithAdjacent).
HeadMerged == free_head # 0 => End(free_head) \in Used \cup {TiledEnd}

Sound == /\ ListsSound /\ Tiled /\ TopIsFree /\ HeldAreUsed /\ HeadMerged

\* An address freed earlier is that of a free region, or reads as none in use:
\* the header that lay there was cleared when it was merged, and nothing has
\* been written there since (MemorySet in AttemptMergeWithAdjacent).
FreedReadFree == \A a \in freed : a \in Regions \ Used \/ (a \notin Regions /\ ~ MayReadUsed(a))

-----------------------------------------------------------------------------
(***************************************************************************)
(* Properties.                                                             *)
(***************************************************************************)

\* The type invariant: headers are kept at the same addresses in the three
\* maps, and their size fields are size_t values.
TypeOK ==
  /\ memory \in {"null", "live", "freed"}
  /\ status \in {"running", "lost", "overwritten"}
  /\ free_head \in Nat /\ used_head \in Nat
  /\ DOMAIN meta = Regions /\ DOMAIN size = Regions
  /\ Regions \subseteq Nat
  /\ meta \in [Regions -> SUBSET {HEAP_MEMORY_USED}]
  /\ size \in [Regions -> 0 .. SizeMod - 1]
  /\ next \in [Regions -> Nat]
  /\ written \subseteq Nat /\ freed \subseteq Nat
  /\ DOMAIN held \subseteq Nat
  /\ held \in [DOMAIN held -> Requests]

\* Under a careful client the heap is sound as long as it lives: what every
\* Malloc and Free relies on when it walks a list or splits a region.
StaysSound == memory = "live" => Sound

\* A second Free of a block is reported and does nothing, also after its header
\* has been merged away, until a block handed out later covers it (Free, Malloc,
\* AttemptMergeWithAdjacent).
DoubleFreeReported == memory = "live" => FreedReadFree

\* Under a careful client every call comes back: no walk leaves the headers or
\* runs in a circle (the while loops of memory_region_ll.c, Malloc, Free).
NeverLost == status = "running"

\* When every block has been released the heap is what InitializeHeap made: one
\* free region, no used one (the assertions of test_heap.c, for every order).
FreshWhenEmpty ==
  memory = "live" /\ DOMAIN held = {} =>
    /\ CountRegions(used_head) = 0 /\ CountRegions(free_head) = 1
    /\ size = [a \in {AreaSize} |-> InitialSize - HeaderSize]

\* Malloc reports "out of memory" only when no free region passes the test,
\* and otherwise takes the lowest one that does (RegionFindFit).
FirstFit ==
  memory = "live" => \A s \in Requests :
    LET fitting == {a \in Regions \ Used : size[a] + HeaderSize >= s}
    IN RegionFindFit(s) = IF fitting = {} THEN {0}
                          ELSE {a \in fitting : \A b \in fitting : a <= b}

\* The heap keeps the promises of BlockStore: blocks lie inside the host block,
\* never overlap and stay put (Malloc, Free, InitializeHeap together).
Blocks == INSTANCE BlockStore WITH
  First <- AreaSize, Limit <- InitialSize, blocks <- held
KeepsBlocks == Blocks!Spec

(***************************************************************************)
(* What can go wrong: any client, up to the first damage.                  *)
(***************************************************************************)
UntilDamageNext == (memory = "live" => Sound) /\ Next

UntilDamage == Init /\ [][UntilDamageNext]_vars

Healthy == memory = "live" /\ Sound /\ status = "running"

\* The careful rule is exact: a Malloc in a sound heap leaves it sound if and
\* only if the request is careful (Malloc, RegionFindFit, RegionRemove).
CarefulIsExact ==
  [][\A s \in Requests : Healthy /\ Malloc(s) => (Healthy' <=> CarefulRequest(s))]_vars

\* Calls on a heap that is not there: all but Malloc(0), Free(0) and the first
\* DestroyVirtualMachine.
CallWithoutHeap ==
  \/ memory # "live" /\ \E s \in Requests \ {0} : Malloc(s)
  \/ memory # "live" /\ \E a \in Addresses \ {0} : Free(a)
  \/ memory = "freed" /\ DestroyVirtualMachine

\* What goes wrong in a sound heap or without one is exactly this: a request that
\* is not careful; a Free of bytes where no header begins, and which are not a
\* block freed earlier; a call without a heap.  A refused Malloc, a legal Free in
\* any order and a double free of what no later block covers are harmless.
OnlyTheseDamage ==
  [][status = "running" /\ (memory = "live" => Sound) =>
       (~ (status' = "running" /\ (memory' = "live" => Sound')) <=>
          \/ memory = "live" /\ \E s \in Requests : ~ CarefulRequest(s) /\ Malloc(s)
          \/ \E a \in Addresses \ freed : FreeBytes(a)
          \/ CallWithoutHeap)]_vars

-----------------------------------------------------------------------------
(***************************************************************************)
(* What the documentation says of the heap and the code does not do.       *)
(***************************************************************************)


\* HeapArea.size is the "total size of the heap area (including struct data)":
\* no region reaches past it (InitializeHeap).
RegionsInArea == \A a \in Regions : End(a) <= InitialSize

=============================================================================
