------------------------------- MODULE Objects -------------------------------
(***************************************************************************)
(* The object allocator: objects, object arrays and primitive arrays, on   *)
(* top of the heap of module Heap and of the VM's array of class files.    *)
(* Malloc returns a virtual address, an offset from the heap; the          *)
(* allocator casts it to a pointer and writes the class file and the type  *)
(* bits there, at the low end of the address space instead of in the heap. *)
(***************************************************************************)
EXTENDS Heap, Sequences

CONSTANTS
  ClassTables,    \* the arrays of class files a program may give its VM
  PointerSize,    \* sizeof(VirtualAddress) and sizeof(ClassFile *), 8
  ElementSizes,   \* the sizes, uint8_t, and lengths of arrays
  Lengths         \* that clients ask for

NoName == "no name"
KnownDescriptors == {"B", "C", "Z", "D", "J", "F", "I", "L", "[", "S"}

\* A class file that was read has a name, unless it cannot be resolved, a super
\* class's name (none for java.lang.Object) and the first letters of its fields'
\* descriptors; one that was rejected is the structure {0}.
Rejected == [read |-> FALSE, name |-> NoName, super |-> NoName, fields |-> <<>>]

ASSUME ObjectsAssumption ==
  /\ PointerSize \in Nat \ {0} /\ ElementSizes \subseteq Nat /\ Lengths \subseteq Nat
  /\ Requests = 0 .. SizeMod - 1
  /\ ClassTables \subseteq
       Seq([read : BOOLEAN, name : STRING, super : STRING, fields : Seq(STRING)])

VARIABLES
  classes,    \* vm->classfiles
  objects,    \* the client: address -> what it holds there
  tidy,       \* the client: whether it has kept the rules of a tidy program so far
  program     \* "running" or "crashed"

objectsVars == <<vars, classes, objects, tidy, program>>

NULL == 0       \* no class file; the others are numbered from 1
LOST == -1      \* a computation that crashes or does not end

HEAP_MEMORY_TYPE_1 == "type 1"
HEAP_MEMORY_TYPE_2 == "type 2"

-----------------------------------------------------------------------------
(***************************************************************************)
(* Class files.                                                            *)
(***************************************************************************)

\* Bytes of a field; an unknown descriptor is reported and takes none.
get_field_size(descriptor) ==
  CASE descriptor \in {"B", "C", "Z"} -> 1
    [] descriptor \in {"D", "J"} -> 8
    [] descriptor \in {"F", "I"} -> 4
    [] descriptor \in {"L", "["} -> PointerSize
    [] descriptor = "S" -> 2
    [] descriptor \notin KnownDescriptors -> 0

\* All fields of one class, static ones too.
FieldsSize(c) ==
  LET fields == classes[c].fields
      total[n \in 0 .. Len(fields)] ==
        IF n = 0 THEN 0 ELSE total[n - 1] + get_field_size(fields[n])
  IN total[Len(fields)]

\* Mutant: the last class file of that name.
LoadLast(name) ==
  LET stops == {k \in DOMAIN classes : ~ classes[k].read \/ classes[k].name = name}
  IN IF stops = {} THEN NULL
     ELSE LET k == CHOOSE k \in stops : \A m \in stops : m <= k
          IN IF classes[k].read THEN k ELSE LOST

\* The first class file of that name; those without one are skipped. The name of
\* a rejected one is looked up through a NULL pointer.
LoadClassFile(name) ==
  LET stops == {k \in DOMAIN classes : ~ classes[k].read \/ classes[k].name = name}
  IN IF stops = {} THEN NULL
     ELSE LET k == CHOOSE k \in stops : \A m \in stops : k <= m
          IN IF classes[k].read THEN k ELSE LOST

\* The fields of a class and of its super classes. The recursion is as deep as
\* the chain; one deeper than there are classes runs in a circle.
get_classfile_member_size(class) ==
  LET bytes[n \in 0 .. Len(classes)] ==
        [c \in LOST .. Len(classes) |->
           IF n = 0 \/ c \in {LOST, NULL} THEN LOST
           ELSE IF ~ classes[c].read THEN LOST
           ELSE IF classes[c].super = NoName THEN FieldsSize(c)
           ELSE LET rest == bytes[n - 1][LoadClassFile(classes[c].super)]
                IN IF rest = LOST THEN LOST ELSE FieldsSize(c) + rest]
  IN bytes[Len(classes)][class]

-----------------------------------------------------------------------------
(***************************************************************************)
(* Allocations.                                                            *)
(***************************************************************************)

\* What an object, or the elements of an array, take besides the header.
Bytes(object) ==
  IF object.kind = "primitive array" THEN object.size * object.length
  ELSE object.size * object.length + PointerSize

\* Mutant: the pointer to the class file is forgotten.
AskedNoPointer(object) == (object.size * object.length) % SizeMod

Asked(object) == Bytes(object) % SizeMod

Crash ==
  /\ program' = "crashed"
  /\ UNCHANGED <<vars, classes, objects, tidy>>

(***************************************************************************)
(* A tidy program keeps two rules that it can follow without a look into   *)
(* the heap: it allocates only while its blocks lie side by side from the  *)
(* first address on, so it fills no holes; and only as long as the block   *)
(* and the header behind it fit into the host block.  It frees in any      *)
(* order.                                                                  *)
(***************************************************************************)
SideBySide ==
  \A a \in DOMAIN held : a = AreaSize \/ \E b \in DOMAIN held : b + HeaderSize + held[b] = a

\* The ends of what is in front of the next block.
Fronts == {AreaSize} \cup {b + HeaderSize + held[b] : b \in DOMAIN held}

TidyRequest(s) ==
  \/ s = 0
  \/ /\ memory = "live" /\ SideBySide
     /\ \A e \in Fronts : e + HeaderSize + s + HeaderSize <= InitialSize

\* An allocation, whatever the heap is like.  The write at the address that Malloc
\* returns, taken for a pointer, crashes the program or hits memory that is not
\* the heap's.
Allocate(object) ==
  LET s == Asked(object)
  IN /\ MayMalloc
     /\ \/ Refuse(s) /\ UNCHANGED <<objects, program>>
        \/ Malloc(s) /\ status' # "running" /\ UNCHANGED <<objects, program>>
        \/ /\ s # 0 /\ memory = "live"
           /\ \E v \in RegionFindFit(s) \ {0} :
                /\ HandOut(v, s) /\ status' = "running"
                /\ objects' = [a \in DOMAIN objects \cup {v} |-> IF a = v THEN object ELSE objects[a]]
           /\ program' \in {"running", "crashed"}
     /\ tidy' = (tidy /\ TidyRequest(s))
     /\ UNCHANGED classes

\* Mutant: a size that was not found is asked for all the same.
AllocateOfUnchecked(kind, class, length) ==
  Allocate([kind |-> kind, size |-> get_classfile_member_size(class), length |-> length])

AllocateOf(kind, class, length) ==
  LET bytes == get_classfile_member_size(class)
  IN IF bytes \notin Nat THEN Crash
     ELSE Allocate([kind |-> kind, size |-> bytes, length |-> length])

AllocateObject == \E c \in DOMAIN classes : AllocateOf("object", c, 1)

AllocateObjectArray ==
  \E c \in DOMAIN classes, n \in Lengths : AllocateOf("object array", c, n)

AllocatePrimitiveArray ==
  \E e \in ElementSizes, n \in Lengths :
    Allocate([kind |-> "primitive array", size |-> e, length |-> n])

\* The program frees an object, or one that it has freed before.
FreeObject ==
  \E a \in DOMAIN objects \cup freed :
    /\ Free(a)
    /\ objects' = [b \in DOMAIN objects \ {a} |-> objects[b]]
    /\ UNCHANGED <<classes, tidy, program>>

\* It destroys a VM once.
VMLifeCycle ==
  /\ \/ CreateVirtualMachine
     \/ InitializeHeap
     \/ memory # "freed" /\ DestroyVirtualMachine
  /\ objects' = EmptyMap
  /\ UNCHANGED <<classes, tidy, program>>

ObjectsInit ==
  /\ Init
  /\ classes \in ClassTables
  /\ objects = EmptyMap
  /\ tidy = TRUE
  /\ program = "running"

\* A program that asks for whatever it likes, tidy or not.
ObjectsNext ==
  /\ program = "running" /\ status = "running"
  /\ \/ AllocateObject \/ AllocateObjectArray \/ AllocatePrimitiveArray
     \/ FreeObject \/ VMLifeCycle

ObjectsSpec == ObjectsInit /\ [][ObjectsNext]_objectsVars

-----------------------------------------------------------------------------
(***************************************************************************)
(* Properties.                                                             *)
(***************************************************************************)

\* The type invariant.
ObjectsTypeOK ==
  /\ classes \in ClassTables
  /\ tidy \in BOOLEAN /\ program \in {"running", "crashed"}
  /\ \A a \in DOMAIN objects :
       objects[a] \in [kind : {"object", "object array", "primitive array"},
                       size : Nat, length : Nat]

\* The class file that k names as its super class: the first of that name.
Supers(k) ==
  {m \in DOMAIN classes : /\ classes[m].read /\ classes[m].name = classes[k].super
                          /\ classes[k].super # NoName
                          /\ \A l \in 1 .. m - 1 : classes[l].name # classes[k].super}

\* The classes that c inherits from, and c, as far as there are class files.
Lineage(c) ==
  {k \in DOMAIN classes : \A X \in SUBSET DOMAIN classes :
     (c \in X /\ \A x \in X : Supers(x) \subseteq X) => k \in X}

\* There is such a class file, before every rejected one, or no super class.
Found(k) ==
  \/ classes[k].super = NoName
  \/ \E m \in Supers(k) : \A l \in 1 .. m : classes[l].read

Complete(c) ==
  /\ \A k \in Lineage(c) : classes[k].read /\ Found(k)
  /\ \E k \in Lineage(c) : classes[k].super = NoName

FieldsOf(set) ==
  LET sum[k \in 0 .. Len(classes)] ==
        IF k = 0 THEN 0 ELSE sum[k - 1] + (IF k \in set THEN FieldsSize(k) ELSE 0)
  IN sum[Len(classes)]

\* The size of an object is that of the fields of all classes it inherits from;
\* it is not found if one of them is missing, is its own ancestor, or has a
\* rejected class file before it in the array (get_classfile_member_size,
\* LoadClassFile).
SizeExact ==
  \A c \in DOMAIN classes :
    get_classfile_member_size(c) = IF Complete(c) THEN FieldsOf(Lineage(c)) ELSE LOST

\* Every object the client holds is a block that Malloc gave it, also on a heap
\* that is damaged, and its members fit into the size that was asked for if and
\* only if their number of bytes is a size_t (the sizes the three allocators
\* compute, Malloc, Free).
MembersFit ==
  \A a \in DOMAIN objects :
    a \in DOMAIN held /\ (Bytes(objects[a]) <= held[a] <=> Bytes(objects[a]) < SizeMod)

\* As long as a program has been tidy it is a careful client of the heap: first
\* fit takes each of its objects from the top region, though it frees in any order
\* and frees twice, because the holes are merged by the time its blocks lie side
\* by side (the three allocators, RegionFindFit, AttemptMergeWithAdjacent).
UsesHeapCarefully == [][tidy' => CarefulNext \/ UNCHANGED vars]_objectsVars

-----------------------------------------------------------------------------
(***************************************************************************)
(* What the documentation says and the code does not do.                   *)
(***************************************************************************)

TypeBits(kind) ==
  CASE kind = "object" -> {HEAP_MEMORY_TYPE_1}
    [] kind = "object array" -> {HEAP_MEMORY_TYPE_1, HEAP_MEMORY_TYPE_2}
    [] kind = "primitive array" -> {HEAP_MEMORY_TYPE_2}

\* The type bits in a region's metadata say what it holds (nanojvm.h; the three
\* allocators).
RegionsTyped ==
  \A a \in DOMAIN objects : TypeBits(objects[a].kind) \subseteq meta[a]
=============================================================================
