---------------------------- MODULE ObjectsProofs ----------------------------
(***************************************************************************)
(* The members of an object fit into its block, whatever the program       *)
(* allocates and frees and whatever becomes of the heap; as long as it is  *)
(* tidy, it is a careful client of the heap; and the size of an object is  *)
(* what the fields of its class and of all it inherits from take, whatever *)
(* class files the VM was given.                                           *)
(***************************************************************************)
EXTENDS Objects, HeapProofs

Kinds == [kind : {"object", "object array", "primitive array"}, size : Nat, length : Nat]

\* A size_t is the remainder of a number by SizeMod.
LEMMA Remainder ==
  ASSUME NEW n \in Nat
  PROVE  /\ n % SizeMod \in 0 .. SizeMod - 1
         /\ n < SizeMod => n % SizeMod = n
<1>1. SizeMod \in Nat \ {0}
  BY HeapAssumption
<1> QED BY <1>1

\* The number of bytes of a thing is a natural number, and what is asked for it
\* is a request.
LEMMA AskedIsRequest ==
  ASSUME NEW object \in Kinds
  PROVE  Bytes(object) \in Nat /\ Asked(object) \in Requests
<1>1. object.size \in Nat /\ object.length \in Nat /\ PointerSize \in Nat
  BY ObjectsAssumption DEF Kinds
<1> DEFINE product == object.size * object.length
<1>2. product \in Nat
  BY <1>1
<1>3. Bytes(object) \in Nat
  <2>1. Bytes(object) \in {product, product + PointerSize}
    BY DEF Bytes
  <2> HIDE DEF product
  <2> QED BY <1>1, <1>2, <2>1
<1>4. Asked(object) \in 0 .. SizeMod - 1
  BY <1>3, Remainder DEF Asked
<1> QED BY <1>3, <1>4, ObjectsAssumption

-----------------------------------------------------------------------------
(***************************************************************************)
(* The inductive invariant: every object is a block that the client holds, *)
(* of the size that was asked for it.  It does not need a sound heap.      *)
(***************************************************************************)
ObjectsHeld ==
  \A a \in DOMAIN objects :
    objects[a] \in Kinds /\ a \in DOMAIN held /\ held[a] = Asked(objects[a])

\* Steps that change neither the blocks nor the objects keep it.
LEMMA SameObjects ==
  ASSUME ObjectsHeld, held' = held, UNCHANGED objects
  PROVE  ObjectsHeld'
  BY DEF ObjectsHeld, Asked, Bytes

\* An allocation makes the block that Malloc hands out the object's, or comes
\* to nothing.
LEMMA AllocateStep ==
  ASSUME ObjectsHeld, status = "running", NEW object \in Kinds, Allocate(object)
  PROVE  ObjectsHeld'
<1> DEFINE s == Asked(object)
<1>1. CASE Refuse(s) /\ UNCHANGED objects
  BY <1>1, SameObjects DEF Refuse, vars
<1>2. CASE Malloc(s) /\ status' # "running" /\ UNCHANGED objects
  <2>1. held' = held
    <3> HIDE DEF s
    <3> QED BY <1>2 DEF Malloc, Refuse, Lose, HandOut, Return, vars
  <2> QED BY <1>2, <2>1, SameObjects
<1>3. ASSUME NEW v, HandOut(v, s), status' = "running",
             objects' = [a \in DOMAIN objects \cup {v} |-> IF a = v THEN object ELSE objects[a]]
      PROVE  ObjectsHeld'
  <2>1. held' = [a \in DOMAIN held \cup {v} |-> IF a = v THEN s ELSE held[a]]
    <3> HIDE DEF s
    <3> QED BY <1>3 DEF HandOut, Return, Lose
  <2>2. ASSUME NEW a \in DOMAIN objects'
        PROVE  objects'[a] \in Kinds /\ a \in DOMAIN held' /\ held'[a] = Asked(objects'[a])
    <3>1. CASE a = v
      BY <1>3, <2>1, <3>1
    <3>2. CASE a # v
      <4>1. a \in DOMAIN objects /\ objects'[a] = objects[a]
        BY <1>3, <2>2, <3>2
      <4>2. objects[a] \in Kinds /\ a \in DOMAIN held /\ held[a] = Asked(objects[a])
        BY <4>1 DEF ObjectsHeld
      <4>3. held'[a] = held[a] /\ a \in DOMAIN held'
        BY <2>1, <3>2, <4>2
      <4> QED BY <4>1, <4>2, <4>3
    <3> QED BY <3>1, <3>2
  <2> QED BY <2>2 DEF ObjectsHeld, Asked, Bytes
<1> QED BY <1>1, <1>2, <1>3 DEF Allocate

\* A Free takes from the client at most the block it was called for.
LEMMA FreeObjectStep ==
  ASSUME ObjectsHeld, FreeObject
  PROVE  ObjectsHeld'
<1>1. PICK a : Free(a) /\ objects' = [b \in DOMAIN objects \ {a} |-> objects[b]]
  BY DEF FreeObject
<1>2. held' = held \/ held' = Without(a)
  BY <1>1 DEF Free, FreeBytes, Return, Lose, vars
<1>3. ASSUME NEW b \in DOMAIN objects'
      PROVE  objects'[b] \in Kinds /\ b \in DOMAIN held' /\ held'[b] = Asked(objects'[b])
  <2>1. b \in DOMAIN objects /\ b # a /\ objects'[b] = objects[b]
    BY <1>1, <1>3
  <2>2. objects[b] \in Kinds /\ b \in DOMAIN held /\ held[b] = Asked(objects[b])
    BY <2>1 DEF ObjectsHeld
  <2>3. b \in DOMAIN held' /\ held'[b] = held[b]
    BY <1>2, <2>1, <2>2 DEF Without
  <2> QED BY <2>1, <2>2, <2>3
<1> QED BY <1>3 DEF ObjectsHeld, Asked, Bytes

\* What an allocation of either kind of object comes down to.
LEMMA AllocationIs ==
  ASSUME AllocateObject \/ AllocateObjectArray \/ AllocatePrimitiveArray
  PROVE  Crash \/ \E object \in Kinds : Allocate(object)
<1>1. ASSUME NEW kind \in {"object", "object array"}, NEW class, NEW length \in Nat,
             AllocateOf(kind, class, length)
      PROVE  Crash \/ \E object \in Kinds : Allocate(object)
  <2> DEFINE object == [kind |-> kind, size |-> get_classfile_member_size(class), length |-> length]
  <2>1. CASE get_classfile_member_size(class) \in Nat
    <3>1. object \in Kinds
      BY <2>1 DEF Kinds
    <3>2. Allocate(object)
      BY <1>1, <2>1 DEF AllocateOf
    <3> QED BY <3>1, <3>2
  <2>2. CASE get_classfile_member_size(class) \notin Nat
    BY <1>1, <2>2 DEF AllocateOf
  <2> QED BY <2>1, <2>2
<1>2. CASE AllocateObject
  BY <1>1, <1>2 DEF AllocateObject
<1>3. CASE AllocateObjectArray
  <2>1. Lengths \subseteq Nat
    BY ObjectsAssumption
  <2> QED BY <1>1, <1>3, <2>1 DEF AllocateObjectArray
<1>4. CASE AllocatePrimitiveArray
  <2>1. PICK e \in ElementSizes, n \in Lengths :
          Allocate([kind |-> "primitive array", size |-> e, length |-> n])
    BY <1>4 DEF AllocatePrimitiveArray
  <2>2. [kind |-> "primitive array", size |-> e, length |-> n] \in Kinds
    BY ObjectsAssumption DEF Kinds
  <2> QED BY <2>1, <2>2
<1> QED BY <1>2, <1>3, <1>4

\* A step of a program is one of these.
LEMMA ProgramIs ==
  ASSUME [ObjectsNext]_objectsVars
  PROVE  \/ UNCHANGED <<vars, objects, tidy>>
         \/ status = "running" /\ \E object \in Kinds : Allocate(object)
         \/ status = "running" /\ FreeObject
         \/ status = "running" /\ VMLifeCycle
<1>1. CASE UNCHANGED objectsVars
  BY <1>1 DEF objectsVars
<1>2. CASE ObjectsNext
  BY <1>2, AllocationIs DEF ObjectsNext, Crash
<1> QED BY <1>1, <1>2

LEMMA ObjectsHeldStep ==
  ASSUME ObjectsHeld, [ObjectsNext]_objectsVars
  PROVE  ObjectsHeld'
<1>1. CASE UNCHANGED <<vars, objects>>
  BY <1>1, SameObjects DEF vars
<1>2. CASE status = "running" /\ \E object \in Kinds : Allocate(object)
  BY <1>2, AllocateStep
<1>3. CASE FreeObject
  BY <1>3, FreeObjectStep
<1>4. CASE VMLifeCycle
  <2>1. DOMAIN objects' = {}
    BY <1>4 DEF VMLifeCycle, EmptyMap
  <2> QED BY <2>1 DEF ObjectsHeld
<1> QED BY <1>1, <1>2, <1>3, <1>4, ProgramIs

LEMMA ObjectsInitHeld == ObjectsInit => ObjectsHeld
  BY DEF ObjectsInit, ObjectsHeld, EmptyMap

LEMMA ObjectsInvariant == ObjectsSpec => []ObjectsHeld
<1>1. ObjectsHeld /\ [ObjectsNext]_objectsVars => ObjectsHeld'
  BY ObjectsHeldStep
<1> QED BY <1>1, ObjectsInitHeld, PTL DEF ObjectsSpec

\* Whatever the program asks for and in whatever state the heap is, the members
\* of an object fit into its block exactly if their size does not wrap (the sizes
\* the three allocators compute).
THEOREM MembersAlwaysFit == ObjectsSpec => []MembersFit
<1>1. ObjectsHeld => MembersFit
  <2> SUFFICES ASSUME ObjectsHeld, NEW a \in DOMAIN objects
               PROVE  /\ a \in DOMAIN held
                      /\ Bytes(objects[a]) <= held[a] <=> Bytes(objects[a]) < SizeMod
    BY DEF MembersFit
  <2>1. a \in DOMAIN held /\ objects[a] \in Kinds /\ held[a] = Bytes(objects[a]) % SizeMod
    BY DEF ObjectsHeld, Asked
  <2>2. Bytes(objects[a]) \in Nat /\ SizeMod \in Nat
    BY <2>1, AskedIsRequest, HeapAssumption
  <2>3. /\ Bytes(objects[a]) % SizeMod \in 0 .. SizeMod - 1
        /\ Bytes(objects[a]) < SizeMod => Bytes(objects[a]) % SizeMod = Bytes(objects[a])
    BY <2>2, Remainder
  <2> QED BY <2>1, <2>2, <2>3
<1> QED BY <1>1, ObjectsInvariant, PTL

-----------------------------------------------------------------------------
(***************************************************************************)
(* A tidy program is a careful client: while its blocks lie side by side   *)
(* the heap has one free region, the one behind them.                      *)
(***************************************************************************)

\* No block lies behind a free region.
LEMMA FreeIsBehind ==
  ASSUME TypeOK, Sound, SideBySide, NEW f \in Unused, NEW u \in Used
  PROVE  u < f
<1> DEFINE V == {w \in Used : f < w}
<1>1. /\ Used \subseteq Nat /\ Unused \subseteq Nat /\ HeaderSize \in Nat \ {0}
      /\ f \in Regions /\ u # f
  BY HeapAssumption DEF Unused, TypeOK, Used
<1>2. SUFFICES ASSUME V # {} PROVE FALSE
  BY <1>1
<1>3. PICK w \in V : \A x \in V : w <= x
  <2>1. V \in SUBSET Nat
    BY <1>1
  <2> HIDE DEF V
  <2> QED BY <1>2, <2>1, HasLeast
<1>4. w \in DOMAIN held /\ AreaSize <= f /\ f \in Nat /\ w \in Nat /\ f < w /\ AreaSize \in Nat
  BY <1>1, <1>3, HeapAssumption DEF Sound, HeldAreUsed, Tiled
<1>5. PICK b \in DOMAIN held : b + HeaderSize + held[b] = w
  BY <1>4 DEF SideBySide
<1>6. b \in Used /\ b \in Regions /\ held[b] = size[b] /\ size[b] \in Nat /\ b \in Nat
  BY <1>1, SoundFacts DEF Sound, HeldAreUsed, Used, TypeOK
<1>7. End(b) = w /\ b < w
  BY <1>1, <1>5, <1>6 DEF End
<1>8. ~ (f < b)
  BY <1>3, <1>4, <1>6, <1>7
<1>9. b # f
  BY <1>6 DEF Unused
<1>10. End(b) <= f
  BY <1>1, <1>4, <1>6, <1>8, <1>9 DEF Sound, Tiled
<1> QED BY <1>4, <1>7, <1>10

\* So there is one free region, the top.
LEMMA OneFree ==
  ASSUME TypeOK, Sound, SideBySide, NEW f \in Unused
  PROVE  Unused = {f} /\ TopRegion(f)
<1>1. /\ Unused \subseteq Nat /\ Used \subseteq Nat /\ HeaderSize \in Nat \ {0} /\ TiledEnd \in Nat
      /\ Unused = Regions \ Used /\ size \in [Regions -> Nat]
  BY HeapAssumption DEF Unused, TypeOK, Used, TiledEnd
<1>2. free_head \in Unused /\ \A g \in Unused : free_head <= g
  BY <1>1 DEF Sound, ListsSound, ListOf
<1>3. free_head \in Nat /\ free_head # 0 /\ End(free_head) \in Nat /\ free_head < End(free_head)
  <2>1. AreaSize <= free_head /\ AreaSize \in Nat \ {0}
    BY <1>1, <1>2, HeapAssumption DEF Sound, Tiled
  <2> QED BY <1>1, <1>2, <2>1 DEF End
<1>4. End(free_head) \notin Used
  <2> SUFFICES ASSUME End(free_head) \in Used PROVE FALSE
    OBVIOUS
  <2>1. End(free_head) < free_head
    BY <1>2, FreeIsBehind
  <2> QED BY <1>3, <2>1
<1>5. End(free_head) = TiledEnd
  BY <1>3, <1>4 DEF Sound, HeadMerged
<1>6. ASSUME NEW g \in Unused
      PROVE  g = free_head
  <2>1. /\ g \in Regions /\ End(g) <= TiledEnd /\ g \in Nat /\ g < End(g) /\ End(g) \in Nat
        /\ free_head < g => End(free_head) <= g
    BY <1>1, <1>2, <1>6 DEF Sound, Tiled, End
  <2> QED BY <1>1, <1>2, <1>3, <1>5, <1>6, <2>1
<1> QED BY <1>5, <1>6 DEF TopRegion

\* It begins where a block ends, or is the whole heap.
LEMMA TopIsFront ==
  ASSUME TypeOK, Sound, SideBySide, NEW f \in Unused
  PROVE  f \in Fronts
<1> SUFFICES ASSUME f # AreaSize PROVE f \in Fronts
  BY DEF Fronts
<1> DEFINE V == {b \in Regions : b < f}
<1>1. /\ Regions \subseteq Nat /\ HeaderSize \in Nat \ {0} /\ TiledEnd \in Nat /\ AreaSize \in Nat
      /\ Unused = Regions \ Used /\ size \in [Regions -> Nat] /\ f \in Regions /\ f \in Nat
  BY HeapAssumption DEF Unused, TypeOK, Used, TiledEnd
<1>2. PICK b \in V : \A x \in V : x <= b
  <2>1. AreaSize \in V
    BY <1>1 DEF Sound, Tiled
  <2>2. V \in SUBSET Nat
    BY <1>1
  <2>3. \A x \in V : x <= f
    <3> TAKE x \in V
    <3>1. x \in Nat /\ x < f
      BY <1>1
    <3> HIDE DEF V
    <3> QED BY <1>1, <3>1
  <2> HIDE DEF V
  <2> QED BY <1>1, <2>1, <2>2, <2>3, LargestBelow
<1>3. b \in Regions /\ b < f /\ b \in Nat /\ End(b) \in Nat /\ b < End(b)
  BY <1>1, <1>2 DEF End
<1>4. End(b) <= f /\ End(b) \in Regions \cup {TiledEnd}
  BY <1>1, <1>3 DEF Sound, Tiled
<1>5. End(f) <= TiledEnd /\ f < End(f) /\ End(f) \in Nat
  BY <1>1 DEF Sound, Tiled, End
<1>6. End(b) \in Regions
  BY <1>1, <1>3, <1>4, <1>5
<1>7. End(b) \notin V
  BY <1>2, <1>3
<1>8. End(b) = f
  BY <1>1, <1>3, <1>4, <1>6, <1>7
<1>9. b \in Used
  BY <1>1, <1>3, OneFree
<1>10. b \in DOMAIN held /\ held[b] = size[b]
  BY <1>9 DEF Sound, HeldAreUsed
<1> QED BY <1>8, <1>10 DEF Fronts, End

\* What a tidy program asks for is a careful request.
LEMMA TidyIsCarefulRequest ==
  ASSUME IInv, NEW s \in Requests, TidyRequest(s)
  PROVE  CarefulRequest(s)
<1> SUFFICES ASSUME s # 0, NEW a \in RegionFindFit(s) \ {0}
             PROVE  TopRegion(a) /\ s + HeaderSize + AreaSize <= size[a]
  BY DEF CarefulRequest
<1>1. /\ memory = "live" /\ SideBySide
      /\ \A e \in Fronts : e + HeaderSize + s + HeaderSize <= InitialSize
  BY DEF TidyRequest
<1>2. TypeOK /\ Sound
  BY <1>1 DEF IInv
<1>3. a \in Unused
  BY <1>2, FindFitReturns
<1>4. TopRegion(a) /\ a + HeaderSize + s + HeaderSize <= InitialSize
  BY <1>1, <1>2, <1>3, OneFree, TopIsFront
<1>5. /\ a \in Nat /\ s \in Nat /\ size[a] \in Nat /\ HeaderSize \in Nat /\ AreaSize \in Nat
      /\ InitialSize \in Nat
  BY <1>1, <1>2, <1>3, HeapAssumption DEF Unused, TypeOK
<1>6. a + HeaderSize + size[a] = AreaSize + InitialSize
  BY <1>4 DEF TopRegion, End, TiledEnd
<1> QED BY <1>4, <1>5, <1>6

\* Every step of a program that has been tidy is one of a careful client, and if
\* it stays tidy it has been.
LEMMA TidyStep ==
  ASSUME ObjectsHeld, tidy => IInv, [ObjectsNext]_objectsVars, tidy'
  PROVE  IInv /\ [CarefulNext]_vars
<1>0. IInv
  <2>1. ASSUME NEW object, Allocate(object)
        PROVE  tidy
    BY <2>1 DEF Allocate
  <2>2. CASE FreeObject \/ VMLifeCycle
    BY <2>2 DEF FreeObject, VMLifeCycle
  <2> QED BY <2>1, <2>2, ProgramIs
<1>1. ASSUME status = "running", NEW object \in Kinds, Allocate(object)
      PROVE  [CarefulNext]_vars
  <2> DEFINE s == Asked(object)
  <2>1. MayMalloc /\ TidyRequest(s) /\ (Malloc(s) \/ Refuse(s)) /\ s \in Requests
    <3>1. ASSUME s # 0, memory = "live", NEW v \in RegionFindFit(s) \ {0}, HandOut(v, s)
          PROVE  Malloc(s)
      <4> HIDE DEF s
      <4> QED BY <3>1 DEF Malloc
    <3>2. s \in Requests
      BY AskedIsRequest
    <3> QED BY <1>1, <3>1, <3>2 DEF Allocate
  <2> HIDE DEF s
  <2>2. Malloc(s)
    BY <2>1 DEF Malloc
  <2>3. CASE s = 0
    BY <2>2, <2>3 DEF Malloc, Refuse
  <2>4. CASE s # 0
    <3>1. memory = "live"
      BY <2>1, <2>4 DEF TidyRequest
    <3>2. CarefulRequest(s)
      BY <1>0, <2>1, TidyIsCarefulRequest
    <3> QED BY <1>1, <2>1, <2>2, <3>1, <3>2 DEF CarefulNext
  <2> QED BY <2>3, <2>4
<1>2. CASE status = "running" /\ FreeObject
  <2>1. PICK a \in DOMAIN objects \cup freed : Free(a)
    BY <1>2 DEF FreeObject
  <2>2. a \in DOMAIN held \cup freed
    BY <2>1 DEF ObjectsHeld
  <2>3. memory = "live"
    BY <1>0, <2>2 DEF IInv, EmptyMap
  <2> QED BY <1>0, <1>2, <2>1, <2>2, <2>3 DEF CarefulNext
<1>3. CASE status = "running" /\ VMLifeCycle
  BY <1>0, <1>3 DEF VMLifeCycle, CarefulNext
<1>4. CASE UNCHANGED <<vars, objects>>
  BY <1>0, <1>4
<1> QED BY <1>0, <1>1, <1>2, <1>3, <1>4, ProgramIs

LEMMA TidyInvariant == ObjectsSpec => [](ObjectsHeld /\ (tidy => IInv))
<1>1. ObjectsInit => ObjectsHeld /\ (tidy => IInv)
  BY InitIInv, ObjectsInitHeld DEF ObjectsInit
<1>2. ObjectsHeld /\ (tidy => IInv) /\ [ObjectsNext]_objectsVars => ObjectsHeld' /\ (tidy' => IInv')
  BY TidyStep, CarefulStep, ObjectsHeldStep
<1> QED BY <1>1, <1>2, PTL DEF ObjectsSpec

\* As long as a program has been tidy, whatever it has allocated and freed and in
\* whatever order, it uses the heap as a careful client does, although Malloc and
\* the allocators know no such rule (the three allocators, RegionFindFit,
\* AttemptMergeWithAdjacent).
THEOREM TidyIsCareful == ObjectsSpec => UsesHeapCarefully
<1>1. ObjectsHeld /\ (tidy => IInv) /\ [ObjectsNext]_objectsVars =>
        [tidy' => CarefulNext \/ UNCHANGED vars]_objectsVars
  BY TidyStep
<1> QED BY <1>1, TidyInvariant, PTL DEF ObjectsSpec, UsesHeapCarefully

\* The heap of a program that has been tidy is sound.
THEOREM TidyKeepsHeapSound == ObjectsSpec => [](tidy => StaysSound)
<1>1. (tidy => IInv) => (tidy => StaysSound)
  BY DEF IInv, StaysSound
<1> QED BY <1>1, TidyInvariant, PTL

-----------------------------------------------------------------------------
(***************************************************************************)
(* The types.  The class files are those that the VM was given.            *)
(***************************************************************************)
ClassesKept == classes \in ClassTables /\ tidy \in BOOLEAN /\ program \in {"running", "crashed"}

LEMMA ClassesStep == ClassesKept /\ [ObjectsNext]_objectsVars => ClassesKept'
<1> SUFFICES ASSUME ClassesKept, [ObjectsNext]_objectsVars PROVE ClassesKept'
  OBVIOUS
<1>1. ASSUME NEW object, Allocate(object)
      PROVE  ClassesKept'
  BY <1>1 DEF Allocate, ClassesKept
<1>2. ASSUME NEW kind, NEW class, NEW length, AllocateOf(kind, class, length)
      PROVE  ClassesKept'
  BY <1>1, <1>2 DEF AllocateOf, Crash, ClassesKept
<1>3. CASE AllocateObject \/ AllocateObjectArray
  BY <1>2, <1>3 DEF AllocateObject, AllocateObjectArray
<1>4. CASE AllocatePrimitiveArray
  BY <1>1, <1>4 DEF AllocatePrimitiveArray
<1>5. CASE FreeObject \/ VMLifeCycle
  BY <1>5 DEF FreeObject, VMLifeCycle, ClassesKept
<1>6. CASE UNCHANGED objectsVars
  BY <1>6 DEF objectsVars, ClassesKept
<1> QED BY <1>3, <1>4, <1>5, <1>6 DEF ObjectsNext

LEMMA ClassesInvariant == ObjectsSpec => []ClassesKept
<1>1. ObjectsInit => ClassesKept
  BY DEF ObjectsInit, ClassesKept
<1> QED BY <1>1, ClassesStep, PTL DEF ObjectsSpec

\* The VM's array of class files never changes, and every object has a kind, a
\* size and a length (the three allocators, FreeObject).
THEOREM ObjectsTypeCorrect == ObjectsSpec => []ObjectsTypeOK
<1>1. ObjectsHeld /\ ClassesKept => ObjectsTypeOK
  BY DEF ObjectsHeld, Kinds, ClassesKept, ObjectsTypeOK
<1> QED BY <1>1, ObjectsInvariant, ClassesInvariant, PTL

-----------------------------------------------------------------------------
(***************************************************************************)
(* The bytes of fields.                                                    *)
(***************************************************************************)

\* What is assumed of an array of class files.
TableOK ==
  classes \in Seq([read : BOOLEAN, name : STRING, super : STRING, fields : Seq(STRING)])

\* A field takes a natural number of bytes, whatever its descriptor.
LEMMA FieldSizeType == \A d : get_field_size(d) \in Nat
<1> TAKE d
<1>1. PointerSize \in Nat
  BY ObjectsAssumption
<1>2. CASE d \in {"B", "C", "Z"}
  BY <1>2 DEF get_field_size
<1>3. CASE d \in {"D", "J"}
  BY <1>3 DEF get_field_size
<1>4. CASE d \in {"F", "I"}
  BY <1>4 DEF get_field_size
<1>5. CASE d \in {"L", "["}
  BY <1>1, <1>5 DEF get_field_size
<1>6. CASE d = "S"
  BY <1>6 DEF get_field_size
<1>7. CASE d \notin KnownDescriptors
  BY <1>7 DEF get_field_size, KnownDescriptors
<1> QED BY <1>2, <1>3, <1>4, <1>5, <1>6, <1>7 DEF KnownDescriptors

\* The loop of FieldsSize over the fields.
IsFieldSum(g, c) ==
  g = [n \in 0 .. Len(classes[c].fields) |->
         IF n = 0 THEN 0 ELSE g[n - 1] + get_field_size(classes[c].fields[n])]

LEMMA FieldSum ==
  ASSUME NEW c, Len(classes[c].fields) \in Nat
  PROVE  \E g : IsFieldSum(g, c) /\ FieldsSize(c) = g[Len(classes[c].fields)]
<1> DEFINE N == Len(classes[c].fields)
           a == [n \in 1 .. N |-> get_field_size(classes[c].fields[n])]
<1>1. PICK g : IsSum(g, a, N)
  <2>1. a \in [1 .. N -> Nat]
    BY FieldSizeType
  <2> HIDE DEF a, N
  <2> QED BY <2>1, Sums DEF N
<1>2. ASSUME NEW n \in 0 .. N
      PROVE  g[n] = IF n = 0 THEN 0 ELSE g[n - 1] + get_field_size(classes[c].fields[n])
  <2>1. n # 0 => n \in 1 .. N
    BY <1>2
  <2>2. n # 0 => g[n] = g[n - 1] + a[n]
    BY <1>1, <2>1 DEF IsSum
  <2>3. n # 0 => a[n] = get_field_size(classes[c].fields[n])
    BY <2>1
  <2>4. n = 0 => g[n] = 0
    BY <1>1 DEF IsSum
  <2> HIDE DEF a
  <2> QED BY <2>2, <2>3, <2>4
<1>3. IsFieldSum(g, c)
  <2>1. g \in [0 .. N -> Nat]
    BY <1>1 DEF IsSum
  <2> QED BY <1>2, <2>1 DEF IsFieldSum
<1> QED BY <1>3, Zenon DEF FieldsSize, IsFieldSum

\* The fields of a class take a natural number of bytes.
LEMMA FieldsSizeType ==
  ASSUME TableOK, NEW c \in DOMAIN classes
  PROVE  FieldsSize(c) \in Nat
<1> DEFINE N == Len(classes[c].fields)
<1>1. N \in Nat
  BY DEF TableOK
<1>2. PICK g : IsFieldSum(g, c) /\ FieldsSize(c) = g[N]
  BY <1>1, FieldSum
<1> DEFINE P == {n \in 0 .. N : g[n] \in Nat}
<1>3. 0 \in P
  BY <1>1, <1>2 DEF IsFieldSum
<1>4. ASSUME NEW n \in 0 .. N, n \in P, n # N
      PROVE  n + 1 \in P
  <2>1. n + 1 \in 0 .. N /\ n + 1 # 0 /\ (n + 1) - 1 = n
    BY <1>1, <1>4
  <2>2. g[n + 1] = g[n] + get_field_size(classes[c].fields[n + 1])
    BY <1>2, <2>1 DEF IsFieldSum
  <2> QED BY <1>4, <2>1, <2>2, FieldSizeType
<1>5. \A n \in 0 .. N : n \in P
  <2> HIDE DEF P, N
  <2> QED BY <1>1, <1>3, <1>4, UpTo
<1> QED BY <1>1, <1>2, <1>5

\* What a set of classes adds to each step of FieldsOf.
Own(set) == [k \in 1 .. Len(classes) |-> IF k \in set THEN FieldsSize(k) ELSE 0]

IsSetSum(g, set) ==
  g = [k \in 0 .. Len(classes) |->
         IF k = 0 THEN 0 ELSE g[k - 1] + (IF k \in set THEN FieldsSize(k) ELSE 0)]

LEMMA OwnType ==
  ASSUME TableOK, NEW set
  PROVE  /\ Len(classes) \in Nat /\ DOMAIN classes = 1 .. Len(classes)
         /\ Own(set) \in [1 .. Len(classes) -> Nat]
<1>1. Len(classes) \in Nat /\ DOMAIN classes = 1 .. Len(classes)
  BY DEF TableOK
<1>2. \A k \in 1 .. Len(classes) : FieldsSize(k) \in Nat
  BY <1>1, FieldsSizeType
<1> QED BY <1>1, <1>2 DEF Own

LEMMA SetSum ==
  ASSUME TableOK, NEW set
  PROVE  \E g : IsSum(g, Own(set), Len(classes)) /\ FieldsOf(set) = g[Len(classes)]
<1> DEFINE N == Len(classes)
<1>1. N \in Nat /\ Own(set) \in [1 .. N -> Nat]
  BY OwnType
<1>2. \E g : IsSetSum(g, set)
  <2>1. PICK g : IsSum(g, Own(set), N)
    <3> HIDE DEF N
    <3> QED BY <1>1, Sums
  <2>2. ASSUME NEW k \in 0 .. N
        PROVE  g[k] = IF k = 0 THEN 0 ELSE g[k - 1] + (IF k \in set THEN FieldsSize(k) ELSE 0)
    <3>1. k # 0 => k \in 1 .. N
      BY <1>1
    <3>2. k # 0 => g[k] = g[k - 1] + Own(set)[k]
      BY <2>1, <3>1 DEF IsSum
    <3>3. k # 0 => Own(set)[k] = IF k \in set THEN FieldsSize(k) ELSE 0
      BY <3>1 DEF Own
    <3>4. k = 0 => g[k] = 0
      BY <2>1 DEF IsSum
    <3> QED BY <3>2, <3>3, <3>4
  <2>3. g \in [0 .. N -> Nat]
    BY <2>1 DEF IsSum
  <2> QED BY <2>2, <2>3 DEF IsSetSum
<1>3. PICK g : IsSetSum(g, set) /\ FieldsOf(set) = g[N]
  BY <1>2, Zenon DEF FieldsOf, IsSetSum
<1>4. DOMAIN g = 0 .. N /\ g[0] = 0
  BY <1>1, <1>3 DEF IsSetSum
<1>5. ASSUME NEW k \in 1 .. N
      PROVE  g[k] = g[k - 1] + Own(set)[k]
  <2>1. Own(set)[k] = IF k \in set THEN FieldsSize(k) ELSE 0
    BY DEF Own
  <2>2. g[k] = g[k - 1] + (IF k \in set THEN FieldsSize(k) ELSE 0)
    BY <1>3 DEF IsSetSum
  <2> QED BY <2>1, <2>2
<1> DEFINE P == {k \in 0 .. N : g[k] \in Nat}
<1>6. 0 \in P
  BY <1>1, <1>4
<1>7. ASSUME NEW k \in 0 .. N, k \in P, k # N
      PROVE  k + 1 \in P
  <2>1. k + 1 \in 1 .. N /\ (k + 1) - 1 = k
    BY <1>1, <1>7
  <2>2. g[k + 1] = g[k] + Own(set)[k + 1] /\ Own(set)[k + 1] \in Nat
    BY <1>1, <1>5, <2>1
  <2> QED BY <1>7, <2>1, <2>2
<1>8. \A k \in 0 .. N : k \in P
  <2> HIDE DEF P, N
  <2> QED BY <1>1, <1>6, <1>7, UpTo
<1>9. g \in [0 .. N -> Nat]
  <2>1. g = [k \in 0 .. N |-> g[k]]
    BY <1>3 DEF IsSetSum
  <2>2. \A k \in 0 .. N : g[k] \in Nat
    BY <1>8
  <2> HIDE DEF N
  <2> QED BY <2>1, <2>2
<1> QED BY <1>3, <1>4, <1>5, <1>9 DEF IsSum

LEMMA FieldsOfType ==
  ASSUME TableOK, NEW set
  PROVE  FieldsOf(set) \in Nat
<1>1. PICK g : IsSum(g, Own(set), Len(classes)) /\ FieldsOf(set) = g[Len(classes)]
  BY SetSum
<1> QED BY <1>1, OwnType DEF IsSum

\* A class more adds its fields.
LEMMA OneMore ==
  ASSUME TableOK, NEW set, NEW c \in DOMAIN classes, c \notin set
  PROVE  FieldsOf(set \cup {c}) = FieldsOf(set) + FieldsSize(c)
<1> DEFINE N == Len(classes)
           more == set \cup {c}
<1>1. N \in Nat /\ c \in 1 .. N /\ FieldsSize(c) \in Nat
  BY OwnType, FieldsSizeType
<1>2. Own(set) \in [1 .. N -> Nat] /\ Own(more) \in [1 .. N -> Nat]
  BY OwnType
<1>3. PICK g : IsSum(g, Own(set), N) /\ FieldsOf(set) = g[N]
  BY SetSum
<1>4. PICK h : IsSum(h, Own(more), N) /\ FieldsOf(more) = h[N]
  BY SetSum
<1>5. \A k \in 1 .. N :
        Own(more)[k] = IF k = c THEN Own(set)[k] + FieldsSize(c) ELSE Own(set)[k]
  BY <1>1 DEF Own
<1>6. h[N] = g[N] + FieldsSize(c)
  <2> DEFINE a == Own(set)
             b == Own(more)
             d == FieldsSize(c)
  <2>1. /\ N \in Nat /\ a \in [1 .. N -> Nat] /\ c \in 1 .. N /\ d \in Nat
        /\ IsMore(b, a, N, c, d) /\ IsSum(g, a, N) /\ IsSum(h, b, N)
    BY <1>1, <1>2, <1>3, <1>4, <1>5 DEF IsMore
  <2> HIDE DEF N, more, a, b, d
  <2>2. h[N] = g[N] + d
    BY <2>1, SumsDiffer
  <2> QED BY <2>2 DEF d
<1> QED BY <1>3, <1>4, <1>6

LEMMA OnlyOne ==
  ASSUME TableOK, NEW c \in DOMAIN classes
  PROVE  FieldsOf({c}) = FieldsSize(c)
<1> DEFINE N == Len(classes)
<1>1. N \in Nat /\ FieldsSize(c) \in Nat
  BY OwnType, FieldsSizeType
<1>2. PICK g : IsSum(g, Own({}), N) /\ FieldsOf({}) = g[N]
  BY SetSum
<1>3. g[N] = 0
  <2>1. \A k \in 1 .. N : Own({})[k] = 0
    BY DEF Own
  <2> HIDE DEF N
  <2> QED BY <1>1, <1>2, <2>1, SumOfNothing
<1>4. FieldsOf({} \cup {c}) = FieldsOf({}) + FieldsSize(c)
  BY OneMore
<1>5. {} \cup {c} = {c}
  OBVIOUS
<1> QED BY <1>1, <1>2, <1>3, <1>4, <1>5

-----------------------------------------------------------------------------
(***************************************************************************)
(* The class a class names as its super class.                             *)
(***************************************************************************)

\* There is at most one, and none for a class without a super class.
LEMMA OneSuper ==
  ASSUME TableOK, NEW k \in DOMAIN classes
  PROVE  /\ Supers(k) \subseteq DOMAIN classes
         /\ \A m, l \in Supers(k) : m = l
         /\ classes[k].super = NoName => Supers(k) = {}
<1>1. DOMAIN classes \subseteq Nat \ {0}
  BY OwnType
<1>2. ASSUME NEW m \in Supers(k), NEW l \in Supers(k)
      PROVE  m = l
  <2>1. m \in Nat \ {0} /\ l \in Nat \ {0}
    BY <1>1 DEF Supers
  <2>2. ~ (m < l)
    BY <2>1 DEF Supers
  <2>3. ~ (l < m)
    BY <2>1 DEF Supers
  <2> QED BY <2>1, <2>2, <2>3
<1>3. classes[k].super = NoName => Supers(k) = {}
  BY DEF Supers
<1> QED BY <1>2, <1>3 DEF Supers

\* LoadClassFile finds it if there is no rejected class file before it, and
\* finds no class else.
LEMMA SuperLoaded ==
  ASSUME TableOK, NEW k \in DOMAIN classes, classes[k].super # NoName
  PROVE  IF Found(k) THEN Supers(k) = {LoadClassFile(classes[k].super)}
         ELSE LoadClassFile(classes[k].super) \in {NULL, LOST}
<1> DEFINE name == classes[k].super
           Stop(l) == ~ classes[l].read \/ classes[l].name = name
           stops == {l \in DOMAIN classes : Stop(l)}
           first == CHOOSE l \in stops : \A m \in stops : l <= m
<1>1. LoadClassFile(name) = IF stops = {} THEN NULL
                            ELSE IF classes[first].read THEN first ELSE LOST
  BY DEF LoadClassFile
<1>2. DOMAIN classes = 1 .. Len(classes) /\ Len(classes) \in Nat
  BY OwnType
<1>3. stops \subseteq Nat
  BY <1>2
<1>4. stops # {} => first \in stops /\ \A m \in stops : first <= m
  <2> SUFFICES ASSUME stops # {}
               PROVE  \E l \in stops : \A m \in stops : l <= m
    OBVIOUS
  <2> HIDE DEF stops
  <2> QED BY <1>3, HasLeast
<1>5. CASE Found(k)
  <2>1. PICK m \in Supers(k) : \A l \in 1 .. m : classes[l].read
    BY <1>5 DEF Found
  <2>2. m \in DOMAIN classes /\ Stop(m) /\ \A l \in 1 .. m - 1 : ~ Stop(l)
    BY <1>2, <2>1 DEF Supers
  <2>3. first = m
    <3>1. m \in stops
      BY <2>2
    <3>2. first \in 1 .. Len(classes) /\ Stop(first) /\ first <= m
      BY <1>2, <1>4, <3>1
    <3>3. first \notin 1 .. m - 1
      BY <2>2, <3>2
    <3> HIDE DEF first
    <3> QED BY <1>2, <2>2, <3>2, <3>3
  <2>4. LoadClassFile(name) = m
    BY <1>1, <2>1, <2>2, <2>3 DEF Supers
  <2>5. Supers(k) = {m}
    BY <2>1, OneSuper
  <2> QED BY <1>5, <2>4, <2>5
<1>6. CASE ~ Found(k)
  <2> SUFFICES ASSUME stops # {}, classes[first].read PROVE FALSE
    BY <1>1, <1>6
  <2>1. first \in DOMAIN classes /\ classes[first].name = name
    BY <1>4
  <2>2. \A l \in 1 .. first - 1 : l \in DOMAIN classes /\ ~ Stop(l)
    <3> SUFFICES ASSUME NEW l \in 1 .. first - 1
                 PROVE  l \in DOMAIN classes /\ ~ Stop(l)
      OBVIOUS
    <3>1. l \in DOMAIN classes /\ ~ (first <= l)
      BY <1>2, <2>1
    <3> QED BY <1>4, <3>1
  <2>3. first \in Supers(k)
    BY <2>1, <2>2 DEF Supers
  <2>4. \A l \in 1 .. first : classes[l].read
    <3> SUFFICES ASSUME NEW l \in 1 .. first PROVE classes[l].read
      OBVIOUS
    <3>1. l = first \/ l \in 1 .. first - 1
      BY <1>2, <2>1
    <3> QED BY <2>2, <3>1
  <2> QED BY <1>6, <2>3, <2>4 DEF Found
<1> QED BY <1>5, <1>6

-----------------------------------------------------------------------------
(***************************************************************************)
(* Lineages.                                                               *)
(***************************************************************************)

\* It is the smallest set with the class that has every super class.
LEMMA LineageIsLeast ==
  ASSUME TableOK, NEW c \in DOMAIN classes
  PROVE  /\ c \in Lineage(c) /\ Lineage(c) \subseteq DOMAIN classes
         /\ \A k \in Lineage(c) : Supers(k) \subseteq Lineage(c)
         /\ \A X \in SUBSET DOMAIN classes :
              c \in X /\ (\A x \in X : Supers(x) \subseteq X) => Lineage(c) \subseteq X
<1>1. ASSUME NEW k \in Lineage(c)
      PROVE  Supers(k) \subseteq Lineage(c)
  <2> SUFFICES ASSUME NEW m \in Supers(k) PROVE m \in Lineage(c)
    OBVIOUS
  <2>1. m \in DOMAIN classes
    BY DEF Supers
  <2>2. ASSUME NEW X \in SUBSET DOMAIN classes, c \in X, \A x \in X : Supers(x) \subseteq X
        PROVE  m \in X
    <3>1. k \in X
      BY <1>1, <2>2 DEF Lineage
    <3> QED BY <2>2, <3>1
  <2> QED BY <2>1, <2>2 DEF Lineage
<1> QED BY <1>1 DEF Lineage

LEMMA LineageFinite ==
  ASSUME TableOK, NEW c \in DOMAIN classes
  PROVE  /\ IsFiniteSet(Lineage(c)) /\ Cardinality(Lineage(c)) \in Nat \ {0}
         /\ Cardinality(Lineage(c)) <= Len(classes)
<1>1. Len(classes) \in Nat /\ DOMAIN classes = 1 .. Len(classes)
  BY OwnType
<1>2. IsFiniteSet(1 .. Len(classes)) /\ Cardinality(1 .. Len(classes)) = Len(classes)
  <2> DEFINE N == Len(classes)
  <2>1. N \in Nat /\ 1 \in Int /\ N \in Int
    BY <1>1
  <2> HIDE DEF N
  <2>2. IsFiniteSet(1 .. N) /\ Cardinality(1 .. N) = IF 1 > N THEN 0 ELSE N - 1 + 1
    BY <2>1, FS_Interval
  <2>3. Cardinality(1 .. N) = N
    BY <2>1, <2>2
  <2> QED BY <2>2, <2>3 DEF N
<1>3. Lineage(c) \subseteq 1 .. Len(classes) /\ c \in Lineage(c)
  BY <1>1, LineageIsLeast
<1>4. IsFiniteSet(Lineage(c)) /\ Cardinality(Lineage(c)) <= Len(classes)
  BY <1>2, <1>3, FS_Subset
<1>5. Cardinality(Lineage(c)) \in Nat /\ Cardinality(Lineage(c)) # 0
  BY <1>3, <1>4, FS_CardinalityType, FS_EmptySet
<1> QED BY <1>4, <1>5

\* A class has the lineage of its super class, and itself.
LEMMA LineageOf ==
  ASSUME TableOK, NEW c \in DOMAIN classes, NEW m, Supers(c) = {m}
  PROVE  m \in DOMAIN classes /\ Lineage(c) = Lineage(m) \cup {c}
<1>1. m \in DOMAIN classes
  BY DEF Supers
<1>2. Lineage(m) \subseteq Lineage(c)
  <2>1. m \in Lineage(c)
    BY LineageIsLeast
  <2>2. /\ Lineage(c) \in SUBSET DOMAIN classes
        /\ \A k \in Lineage(c) : Supers(k) \subseteq Lineage(c)
    BY LineageIsLeast
  <2> QED BY <1>1, <2>1, <2>2, LineageIsLeast
<1>3. Lineage(c) \subseteq Lineage(m) \cup {c}
  <2> DEFINE X == Lineage(m) \cup {c}
  <2>1. /\ Lineage(m) \subseteq DOMAIN classes /\ m \in Lineage(m)
        /\ \A k \in Lineage(m) : Supers(k) \subseteq Lineage(m)
    BY <1>1, LineageIsLeast
  <2>2. X \in SUBSET DOMAIN classes /\ c \in X /\ \A x \in X : Supers(x) \subseteq X
    BY <2>1
  <2> HIDE DEF X
  <2>3. Lineage(c) \subseteq X
    BY <2>2, LineageIsLeast
  <2> QED BY <2>3 DEF X
<1>4. c \in Lineage(c)
  BY LineageIsLeast
<1> QED BY <1>1, <1>2, <1>3, <1>4

LEMMA LineageOfRoot ==
  ASSUME TableOK, NEW c \in DOMAIN classes, Supers(c) = {}
  PROVE  Lineage(c) = {c}
<1>1. {c} \in SUBSET DOMAIN classes /\ \A x \in {c} : Supers(x) \subseteq {c}
  OBVIOUS
<1>2. Lineage(c) \subseteq {c}
  BY <1>1, LineageIsLeast
<1> QED BY <1>2, LineageIsLeast

\* A class whose super class leads to one without a super class is not its own
\* ancestor.
LEMMA NotOwnAncestor ==
  ASSUME TableOK, NEW c \in DOMAIN classes, classes[c].super # NoName, NEW m, Supers(c) = {m},
         NEW r \in Lineage(m), classes[r].super = NoName
  PROVE  c \notin Lineage(m)
<1> SUFFICES ASSUME c \in Lineage(m) PROVE FALSE
  OBVIOUS
<1> DEFINE X == {k \in Lineage(m) : c \in Lineage(k)}
<1>1. m \in DOMAIN classes
  BY LineageOf
<1>2. /\ Lineage(m) \subseteq DOMAIN classes /\ m \in Lineage(m)
      /\ \A k \in Lineage(m) : Supers(k) \subseteq Lineage(m)
  BY <1>1, LineageIsLeast
<1>3. ASSUME NEW k \in X, NEW s \in Supers(k)
      PROVE  s \in X
  <2>1. k \in DOMAIN classes /\ c \in Lineage(k) /\ s \in Lineage(m)
    BY <1>2, <1>3
  <2>2. Supers(k) = {s}
    BY <1>3, <2>1, OneSuper
  <2>3. c \in Lineage(s) \cup {k}
    BY <2>1, <2>2, LineageOf
  <2>4. k = c => s = m
    BY <2>2
  <2> QED BY <2>1, <2>3, <2>4
<1>4. Lineage(m) \subseteq X
  <2>1. X \in SUBSET DOMAIN classes /\ m \in X /\ \A x \in X : Supers(x) \subseteq X
    BY <1>2, <1>3
  <2> HIDE DEF X
  <2> QED BY <1>1, <2>1, LineageIsLeast
<1>5. r \in DOMAIN classes /\ c \in Lineage(r)
  BY <1>2, <1>4
<1>6. Lineage(r) = {r}
  BY <1>5, OneSuper, LineageOfRoot
<1> QED BY <1>5, <1>6

\* A class without a super class is complete if it was read.
LEMMA CompleteRoot ==
  ASSUME TableOK, NEW c \in DOMAIN classes, classes[c].super = NoName
  PROVE  Lineage(c) = {c} /\ (Complete(c) <=> classes[c].read)
<1>1. Lineage(c) = {c}
  BY OneSuper, LineageOfRoot
<1> QED BY <1>1 DEF Complete, Found

\* Another one is if its super class is found and complete; then it is not among
\* the classes that the super class inherits from.
LEMMA CompleteHeir ==
  ASSUME TableOK, NEW c \in DOMAIN classes, classes[c].super # NoName, NEW m, Supers(c) = {m}
  PROVE  /\ m \in DOMAIN classes /\ Lineage(c) = Lineage(m) \cup {c}
         /\ Complete(c) <=> classes[c].read /\ Found(c) /\ Complete(m)
         /\ Complete(m) => c \notin Lineage(m)
<1>1. m \in DOMAIN classes /\ Lineage(c) = Lineage(m) \cup {c}
  BY LineageOf
<1>2. Complete(c) <=> classes[c].read /\ Found(c) /\ Complete(m)
  BY <1>1 DEF Complete
<1>3. Complete(m) => c \notin Lineage(m)
  <2> SUFFICES ASSUME Complete(m) PROVE c \notin Lineage(m)
    OBVIOUS
  <2>1. PICK r \in Lineage(m) : classes[r].super = NoName
    BY DEF Complete
  <2> QED BY <2>1, NotOwnAncestor
<1> QED BY <1>1, <1>2, <1>3

-----------------------------------------------------------------------------
(***************************************************************************)
(* The recursion of get_classfile_member_size.                             *)
(***************************************************************************)
SizeFrom(deeper, c) ==
  IF c \in {LOST, NULL} THEN LOST
  ELSE IF ~ classes[c].read THEN LOST
  ELSE IF classes[c].super = NoName THEN FieldsSize(c)
  ELSE LET rest == deeper[LoadClassFile(classes[c].super)]
       IN IF rest = LOST THEN LOST ELSE FieldsSize(c) + rest

IsSizes(g) ==
  g = [n \in 0 .. Len(classes) |->
         [c \in LOST .. Len(classes) |->
            IF n = 0 \/ c \in {LOST, NULL} THEN LOST
            ELSE IF ~ classes[c].read THEN LOST
            ELSE IF classes[c].super = NoName THEN FieldsSize(c)
            ELSE LET rest == g[n - 1][LoadClassFile(classes[c].super)]
                 IN IF rest = LOST THEN LOST ELSE FieldsSize(c) + rest]]

LEMMA SuperIndex ==
  ASSUME TableOK, NEW k \in DOMAIN classes, classes[k].super # NoName
  PROVE  LoadClassFile(classes[k].super) \in LOST .. Len(classes)
<1>1. DOMAIN classes = 1 .. Len(classes) /\ Len(classes) \in Nat
  BY OwnType
<1>2. LoadClassFile(classes[k].super) \in DOMAIN classes \cup {NULL, LOST}
  BY SuperLoaded, OneSuper
<1> QED BY <1>1, <1>2 DEF NULL, LOST

LEMMA Sizes ==
  ASSUME TableOK, NEW class
  PROVE  \E g : IsSizes(g) /\ get_classfile_member_size(class) = g[Len(classes)][class]
<1> DEFINE N == Len(classes)
           I == LOST .. N
           D == [I -> Nat \cup {LOST}]
           F == [f \in D |-> [c \in I |-> SizeFrom(f, c)]]
           x == [c \in I |-> LOST]
<1>1. N \in Nat /\ DOMAIN classes = 1 .. N
  BY OwnType
<1>2. F \in [D -> D]
  <2> SUFFICES ASSUME NEW f \in D, NEW c \in I
               PROVE  SizeFrom(f, c) \in Nat \cup {LOST}
    OBVIOUS
  <2> SUFFICES ASSUME c \notin {LOST, NULL}
               PROVE  SizeFrom(f, c) \in Nat \cup {LOST}
    BY DEF SizeFrom
  <2>1. c \in DOMAIN classes
    BY <1>1 DEF LOST, NULL
  <2>2. FieldsSize(c) \in Nat
    BY <2>1, FieldsSizeType
  <2>3. classes[c].super # NoName => f[LoadClassFile(classes[c].super)] \in Nat \cup {LOST}
    <3>1. classes[c].super # NoName => LoadClassFile(classes[c].super) \in I
      BY <2>1, SuperIndex
    <3> HIDE DEF I
    <3> QED BY <3>1
  <2> HIDE DEF D, I
  <2> QED BY <2>2, <2>3 DEF SizeFrom
<1>3. PICK g : IsRun(g, D, F, x, N)
  <2>1. x \in D
    OBVIOUS
  <2> HIDE DEF D, F, x, N
  <2> QED BY <1>1, <1>2, <2>1, Loops
<1>4. ASSUME NEW n \in 0 .. N
      PROVE  g[n] = [c \in I |->
                       IF n = 0 \/ c \in {LOST, NULL} THEN LOST
                       ELSE IF ~ classes[c].read THEN LOST
                       ELSE IF classes[c].super = NoName THEN FieldsSize(c)
                       ELSE LET rest == g[n - 1][LoadClassFile(classes[c].super)]
                            IN IF rest = LOST THEN LOST ELSE FieldsSize(c) + rest]
  <2>1. n = 0 => g[n] = x
    BY <1>3 DEF IsRun
  <2>2. n # 0 => g[n - 1] \in D /\ g[n] = F[g[n - 1]]
    <3> SUFFICES ASSUME n # 0 PROVE g[n - 1] \in D /\ g[n] = F[g[n - 1]]
      OBVIOUS
    <3> HIDE DEF D, F, x, N
    <3>1. n - 1 \in 0 .. N - 1 /\ n - 1 \in 0 .. N /\ (n - 1) + 1 = n
      BY <1>1
    <3> QED BY <1>3, <3>1 DEF IsRun
  <2>3. n # 0 => g[n] = [c \in I |-> SizeFrom(g[n - 1], c)]
    <3> HIDE DEF D
    <3> QED BY <2>2
  <2> HIDE DEF D, F, I, N
  <2> QED BY <2>1, <2>3 DEF SizeFrom
<1>5. IsSizes(g)
  <2>1. g = [n \in 0 .. N |-> g[n]]
    BY <1>3 DEF IsRun
  <2> QED BY <1>4, <2>1, Zenon DEF IsSizes
<1> QED BY <1>5, Zenon DEF get_classfile_member_size, IsSizes

\* How deep the recursion goes decides what it finds: nothing at depth 0, and one
\* deeper the fields of a class with what it has found for the super class.
LEMMA SizeSteps ==
  ASSUME TableOK, NEW g, IsSizes(g), NEW c \in DOMAIN classes
  PROVE  /\ g[0][c] = LOST
         /\ \A n \in 0 .. Len(classes) - 1 :
              /\ ~ classes[c].read => g[n + 1][c] = LOST
              /\ classes[c].read /\ classes[c].super = NoName => g[n + 1][c] = FieldsSize(c)
              /\ classes[c].read /\ classes[c].super # NoName =>
                   IF Found(c)
                     THEN \E m : /\ Supers(c) = {m}
                                 /\ g[n + 1][c] = IF g[n][m] = LOST THEN LOST
                                                  ELSE FieldsSize(c) + g[n][m]
                     ELSE g[n + 1][c] = LOST
<1> DEFINE N == Len(classes)
           I == LOST .. N
<1>1. N \in Nat /\ DOMAIN classes = 1 .. N
  BY OwnType
<1>2. c \in I /\ c \notin {LOST, NULL} /\ LOST \in I /\ NULL \in I
  BY <1>1 DEF LOST, NULL
<1>3. ASSUME NEW n \in 0 .. N
      PROVE  /\ g[n][LOST] = LOST /\ g[n][NULL] = LOST
             /\ n = 0 => g[n][c] = LOST
             /\ n # 0 => g[n][c] = SizeFrom(g[n - 1], c)
  <2>1. g[n] = [k \in I |->
                  IF n = 0 \/ k \in {LOST, NULL} THEN LOST
                  ELSE IF ~ classes[k].read THEN LOST
                  ELSE IF classes[k].super = NoName THEN FieldsSize(k)
                  ELSE LET rest == g[n - 1][LoadClassFile(classes[k].super)]
                       IN IF rest = LOST THEN LOST ELSE FieldsSize(k) + rest]
    BY DEF IsSizes
  <2> HIDE DEF I
  <2> QED BY <1>2, <2>1 DEF SizeFrom
<1>4. g[0][c] = LOST
  BY <1>1, <1>3
<1>5. ASSUME NEW n \in 0 .. N - 1
      PROVE  /\ ~ classes[c].read => g[n + 1][c] = LOST
             /\ classes[c].read /\ classes[c].super = NoName => g[n + 1][c] = FieldsSize(c)
             /\ classes[c].read /\ classes[c].super # NoName =>
                  IF Found(c)
                    THEN \E m : /\ Supers(c) = {m}
                                /\ g[n + 1][c] = IF g[n][m] = LOST THEN LOST
                                                 ELSE FieldsSize(c) + g[n][m]
                    ELSE g[n + 1][c] = LOST
  <2>1. n \in 0 .. N /\ n + 1 \in 0 .. N /\ n + 1 # 0 /\ (n + 1) - 1 = n
    BY <1>1
  <2>2. g[n + 1][c] = SizeFrom(g[n], c) /\ g[n][LOST] = LOST /\ g[n][NULL] = LOST
    BY <1>3, <2>1
  <2>3. CASE ~ classes[c].read \/ classes[c].super = NoName
    BY <1>2, <2>2, <2>3 DEF SizeFrom
  <2>4. CASE classes[c].read /\ classes[c].super # NoName
    <3> DEFINE m == LoadClassFile(classes[c].super)
    <3>1. g[n + 1][c] = IF g[n][m] = LOST THEN LOST ELSE FieldsSize(c) + g[n][m]
      BY <1>2, <2>2, <2>4 DEF SizeFrom
    <3>2. IF Found(c) THEN Supers(c) = {m} ELSE m \in {NULL, LOST}
      BY <2>4, SuperLoaded
    <3> HIDE DEF m
    <3> QED BY <2>2, <2>4, <3>1, <3>2
  <2> QED BY <2>3, <2>4
<1> QED BY <1>4, <1>5

\* What is found for a class is what its lineage takes.
LEMMA SizesRight ==
  ASSUME TableOK, NEW g, IsSizes(g)
  PROVE  \A n \in 0 .. Len(classes) : \A c \in DOMAIN classes :
           g[n][c] = LOST \/ (Complete(c) /\ g[n][c] = FieldsOf(Lineage(c)))
<1> DEFINE N == Len(classes)
           P == {n \in 0 .. N : \A c \in DOMAIN classes :
                   g[n][c] = LOST \/ (Complete(c) /\ g[n][c] = FieldsOf(Lineage(c)))}
<1>1. N \in Nat
  BY OwnType
<1>2. 0 \in P
  BY <1>1, SizeSteps
<1>3. ASSUME NEW n \in 0 .. N, n \in P, n # N
      PROVE  n + 1 \in P
  <2>1. n \in 0 .. N - 1 /\ n + 1 \in 0 .. N
    BY <1>1, <1>3
  <2>2. ASSUME NEW c \in DOMAIN classes, g[n + 1][c] # LOST
        PROVE  Complete(c) /\ g[n + 1][c] = FieldsOf(Lineage(c))
    <3>1. classes[c].read
      BY <2>1, <2>2, SizeSteps
    <3>2. CASE classes[c].super = NoName
      <4>1. g[n + 1][c] = FieldsSize(c)
        BY <2>1, <3>1, <3>2, SizeSteps
      <4>2. Lineage(c) = {c} /\ Complete(c)
        BY <3>1, <3>2, CompleteRoot
      <4>3. FieldsOf({c}) = FieldsSize(c)
        BY OnlyOne
      <4> QED BY <4>1, <4>2, <4>3
    <3>3. CASE classes[c].super # NoName
      <4>1. Found(c)
        BY <2>1, <2>2, <3>1, <3>3, SizeSteps
      <4>2. PICK m : /\ Supers(c) = {m}
                     /\ g[n + 1][c] = IF g[n][m] = LOST THEN LOST ELSE FieldsSize(c) + g[n][m]
        BY <2>1, <3>1, <3>3, <4>1, SizeSteps
      <4>3. /\ m \in DOMAIN classes /\ Lineage(c) = Lineage(m) \cup {c}
            /\ Complete(c) <=> classes[c].read /\ Found(c) /\ Complete(m)
            /\ Complete(m) => c \notin Lineage(m)
        BY <3>3, <4>2, CompleteHeir
      <4>4. g[n][m] # LOST /\ g[n + 1][c] = FieldsSize(c) + g[n][m]
        BY <2>2, <4>2
      <4>5. Complete(m) /\ g[n][m] = FieldsOf(Lineage(m))
        BY <1>3, <4>3, <4>4
      <4>6. FieldsOf(Lineage(c)) = FieldsOf(Lineage(m)) + FieldsSize(c)
        BY <4>3, <4>5, OneMore
      <4>7. FieldsOf(Lineage(m)) \in Nat /\ FieldsSize(c) \in Nat
        BY FieldsOfType, FieldsSizeType
      <4> QED BY <3>1, <4>1, <4>3, <4>4, <4>5, <4>6, <4>7
    <3> QED BY <3>2, <3>3
  <2> QED BY <2>1, <2>2
<1>4. \A n \in 0 .. N : n \in P
  <2> HIDE DEF P, N
  <2> QED BY <1>1, <1>2, <1>3, UpTo
<1> QED BY <1>4

\* Enough depth finds the size of every complete class.
LEMMA SizesFound ==
  ASSUME TableOK, NEW g, IsSizes(g)
  PROVE  \A n \in 0 .. Len(classes) : \A c \in DOMAIN classes :
           Complete(c) /\ Cardinality(Lineage(c)) <= n => g[n][c] # LOST
<1> DEFINE N == Len(classes)
           P == {n \in 0 .. N : \A c \in DOMAIN classes :
                   Complete(c) /\ Cardinality(Lineage(c)) <= n => g[n][c] # LOST}
<1>1. N \in Nat
  BY OwnType
<1>2. \A c \in DOMAIN classes : /\ IsFiniteSet(Lineage(c)) /\ Cardinality(Lineage(c)) \in Nat \ {0}
                                 /\ Cardinality(Lineage(c)) <= N
  BY LineageFinite
<1>3. 0 \in P
  <2>1. \A c \in DOMAIN classes : ~ (Cardinality(Lineage(c)) <= 0)
    BY <1>2
  <2> QED BY <1>1, <2>1
<1>4. ASSUME NEW n \in 0 .. N, n \in P, n # N
      PROVE  n + 1 \in P
  <2>1. n \in 0 .. N - 1 /\ n + 1 \in 0 .. N
    BY <1>1, <1>4
  <2>2. ASSUME NEW c \in DOMAIN classes, Complete(c), Cardinality(Lineage(c)) <= n + 1
        PROVE  g[n + 1][c] # LOST
    <3>1. classes[c].read /\ Found(c) /\ FieldsSize(c) \in Nat
      BY <2>2, LineageIsLeast, FieldsSizeType DEF Complete
    <3>2. CASE classes[c].super = NoName
      <4>1. g[n + 1][c] = FieldsSize(c)
        BY <2>1, <3>1, <3>2, SizeSteps
      <4> QED BY <3>1, <4>1 DEF LOST
    <3>3. CASE classes[c].super # NoName
      <4>1. PICK m : /\ Supers(c) = {m}
                     /\ g[n + 1][c] = IF g[n][m] = LOST THEN LOST ELSE FieldsSize(c) + g[n][m]
        BY <2>1, <3>1, <3>3, SizeSteps
      <4>2. /\ m \in DOMAIN classes /\ Lineage(c) = Lineage(m) \cup {c}
            /\ Complete(m) /\ c \notin Lineage(m)
        BY <2>2, <3>3, <4>1, CompleteHeir
      <4>3. Cardinality(Lineage(c)) = Cardinality(Lineage(m)) + 1
        BY <1>2, <4>2, FS_AddElement
      <4>4. Cardinality(Lineage(m)) <= n
        BY <1>2, <2>2, <4>2, <4>3
      <4>5. g[n][m] # LOST
        BY <1>4, <4>2, <4>4
      <4>6. g[n][m] = FieldsOf(Lineage(m))
        BY <4>2, <4>5, SizesRight
      <4>7. g[n + 1][c] \in Nat
        BY <3>1, <4>1, <4>5, <4>6, FieldsOfType
      <4> QED BY <4>7 DEF LOST
    <3> QED BY <3>2, <3>3
  <2> QED BY <2>1, <2>2
<1>5. \A n \in 0 .. N : n \in P
  <2> HIDE DEF P, N
  <2> QED BY <1>1, <1>3, <1>4, UpTo
<1> QED BY <1>5

LEMMA TableExact == TableOK => SizeExact
<1> SUFFICES ASSUME TableOK, NEW c \in DOMAIN classes
             PROVE  get_classfile_member_size(c) =
                      IF Complete(c) THEN FieldsOf(Lineage(c)) ELSE LOST
  BY DEF SizeExact
<1> DEFINE N == Len(classes)
<1>1. PICK g : IsSizes(g) /\ get_classfile_member_size(c) = g[N][c]
  BY Sizes
<1>2. N \in 0 .. N /\ Cardinality(Lineage(c)) <= N
  BY OwnType, LineageFinite
<1>3. g[N][c] = LOST \/ (Complete(c) /\ g[N][c] = FieldsOf(Lineage(c)))
  BY <1>1, <1>2, SizesRight
<1>4. Complete(c) => g[N][c] # LOST
  BY <1>1, <1>2, SizesFound
<1> QED BY <1>1, <1>3, <1>4

\* Whatever class files a VM has, and whatever their super classes, the size of an
\* object is that of the fields of all classes it inherits from, and none is found
\* exactly if one of them is missing, is its own ancestor or comes behind a
\* rejected class file (get_classfile_member_size, FieldsSize, LoadClassFile).
THEOREM SizeIsExact == ObjectsSpec => []SizeExact
<1>1. ClassesKept => SizeExact
  BY ObjectsAssumption, TableExact DEF ClassesKept, TableOK
<1> QED BY <1>1, ClassesInvariant, PTL
=============================================================================
