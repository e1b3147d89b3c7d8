----------------------------- MODULE HeapProofs -----------------------------
(***************************************************************************)
(* Theorems about Heap, for every heap size, header size and set of        *)
(* requests: its types; that under a careful client it stays sound, every  *)
(* call comes back and the heap implements BlockStore; what Malloc finds   *)
(* in a sound heap, what an emptied heap looks like, and exactly which     *)
(* calls damage a sound heap.                                              *)
(***************************************************************************)
EXTENDS Heap, LoopProofs, FiniteSetTheorems

-----------------------------------------------------------------------------
(***************************************************************************)
(* Types.  The list operations keep the set of headers, even on lists that *)
(* are damaged.                                                            *)
(***************************************************************************)
SizeT == 0 .. SizeMod - 1

\* % SizeMod yields a size_t.
LEMMA ModSize == \A n \in Int : n % SizeMod \in SizeT
  BY HeapAssumption, SMT DEF SizeT

\* RegionAppend changes next fields of headers only.
LEMMA AppendType ==
  ASSUME NEW D, D \subseteq Nat, NEW nx \in [D -> Nat], NEW head \in Nat, NEW e \in D,
         NEW r \in RegionAppend(head, nx, e)
  PROVE  r.head \in Nat /\ r.next \in [D -> Nat]
  BY DEF RegionAppend, WalkEnd, Visited

\* So does RegionRemove.
LEMMA RemoveType ==
  ASSUME NEW D, D \subseteq Nat, NEW nx \in [D -> Nat], NEW head \in Nat, NEW e \in D,
         NEW r \in RegionRemove(head, nx, e)
  PROVE  r.head \in Nat /\ r.next \in [D -> Nat]
  BY DEF RegionRemove, WalkEnd, Visited

\* A merge removes headers and leaves typed fields in the others.
LEMMA MergeType ==
  ASSUME NEW D, D \subseteq Nat, NEW nx \in [D -> Nat], NEW sz \in [D -> SizeT],
         NEW region \in Nat, NEW r \in AttemptMergeWithAdjacent(region, sz, nx)
  PROVE  /\ DOMAIN r.next \subseteq D
         /\ r.size \in [DOMAIN r.next -> SizeT] /\ r.next \in [DOMAIN r.next -> Nat]
<1> DEFINE adjacent == {b \in DOMAIN nx : /\ nx[b] # 0
                                          /\ (b + HeaderSize + sz[b]) % SizeMod = nx[b]}
           absorbed == Visited(nx, region, adjacent) \ {region}
           length == [b \in absorbed |-> (HeaderSize + sz[b]) % SizeMod]
           kept == DOMAIN nx \ UNION {HeadersIn(DOMAIN nx, b, b + length[b]) : b \in absorbed}
<1>1. PICK last \in WalkEnd(nx, region, adjacent) :
        r = [size |-> [b \in kept |-> IF b = region THEN (last + sz[last] - region) % SizeMod
                                                    ELSE sz[b]],
             next |-> [b \in kept |-> IF b = region THEN nx[last] ELSE nx[b]],
             cleared |-> UNION {b .. b + length[b] - 1 : b \in absorbed}]
  BY DEF AttemptMergeWithAdjacent
<1>2. last \in D
  BY DEF WalkEnd, Visited
<1>3. kept \in SUBSET D
  OBVIOUS
<1>4. (last + sz[last] - region) % SizeMod \in SizeT
  BY <1>2, ModSize DEF SizeT
<1> HIDE DEF kept, adjacent, length, absorbed
<1>5. r.size \in [kept -> SizeT] /\ r.next \in [kept -> Nat]
  BY <1>1, <1>2, <1>3, <1>4
<1> QED BY <1>3, <1>5

\* What every outcome of Malloc and Free looks like.
OutcomeType(o) ==
  /\ o.written \subseteq Nat
  /\ o.free_head \in Nat /\ o.used_head \in Nat
  /\ \E K \in SUBSET Nat :
       /\ o.meta \in [K -> SUBSET {HEAP_MEMORY_USED}]
       /\ o.size \in [K -> SizeT]
       /\ o.next \in [K -> Nat]

\* The lists and headers after the three list operations of a Malloc.
LEMMA RelinkIs ==
  ASSUME NEW reg, NEW rest, NEW mt, NEW sz, NEW nx, NEW wr,
         NEW o \in Relink(reg, rest, mt, sz, nx, wr)
  PROVE  \E u \in RegionAppend(used_head, nx, reg) :
           \E f \in RegionRemove(free_head, u.next, reg) :
             \E g \in RegionAppend(f.head, f.next, rest) :
               o = [free_head |-> g.head, used_head |-> u.head,
                    meta |-> mt, size |-> sz, next |-> g.next, written |-> wr]
  BY DEF Relink

\* The splitting of any region, also in a damaged heap.
LEMMA CarveType ==
  ASSUME TypeOK, NEW reg \in Regions, NEW s \in Requests, NEW o \in Carve(reg, s)
  PROVE  OutcomeType(o)
<1> DEFINE rest  == reg + HeaderSize + s
           restSize == (size[reg] - s - HeaderSize) % SizeMod
           kept  == (Regions \ HeadersIn(Regions, rest, rest + HeaderSize)) \cup {rest}
           meta1 == [a \in kept |-> IF a = rest THEN {}
                                    ELSE IF a = reg THEN meta[a] \cup {HEAP_MEMORY_USED}
                                    ELSE meta[a]]
           size1 == [a \in kept |-> IF a = rest THEN restSize
                                    ELSE IF a = reg THEN s
                                    ELSE size[a]]
           next1 == [a \in kept |-> IF a \in Regions THEN next[a] ELSE 0]
           hit == HeadersIn(Regions, rest, rest + HeaderSize)
           wr == written \cup (reg + HeaderSize .. rest - 1)
                   \cup UNION {b .. b + HeaderSize - 1 : b \in hit}
<1>1. /\ Regions \subseteq Nat /\ s \in SizeT /\ HeaderSize \in Nat
      /\ size[reg] \in Int /\ free_head \in Nat /\ used_head \in Nat
  BY HeapAssumption DEF TypeOK, SizeT
<1>2. rest \in Nat /\ restSize \in SizeT
  <2>1. reg + HeaderSize + s \in Nat /\ size[reg] - s - HeaderSize \in Int
    BY <1>1 DEF SizeT
  <2> QED BY <2>1, ModSize
<1>3. o \in Relink(reg, rest, meta1, size1, next1, wr)
  BY DEF Carve, Split
<1>4. kept \subseteq Nat /\ rest \in kept /\ reg \in kept
  <2>1. reg \notin HeadersIn(Regions, rest, rest + HeaderSize)
    <3>1. ~ (rest < reg + HeaderSize)
      BY <1>1 DEF SizeT
    <3> QED BY <3>1 DEF HeadersIn
  <2> QED BY <1>1, <1>2, <2>1
<1>5. next1 \in [kept -> Nat]
  <2> HIDE DEF kept
  <2> QED BY <1>4 DEF TypeOK
<1>6. meta1 \in [kept -> SUBSET {HEAP_MEMORY_USED}] /\ size1 \in [kept -> SizeT]
  <2>1. \A a \in kept : a = rest \/ a \in Regions
    OBVIOUS
  <2> HIDE DEF kept
  <2> QED BY <1>1, <1>2, <1>4, <2>1 DEF TypeOK, SizeT
<1>6a. wr \subseteq Nat
  <2>1. \A b \in hit : b .. b + HeaderSize - 1 \subseteq Nat
    BY <1>1 DEF HeadersIn
  <2>2. written \subseteq Nat /\ reg + HeaderSize .. rest - 1 \subseteq Nat
    BY <1>1, <1>2 DEF TypeOK
  <2> HIDE DEF hit
  <2> QED BY <2>1, <2>2
<1> HIDE DEF kept, next1, meta1, size1, rest, wr, hit
<1>7. PICK u \in RegionAppend(used_head, next1, reg) :
        \E f \in RegionRemove(free_head, u.next, reg) :
          \E g \in RegionAppend(f.head, f.next, rest) :
            o = [free_head |-> g.head, used_head |-> u.head,
                 meta |-> meta1, size |-> size1, next |-> g.next, written |-> wr]
  BY <1>3, RelinkIs
<1>8. u.head \in Nat /\ u.next \in [kept -> Nat]
  BY <1>1, <1>4, <1>5, AppendType
<1>9. PICK f \in RegionRemove(free_head, u.next, reg) :
        \E g \in RegionAppend(f.head, f.next, rest) :
          o = [free_head |-> g.head, used_head |-> u.head,
               meta |-> meta1, size |-> size1, next |-> g.next, written |-> wr]
  BY <1>7
<1>10. f.head \in Nat /\ f.next \in [kept -> Nat]
  BY <1>1, <1>4, <1>8, RemoveType
<1>11. PICK g \in RegionAppend(f.head, f.next, rest) :
         o = [free_head |-> g.head, used_head |-> u.head,
              meta |-> meta1, size |-> size1, next |-> g.next, written |-> wr]
  BY <1>9
<1>12. g.head \in Nat /\ g.next \in [kept -> Nat]
  BY <1>4, <1>10, AppendType
<1> QED BY <1>4, <1>6, <1>6a, <1>8, <1>11, <1>12 DEF OutcomeType

\* The lists and headers after the three list operations of a Free.
LEMMA ReleaseIs ==
  ASSUME NEW a, NEW mt, NEW sz, NEW nx, NEW o \in Release(a, mt, sz, nx)
  PROVE  \E u \in RegionRemove(used_head, nx, a) :
           \E f \in RegionAppend(free_head, u.next, a) :
             \E m \in AttemptMergeWithAdjacent(f.head, sz, f.next) :
               o = [free_head |-> f.head, used_head |-> u.head,
                    meta |-> [b \in DOMAIN m.next |->
                                IF b = a THEN Unmark(mt[b]) ELSE mt[b]],
                    size |-> m.size, next |-> m.next, written |-> written \ m.cleared]
  BY DEF Release

\* The release of any region, also in a damaged heap or of one that is none,
\* whatever headers it reads.
LEMMA ReleaseType ==
  ASSUME TypeOK, NEW D \in SUBSET Nat, NEW a \in D,
         NEW mt \in [D -> SUBSET {HEAP_MEMORY_USED}], NEW sz \in [D -> SizeT],
         NEW nx \in [D -> Nat], NEW o \in Release(a, mt, sz, nx)
  PROVE  OutcomeType(o)
<1>1. free_head \in Nat /\ used_head \in Nat
  BY DEF TypeOK
<1>2. PICK u \in RegionRemove(used_head, nx, a) :
        \E f \in RegionAppend(free_head, u.next, a) :
          \E m \in AttemptMergeWithAdjacent(f.head, sz, f.next) :
            o = [free_head |-> f.head, used_head |-> u.head,
                 meta |-> [b \in DOMAIN m.next |->
                             IF b = a THEN Unmark(mt[b]) ELSE mt[b]],
                 size |-> m.size, next |-> m.next, written |-> written \ m.cleared]
  BY ReleaseIs
<1>3. u.head \in Nat /\ u.next \in [D -> Nat]
  BY <1>1, RemoveType
<1>4. PICK f \in RegionAppend(free_head, u.next, a) :
        \E m \in AttemptMergeWithAdjacent(f.head, sz, f.next) :
          o = [free_head |-> f.head, used_head |-> u.head,
               meta |-> [b \in DOMAIN m.next |->
                           IF b = a THEN Unmark(mt[b]) ELSE mt[b]],
               size |-> m.size, next |-> m.next, written |-> written \ m.cleared]
  BY <1>2
<1>5. f.head \in Nat /\ f.next \in [D -> Nat]
  BY <1>1, <1>3, AppendType
<1>6. PICK m \in AttemptMergeWithAdjacent(f.head, sz, f.next) :
        o = [free_head |-> f.head, used_head |-> u.head,
             meta |-> [b \in DOMAIN m.next |->
                         IF b = a THEN Unmark(mt[b]) ELSE mt[b]],
             size |-> m.size, next |-> m.next, written |-> written \ m.cleared]
  BY <1>4
<1>7. /\ DOMAIN m.next \subseteq D
      /\ m.size \in [DOMAIN m.next -> SizeT] /\ m.next \in [DOMAIN m.next -> Nat]
  BY <1>5, MergeType
<1>8. o.meta \in [DOMAIN m.next -> SUBSET {HEAP_MEMORY_USED}]
  BY <1>6, <1>7 DEF Unmark
<1>9. o.written \subseteq Nat
  BY <1>6 DEF TypeOK
<1> QED BY <1>3, <1>5, <1>6, <1>7, <1>8, <1>9 DEF OutcomeType

\* A call that comes back with typed outcomes keeps the types.
LEMMA ReturnType ==
  ASSUME TypeOK, NEW outcomes, \A o \in outcomes : OutcomeType(o),
         NEW blocks, DOMAIN blocks \subseteq Nat, blocks \in [DOMAIN blocks -> Requests],
         NEW old \in SUBSET Nat, Return(outcomes, blocks, old)
  PROVE  TypeOK'
<1>1. CASE outcomes = {}
  BY <1>1 DEF Return, Lose, TypeOK, lists, Regions
<1>2. CASE outcomes # {}
  <2>1. PICK o \in outcomes :
          /\ free_head' = o.free_head /\ used_head' = o.used_head
          /\ meta' = o.meta /\ size' = o.size /\ next' = o.next
          /\ written' = o.written
    BY <1>2 DEF Return
  <2>2. held' = blocks /\ freed' = old /\ memory' = memory /\ status' = status
    BY <1>2 DEF Return
  <2>3. PICK K \in SUBSET Nat :
          /\ o.meta \in [K -> SUBSET {HEAP_MEMORY_USED}]
          /\ o.size \in [K -> SizeT]
          /\ o.next \in [K -> Nat]
    BY DEF OutcomeType
  <2>4. o.free_head \in Nat /\ o.used_head \in Nat /\ o.written \subseteq Nat
    BY DEF OutcomeType
  <2> QED BY <2>1, <2>2, <2>3, <2>4 DEF TypeOK, Regions, SizeT
<1> QED BY <1>1, <1>2

\* A search that comes back finds a header or nothing.
LEMMA FindFitType ==
  ASSUME NEW s, NEW reg \in RegionFindFit(s), reg # 0
  PROVE  reg \in Regions
  BY DEF RegionFindFit, Search, WalkEnd, Visited, Regions

\* A program that has not made a heap yet (Init) has nothing to mistype.
LEMMA TypeInit == Init => TypeOK
  BY DEF Init, TypeOK, EmptyMap, Regions

\* No call mistypes the heap, whatever state an earlier one left it in: one step
\* for each call of Next.
LEMMA TypeNext ==
  ASSUME TypeOK, [Next]_vars
  PROVE  TypeOK'
<1>1. ASSUME Lose PROVE TypeOK'
  BY <1>1 DEF Lose, TypeOK, lists, Regions
<1>2. ASSUME UNCHANGED vars PROVE TypeOK'
  BY <1>2 DEF vars, lists, TypeOK, Regions
<1>3. ASSUME NoHeap, memory' \in {"null", "live", "freed"}, UNCHANGED status PROVE TypeOK'
  BY <1>3 DEF NoHeap, TypeOK, EmptyMap, Regions
<1>4. CASE CreateVirtualMachine
  BY <1>4 DEF CreateVirtualMachine, TypeOK, lists, Regions
<1>5. CASE InitializeHeap
  <2>1. CASE memory' = "null" /\ NoHeap
    BY <1>3, <1>5, <2>1 DEF InitializeHeap
  <2>2. CASE /\ memory' = "live"
             /\ free_head' = AreaSize /\ used_head' = 0
             /\ meta' = [a \in {AreaSize} |-> {}]
             /\ size' = [a \in {AreaSize} |-> InitialSize - HeaderSize]
             /\ next' = [a \in {AreaSize} |-> 0]
             /\ written' = {}
             /\ held' = EmptyMap /\ freed' = {}
    <3>1. InitialSize - HeaderSize \in SizeT /\ AreaSize \in Nat
      BY HeapAssumption DEF SizeT
    <3> QED BY <1>5, <2>2, <3>1 DEF InitializeHeap, TypeOK, EmptyMap, Regions, SizeT
  <2> QED BY <1>5, <2>1, <2>2 DEF InitializeHeap
<1>6. CASE DestroyVirtualMachine
  BY <1>1, <1>2, <1>3, <1>6 DEF DestroyVirtualMachine
<1>7. ASSUME NEW s \in Requests, Malloc(s) PROVE TypeOK'
  <2>1. ASSUME NEW reg \in RegionFindFit(s) \ {0}, HandOut(reg, s)
        PROVE  TypeOK'
    <3> DEFINE blocks == [a \in DOMAIN held \cup {reg} |-> IF a = reg THEN s ELSE held[a]]
               old == freed \ (reg .. reg + HeaderSize + s + HeaderSize - 1)
    <3>1. reg \in Regions
      BY FindFitType
    <3>2. \A o \in Carve(reg, s) : OutcomeType(o)
      BY <3>1, CarveType
    <3>3. DOMAIN blocks \subseteq Nat /\ blocks \in [DOMAIN blocks -> Requests]
      BY <3>1 DEF TypeOK
    <3>4. old \in SUBSET Nat
      BY DEF TypeOK
    <3>5. Return(Carve(reg, s), blocks, old)
      BY <2>1 DEF HandOut
    <3> HIDE DEF blocks, old
    <3> QED BY <3>2, <3>3, <3>4, <3>5, ReturnType
  <2> QED BY <1>1, <1>2, <1>7, <2>1 DEF Malloc, Refuse
<1>8. ASSUME NEW a \in Addresses, Free(a) PROVE TypeOK'
  <2>0. a \in Nat
    BY HeapAssumption DEF Addresses, LastAddress, TiledEnd
  <2>1. /\ DOMAIN Without(a) \subseteq Nat /\ Without(a) \in [DOMAIN Without(a) -> Requests]
        /\ FreedWith(a) \in SUBSET Nat
    BY DEF TypeOK, Without, FreedWith
  <2>2. ASSUME a \in Used, Return(Release(a, meta, size, next), Without(a), FreedWith(a))
        PROVE  TypeOK'
    <3>1. \A o \in Release(a, meta, size, next) : OutcomeType(o)
      <4>1. /\ a \in Regions /\ Regions \in SUBSET Nat
            /\ meta \in [Regions -> SUBSET {HEAP_MEMORY_USED}]
            /\ size \in [Regions -> SizeT] /\ next \in [Regions -> Nat]
        BY <2>2 DEF TypeOK, Used, SizeT
      <4> QED BY <4>1, ReleaseType
    <3> QED BY <2>1, <2>2, <3>1, ReturnType
  <2>3. ASSUME FreeBytes(a) PROVE TypeOK'
    <3> DEFINE D == Regions \cup {a}
               With(map, v) == [b \in D |-> IF b = a THEN v ELSE map[b]]
    <3>1. CASE /\ status' \in {"lost", "overwritten"}
               /\ UNCHANGED <<memory, lists, held, freed>>
      BY <3>1 DEF TypeOK, lists, Regions
    <3>2. ASSUME NEW sz \in Requests,
                 Return(Release(a, With(meta, {HEAP_MEMORY_USED}), With(size, sz), With(next, 0)),
                        Without(a), FreedWith(a))
          PROVE  TypeOK'
      <4>1. D \in SUBSET Nat /\ a \in D
        BY <2>0 DEF TypeOK
      <4>2. /\ With(meta, {HEAP_MEMORY_USED}) \in [D -> SUBSET {HEAP_MEMORY_USED}]
            /\ With(size, sz) \in [D -> SizeT] /\ With(next, 0) \in [D -> Nat]
        <5>1. sz \in SizeT
          BY HeapAssumption DEF SizeT
        <5> QED BY <5>1 DEF TypeOK, SizeT
      <4> DEFINE outcomes == Release(a, With(meta, {HEAP_MEMORY_USED}), With(size, sz), With(next, 0))
      <4>3. \A o \in outcomes : OutcomeType(o)
        <5> HIDE DEF D, With
        <5> QED BY <4>1, <4>2, ReleaseType
      <4>4. Return(outcomes, Without(a), FreedWith(a))
        BY <3>2
      <4> HIDE DEF outcomes
      <4> QED BY <2>1, <4>3, <4>4, ReturnType
    <3>3. \/ /\ status' \in {"lost", "overwritten"}
             /\ UNCHANGED <<memory, lists, held, freed>>
          \/ \E sz \in Requests :
               Return(Release(a, With(meta, {HEAP_MEMORY_USED}), With(size, sz), With(next, 0)),
                      Without(a), FreedWith(a))
      BY <2>3 DEF FreeBytes
    <3> HIDE DEF With
    <3> QED BY <3>1, <3>2, <3>3
  <2> QED BY <1>1, <1>2, <1>8, <2>2, <2>3 DEF Free
<1> QED BY <1>2, <1>4, <1>5, <1>6, <1>7, <1>8 DEF Next, LifeCycle

\* The types hold with every client, whatever address it frees, and in damaged
\* heaps too.
THEOREM TypeCorrect == Spec => []TypeOK
<1>1. Init => TypeOK
  BY TypeInit
<1>2. TypeOK /\ [Next]_vars => TypeOK'
  BY TypeNext
<1> QED BY <1>1, <1>2, PTL DEF Spec

-----------------------------------------------------------------------------
(***************************************************************************)
(* Walks.  S is the set of nodes of a sorted list in the headers D.        *)
(***************************************************************************)

\* A set that holds the first node and is closed under the step holds every
\* node that a walk visits.
LEMMA VisitedIn ==
  ASSUME NEW nx, NEW from, NEW onward, NEW X \in SUBSET DOMAIN nx, from \in X,
         \A b \in X \cap onward : nx[b] \in DOMAIN nx => nx[b] \in X
  PROVE  Visited(nx, from, onward) \subseteq X
  BY DEF Visited

\* The visited nodes are such a set.
LEMMA VisitedClosed ==
  ASSUME NEW nx, NEW from \in DOMAIN nx, NEW onward
  PROVE  /\ from \in Visited(nx, from, onward)
         /\ \A b \in Visited(nx, from, onward) \cap onward :
              nx[b] \in DOMAIN nx => nx[b] \in Visited(nx, from, onward)
  BY DEF Visited

\* A walk along a list stays in the list.
LEMMA VisitedInList ==
  ASSUME NEW nx, NEW S \in SUBSET DOMAIN nx, NEW head, S # {}, ListOf(head, nx, S), NEW onward,
         \A b \in onward : nx[b] # 0
  PROVE  Visited(nx, head, onward) \subseteq S /\ head \in S
<1>1. \A b \in S \cap onward : nx[b] \in S
  BY DEF ListOf
<1>2. head \in S
  BY DEF ListOf
<1> QED BY <1>1, <1>2, VisitedIn

\* A walk that goes on only where there is a next node, along a sorted list with
\* a bound, has an end.
LEMMA WalkEnds ==
  ASSUME NEW nx, DOMAIN nx \subseteq Nat, NEW S \in SUBSET DOMAIN nx, S # {}, NEW head,
         ListOf(head, nx, S), NEW onward, \A b \in onward : nx[b] # 0,
         NEW M \in Nat, \A a \in S : a <= M
  PROVE  WalkEnd(nx, head, onward) # {}
<1> DEFINE V == Visited(nx, head, onward)
<1>1. V \subseteq S /\ head \in S /\ head \in V
  BY VisitedInList, VisitedClosed
<1>2. PICK m \in V : \A a \in V : a <= m
  <2>1. V \in SUBSET Nat /\ V # {} /\ \A a \in V : a <= M
    BY <1>1
  <2> HIDE DEF V
  <2> QED BY <2>1, LargestBelow
<1>3. m \notin onward
  <2> SUFFICES ASSUME m \in onward PROVE FALSE
    OBVIOUS
  <2>1. nx[m] \in S /\ m < nx[m]
    BY <1>1 DEF ListOf
  <2>2. nx[m] \in V
    BY <1>1, <2>1, VisitedClosed
  <2> QED BY <1>1, <1>2, <2>1, <2>2
<1> QED BY <1>1, <1>3 DEF WalkEnd

-----------------------------------------------------------------------------
(***************************************************************************)
(* The list operations on sorted lists.                                    *)
(***************************************************************************)

\* What a list is depends on the next fields of its own nodes only.
LEMMA ListFrame ==
  ASSUME NEW head, NEW S, NEW nx, NEW nx2, ListOf(head, nx, S), \A a \in S : nx2[a] = nx[a]
  PROVE  ListOf(head, nx2, S)
  BY DEF ListOf

\* A list operation on the headers D has made r a sorted list of T, and touched
\* the next field of no other header.
Relinked(r, nx, D, T) ==
  /\ ListOf(r.head, r.next, T)
  /\ r.next \in [D -> Nat]
  /\ \A a \in D \ T : r.next[a] = nx[a]

\* RegionAppend inserts e where it belongs and touches no node of other lists.
LEMMA AppendSorted ==
  ASSUME NEW D, D \subseteq Nat \ {0}, NEW nx \in [D -> Nat], NEW S \in SUBSET D, NEW head,
         ListOf(head, nx, S), NEW e \in D \ S, NEW r \in RegionAppend(head, nx, e)
  PROVE  Relinked(r, nx, D, S \cup {e})
<1>1. CASE head = 0
  <2>1. S = {} /\ r = [head |-> e, next |-> [nx EXCEPT ![e] = 0]]
    BY <1>1 DEF ListOf, RegionAppend
  <2> QED BY <2>1 DEF ListOf, Relinked
<1>2. CASE head # 0 /\ e < head
  <2>1. head \in S /\ \A a \in S : head <= a
    BY <1>2 DEF ListOf
  <2>2. r = [head |-> e, next |-> [nx EXCEPT ![e] = head]]
    BY <1>2 DEF RegionAppend
  <2>3. \A a \in S : r.next[a] = nx[a] /\ e < a
    BY <1>2, <2>1, <2>2
  <2>4. r.next[e] = head /\ r.head = e
    BY <2>2
  <2>5. r.next \in [D -> Nat] /\ \A a \in D \ (S \cup {e}) : r.next[a] = nx[a]
    BY <2>1, <2>2
  <2> QED BY <1>2, <2>1, <2>3, <2>4, <2>5 DEF ListOf, Relinked
<1>3. CASE head # 0 /\ ~ (e < head)
  <2> DEFINE W == {b \in DOMAIN nx : nx[b] # 0 /\ nx[b] < e}
             X == {a \in S : a < e}
  <2>1. head \in S /\ (\A a \in S : head <= a) /\ head < e
    <3>1. head \in S /\ \A a \in S : head <= a
      BY <1>3 DEF ListOf
    <3> QED BY <1>3, <3>1
  <2>2. PICK c \in WalkEnd(nx, head, W) :
          r = [head |-> head, next |-> [nx EXCEPT ![e] = nx[c], ![c] = e]]
    BY <1>3 DEF RegionAppend
  <2>3. c \in X /\ c \notin W
    <3>1. head \in X
      BY <2>1
    <3>2. \A b \in X \cap W : nx[b] \in X
      BY DEF ListOf
    <3>3. Visited(nx, head, W) \subseteq X
      <4> HIDE DEF W
      <4> QED BY <3>1, <3>2, VisitedIn
    <3> QED BY <2>2, <3>3 DEF WalkEnd
  <2>4. c \in S /\ c < e /\ (nx[c] = 0 \/ e < nx[c])
    <3>1. nx[c] = 0 \/ ~ (nx[c] < e)
      BY <2>3
    <3>2. nx[c] # 0 => nx[c] \in S
      BY <2>3 DEF ListOf
    <3> QED BY <2>3, <3>1, <3>2
  <2> HIDE DEF W, X
  <2>5. /\ r.head = head /\ r.next[e] = nx[c] /\ r.next[c] = e
        /\ \A a \in D \ {c, e} : r.next[a] = nx[a]
        /\ r.next \in [D -> Nat]
    BY <2>2, <2>4
  <2>6. \A a \in S \cup {e} :
           \/ r.next[a] = 0 /\ \A b \in S \cup {e} : b <= a
           \/ /\ r.next[a] \in S \cup {e} /\ a < r.next[a]
              /\ \A b \in S \cup {e} : b <= a \/ r.next[a] <= b
    <3> SUFFICES ASSUME NEW a \in S \cup {e}
                 PROVE  \/ r.next[a] = 0 /\ \A b \in S \cup {e} : b <= a
                        \/ /\ r.next[a] \in S \cup {e} /\ a < r.next[a]
                           /\ \A b \in S \cup {e} : b <= a \/ r.next[a] <= b
      OBVIOUS
    <3>1. \/ nx[c] = 0 /\ \A b \in S : b <= c
          \/ nx[c] \in S /\ c < nx[c] /\ \A b \in S : b <= c \/ nx[c] <= b
      BY <2>4 DEF ListOf
    <3>2. CASE a = e
      BY <2>4, <2>5, <3>1, <3>2
    <3>3. CASE a = c
      BY <2>4, <2>5, <3>1, <3>3
    <3>4. CASE a # e /\ a # c
      <4>1. \/ nx[a] = 0 /\ \A b \in S : b <= a
            \/ nx[a] \in S /\ a < nx[a] /\ \A b \in S : b <= a \/ nx[a] <= b
        BY <3>4 DEF ListOf
      <4>2. r.next[a] = nx[a]
        BY <2>5, <3>4
      <4>3. e <= a \/ (nx[a] # 0 /\ nx[a] <= e)
        BY <2>4, <3>1, <3>4, <4>1
      <4> QED BY <2>4, <3>1, <3>4, <4>1, <4>2, <4>3
    <3> QED BY <3>2, <3>3, <3>4
  <2>7. ListOf(r.head, r.next, S \cup {e})
    <3>1. head # 0 /\ S \cup {e} # {}
      BY <2>1
    <3>2. head \in S \cup {e} /\ \A a \in S \cup {e} : head <= a
      BY <2>1
    <3>3. r.head = head
      BY <2>5
    <3> QED BY <2>6, <3>1, <3>2, <3>3 DEF ListOf
  <2>8. \A a \in D \ (S \cup {e}) : r.next[a] = nx[a]
    BY <2>4, <2>5
  <2> QED BY <2>5, <2>7, <2>8 DEF Relinked
<1> QED BY <1>1, <1>2, <1>3

\* An element behind the head leaves the head where it is.
LEMMA AppendHead ==
  ASSUME NEW nx, NEW head, head # 0, NEW e, ~ (e < head), NEW r \in RegionAppend(head, nx, e)
  PROVE  r.head = head
<1>1. PICK c \in WalkEnd(nx, head, {b \in DOMAIN nx : nx[b] # 0 /\ nx[b] < e}) :
        r = [head |-> head, next |-> [nx EXCEPT ![e] = nx[c], ![c] = e]]
  BY DEF RegionAppend
<1> QED BY <1>1

\* RegionRemove takes e out and touches no node of other lists.
LEMMA RemoveSorted ==
  ASSUME NEW D, D \subseteq Nat \ {0}, NEW nx \in [D -> Nat], NEW S \in SUBSET D, NEW head,
         ListOf(head, nx, S), NEW e \in S, NEW r \in RegionRemove(head, nx, e)
  PROVE  Relinked(r, nx, D, S \ {e})
<1>1. head \in S /\ head # 0 /\ \A a \in S : head <= a
  BY DEF ListOf
<1>2. CASE head = e
  <2>1. r = [head |-> nx[e], next |-> nx]
    BY <1>2 DEF RegionRemove
  <2>2. \/ nx[e] = 0 /\ \A b \in S : b <= e
        \/ nx[e] \in S /\ e < nx[e] /\ \A b \in S : b <= e \/ nx[e] <= b
    BY DEF ListOf
  <2>3. r.head = 0 <=> S \ {e} = {}
    BY <1>1, <1>2, <2>1, <2>2
  <2>4. S \ {e} # {} => r.head \in S \ {e} /\ \A a \in S \ {e} : r.head <= a
    <3>1. CASE nx[e] = 0
      <4>1. \A b \in S : b <= e /\ e <= b /\ b \in Nat /\ e \in Nat
        BY <1>1, <1>2, <2>2, <3>1
      <4>2. \A b \in S : b = e
        BY <4>1
      <4> QED BY <4>2
    <3>2. CASE nx[e] # 0
      <4>1. nx[e] \in S \ {e}
        BY <2>2, <3>2
      <4>2. \A b \in S \ {e} : ~ (b <= e)
        BY <1>1, <1>2
      <4> QED BY <2>1, <2>2, <3>2, <4>1, <4>2
    <3> QED BY <3>1, <3>2
  <2>5. \A a \in S \ {e} :
           \/ nx[a] = 0 /\ \A b \in S \ {e} : b <= a
           \/ /\ nx[a] \in S \ {e} /\ a < nx[a]
              /\ \A b \in S \ {e} : b <= a \/ nx[a] <= b
    BY <1>1, <1>2 DEF ListOf
  <2> QED BY <2>1, <2>3, <2>4, <2>5 DEF ListOf, Relinked
<1>3. CASE head # e
  <2> DEFINE W == {b \in DOMAIN nx : nx[b] \notin {0, e}}
             X == {a \in S : a < e}
  <2>1. PICK c \in WalkEnd(nx, head, W) :
          r = [head |-> head, next |-> IF nx[c] = e THEN [nx EXCEPT ![c] = nx[e]] ELSE nx]
    BY <1>1, <1>3 DEF RegionRemove
  <2>2. c \in X /\ c \notin W
    <3>1. head \in X
      BY <1>1, <1>3
    <3>2. \A b \in X \cap W : nx[b] \in X
      BY DEF ListOf
    <3>3. X \in SUBSET DOMAIN nx
      OBVIOUS
    <3>4. Visited(nx, head, W) \subseteq X
      <4> HIDE DEF W, X
      <4> QED BY <3>1, <3>2, <3>3, VisitedIn
    <3> QED BY <2>1, <3>4 DEF WalkEnd
  <2>3. c \in S /\ c < e /\ nx[c] = e
    BY <2>2 DEF ListOf
  <2> HIDE DEF W, X
  <2>4. /\ r.head = head /\ r.next[c] = nx[e]
        /\ \A a \in D \ {c} : r.next[a] = nx[a]
        /\ r.next \in [D -> Nat]
    BY <2>1, <2>3
  <2>5. \A a \in S \ {e} :
           \/ r.next[a] = 0 /\ \A b \in S \ {e} : b <= a
           \/ /\ r.next[a] \in S \ {e} /\ a < r.next[a]
              /\ \A b \in S \ {e} : b <= a \/ r.next[a] <= b
    <3> SUFFICES ASSUME NEW a \in S \ {e}
                 PROVE  \/ r.next[a] = 0 /\ \A b \in S \ {e} : b <= a
                        \/ /\ r.next[a] \in S \ {e} /\ a < r.next[a]
                           /\ \A b \in S \ {e} : b <= a \/ r.next[a] <= b
      OBVIOUS
    <3>1. /\ \/ nx[e] = 0 /\ \A b \in S : b <= e
             \/ nx[e] \in S /\ e < nx[e] /\ \A b \in S : b <= e \/ nx[e] <= b
          /\ \/ nx[a] = 0 /\ \A b \in S : b <= a
             \/ nx[a] \in S /\ a < nx[a] /\ \A b \in S : b <= a \/ nx[a] <= b
          /\ \A b \in S : b <= c \/ e <= b
      BY <2>3 DEF ListOf
    <3>2. CASE a = c
      BY <2>3, <2>4, <3>1, <3>2
    <3>3. CASE a # c
      <4>1. r.next[a] = nx[a]
        BY <2>4, <3>3
      <4>2. nx[a] # e
        BY <2>3, <3>1, <3>3
      <4> QED BY <3>1, <4>1, <4>2
    <3> QED BY <3>2, <3>3
  <2> QED BY <1>1, <1>3, <2>3, <2>4, <2>5 DEF ListOf, Relinked
<1> QED BY <1>2, <1>3

\* On a sorted list with a bound both operations come back.
LEMMA AppendReturns ==
  ASSUME NEW nx, DOMAIN nx \subseteq Nat, NEW S \in SUBSET DOMAIN nx, NEW head,
         ListOf(head, nx, S), NEW M \in Nat, \A a \in S : a <= M, NEW e
  PROVE  RegionAppend(head, nx, e) # {}
<1> DEFINE W == {b \in DOMAIN nx : nx[b] # 0 /\ nx[b] < e}
<1>1. S # {} => WalkEnd(nx, head, W) # {}
  <2>1. \A b \in W : nx[b] # 0
    OBVIOUS
  <2> HIDE DEF W
  <2> QED BY <2>1, WalkEnds
<1>2. CASE head = 0
  BY <1>2 DEF RegionAppend
<1>3. CASE head # 0 /\ e < head
  BY <1>3 DEF RegionAppend
<1>4. CASE head # 0 /\ ~ (e < head)
  <2>1. PICK c \in WalkEnd(nx, head, W) : TRUE
    BY <1>1, <1>4 DEF ListOf
  <2>2. [head |-> head, next |-> [nx EXCEPT ![e] = nx[c], ![c] = e]] \in RegionAppend(head, nx, e)
    BY <1>4, <2>1 DEF RegionAppend
  <2> QED BY <2>2
<1> QED BY <1>2, <1>3, <1>4

\* RegionRemove comes back on a sorted list, whether or not e is on it.
LEMMA RemoveReturns ==
  ASSUME NEW nx, DOMAIN nx \subseteq Nat, NEW S \in SUBSET DOMAIN nx, NEW head,
         ListOf(head, nx, S), NEW M \in Nat, \A a \in S : a <= M, NEW e
  PROVE  RegionRemove(head, nx, e) # {}
<1> DEFINE W == {b \in DOMAIN nx : nx[b] \notin {0, e}}
<1>1. S # {} => WalkEnd(nx, head, W) # {}
  <2>1. \A b \in W : nx[b] # 0
    OBVIOUS
  <2> HIDE DEF W
  <2> QED BY <2>1, WalkEnds
<1>2. CASE head = e
  BY <1>2 DEF RegionRemove
<1>3. CASE head # e /\ head = 0
  BY <1>3 DEF RegionRemove
<1>4. CASE head # e /\ head # 0
  <2>1. PICK c \in WalkEnd(nx, head, W) : TRUE
    BY <1>1, <1>4 DEF ListOf
  <2>2. [head |-> head, next |-> IF nx[c] = e THEN [nx EXCEPT ![c] = nx[e]] ELSE nx]
          \in RegionRemove(head, nx, e)
    BY <1>4, <2>1 DEF RegionRemove
  <2> QED BY <2>2
<1> QED BY <1>2, <1>3, <1>4

\* So does the merge.
LEMMA MergeReturns ==
  ASSUME NEW nx, DOMAIN nx \subseteq Nat, NEW S \in SUBSET DOMAIN nx, NEW head, S # {},
         ListOf(head, nx, S), NEW M \in Nat, \A a \in S : a <= M, NEW sz
  PROVE  AttemptMergeWithAdjacent(head, sz, nx) # {}
<1> DEFINE W == {b \in DOMAIN nx : /\ nx[b] # 0
                                   /\ (b + HeaderSize + sz[b]) % SizeMod = nx[b]}
<1>1. WalkEnd(nx, head, W) # {}
  <2>1. \A b \in W : nx[b] # 0
    OBVIOUS
  <2> HIDE DEF W
  <2> QED BY <2>1, WalkEnds
<1>2. PICK last \in WalkEnd(nx, head, W) : TRUE
  BY <1>1
<1> DEFINE absorbed == Visited(nx, head, W) \ {head}
           length == [b \in absorbed |-> (HeaderSize + sz[b]) % SizeMod]
           cleared == UNION {HeadersIn(DOMAIN nx, b, b + length[b]) : b \in absorbed}
           kept == DOMAIN nx \ cleared
           r == [size |-> [b \in kept |-> IF b = head THEN (last + sz[last] - head) % SizeMod
                                                      ELSE sz[b]],
                 next |-> [b \in kept |-> IF b = head THEN nx[last] ELSE nx[b]],
                 cleared |-> UNION {b .. b + length[b] - 1 : b \in absorbed}]
<1>3. r \in AttemptMergeWithAdjacent(head, sz, nx)
  BY <1>2 DEF AttemptMergeWithAdjacent
<1> HIDE DEF r
<1> QED BY <1>3

-----------------------------------------------------------------------------
(***************************************************************************)
(* Merging from the head of the free list.                                 *)
(***************************************************************************)

\* Tiled, for any headers D with sizes sz.
Tiles(sz, D) ==
  /\ AreaSize \in D
  /\ \A a \in D :
       /\ AreaSize <= a
       /\ a + HeaderSize + sz[a] \in D \cup {TiledEnd}
       /\ a + HeaderSize + sz[a] <= TiledEnd
       /\ \A b \in D : a < b => a + HeaderSize + sz[a] <= b

\* Tiled, said of any size fields and any set of regions.
LEMMA TiledIs == Tiled <=> Tiles(size, Regions)
  BY DEF Tiled, Tiles, End

\* m is the result of merging the regions after head up to last into head.
Absorbs(head, last, F, sz, nx, m) ==
  /\ head <= last
  /\ {a \in Regions : head < a /\ a <= last} \subseteq F
  /\ last + HeaderSize + sz[last] \notin F
  /\ DOMAIN m.next = Regions \ {a \in Regions : head < a /\ a <= last}
  /\ DOMAIN m.size = DOMAIN m.next
  /\ m.size[head] = last + sz[last] - head /\ m.next[head] = nx[last]
  /\ \A b \in DOMAIN m.next \ {head} : m.size[b] = sz[b] /\ m.next[b] = nx[b]
  /\ Regions \ DOMAIN m.next \subseteq m.cleared

\* The merge absorbs exactly the headers between the head and the last region
\* of its run, and all of them are free.
LEMMA MergeAbsorbs ==
  ASSUME Regions \subseteq Nat \ {0},
         NEW nx \in [Regions -> Nat], NEW sz \in [Regions -> SizeT], Tiles(sz, Regions),
         NEW F \in SUBSET Regions, F # {}, NEW head, ListOf(head, nx, F),
         NEW m \in AttemptMergeWithAdjacent(head, sz, nx)
  PROVE  \E last \in F : Absorbs(head, last, F, sz, nx, m)
<1> DEFINE adjacent == {b \in DOMAIN nx : /\ nx[b] # 0
                                          /\ (b + HeaderSize + sz[b]) % SizeMod = nx[b]}
           V == Visited(nx, head, adjacent)
           absorbed == V \ {head}
           length == [b \in absorbed |-> (HeaderSize + sz[b]) % SizeMod]
           cleared == UNION {HeadersIn(DOMAIN nx, b, b + length[b]) : b \in absorbed}
           kept == DOMAIN nx \ cleared
<1>1. PICK last \in WalkEnd(nx, head, adjacent) :
        m = [size |-> [b \in kept |-> IF b = head THEN (last + sz[last] - head) % SizeMod
                                                  ELSE sz[b]],
             next |-> [b \in kept |-> IF b = head THEN nx[last] ELSE nx[b]],
             cleared |-> UNION {b .. b + length[b] - 1 : b \in absorbed}]
  BY DEF AttemptMergeWithAdjacent
<1>2. /\ HeaderSize \in Nat /\ HeaderSize > 0 /\ AreaSize \in Nat /\ SizeMod \in Nat
      /\ TiledEnd \in Nat /\ TiledEnd < SizeMod
  BY HeapAssumption DEF TiledEnd
<1>3. \A a \in Regions : /\ a \in Nat /\ sz[a] \in Nat
                         /\ a + HeaderSize + sz[a] \in Nat
                         /\ a + HeaderSize + sz[a] < SizeMod
                         /\ (a + HeaderSize + sz[a]) % SizeMod = a + HeaderSize + sz[a]
                         /\ (HeaderSize + sz[a]) % SizeMod = HeaderSize + sz[a]
  <2> SUFFICES ASSUME NEW a \in Regions
               PROVE  /\ a \in Nat /\ sz[a] \in Nat
                      /\ a + HeaderSize + sz[a] \in Nat
                      /\ a + HeaderSize + sz[a] < SizeMod
                      /\ (a + HeaderSize + sz[a]) % SizeMod = a + HeaderSize + sz[a]
                      /\ (HeaderSize + sz[a]) % SizeMod = HeaderSize + sz[a]
    OBVIOUS
  <2>1. a \in Nat /\ sz[a] \in Nat
    BY DEF SizeT
  <2>2. a + HeaderSize + sz[a] <= TiledEnd
    BY DEF Tiles
  <2>3. \A n \in Nat : n < SizeMod => n % SizeMod = n
    BY <1>2
  <2>4. /\ a + HeaderSize + sz[a] \in Nat /\ HeaderSize + sz[a] \in Nat
        /\ a + HeaderSize + sz[a] < SizeMod /\ HeaderSize + sz[a] < SizeMod
    BY <1>2, <2>1, <2>2
  <2> QED BY <2>1, <2>3, <2>4
<1>4. /\ V \subseteq F /\ head \in F /\ head \in V
      /\ \A b \in V \cap adjacent : nx[b] \in V
      /\ last \in V /\ last \notin adjacent
  <2>1. F \in SUBSET DOMAIN nx /\ \A b \in adjacent : nx[b] # 0
    OBVIOUS
  <2>2. V \subseteq F /\ head \in F
    <3> HIDE DEF adjacent
    <3> QED BY <2>1, VisitedInList
  <2>3. /\ head \in V
        /\ \A b \in V \cap adjacent : nx[b] \in DOMAIN nx => nx[b] \in V
    <3> HIDE DEF adjacent
    <3> QED BY <2>2, VisitedClosed
  <2>4. \A b \in V \cap adjacent : nx[b] \in F
    <3> HIDE DEF V
    <3> QED BY <2>2 DEF ListOf
  <2> QED BY <2>2, <2>3, <2>4 DEF WalkEnd
<1>5. \A b \in V : b <= last
  <2> DEFINE X == {b \in F : b <= last}
  <2>1. head \in X
    <3> HIDE DEF V, adjacent
    <3> QED BY <1>4 DEF ListOf
  <2>2. \A b \in X \cap adjacent : nx[b] \in X
    <3> SUFFICES ASSUME NEW b \in X \cap adjacent PROVE nx[b] \in X
      OBVIOUS
    <3>1. b \in F /\ b <= last /\ b # last /\ nx[b] # 0 /\ last \in F
      BY <1>4
    <3> HIDE DEF V, adjacent
    <3>2. nx[b] \in F /\ (last <= b \/ nx[b] <= last)
      BY <3>1 DEF ListOf
    <3> QED BY <3>1, <3>2
  <2>3. V \subseteq X
    <3>1. X \in SUBSET DOMAIN nx
      OBVIOUS
    <3> HIDE DEF X, adjacent
    <3> QED BY <2>1, <2>2, <3>1, VisitedIn
  <2> QED BY <2>3
<1>6. \A a \in Regions : head < a /\ a <= last => a \in V
  <2> DEFINE X == {b \in V : \A a \in Regions : head < a /\ a <= b => a \in V}
  <2>1. head \in X
    <3> HIDE DEF V
    <3> QED BY <1>3, <1>4
  <2>2. \A b \in X \cap adjacent : nx[b] \in X
    <3> SUFFICES ASSUME NEW b \in X \cap adjacent PROVE nx[b] \in X
      OBVIOUS
    <3>1. b \in Regions /\ nx[b] = b + HeaderSize + sz[b] /\ nx[b] \in V
      BY <1>3, <1>4
    <3>2. \A a \in Regions : b < a => nx[b] <= a
      BY <3>1 DEF Tiles
    <3>3. ASSUME NEW a \in Regions, head < a, a <= nx[b] PROVE a \in V
      <4>1. CASE a <= b
        BY <3>3, <4>1
      <4>2. CASE b < a
        <5>1. a = nx[b]
          BY <1>3, <3>1, <3>2, <3>3, <4>2
        <5> QED BY <3>1, <5>1
      <4> QED BY <1>3, <3>1, <4>1, <4>2
    <3> QED BY <3>1, <3>3
  <2>3. V \subseteq X
    <3>1. X \in SUBSET DOMAIN nx
      BY <1>4
    <3> HIDE DEF X, adjacent
    <3> QED BY <2>1, <2>2, <3>1, VisitedIn
  <2> QED BY <1>4, <2>3
<1> HIDE DEF V, adjacent
<1>7. absorbed = {a \in Regions : head < a /\ a <= last}
  <2>1. \A b \in V : head <= b /\ b \in Regions
    BY <1>4 DEF ListOf
  <2>2. ASSUME NEW b \in absorbed PROVE b \in Regions /\ head < b /\ b <= last
    <3>1. b \in V /\ b # head
      OBVIOUS
    <3>2. head \in Nat /\ b \in Nat
      BY <1>3, <1>4, <2>1, <3>1
    <3> QED BY <1>5, <2>1, <3>1, <3>2
  <2>3. ASSUME NEW b \in Regions, head < b, b <= last PROVE b \in absorbed
    <3>1. b \in V
      BY <1>6, <2>3
    <3>2. head \in Nat /\ b \in Nat
      BY <1>3, <1>4
    <3> QED BY <2>3, <3>1, <3>2
  <2> HIDE DEF absorbed
  <2> QED BY <2>2, <2>3
<1>8. cleared = absorbed
  <2>1. ASSUME NEW b \in absorbed
        PROVE  HeadersIn(DOMAIN nx, b, b + length[b]) = {b}
    <3>1. b \in Regions /\ b \in Nat /\ b + length[b] = b + HeaderSize + sz[b] /\ DOMAIN nx = Regions
      BY <1>2, <1>3, <1>4
    <3>2. b < b + HeaderSize + sz[b] /\ b < b + HeaderSize
      BY <1>2, <1>3, <3>1
    <3>3. ASSUME NEW c \in Regions, c < b + HeaderSize + sz[b], b < c + HeaderSize
          PROVE  c = b
      <4>1. ~ (c < b)
        <5>1. c < b => c + HeaderSize + sz[c] <= b
          BY <3>1 DEF Tiles
        <5> QED BY <1>2, <1>3, <3>1, <3>3, <5>1
      <4>2. ~ (b < c)
        <5>1. b < c => b + HeaderSize + sz[b] <= c
          BY <3>1 DEF Tiles
        <5> QED BY <1>2, <1>3, <3>1, <3>3, <5>1
      <4> QED BY <1>3, <3>1, <4>1, <4>2
    <3> QED BY <3>1, <3>2, <3>3 DEF HeadersIn
  <2>2. ASSUME NEW c \in cleared PROVE c \in absorbed
    <3>1. PICK b \in absorbed : c \in HeadersIn(DOMAIN nx, b, b + length[b])
      OBVIOUS
    <3> HIDE DEF absorbed, length
    <3> QED BY <2>1, <3>1
  <2>3. ASSUME NEW c \in absorbed PROVE c \in cleared
    <3>1. c \in HeadersIn(DOMAIN nx, c, c + length[c])
      BY <2>1
    <3> HIDE DEF absorbed, length
    <3> QED BY <3>1
  <2> HIDE DEF cleared, absorbed, length
  <2> QED BY <2>2, <2>3
<1>9. kept = Regions \ {a \in Regions : head < a /\ a <= last}
  BY <1>7, <1>8
<1>10. last \in F /\ head <= last /\ head \in kept
  BY <1>3, <1>4, <1>9 DEF ListOf
<1>11. last + HeaderSize + sz[last] \notin F
  <2> SUFFICES ASSUME last + HeaderSize + sz[last] \in F PROVE FALSE
    OBVIOUS
  <2>1. last < last + HeaderSize + sz[last]
    BY <1>2, <1>3, <1>10
  <2>2. nx[last] \in F /\ last < nx[last] /\ nx[last] <= last + HeaderSize + sz[last]
    <3> DEFINE e == last + HeaderSize + sz[last]
    <3>1. e \in F /\ last < e /\ e \in Nat /\ last \in Nat
      BY <1>3, <1>10, <2>1
    <3> HIDE DEF e
    <3>2. ~ (e <= last)
      BY <3>1
    <3>3. nx[last] \in F /\ last < nx[last] /\ nx[last] <= e
      BY <1>10, <3>1, <3>2 DEF ListOf
    <3> QED BY <3>3 DEF e
  <2>3. last + HeaderSize + sz[last] <= nx[last]
    BY <1>10, <2>2 DEF Tiles
  <2>4. nx[last] = last + HeaderSize + sz[last] /\ nx[last] # 0
    BY <1>2, <1>3, <1>10, <2>2, <2>3, SMTT(30)
  <2> QED BY <1>3, <1>4, <1>10, <2>4 DEF adjacent
<1>12. (last + sz[last] - head) % SizeMod = last + sz[last] - head
  <2>1. /\ last \in Nat /\ head \in Nat /\ sz[last] \in Nat /\ head <= last
        /\ last + HeaderSize + sz[last] < SizeMod
    BY <1>3, <1>4, <1>10
  <2>2. last + sz[last] - head \in Nat /\ last + sz[last] - head < SizeMod
    BY <1>2, <2>1
  <2> QED BY <1>2, <2>2
<1>12a. absorbed \subseteq m.cleared
  <2> SUFFICES ASSUME NEW b \in absorbed PROVE b \in m.cleared
    OBVIOUS
  <2>1. b \in Nat /\ b + length[b] = b + HeaderSize + sz[b] /\ sz[b] \in Nat
    BY <1>2, <1>3, <1>4
  <2>2. b \in b .. b + length[b] - 1
    BY <1>2, <2>1
  <2>3. m.cleared = UNION {c .. c + length[c] - 1 : c \in absorbed}
    BY <1>1
  <2> HIDE DEF absorbed, length
  <2> QED BY <2>2, <2>3
<1> HIDE DEF kept, length
<1>13. /\ DOMAIN m.next = kept /\ DOMAIN m.size = kept
       /\ m.size[head] = last + sz[last] - head /\ m.next[head] = nx[last]
       /\ \A b \in kept \ {head} : m.size[b] = sz[b] /\ m.next[b] = nx[b]
  BY <1>1, <1>10, <1>12
<1>14. {a \in Regions : head < a /\ a <= last} \subseteq F
  BY <1>4, <1>6
<1>15. Regions \ DOMAIN m.next \subseteq m.cleared
  BY <1>7, <1>9, <1>12a, <1>13
<1> QED BY <1>9, <1>10, <1>11, <1>13, <1>14, <1>15 DEF Absorbs

\* What the merge result m leaves of the free list F and of everything else.
MergedWell(head, F, sz, nx, m) ==
  /\ DOMAIN m.next \subseteq Regions /\ Regions \ F \subseteq DOMAIN m.next
  /\ ListOf(head, m.next, F \cap DOMAIN m.next)
  /\ Tiles(m.size, DOMAIN m.next)
  /\ \E t \in F \cap DOMAIN m.next :
       t + HeaderSize + m.size[t] = TiledEnd /\ AreaSize <= m.size[t]
  /\ \A a \in Regions \ F : m.next[a] = nx[a] /\ m.size[a] = sz[a]
  /\ head \in DOMAIN m.next /\ head + HeaderSize + m.size[head] \notin F
  /\ Regions \ DOMAIN m.next \subseteq m.cleared

\* The merge keeps the free list sorted and complete, the tiling, the free
\* region at the top, and all that is not free; behind the head there is then
\* no free region.
LEMMA MergeSound ==
  ASSUME Regions \subseteq Nat \ {0},
         NEW nx \in [Regions -> Nat], NEW sz \in [Regions -> SizeT], Tiles(sz, Regions),
         NEW F \in SUBSET Regions, F # {}, NEW head, ListOf(head, nx, F),
         NEW top \in F, top + HeaderSize + sz[top] = TiledEnd, AreaSize <= sz[top],
         NEW m \in AttemptMergeWithAdjacent(head, sz, nx)
  PROVE  MergedWell(head, F, sz, nx, m)
<1> DEFINE K == DOMAIN m.next
<1>0. PICK last \in F : Absorbs(head, last, F, sz, nx, m)
  BY MergeAbsorbs
<1>1. /\ head <= last
      /\ {a \in Regions : head < a /\ a <= last} \subseteq F
      /\ last + HeaderSize + sz[last] \notin F
      /\ DOMAIN m.next = Regions \ {a \in Regions : head < a /\ a <= last}
      /\ DOMAIN m.size = DOMAIN m.next
      /\ m.size[head] = last + sz[last] - head /\ m.next[head] = nx[last]
      /\ \A b \in DOMAIN m.next \ {head} : m.size[b] = sz[b] /\ m.next[b] = nx[b]
      /\ Regions \ DOMAIN m.next \subseteq m.cleared
  BY <1>0 DEF Absorbs
<1>2. HeaderSize \in Nat /\ HeaderSize > 0 /\ AreaSize \in Nat /\ TiledEnd \in Nat
  BY HeapAssumption DEF TiledEnd
<1>3. head \in F /\ (\A a \in F : head <= a) /\ head \in Nat /\ last \in Nat /\ 0 \notin F
  BY DEF ListOf
<1>4. \A a \in Regions : a \in Nat /\ sz[a] \in Nat
  BY DEF SizeT
<1>5. /\ K \subseteq Regions /\ Regions \ F \subseteq K /\ head \in K
      /\ \A a \in Regions : a \in K <=> a <= head \/ last < a
  BY <1>1, <1>3, <1>4
<1>5a. \A b \in K : b \in Nat /\ (head < b => last < b)
  <2> SUFFICES ASSUME NEW b \in K PROVE b \in Nat /\ (head < b => last < b)
    OBVIOUS
  <2>1. b \in Nat /\ (b <= head \/ last < b)
    BY <1>4, <1>5
  <2> QED BY <1>3, <2>1
<1> HIDE DEF K
<1>6. head + HeaderSize + m.size[head] = last + HeaderSize + sz[last]
  BY <1>1, <1>2, <1>3, <1>4
<1>7. ListOf(head, m.next, F \cap K)
  <2>1. ASSUME NEW a \in F \cap K
        PROVE  \/ m.next[a] = 0 /\ \A b \in F \cap K : b <= a
               \/ /\ m.next[a] \in F \cap K /\ a < m.next[a]
                  /\ \A b \in F \cap K : b <= a \/ m.next[a] <= b
    <3>1. CASE a = head
      <4>1. \/ nx[last] = 0 /\ \A b \in F : b <= last
            \/ nx[last] \in F /\ last < nx[last] /\ \A b \in F : b <= last \/ nx[last] <= b
        BY DEF ListOf
      <4>2. \A b \in F \cap K : b <= head \/ last < b
        BY <1>5
      <4>3. nx[last] # 0 => nx[last] \in K /\ head < nx[last]
        BY <1>1, <1>3, <1>4, <1>5, <4>1
      <4> QED BY <1>1, <1>3, <1>4, <1>5, <3>1, <4>1, <4>2, <4>3
    <3>2. CASE a # head
      <4>1. \/ nx[a] = 0 /\ \A b \in F : b <= a
            \/ nx[a] \in F /\ a < nx[a] /\ \A b \in F : b <= a \/ nx[a] <= b
        BY DEF ListOf
      <4>2. last < a /\ m.next[a] = nx[a]
        BY <1>1, <1>3, <1>4, <1>5, <1>5a, <3>2 DEF K
      <4>3. nx[a] # 0 => nx[a] \in K
        BY <1>3, <1>4, <1>5, <4>1, <4>2
      <4> QED BY <1>4, <1>5, <4>1, <4>2, <4>3
    <3> QED BY <3>1, <3>2
  <2>2. head # 0
    BY <1>3
  <2> QED BY <1>3, <1>5, <2>1, <2>2 DEF ListOf
<1>8. Tiles(m.size, K)
  <2>1. ASSUME NEW a \in K
        PROVE  /\ AreaSize <= a
               /\ a + HeaderSize + m.size[a] \in K \cup {TiledEnd}
               /\ a + HeaderSize + m.size[a] <= TiledEnd
               /\ \A b \in K : a < b => a + HeaderSize + m.size[a] <= b
    <3>1. CASE a = head
      <4>1. /\ last + HeaderSize + sz[last] \in Regions \cup {TiledEnd}
            /\ last + HeaderSize + sz[last] <= TiledEnd
            /\ \A b \in Regions : last < b => last + HeaderSize + sz[last] <= b
        BY DEF Tiles
      <4>2. last < last + HeaderSize + sz[last]
        BY <1>2, <1>4
      <4>3. AreaSize <= head
        BY <1>3 DEF Tiles
      <4>4. \A b \in K : head < b => last < b
        BY <1>5a
      <4> QED BY <1>5, <1>6, <3>1, <4>1, <4>2, <4>3, <4>4
    <3>2. CASE a # head
      <4>1. a \in Regions /\ m.size[a] = sz[a]
        BY <1>1, <1>5, <3>2 DEF K
      <4>2. /\ AreaSize <= a
            /\ a + HeaderSize + sz[a] \in Regions \cup {TiledEnd}
            /\ a + HeaderSize + sz[a] <= TiledEnd
            /\ \A b \in Regions : a < b => a + HeaderSize + sz[a] <= b
        BY <4>1 DEF Tiles
      <4>3. a + HeaderSize + sz[a] \in Regions => a + HeaderSize + sz[a] \in K
        <5>1. CASE a < head
          <6>1. a + HeaderSize + sz[a] <= head
            BY <1>3, <4>2, <5>1
          <6> QED BY <1>5, <6>1
        <5>2. CASE last < a
          <6>1. last < a + HeaderSize + sz[a]
            BY <1>2, <1>3, <1>4, <4>1, <5>2
          <6> QED BY <1>5, <6>1
        <5>3. a < head \/ last < a
          BY <1>3, <1>5a, <3>2
        <5> QED BY <5>1, <5>2, <5>3
      <4> QED BY <1>5, <4>1, <4>2, <4>3
    <3> QED BY <3>1, <3>2
  <2>2. AreaSize \in K
    <3>1. AreaSize \in Regions /\ AreaSize <= head
      BY <1>3 DEF Tiles
    <3> QED BY <1>5, <3>1
  <2> QED BY <2>1, <2>2 DEF Tiles
<1>9. \E t \in F \cap K : t + HeaderSize + m.size[t] = TiledEnd /\ AreaSize <= m.size[t]
  <2>1. CASE top <= last
    <3>1. ~ (top < last)
      <4>1. top < last => TiledEnd <= last
        BY DEF Tiles
      <4>2. last + HeaderSize + sz[last] <= TiledEnd
        BY DEF Tiles
      <4> QED BY <1>2, <1>4, <4>1, <4>2
    <3>2. top = last
      BY <1>4, <2>1, <3>1
    <3>3. head + HeaderSize + m.size[head] = TiledEnd /\ AreaSize <= m.size[head]
      BY <1>1, <1>2, <1>3, <1>4, <1>6, <3>2
    <3> QED BY <1>3, <1>5, <3>3
  <2>2. CASE last < top
    <3>1. top \in K
      BY <1>5, <2>2
    <3>2. top # head
      BY <1>1, <1>3, <2>2
    <3> QED BY <1>1, <3>1, <3>2 DEF K
  <2> QED BY <1>4, <2>1, <2>2
<1>10. \A a \in Regions \ F : m.next[a] = nx[a] /\ m.size[a] = sz[a]
  BY <1>1, <1>3, <1>5 DEF K
<1> QED BY <1>1, <1>5, <1>6, <1>7, <1>8, <1>9, <1>10 DEF K, MergedWell

-----------------------------------------------------------------------------
(***************************************************************************)
(* A careful Malloc.                                                       *)
(***************************************************************************)
Unused == Regions \ Used

\* What the proofs use of a sound heap, in plain terms.
LEMMA SoundFacts ==
  ASSUME TypeOK, Sound
  PROVE  /\ HeaderSize \in Nat /\ HeaderSize > 0 /\ AreaSize \in Nat /\ AreaSize > 0
         /\ TiledEnd \in Nat /\ TiledEnd < SizeMod /\ SizeMod \in Nat
         /\ Regions \subseteq Nat \ {0} /\ Used \subseteq Regions
         /\ next \in [Regions -> Nat] /\ size \in [Regions -> SizeT]
         /\ meta \in [Regions -> SUBSET {HEAP_MEMORY_USED}]
         /\ \A a \in Regions : size[a] \in Nat /\ a <= TiledEnd
         /\ Tiles(size, Regions)
         /\ ListOf(used_head, next, Used) /\ ListOf(free_head, next, Unused)
         /\ DOMAIN held = Used /\ \A a \in Used : held[a] = size[a]
<1>1. /\ HeaderSize \in Nat /\ HeaderSize > 0 /\ AreaSize \in Nat /\ AreaSize > 0
      /\ TiledEnd \in Nat /\ TiledEnd < SizeMod /\ SizeMod \in Nat
  BY HeapAssumption DEF TiledEnd
<1>2. Tiles(size, Regions)
  BY TiledIs DEF Sound
<1>3. Regions \subseteq Nat \ {0}
  BY <1>1, <1>2 DEF TypeOK, Tiles
<1>4. \A a \in Regions : size[a] \in Nat /\ a <= TiledEnd
  <2> SUFFICES ASSUME NEW a \in Regions PROVE size[a] \in Nat /\ a <= TiledEnd
    OBVIOUS
  <2>1. size[a] \in Nat /\ a \in Nat
    BY <1>3 DEF TypeOK
  <2>2. a + HeaderSize + size[a] <= TiledEnd
    BY <1>2 DEF Tiles
  <2> QED BY <1>1, <2>1, <2>2
<1>5. ListOf(used_head, next, Used) /\ ListOf(free_head, next, Unused)
  BY DEF Sound, ListsSound, Unused
<1>6. DOMAIN held = Used /\ \A a \in Used : held[a] = size[a]
  BY DEF Sound, HeldAreUsed
<1>7. Used \subseteq Regions
  BY DEF Used
<1> QED BY <1>1, <1>2, <1>3, <1>4, <1>5, <1>6, <1>7 DEF TypeOK, SizeT

\* The region at the top is behind all others and ends both lists it is put on.
LEMMA TopIsLast ==
  ASSUME TypeOK, Sound, NEW reg \in Regions, TopRegion(reg)
  PROVE  /\ \A a \in Regions : a <= reg
         /\ \A a \in Regions \ {reg} : a < reg /\ End(a) <= reg
<1>1. \A a \in Regions : ~ (reg < a)
  <2> SUFFICES ASSUME NEW a \in Regions, reg < a PROVE FALSE
    OBVIOUS
  <2>1. TiledEnd <= a /\ a + HeaderSize + size[a] <= TiledEnd
    BY SoundFacts DEF Tiles, TopRegion, End
  <2> QED BY <2>1, SoundFacts
<1>2. \A a \in Regions : a \in Nat
  BY SoundFacts
<1>3. \A a \in Regions \ {reg} : a < reg
  BY <1>1, <1>2
<1> QED BY <1>1, <1>2, <1>3, SoundFacts DEF Tiles, End

\* The last node of a list has no next.
LEMMA LastNext ==
  ASSUME NEW head, NEW nx, NEW S \in SUBSET Nat, ListOf(head, nx, S),
         NEW e \in S, \A a \in S : a <= e
  PROVE  nx[e] = 0
<1>1. \/ nx[e] = 0
      \/ nx[e] \in S /\ e < nx[e]
  BY DEF ListOf
<1>2. nx[e] \in S => nx[e] <= e /\ nx[e] \in Nat /\ e \in Nat
  OBVIOUS
<1> QED BY <1>1, <1>2

\* The outcome of a Malloc that splits the top region.
CarvedAs(o, reg, s) ==
  LET rest == reg + HeaderSize + s
  IN /\ DOMAIN o.next = Regions \cup {rest}
     /\ \A a \in Regions \ {reg} : o.size[a] = size[a] /\ o.meta[a] = meta[a]
     /\ o.size[reg] = s /\ o.meta[reg] = meta[reg] \cup {HEAP_MEMORY_USED}
     /\ o.size[rest] = size[reg] - s - HeaderSize /\ o.meta[rest] = {}
     /\ ListOf(o.used_head, o.next, Used \cup {reg})
     /\ ListOf(o.free_head, o.next, (Unused \ {reg}) \cup {rest})
     /\ o.written = written \cup (reg + HeaderSize .. rest - 1)

\* Where the rest lies.
LEMMA RestFacts ==
  ASSUME TypeOK, Sound, NEW reg \in Unused, TopRegion(reg),
         NEW s \in Requests, s + HeaderSize + AreaSize <= size[reg],
         NEW rest, rest = reg + HeaderSize + s,
         NEW restSize, restSize = size[reg] - s - HeaderSize
  PROVE  /\ reg \in Regions /\ reg \notin Used /\ reg \in Nat /\ reg # 0
         /\ s \in Nat /\ rest \in Nat /\ size[reg] \in Nat
         /\ reg < rest /\ reg + HeaderSize <= rest
         /\ reg + HeaderSize + size[reg] = TiledEnd
         /\ restSize \in Nat /\ AreaSize <= restSize /\ rest + HeaderSize + restSize = TiledEnd
         /\ restSize % SizeMod = restSize
         /\ \A a \in Regions : a \in Nat /\ a <= reg /\ a < rest /\ a + HeaderSize <= rest
         /\ rest \notin Regions /\ ~ (rest > LastAddress)
<1>1. /\ reg \in Regions /\ reg \notin Used /\ reg \in Nat /\ reg # 0
      /\ s \in Nat /\ rest \in Nat /\ size[reg] \in Nat
      /\ reg < rest /\ reg + HeaderSize <= rest
      /\ reg + HeaderSize + size[reg] = TiledEnd
  BY SoundFacts, HeapAssumption DEF Unused, TopRegion, End
<1>2. /\ restSize \in Nat /\ AreaSize <= restSize /\ rest + HeaderSize + restSize = TiledEnd
      /\ restSize % SizeMod = restSize
  <2>1. restSize \in Nat /\ AreaSize <= restSize /\ rest + HeaderSize + restSize = TiledEnd
    BY <1>1, SoundFacts
  <2>2. restSize < SizeMod
    BY <1>1, <2>1, SoundFacts
  <2> QED BY <2>1, <2>2, SoundFacts
<1>3. \A a \in Regions : a \in Nat /\ a <= reg /\ a < rest /\ a + HeaderSize <= rest
  <2> SUFFICES ASSUME NEW a \in Regions
               PROVE  a \in Nat /\ a <= reg /\ a < rest /\ a + HeaderSize <= rest
    OBVIOUS
  <2>1. a \in Nat /\ a <= reg
    BY <1>1, SoundFacts, TopIsLast
  <2> QED BY <1>1, <2>1, SoundFacts
<1>4. rest \notin Regions /\ ~ (rest > LastAddress)
  <2>1. rest <= TiledEnd
    BY <1>1, <1>2, SoundFacts
  <2> QED BY <1>1, <1>3, <2>1, SoundFacts DEF LastAddress
<1> QED BY <1>1, <1>2, <1>3, <1>4

\* A careful Malloc comes back, with an outcome that keeps both lists: reg ends
\* both, so that the wrong next field that is read when it is unlinked is 0.
LEMMA CarefulCarve ==
  ASSUME TypeOK, Sound, NEW reg \in Unused, TopRegion(reg),
         NEW s \in Requests, s + HeaderSize + AreaSize <= size[reg]
  PROVE  Carve(reg, s) # {} /\ \A o \in Carve(reg, s) : CarvedAs(o, reg, s)
<1> DEFINE rest  == reg + HeaderSize + s
           restSize == size[reg] - s - HeaderSize
           K == Regions \cup {rest}
           meta1 == [a \in K |-> IF a = rest THEN {}
                                 ELSE IF a = reg THEN meta[a] \cup {HEAP_MEMORY_USED}
                                 ELSE meta[a]]
           size1 == [a \in K |-> IF a = rest THEN restSize
                                 ELSE IF a = reg THEN s
                                 ELSE size[a]]
           next1 == [a \in K |-> IF a \in Regions THEN next[a] ELSE 0]
           wr == written \cup (reg + HeaderSize .. rest - 1)
<1>1. /\ reg \in Regions /\ reg \notin Used /\ reg \in Nat /\ reg # 0
      /\ s \in Nat /\ rest \in Nat /\ size[reg] \in Nat
      /\ reg < rest /\ reg + HeaderSize <= rest
      /\ restSize % SizeMod = restSize
      /\ rest \notin Regions /\ ~ (rest > LastAddress)
  BY RestFacts
<1>2. \A a \in Regions : a \in Nat /\ a <= reg /\ a < rest /\ a + HeaderSize <= rest
  BY RestFacts
<1>3. Carve(reg, s) = Relink(reg, rest, meta1, size1, next1, wr)
  <2>1. HeadersIn(Regions, rest, rest + HeaderSize) = {}
    <3>1. \A a \in Regions : ~ (rest < a + HeaderSize)
      BY <1>1, <1>2, SoundFacts
    <3> QED BY <3>1 DEF HeadersIn
  <2>2. (Regions \ HeadersIn(Regions, rest, rest + HeaderSize)) \cup {rest} = K
    BY <2>1
  <2>3. Carve(reg, s) = Split(reg, s, rest, restSize)
    BY <1>1 DEF Carve
  <2>4. written \cup (reg + HeaderSize .. rest - 1)
          \cup UNION {b .. b + HeaderSize - 1 : b \in HeadersIn(Regions, rest, rest + HeaderSize)}
        = wr
    BY <2>1
  <2>5. Split(reg, s, rest, restSize) = Relink(reg, rest, meta1, size1, next1, wr)
    BY <1>1, <2>2, <2>4 DEF Split
  <2> QED BY <2>3, <2>5
<1>4. K \subseteq Nat \ {0} /\ next1 \in [K -> Nat] /\ rest \in K /\ reg \in K
  <2>1. K \subseteq Nat \ {0} /\ rest \in K /\ reg \in K
    <3>1. rest \in Nat \ {0}
      BY <1>1
    <3> HIDE DEF rest
    <3> QED BY <1>1, <3>1, SoundFacts
  <2>2. next1 \in [K -> Nat]
    <3> HIDE DEF K
    <3> QED BY <2>1, SoundFacts
  <2> QED BY <2>1, <2>2
<1>5. \A a \in Regions : next1[a] = next[a]
  OBVIOUS
<1>6. /\ \A a \in Regions \ {reg} : size1[a] = size[a] /\ meta1[a] = meta[a]
      /\ size1[reg] = s /\ size1[rest] = restSize /\ meta1[rest] = {}
      /\ meta1[reg] = meta[reg] \cup {HEAP_MEMORY_USED}
  BY <1>1
<1>7. Regions \subseteq K /\ K = Regions \cup {rest}
  OBVIOUS
<1>8. \A a \in K : a <= rest /\ a \in Nat
  BY <1>1, <1>2
<1>8a. wr = written \cup (reg + HeaderSize .. rest - 1)
  OBVIOUS
<1> HIDE DEF K, meta1, size1, next1, rest, restSize, wr
<1>9. ASSUME NEW u \in RegionAppend(used_head, next1, reg)
      PROVE  Relinked(u, next1, K, Used \cup {reg}) /\ ListOf(free_head, u.next, Unused)
  <2>1. ListOf(used_head, next1, Used)
    BY <1>5, SoundFacts, ListFrame
  <2>2. Used \in SUBSET K /\ reg \in K \ Used
    BY <1>1, <1>4, <1>7, SoundFacts
  <2>3. Relinked(u, next1, K, Used \cup {reg})
    BY <1>4, <2>1, <2>2, AppendSorted
  <2>4. u.next[reg] = 0
    <3>1. Used \cup {reg} \in SUBSET Nat /\ \A a \in Used \cup {reg} : a <= reg
      BY <1>1, <1>2, SoundFacts
    <3>2. ListOf(u.head, u.next, Used \cup {reg})
      BY <2>3 DEF Relinked
    <3> QED BY <3>1, <3>2, LastNext
  <2>5. next[reg] = 0
    <3>1. Unused \in SUBSET Nat /\ \A a \in Unused : a <= reg
      BY <1>2 DEF Unused
    <3>2. ListOf(free_head, next, Unused)
      BY SoundFacts
    <3> QED BY <3>1, <3>2, LastNext
  <2>6. \A a \in Unused : u.next[a] = next[a]
    BY <1>5, <1>7, <2>3, <2>4, <2>5 DEF Unused, Relinked
  <2>7. ListOf(free_head, next, Unused)
    BY SoundFacts
  <2> QED BY <2>3, <2>6, <2>7, ListFrame
<1>10. ASSUME NEW u \in RegionAppend(used_head, next1, reg),
              NEW f \in RegionRemove(free_head, u.next, reg)
       PROVE  Relinked(f, u.next, K, Unused \ {reg})
  <2>1. Unused \in SUBSET K
    BY <1>7 DEF Unused
  <2>2. u.next \in [K -> Nat] /\ ListOf(free_head, u.next, Unused)
    BY <1>9 DEF Relinked
  <2> QED BY <1>4, <2>1, <2>2, RemoveSorted
<1>11. ASSUME NEW u \in RegionAppend(used_head, next1, reg),
              NEW f \in RegionRemove(free_head, u.next, reg),
              NEW g \in RegionAppend(f.head, f.next, rest)
       PROVE  Relinked(g, f.next, K, (Unused \ {reg}) \cup {rest})
  <2>1. Unused \ {reg} \in SUBSET K /\ rest \in K \ (Unused \ {reg})
    BY <1>1, <1>4, <1>7 DEF Unused
  <2>2. f.next \in [K -> Nat] /\ ListOf(f.head, f.next, Unused \ {reg})
    BY <1>10 DEF Relinked
  <2> QED BY <1>4, <2>1, <2>2, AppendSorted
<1>12. Carve(reg, s) # {}
  <2>1. PICK u \in RegionAppend(used_head, next1, reg) : TRUE
    <3>1. /\ DOMAIN next1 \subseteq Nat /\ Used \in SUBSET DOMAIN next1
          /\ ListOf(used_head, next1, Used) /\ \A a \in Used : a <= rest
      BY <1>4, <1>5, <1>7, <1>8, SoundFacts, ListFrame
    <3> QED BY <1>1, <3>1, AppendReturns
  <2>2. PICK f \in RegionRemove(free_head, u.next, reg) : TRUE
    <3>1. u.next \in [K -> Nat] /\ ListOf(free_head, u.next, Unused)
      BY <1>9 DEF Relinked
    <3>2. /\ DOMAIN u.next \subseteq Nat /\ Unused \in SUBSET DOMAIN u.next
          /\ \A a \in Unused : a <= rest
      BY <1>4, <1>7, <1>8, <3>1 DEF Unused
    <3> QED BY <1>1, <3>1, <3>2, RemoveReturns
  <2>3. PICK g \in RegionAppend(f.head, f.next, rest) : TRUE
    <3>1. f.next \in [K -> Nat] /\ ListOf(f.head, f.next, Unused \ {reg})
      BY <1>10 DEF Relinked
    <3>2. /\ DOMAIN f.next \subseteq Nat /\ Unused \ {reg} \in SUBSET DOMAIN f.next
          /\ \A a \in Unused \ {reg} : a <= rest
      BY <1>4, <1>7, <1>8, <3>1 DEF Unused
    <3> QED BY <1>1, <3>1, <3>2, AppendReturns
  <2>4. [free_head |-> g.head, used_head |-> u.head,
         meta |-> meta1, size |-> size1, next |-> g.next, written |-> wr]
          \in Relink(reg, rest, meta1, size1, next1, wr)
    BY <2>1, <2>2, <2>3 DEF Relink
  <2> QED BY <1>3, <2>4
<1>13. ASSUME NEW o \in Carve(reg, s) PROVE CarvedAs(o, reg, s)
  <2>1. PICK u \in RegionAppend(used_head, next1, reg) :
          \E f \in RegionRemove(free_head, u.next, reg) :
            \E g \in RegionAppend(f.head, f.next, rest) :
              o = [free_head |-> g.head, used_head |-> u.head,
                   meta |-> meta1, size |-> size1, next |-> g.next, written |-> wr]
    BY <1>3, RelinkIs
  <2>2. PICK f \in RegionRemove(free_head, u.next, reg) :
          \E g \in RegionAppend(f.head, f.next, rest) :
            o = [free_head |-> g.head, used_head |-> u.head,
                 meta |-> meta1, size |-> size1, next |-> g.next, written |-> wr]
    BY <2>1
  <2>3. PICK g \in RegionAppend(f.head, f.next, rest) :
           o = [free_head |-> g.head, used_head |-> u.head,
                meta |-> meta1, size |-> size1, next |-> g.next, written |-> wr]
    BY <2>2
  <2>4. /\ Relinked(u, next1, K, Used \cup {reg})
        /\ Relinked(f, u.next, K, Unused \ {reg})
        /\ Relinked(g, f.next, K, (Unused \ {reg}) \cup {rest})
    BY <1>9, <1>10, <1>11
  <2>5. ListOf(u.head, g.next, Used \cup {reg})
    <3>1. \A a \in Used \cup {reg} : g.next[a] = u.next[a]
      <4> SUFFICES ASSUME NEW a \in Used \cup {reg} PROVE g.next[a] = u.next[a]
        OBVIOUS
      <4>1. a \in K /\ a # rest /\ a \notin Unused \ {reg}
        BY <1>1, <1>7, SoundFacts DEF Unused
      <4> QED BY <2>4, <4>1 DEF Relinked
    <3>2. ListOf(u.head, u.next, Used \cup {reg})
      BY <2>4 DEF Relinked
    <3> QED BY <3>1, <3>2, ListFrame
  <2>6. DOMAIN g.next = K /\ ListOf(g.head, g.next, (Unused \ {reg}) \cup {rest})
    BY <2>4 DEF Relinked
  <2> QED BY <1>6, <1>7, <1>8a, <2>3, <2>5, <2>6 DEF CarvedAs, rest, restSize
<1> QED BY <1>12, <1>13

\* A heap is sound after a careful Malloc.
LEMMA CarefulMallocSound ==
  ASSUME TypeOK, Sound, NEW reg \in Unused, TopRegion(reg),
         NEW s \in Requests, s + HeaderSize + AreaSize <= size[reg],
         NEW o, CarvedAs(o, reg, s),
         free_head' = o.free_head, used_head' = o.used_head,
         meta' = o.meta, size' = o.size, next' = o.next,
         held' = [a \in DOMAIN held \cup {reg} |-> IF a = reg THEN s ELSE held[a]]
  PROVE  Sound' /\ Used' = Used \cup {reg}
<1> DEFINE rest  == reg + HeaderSize + s
           restSize == size[reg] - s - HeaderSize
           K == Regions \cup {rest}
<1>1. /\ reg \in Regions /\ reg \notin Used /\ reg \in Nat /\ reg # 0
      /\ s \in Nat /\ rest \in Nat /\ size[reg] \in Nat
      /\ reg < rest /\ reg + HeaderSize <= rest
      /\ reg + HeaderSize + size[reg] = TiledEnd
      /\ restSize \in Nat /\ AreaSize <= restSize /\ rest + HeaderSize + restSize = TiledEnd
      /\ rest \notin Regions
  BY RestFacts
<1>2. \A a \in Regions : a \in Nat /\ a <= reg /\ a < rest /\ a + HeaderSize <= rest
  BY RestFacts
<1>3. /\ Regions' = K
      /\ \A a \in Regions \ {reg} : size'[a] = size[a] /\ meta'[a] = meta[a]
      /\ size'[reg] = s /\ meta'[reg] = meta[reg] \cup {HEAP_MEMORY_USED}
      /\ size'[rest] = restSize /\ meta'[rest] = {}
      /\ ListOf(used_head', next', Used \cup {reg})
      /\ ListOf(free_head', next', (Unused \ {reg}) \cup {rest})
  BY DEF CarvedAs, Regions
<1>4. reg + HeaderSize + s = rest
  OBVIOUS
<1>5. K = Regions \cup {rest}
  OBVIOUS
<1> HIDE DEF K, rest, restSize
<1>6. Used' = Used \cup {reg} /\ Regions' \ Used' = (Unused \ {reg}) \cup {rest}
  <2>1. Used' = {a \in K : HEAP_MEMORY_USED \in meta'[a]}
    BY <1>3 DEF Used
  <2>2. ASSUME NEW a \in K
        PROVE  HEAP_MEMORY_USED \in meta'[a] <=> a \in Used \cup {reg}
    <3>1. CASE a = rest
      BY <1>1, <1>3, <3>1, SoundFacts
    <3>2. CASE a = reg
      BY <1>3, <3>2
    <3>3. CASE a # rest /\ a # reg
      BY <1>3, <1>5, <3>3 DEF Used
    <3> QED BY <3>1, <3>2, <3>3
  <2>3. Used' = Used \cup {reg}
    BY <1>1, <1>5, <2>1, <2>2, SoundFacts
  <2> QED BY <1>1, <1>3, <1>5, <2>3, SoundFacts DEF Unused
<1>7. ListsSound'
  BY <1>3, <1>6 DEF ListsSound, ListOf
<1>8. Tiled'
  <2>1. AreaSize \in K
    BY <1>5, SoundFacts DEF Tiles
  <2>2. ASSUME NEW a \in K
        PROVE  /\ AreaSize <= a
               /\ a + HeaderSize + size'[a] \in K \cup {TiledEnd}
               /\ a + HeaderSize + size'[a] <= TiledEnd
               /\ \A b \in K : a < b => a + HeaderSize + size'[a] <= b
    <3>0. AreaSize <= reg
      BY <1>1, SoundFacts DEF Tiles
    <3>1. CASE a = rest
      <4>1. AreaSize <= rest
        BY <1>1, <3>0, SoundFacts
      <4>2. \A b \in K : ~ (rest < b)
        BY <1>1, <1>2, <1>5
      <4> QED BY <1>1, <1>3, <3>1, <4>1, <4>2, SoundFacts
    <3>2. CASE a = reg
      <4>1. reg + HeaderSize + size'[reg] = rest /\ rest <= TiledEnd
        BY <1>1, <1>3, <1>4, SoundFacts
      <4>2. \A b \in K : reg < b => b = rest
        BY <1>1, <1>2, <1>5
      <4> QED BY <1>1, <1>5, <3>0, <3>2, <4>1, <4>2
    <3>3. CASE a # rest /\ a # reg
      <4>1. a \in Regions /\ size'[a] = size[a]
        BY <1>3, <1>5, <3>3
      <4>2. /\ AreaSize <= a
            /\ a + HeaderSize + size[a] \in Regions \cup {TiledEnd}
            /\ a + HeaderSize + size[a] <= TiledEnd
            /\ \A b \in Regions : a < b => a + HeaderSize + size[a] <= b
        BY <4>1, SoundFacts DEF Tiles
      <4>3. a + HeaderSize + size[a] <= rest
        <5>1. a < reg
          BY <1>1, <1>2, <3>3, <4>1
        <5>2. a + HeaderSize + size[a] <= reg
          BY <1>1, <4>2, <5>1
        <5> QED BY <1>1, <1>2, <4>1, <5>2, SoundFacts
      <4> QED BY <1>5, <4>1, <4>2, <4>3
    <3> QED BY <3>1, <3>2, <3>3
  <2> QED BY <1>3, <2>1, <2>2 DEF Tiled, End, TiledEnd
<1>9. TopIsFree'
  <2>1. rest \in Regions' \ Used' /\ End(rest)' = TiledEnd /\ AreaSize <= size'[rest]
    BY <1>1, <1>3, <1>6 DEF End
  <2> QED BY <2>1 DEF TopIsFree, TopRegion, TiledEnd
<1>10. HeldAreUsed'
  <2>1. DOMAIN held \cup {reg} = Used'
    BY <1>6, SoundFacts
  <2>2. \A a \in Used' : held'[a] = size'[a]
    <3> SUFFICES ASSUME NEW a \in Used' PROVE held'[a] = size'[a]
      OBVIOUS
    <3>1. CASE a = reg
      BY <1>3, <2>1, <3>1
    <3>2. CASE a # reg
      BY <1>3, <1>6, <2>1, <3>2, SoundFacts
    <3> QED BY <3>1, <3>2
  <2>3. held' = [a \in Used' |-> held'[a]]
    BY <2>1
  <2> QED BY <2>2, <2>3 DEF HeldAreUsed
<1>11. HeadMerged'
  <2>0. free_head' \in (Unused \ {reg}) \cup {rest}
        /\ \A a \in (Unused \ {reg}) \cup {rest} : free_head' <= a
    BY <1>3 DEF ListOf
  <2>1. CASE free_head' = rest
    BY <1>1, <1>3, <2>1 DEF HeadMerged, End, TiledEnd
  <2>2. CASE free_head' # rest
    <3>1. free_head' \in Unused \ {reg} /\ \A a \in Unused \ {reg} : free_head' <= a
      BY <2>0, <2>2
    <3>2. free_head = free_head'
      <4>1. free_head \in Unused /\ \A a \in Unused : free_head <= a
        BY <3>1, SoundFacts DEF ListOf
      <4>2. /\ free_head' \in Nat /\ free_head' # reg /\ free_head' <= reg
            /\ free_head \in Nat /\ free_head <= free_head'
        BY <1>2, <3>1, <4>1 DEF Unused
      <4>3. free_head # reg
        BY <1>1, <4>2
      <4>4. free_head' <= free_head
        BY <3>1, <4>1, <4>3
      <4> QED BY <4>2, <4>4
    <3>3. free_head # 0 /\ free_head \in Regions /\ free_head # reg
      BY <3>1, <3>2, SoundFacts DEF Unused
    <3>4. free_head + HeaderSize + size[free_head] \in Used
      <4>1. End(free_head) \in Used \cup {TiledEnd}
        BY <3>3 DEF Sound, HeadMerged
      <4>2. End(free_head) <= reg
        BY <1>1, <3>3, TopIsLast
      <4>3. reg < TiledEnd
        BY <1>1, SoundFacts
      <4>4. End(free_head) # TiledEnd
        BY <1>1, <4>2, <4>3, SoundFacts
      <4> QED BY <4>1, <4>4 DEF End
    <3>5. size'[free_head] = size[free_head]
      BY <1>3, <3>3
    <3> QED BY <1>6, <3>2, <3>4, <3>5 DEF HeadMerged, End
  <2> QED BY <2>1, <2>2
<1> QED BY <1>6, <1>7, <1>8, <1>9, <1>10, <1>11 DEF Sound

\* Every region begins inside the host block.
LEMMA RegionsInside ==
  ASSUME TypeOK, Sound, NEW a \in Regions
  PROVE  a \in AreaSize .. InitialSize - 1
<1>1. PICK t \in Regions : TopRegion(t) /\ AreaSize <= size[t]
  BY DEF Sound, TopIsFree
<1>2. a <= t /\ t + HeaderSize + size[t] = TiledEnd
  BY <1>1, TopIsLast DEF TopRegion, End
<1>3. /\ a \in Nat /\ t \in Nat /\ size[t] \in Nat /\ AreaSize <= a
      /\ HeaderSize \in Nat /\ HeaderSize > 0 /\ AreaSize \in Nat
  BY SoundFacts DEF Tiles
<1> QED BY <1>1, <1>2, <1>3, HeapAssumption DEF TiledEnd

\* The blocks freed before still read as free after a careful Malloc, those that
\* it covers excepted.
LEMMA CarefulMallocReads ==
  ASSUME TypeOK, Sound, FreedReadFree, NEW reg \in Unused, TopRegion(reg),
         NEW s \in Requests, s + HeaderSize + AreaSize <= size[reg],
         NEW o, CarvedAs(o, reg, s), next' = o.next, written' = o.written,
         Used' = Used \cup {reg},
         freed' = freed \ (reg .. reg + HeaderSize + s + HeaderSize - 1)
  PROVE  FreedReadFree'
<1> DEFINE rest == reg + HeaderSize + s
<1>1. /\ reg \in Nat /\ s \in Nat /\ rest \in Nat /\ reg < rest
      /\ HeaderSize \in Nat /\ HeaderSize > 0 /\ freed \subseteq Nat
  BY RestFacts, SoundFacts DEF TypeOK
<1>2. Regions' = Regions \cup {rest} /\ written' = written \cup (reg + HeaderSize .. rest - 1)
  BY DEF CarvedAs, Regions
<1>3. SUFFICES ASSUME NEW a \in freed'
               PROVE  a \in Regions' \ Used' \/ (a \notin Regions' /\ ~ MayReadUsed(a)')
  BY DEF FreedReadFree
<1>4. /\ a \in freed /\ a \in Nat /\ (a < reg \/ rest + HeaderSize <= a)
      /\ a # reg /\ a # rest
  BY <1>1, <1>3
<1>5. CASE a \in Regions \ Used
  BY <1>2, <1>4, <1>5
<1>6. CASE a \notin Regions /\ ~ MayReadUsed(a)
  <2>1. a \notin Regions'
    BY <1>2, <1>4, <1>6
  <2>2. a \notin written'
    BY <1>1, <1>2, <1>4, <1>6 DEF MayReadUsed
  <2>3. ASSUME NEW b \in Regions', b < a, a < b + HeaderSize PROVE FALSE
    <3>1. CASE b = rest
      BY <1>1, <1>4, <2>3, <3>1
    <3>2. CASE b \in Regions
      BY <1>6, <2>3, <3>2 DEF MayReadUsed
    <3> QED BY <1>2, <3>1, <3>2
  <2>4. a \in AreaSize .. InitialSize - 1
    BY <1>6 DEF MayReadUsed
  <2> HIDE DEF rest
  <2> QED BY <2>1, <2>2, <2>3, <2>4 DEF MayReadUsed
<1> QED BY <1>4, <1>5, <1>6 DEF FreedReadFree

-----------------------------------------------------------------------------
(***************************************************************************)
(* Free.                                                                   *)
(***************************************************************************)

\* The outcome of a Free of the block at a.
FreedAs(o, a) ==
  LET K == DOMAIN o.next
      F == Unused \cup {a}
  IN /\ K \subseteq Regions /\ Used \ {a} \subseteq K
     /\ \A b \in K : o.meta[b] = IF b = a THEN Unmark(meta[b]) ELSE meta[b]
     /\ \A b \in Used \ {a} : o.size[b] = size[b]
     /\ Tiles(o.size, K)
     /\ ListOf(o.used_head, o.next, Used \ {a})
     /\ ListOf(o.free_head, o.next, F \cap K)
     /\ \E t \in F \cap K : t + HeaderSize + o.size[t] = TiledEnd /\ AreaSize <= o.size[t]
     /\ o.free_head \in K /\ o.free_head + HeaderSize + o.size[o.free_head] \notin F
     /\ o.written \subseteq written /\ o.written \cap (Regions \ K) = {}

\* The three list operations of a Free yield an outcome of Release.
LEMMA ReleaseHas ==
  ASSUME NEW a, NEW mt, NEW sz, NEW nx,
         NEW u \in RegionRemove(used_head, nx, a),
         NEW f \in RegionAppend(free_head, u.next, a),
         NEW m \in AttemptMergeWithAdjacent(f.head, sz, f.next)
  PROVE  [free_head |-> f.head, used_head |-> u.head,
          meta |-> [b \in DOMAIN m.next |->
                      IF b = a THEN Unmark(mt[b]) ELSE mt[b]],
          size |-> m.size, next |-> m.next, written |-> written \ m.cleared] \in Release(a, mt, sz, nx)
<1> DEFINE o(v, g, n) == [free_head |-> g.head, used_head |-> v.head,
                          meta |-> [b \in DOMAIN n.next |->
                                      IF b = a THEN Unmark(mt[b]) ELSE mt[b]],
                          size |-> n.size, next |-> n.next, written |-> written \ n.cleared]
<1>1. Release(a, mt, sz, nx) =
        UNION {UNION {{o(v, g, n) : n \in AttemptMergeWithAdjacent(g.head, sz, g.next)} :
                        g \in RegionAppend(free_head, v.next, a)} :
                 v \in RegionRemove(used_head, nx, a)}
  BY DEF Release
<1> HIDE DEF o
<1>2. o(u, f, m) \in Release(a, mt, sz, nx)
  BY <1>1
<1> QED BY <1>2 DEF o

\* In a sound heap Free comes back, and what it leaves is again tiled and
\* listed, without the block at a.
LEMMA SoundFree ==
  ASSUME TypeOK, Sound, NEW a \in Used
  PROVE  /\ Release(a, meta, size, next) # {}
         /\ \A o \in Release(a, meta, size, next) : FreedAs(o, a)
<1> DEFINE F == Unused \cup {a}
<1>1. /\ Regions \subseteq Nat \ {0} /\ next \in [Regions -> Nat] /\ size \in [Regions -> SizeT]
      /\ Tiles(size, Regions) /\ TiledEnd \in Nat /\ DOMAIN next = Regions
      /\ \A b \in Regions : b <= TiledEnd
      /\ ListOf(used_head, next, Used) /\ ListOf(free_head, next, Unused)
  BY SoundFacts
<1>2. /\ a \in Regions /\ a \notin Unused /\ F \in SUBSET Regions /\ F # {}
      /\ Unused \in SUBSET Regions /\ Used \in SUBSET Regions
      /\ Regions \ F = Used \ {a}
  BY SoundFacts DEF Unused
<1>3. PICK top \in Unused : top + HeaderSize + size[top] = TiledEnd /\ AreaSize <= size[top]
  BY DEF Sound, TopIsFree, TopRegion, End, Unused
<1>4. top \in F
  OBVIOUS
<1> HIDE DEF F
<1>5. ASSUME NEW u \in RegionRemove(used_head, next, a)
      PROVE  Relinked(u, next, Regions, Used \ {a}) /\ ListOf(free_head, u.next, Unused)
  <2>1. Relinked(u, next, Regions, Used \ {a})
    BY <1>1, <1>2, RemoveSorted
  <2>2. \A b \in Unused : u.next[b] = next[b]
    BY <1>2, <2>1 DEF Relinked, Unused
  <2> QED BY <1>1, <2>1, <2>2, ListFrame
<1>6. ASSUME NEW u \in RegionRemove(used_head, next, a),
             NEW f \in RegionAppend(free_head, u.next, a)
      PROVE  Relinked(f, u.next, Regions, F)
  <2>1. u.next \in [Regions -> Nat] /\ ListOf(free_head, u.next, Unused)
    BY <1>5 DEF Relinked
  <2>2. a \in Regions \ Unused
    BY <1>2
  <2>3. Relinked(f, u.next, Regions, Unused \cup {a})
    BY <1>1, <1>2, <2>1, <2>2, AppendSorted
  <2> QED BY <2>3 DEF F
<1>7. Release(a, meta, size, next) # {}
  <2>1. PICK u \in RegionRemove(used_head, next, a) : TRUE
    <3>1. /\ DOMAIN next \subseteq Nat /\ Used \in SUBSET DOMAIN next
          /\ ListOf(used_head, next, Used) /\ TiledEnd \in Nat
          /\ \A b \in Used : b <= TiledEnd
      BY <1>1, <1>2
    <3>2. RegionRemove(used_head, next, a) # {}
      BY <3>1, RemoveReturns
    <3> QED BY <3>2
  <2>2. PICK f \in RegionAppend(free_head, u.next, a) : TRUE
    <3>1. u.next \in [Regions -> Nat] /\ ListOf(free_head, u.next, Unused)
      BY <1>5 DEF Relinked
    <3>2. /\ DOMAIN u.next \subseteq Nat /\ Unused \in SUBSET DOMAIN u.next
          /\ \A b \in Unused : b <= TiledEnd
      BY <1>1, <1>2, <3>1
    <3> QED BY <1>1, <3>1, <3>2, AppendReturns
  <2>3. PICK m \in AttemptMergeWithAdjacent(f.head, size, f.next) : TRUE
    <3>1. f.next \in [Regions -> Nat] /\ ListOf(f.head, f.next, F)
      BY <1>6 DEF Relinked
    <3>2. /\ DOMAIN f.next \subseteq Nat /\ F \in SUBSET DOMAIN f.next
          /\ \A b \in F : b <= TiledEnd
      BY <1>1, <1>2, <3>1
    <3> QED BY <1>1, <1>2, <3>1, <3>2, MergeReturns
  <2>4. [free_head |-> f.head, used_head |-> u.head,
         meta |-> [b \in DOMAIN m.next |->
                     IF b = a THEN Unmark(meta[b]) ELSE meta[b]],
         size |-> m.size, next |-> m.next, written |-> written \ m.cleared] \in Release(a, meta, size, next)
    BY <2>1, <2>2, <2>3, ReleaseHas
  <2> QED BY <2>4
<1>8. ASSUME NEW o \in Release(a, meta, size, next) PROVE FreedAs(o, a)
  <2>1. PICK u \in RegionRemove(used_head, next, a) :
          \E f \in RegionAppend(free_head, u.next, a) :
            \E m \in AttemptMergeWithAdjacent(f.head, size, f.next) :
              o = [free_head |-> f.head, used_head |-> u.head,
                   meta |-> [b \in DOMAIN m.next |->
                               IF b = a THEN Unmark(meta[b]) ELSE meta[b]],
                   size |-> m.size, next |-> m.next, written |-> written \ m.cleared]
    BY ReleaseIs
  <2>2. PICK f \in RegionAppend(free_head, u.next, a) :
          \E m \in AttemptMergeWithAdjacent(f.head, size, f.next) :
            o = [free_head |-> f.head, used_head |-> u.head,
                 meta |-> [b \in DOMAIN m.next |->
                             IF b = a THEN Unmark(meta[b]) ELSE meta[b]],
                 size |-> m.size, next |-> m.next, written |-> written \ m.cleared]
    BY <2>1
  <2>3. PICK m \in AttemptMergeWithAdjacent(f.head, size, f.next) :
          o = [free_head |-> f.head, used_head |-> u.head,
               meta |-> [b \in DOMAIN m.next |->
                           IF b = a THEN Unmark(meta[b]) ELSE meta[b]],
               size |-> m.size, next |-> m.next, written |-> written \ m.cleared]
    BY <2>2
  <2>4. Relinked(u, next, Regions, Used \ {a}) /\ Relinked(f, u.next, Regions, F)
    BY <1>5, <1>6
  <2>5. f.next \in [Regions -> Nat] /\ ListOf(f.head, f.next, F)
    BY <2>4 DEF Relinked
  <2>6. /\ DOMAIN m.next \subseteq Regions /\ Regions \ F \subseteq DOMAIN m.next
        /\ ListOf(f.head, m.next, F \cap DOMAIN m.next)
        /\ Tiles(m.size, DOMAIN m.next)
        /\ \E t \in F \cap DOMAIN m.next :
             t + HeaderSize + m.size[t] = TiledEnd /\ AreaSize <= m.size[t]
        /\ \A b \in Regions \ F : m.next[b] = f.next[b] /\ m.size[b] = size[b]
        /\ f.head \in DOMAIN m.next /\ f.head + HeaderSize + m.size[f.head] \notin F
        /\ Regions \ DOMAIN m.next \subseteq m.cleared
    <3>1. MergedWell(f.head, F, size, f.next, m)
      BY <1>1, <1>2, <1>3, <1>4, <2>5, MergeSound
    <3> QED BY <3>1 DEF MergedWell
  <2>7. ListOf(u.head, m.next, Used \ {a})
    <3>1. \A b \in Used \ {a} : m.next[b] = u.next[b]
      <4> SUFFICES ASSUME NEW b \in Used \ {a} PROVE m.next[b] = u.next[b]
        OBVIOUS
      <4>1. b \in Regions \ F
        BY <1>2
      <4> QED BY <2>4, <2>6, <4>1 DEF Relinked
    <3>2. ListOf(u.head, u.next, Used \ {a})
      BY <2>4 DEF Relinked
    <3> QED BY <3>1, <3>2, ListFrame
  <2>8. /\ o.next = m.next /\ o.written = written \ m.cleared
    BY <2>3
  <2>9. o.written \subseteq written /\ o.written \cap (Regions \ DOMAIN o.next) = {}
    BY <2>6, <2>8
  <2> QED BY <1>2, <2>3, <2>6, <2>7, <2>9 DEF FreedAs, F
<1> QED BY <1>7, <1>8

\* A heap is sound after a Free.
LEMMA FreeSound ==
  ASSUME TypeOK, Sound, NEW a \in Used, NEW o, FreedAs(o, a),
         free_head' = o.free_head, used_head' = o.used_head,
         meta' = o.meta, size' = o.size, next' = o.next,
         held' = Without(a)
  PROVE  Sound' /\ Used' = Used \ {a}
<1> DEFINE K == DOMAIN o.next
           F == Unused \cup {a}
<1>1. /\ Regions' = K /\ K \subseteq Regions /\ Used \ {a} \subseteq K
      /\ \A b \in K : meta'[b] = IF b = a THEN Unmark(meta[b]) ELSE meta[b]
      /\ \A b \in Used \ {a} : size'[b] = size[b]
      /\ Tiles(size', K)
      /\ ListOf(used_head', next', Used \ {a}) /\ ListOf(free_head', next', F \cap K)
      /\ \E t \in F \cap K : t + HeaderSize + size'[t] = TiledEnd /\ AreaSize <= size'[t]
      /\ free_head' \in K /\ free_head' + HeaderSize + size'[free_head'] \notin F
  BY DEF FreedAs, Regions
<1>2. F = Unused \cup {a}
  OBVIOUS
<1> HIDE DEF K, F
<1>3. Used' = Used \ {a} /\ Regions' \ Used' = F \cap K
  <2>1. Used' = {b \in K : HEAP_MEMORY_USED \in meta'[b]}
    BY <1>1 DEF Used
  <2>2. \A b \in K : HEAP_MEMORY_USED \in meta'[b] <=> b \in Used \ {a}
    BY <1>1 DEF Used, Unmark
  <2>3. Used' = Used \ {a}
    BY <1>1, <2>1, <2>2
  <2> QED BY <1>1, <1>2, <2>3 DEF Unused
<1>4. ListsSound'
  BY <1>1, <1>3 DEF ListsSound, ListOf
<1>5. Tiled'
  BY <1>1 DEF Tiles, Tiled, End, TiledEnd
<1>6. TopIsFree'
  BY <1>1, <1>3 DEF TopIsFree, TopRegion, End, TiledEnd
<1>7. HeldAreUsed'
  <2>1. DOMAIN held \ {a} = Used'
    BY <1>3, SoundFacts
  <2>2. \A b \in Used' : held[b] = size'[b]
    BY <1>1, <1>3, SoundFacts
  <2>3. held' = [b \in Used' |-> held[b]]
    BY <2>1 DEF Without
  <2> QED BY <2>2, <2>3 DEF HeldAreUsed
<1>8. HeadMerged'
  <2>1. free_head' + HeaderSize + size'[free_head'] \in K \cup {TiledEnd}
    BY <1>1 DEF Tiles
  <2>2. K \subseteq Used' \cup F
    BY <1>1, <1>3
  <2> QED BY <1>1, <2>1, <2>2 DEF HeadMerged, End, TiledEnd
<1> QED BY <1>3, <1>4, <1>5, <1>6, <1>7, <1>8 DEF Sound

\* After a Free that block, too, reads as free: its header is that of a free
\* region, or has been cleared with the other absorbed ones.
LEMMA FreeReads ==
  ASSUME TypeOK, Sound, FreedReadFree, NEW a \in Used, NEW o, FreedAs(o, a),
         next' = o.next, written' = o.written, Used' = Used \ {a}, freed' = FreedWith(a)
  PROVE  FreedReadFree'
<1>1. /\ Regions' \subseteq Regions /\ written' \subseteq written
      /\ written' \cap (Regions \ Regions') = {}
  BY DEF FreedAs, Regions
<1>2. SUFFICES ASSUME NEW x \in freed'
               PROVE  x \in Regions' \ Used' \/ (x \notin Regions' /\ ~ MayReadUsed(x)')
  BY DEF FreedReadFree
<1>3. x \in freed \/ x = a
  BY <1>2 DEF FreedWith
<1>4. CASE x \notin Regions /\ ~ MayReadUsed(x)
  BY <1>1, <1>4 DEF MayReadUsed
<1>5. CASE x \in Regions /\ x \notin Used \ {a}
  <2>1. CASE x \in Regions'
    BY <1>5, <2>1
  <2>2. CASE x \notin Regions'
    <3>1. x \notin written'
      BY <1>1, <1>5, <2>2
    <3>2. x \in AreaSize .. InitialSize - 1
      BY <1>5, RegionsInside
    <3>3. ASSUME NEW b \in Regions', b < x, x < b + HeaderSize PROVE FALSE
      <4>1. b \in Regions /\ b + HeaderSize + size[b] <= x
        BY <1>1, <1>5, <3>3, SoundFacts DEF Tiles
      <4>2. b \in Nat /\ x \in Nat /\ size[b] \in Nat /\ HeaderSize \in Nat
        BY <1>5, <4>1, SoundFacts
      <4> QED BY <3>3, <4>1, <4>2
    <3> QED BY <2>2, <3>1, <3>2, <3>3 DEF MayReadUsed
  <2> QED BY <2>1, <2>2
<1>6. CASE x = a
  BY <1>5, <1>6, SoundFacts
<1> QED BY <1>3, <1>4, <1>5, <1>6 DEF FreedReadFree

-----------------------------------------------------------------------------
(***************************************************************************)
(* The inductive invariant, and the four theorems.                         *)
(***************************************************************************)
IInv ==
  /\ TypeOK
  /\ status = "running"
  /\ memory = "live" => Sound /\ FreedReadFree
  /\ memory # "live" => held = EmptyMap /\ freed = {} /\ Regions = {}

\* In a sound heap the search comes back, with a free region or nothing.
LEMMA FindFitReturns ==
  ASSUME TypeOK, Sound, NEW s
  PROVE  RegionFindFit(s) # {} /\ RegionFindFit(s) \ {0} \subseteq Unused
<1> DEFINE W == {b \in Regions : ~ Fits(b, s) /\ next[b] # 0}
<1>1. CASE free_head = 0
  BY <1>1 DEF RegionFindFit, Search
<1>2. CASE free_head # 0
  <2>1. /\ DOMAIN next \subseteq Nat /\ Unused \in SUBSET DOMAIN next /\ Unused # {}
        /\ ListOf(free_head, next, Unused)
        /\ TiledEnd \in Nat /\ \A a \in Unused : a <= TiledEnd
    BY <1>2, SoundFacts DEF Unused, ListOf
  <2>2. \A b \in W : next[b] # 0
    OBVIOUS
  <2> HIDE DEF W
  <2>3. WalkEnd(next, free_head, W) # {}
    BY <2>1, <2>2, WalkEnds
  <2>4. WalkEnd(next, free_head, W) \subseteq Unused
    BY <2>1, <2>2, VisitedInList DEF WalkEnd
  <2>5. RegionFindFit(s) = {IF Fits(a, s) THEN a ELSE 0 : a \in WalkEnd(next, free_head, W)}
    BY <1>2 DEF RegionFindFit, Search, W
  <2> QED BY <2>3, <2>4, <2>5
<1> QED BY <1>1, <1>2

\* The heap that InitializeHeap makes is sound.
LEMMA InitializeSound ==
  ASSUME free_head' = AreaSize, used_head' = 0,
         meta' = [a \in {AreaSize} |-> {}],
         size' = [a \in {AreaSize} |-> InitialSize - HeaderSize],
         next' = [a \in {AreaSize} |-> 0],
         held' = EmptyMap
  PROVE  Sound'
<1>1. /\ Regions' = {AreaSize} /\ Used' = {}
      /\ size'[AreaSize] = InitialSize - HeaderSize /\ next'[AreaSize] = 0
  BY DEF Regions, Used
<1>2. /\ AreaSize \in Nat \ {0} /\ InitialSize \in Nat /\ HeaderSize \in Nat
      /\ AreaSize + HeaderSize <= InitialSize
  BY HeapAssumption
<1>3. AreaSize + HeaderSize + (InitialSize - HeaderSize) = TiledEnd'
  BY <1>2 DEF TiledEnd
<1>4. ListsSound'
  BY <1>1, <1>2 DEF ListsSound, ListOf
<1>5. Tiled'
  BY <1>1, <1>2, <1>3 DEF Tiled, End, TiledEnd
<1>6. TopIsFree'
  BY <1>1, <1>2, <1>3 DEF TopIsFree, TopRegion, End, TiledEnd
<1>7. HeldAreUsed'
  BY <1>1 DEF HeldAreUsed, EmptyMap
<1>8. HeadMerged'
  BY <1>1, <1>2, <1>3 DEF HeadMerged, End, TiledEnd
<1> QED BY <1>4, <1>5, <1>6, <1>7, <1>8 DEF Sound

\* A step that changes nothing keeps a heap sound, and what was freed free.
LEMMA SameHeap ==
  ASSUME UNCHANGED vars
  PROVE  (Sound' <=> Sound) /\ (FreedReadFree' <=> FreedReadFree)
<1>1. Sound' <=> Sound
  BY DEF vars, lists, Sound, ListsSound, Tiled, TopIsFree, HeldAreUsed, HeadMerged, ListOf,
         Used, Regions, TopRegion, End, TiledEnd
<1>2. FreedReadFree' <=> FreedReadFree
  BY DEF vars, lists, FreedReadFree, MayReadUsed, Used, Regions
<1> QED BY <1>1, <1>2

\* A heap that is sound and runs, after which blocks freed before still read as
\* free, and a step of BlockStore.
GoodStep ==
  /\ status' = "running" /\ memory' = "live" /\ Sound'
  /\ FreedReadFree => FreedReadFree'
  /\ Blocks!Next \/ UNCHANGED held

\* What a careful Malloc does to the heap and to the blocks.
LEMMA MallocStep ==
  ASSUME TypeOK, Healthy, NEW s \in Requests, CarefulRequest(s), Malloc(s)
  PROVE  GoodStep
<1>1. TypeOK /\ Sound /\ status = "running" /\ memory = "live"
  BY DEF Healthy
<1>2. CASE UNCHANGED vars
  BY <1>1, <1>2, SameHeap DEF vars, GoodStep
<1>3. ASSUME NEW reg \in RegionFindFit(s) \ {0}, s # 0, HandOut(reg, s)
      PROVE  GoodStep
  <2>1. reg \in Unused /\ TopRegion(reg) /\ s + HeaderSize + AreaSize <= size[reg]
    BY <1>1, <1>3, FindFitReturns DEF CarefulRequest
  <2>2. Carve(reg, s) # {} /\ \A o \in Carve(reg, s) : CarvedAs(o, reg, s)
    BY <1>1, <2>1, CarefulCarve
  <2>3. PICK o \in Carve(reg, s) :
          /\ free_head' = o.free_head /\ used_head' = o.used_head
          /\ meta' = o.meta /\ size' = o.size /\ next' = o.next
          /\ written' = o.written
    BY <1>3, <2>2 DEF HandOut, Return
  <2>4. /\ held' = [a \in DOMAIN held \cup {reg} |-> IF a = reg THEN s ELSE held[a]]
        /\ freed' = freed \ (reg .. reg + HeaderSize + s + HeaderSize - 1)
        /\ status' = "running" /\ memory' = "live"
    BY <1>1, <1>3, <2>2 DEF HandOut, Return
  <2>5. Sound' /\ Used' = Used \cup {reg}
    BY <1>1, <2>1, <2>2, <2>3, <2>4, CarefulMallocSound
  <2>5a. FreedReadFree => FreedReadFree'
    BY <1>1, <2>1, <2>2, <2>3, <2>4, <2>5, CarefulMallocReads
  <2>6. Blocks!Room(reg, s)
    <3>1. /\ AreaSize <= reg /\ reg + HeaderSize + size[reg] = TiledEnd
          /\ reg \in Nat /\ reg \in Regions /\ reg \notin Used /\ s \in Nat /\ size[reg] \in Nat
      BY <1>1, <2>1, SoundFacts, RestFacts DEF Tiles, Unused
    <3>2. reg + HeaderSize + s <= InitialSize
      BY <2>1, <3>1, HeapAssumption DEF TiledEnd
    <3>3. ASSUME NEW b \in DOMAIN held PROVE b + HeaderSize + held[b] <= reg
      <4>1. b \in Regions \ {reg} /\ held[b] = size[b]
        BY <1>1, <3>1, SoundFacts
      <4>2. End(b) <= reg
        BY <1>1, <2>1, <3>1, <4>1, TopIsLast
      <4> QED BY <4>1, <4>2 DEF End
    <3> QED BY <3>1, <3>2, <3>3 DEF Blocks!Room
  <2>7. Blocks!Allocate(reg, s) /\ reg \in AreaSize .. InitialSize /\ s \in Requests \ {0}
    <3>1. reg \in Nat /\ s \in Nat /\ AreaSize <= reg /\ reg + HeaderSize + s <= InitialSize
      BY <1>1, <2>1, <2>6, SoundFacts, RestFacts DEF Blocks!Room
    <3>2. reg \in AreaSize .. InitialSize
      BY <3>1, HeapAssumption
    <3> QED BY <1>3, <2>4, <2>6, <3>2 DEF Blocks!Allocate
  <2> QED BY <2>4, <2>5, <2>5a, <2>7 DEF Blocks!Next, GoodStep
<1>4. RegionFindFit(s) # {}
  BY <1>1, FindFitReturns
<1> QED BY <1>1, <1>2, <1>3, <1>4 DEF Malloc, Refuse

\* What a Free does to the heap and to the blocks, other than that of bytes where
\* no header begins.
LEMMA FreeStep ==
  ASSUME TypeOK, Healthy, NEW a, Free(a), ~ FreeBytes(a)
  PROVE  GoodStep
<1>1. TypeOK /\ Sound /\ status = "running" /\ memory = "live"
  BY DEF Healthy
<1>2. CASE UNCHANGED vars
  BY <1>1, <1>2, SameHeap DEF vars, GoodStep
<1>3. CASE a \in Used /\ Return(Release(a, meta, size, next), Without(a), FreedWith(a))
  <2>1. /\ Release(a, meta, size, next) # {}
        /\ \A o \in Release(a, meta, size, next) : FreedAs(o, a)
    BY <1>1, <1>3, SoundFree
  <2>2. PICK o \in Release(a, meta, size, next) :
          /\ free_head' = o.free_head /\ used_head' = o.used_head
          /\ meta' = o.meta /\ size' = o.size /\ next' = o.next
          /\ written' = o.written
    BY <1>3, <2>1 DEF Return
  <2>3. held' = Without(a) /\ freed' = FreedWith(a) /\ status' = "running" /\ memory' = "live"
    BY <1>1, <1>3, <2>1 DEF Return
  <2>4. Sound' /\ Used' = Used \ {a}
    BY <1>1, <1>3, <2>1, <2>2, <2>3, FreeSound
  <2>4a. FreedReadFree => FreedReadFree'
    BY <1>1, <1>3, <2>1, <2>2, <2>3, <2>4, FreeReads
  <2>5. a \in DOMAIN held
    BY <1>1, <1>3, SoundFacts
  <2>6. Blocks!Release(a)
    BY <2>3, <2>5 DEF Blocks!Release, Without
  <2> QED BY <2>3, <2>4, <2>4a, <2>5, <2>6 DEF Blocks!Next, GoodStep
<1> QED BY <1>1, <1>2, <1>3 DEF Free

\* What a client holds or has freed does not read as bytes in use without a
\* header.
LEMMA NoBytes ==
  ASSUME TypeOK, Sound, FreedReadFree, NEW a \in DOMAIN held \cup freed \cup {0}
  PROVE  ~ FreeBytes(a)
<1>1. DOMAIN held \subseteq Regions
  BY SoundFacts
<1> QED BY <1>1 DEF FreeBytes, FreedReadFree

\* Every step of a careful client keeps the invariant, and is a step of
\* BlockStore or leaves the blocks alone.
LEMMA CarefulStep ==
  ASSUME IInv, [CarefulNext]_vars
  PROVE  IInv' /\ (Blocks!Next \/ UNCHANGED held)
<1>1. TypeOK'
  <2>1. DOMAIN held \cup freed \cup {0} \subseteq Addresses \/ memory # "live"
    <3> SUFFICES ASSUME memory = "live", NEW a \in DOMAIN held \cup freed \cup {0}
                 PROVE  a \in Addresses
      OBVIOUS
    <3>1. TypeOK /\ Sound /\ FreedReadFree
      BY DEF IInv
    <3>2. a \in Regions \/ a \in AreaSize .. InitialSize - 1 \/ a = 0
      BY <3>1, SoundFacts DEF FreedReadFree, MayReadUsed
    <3>3. a = 0 \/ a \in AreaSize .. InitialSize - 1
      BY <3>1, <3>2, RegionsInside
    <3> QED BY <3>3, HeapAssumption DEF Addresses, LastAddress, TiledEnd
  <2>2. [Next]_vars
    BY <2>1 DEF CarefulNext, Next, LifeCycle
  <2> QED BY <2>2, TypeNext DEF IInv
<1>2. CASE UNCHANGED vars
  BY <1>1, <1>2, SameHeap DEF IInv, vars, lists, EmptyMap, Regions
<1>3. CASE CreateVirtualMachine
  BY <1>1, <1>3 DEF CreateVirtualMachine, IInv, lists, EmptyMap, Regions
<1>4. ASSUME NoHeap, memory' # "live", UNCHANGED status
      PROVE  IInv' /\ (Blocks!Next \/ UNCHANGED held)
  <2>1. Blocks!Close
    BY <1>4 DEF NoHeap, EmptyMap, Blocks!Close
  <2> QED BY <1>1, <1>4, <2>1 DEF IInv, NoHeap, EmptyMap, Regions, Blocks!Next
<1>5. CASE InitializeHeap
  <2>1. CASE memory' = "null" /\ NoHeap
    BY <1>4, <1>5, <2>1 DEF InitializeHeap
  <2>2. CASE /\ memory' = "live"
             /\ free_head' = AreaSize /\ used_head' = 0
             /\ meta' = [a \in {AreaSize} |-> {}]
             /\ size' = [a \in {AreaSize} |-> InitialSize - HeaderSize]
             /\ next' = [a \in {AreaSize} |-> 0]
             /\ written' = {}
             /\ held' = EmptyMap /\ freed' = {}
    <3>1. Sound'
      BY <2>2, InitializeSound
    <3>2. FreedReadFree'
      BY <2>2 DEF FreedReadFree
    <3>3. Blocks!Close
      BY <2>2 DEF EmptyMap, Blocks!Close
    <3> QED BY <1>1, <1>5, <2>2, <3>1, <3>2, <3>3 DEF InitializeHeap, IInv, Blocks!Next
  <2> QED BY <1>5, <2>1, <2>2 DEF InitializeHeap
<1>6. CASE memory # "freed" /\ DestroyVirtualMachine
  BY <1>2, <1>4, <1>6 DEF DestroyVirtualMachine
<1>7. CASE memory = "live" /\ \E s \in Requests : CarefulRequest(s) /\ Malloc(s)
  BY <1>1, <1>7, MallocStep DEF IInv, Healthy, GoodStep
<1>8. CASE memory = "live" /\ \E a \in DOMAIN held \cup freed \cup {0} : Free(a)
  <2>1. PICK a \in DOMAIN held \cup freed \cup {0} : Free(a)
    BY <1>8
  <2>2. ~ FreeBytes(a) /\ TypeOK /\ Healthy /\ FreedReadFree
    BY <1>8, <2>1, NoBytes DEF IInv, Healthy
  <2> QED BY <1>1, <2>1, <2>2, FreeStep DEF IInv, GoodStep
<1> QED BY <1>2, <1>3, <1>5, <1>6, <1>7, <1>8 DEF CarefulNext

\* The invariant and the initial state of BlockStore hold before any call.
LEMMA InitIInv == Init => IInv /\ Blocks!Init
  BY TypeInit DEF Init, IInv, EmptyMap, Regions, Blocks!Init

\* The inductive invariant of a heap with a careful client.
LEMMA CarefulInvariant == CarefulSpec => []IInv
<1>1. Init => IInv
  BY InitIInv
<1>2. IInv /\ [CarefulNext]_vars => IInv'
  BY CarefulStep
<1> QED BY <1>1, <1>2, PTL DEF CarefulSpec

\* Under a careful client the lists, the tiling and the client's view agree in
\* every reachable state of a live heap, whatever its size and the requests.
THEOREM HeapStaysSound == CarefulSpec => []StaysSound
<1>1. IInv => StaysSound
  BY DEF IInv, StaysSound
<1> QED BY <1>1, CarefulInvariant, PTL

\* Under a careful client every call comes back.
THEOREM HeapNeverLost == CarefulSpec => []NeverLost
<1>1. IInv => NeverLost
  BY DEF IInv, NeverLost
<1> QED BY <1>1, CarefulInvariant, PTL

\* Under a careful client a second Free of a block is reported and does nothing,
\* until a block handed out later covers it.
THEOREM DoubleFreeIsReported == CarefulSpec => []DoubleFreeReported
<1>1. IInv => DoubleFreeReported
  BY DEF IInv, DoubleFreeReported
<1> QED BY <1>1, CarefulInvariant, PTL

\* Under a careful client the heap implements BlockStore.
THEOREM HeapKeepsBlocks == CarefulSpec => KeepsBlocks
<1>1. Init => Blocks!Init
  BY InitIInv
<1>2. IInv /\ [CarefulNext]_vars => [Blocks!Next]_held
  BY CarefulStep
<1> QED BY <1>1, <1>2, CarefulInvariant, PTL DEF CarefulSpec, KeepsBlocks, Blocks!Spec

-----------------------------------------------------------------------------
(***************************************************************************)
(* The search.                                                             *)
(***************************************************************************)

\* What % does to a size that is one already, and to one below zero.
LEMMA Wraps ==
  ASSUME NEW n \in Int
  PROVE  /\ n \in 0 .. SizeMod - 1 => n % SizeMod = n
         /\ n < 0 => n % SizeMod >= n + SizeMod
<1>1. SizeMod \in Nat \ {0}
  BY HeapAssumption
<1> QED BY <1>1

Fitting(s) == {a \in Unused : size[a] + HeaderSize >= s}

\* In a sound heap the test of RegionFindFit does not wrap.
LEMMA FitsIsFitting ==
  ASSUME TypeOK, Sound, NEW a \in Regions, NEW s \in Nat
  PROVE  Fits(a, s) <=> a \in Fitting(s)
<1>1. /\ size[a] \in Nat /\ HeaderSize \in Nat /\ SizeMod \in Nat /\ a \in Nat
      /\ a + HeaderSize + size[a] <= TiledEnd /\ TiledEnd < SizeMod /\ TiledEnd \in Nat
  BY SoundFacts DEF Tiles
<1>2. size[a] + HeaderSize \in 0 .. SizeMod - 1
  BY <1>1
<1>3. (size[a] + HeaderSize) % SizeMod = size[a] + HeaderSize
  BY <1>1, <1>2, Wraps
<1>4. a \in Unused <=> HEAP_MEMORY_USED \notin meta[a]
  BY DEF Unused, Used
<1> QED BY <1>3, <1>4 DEF Fits, Fitting

\* The regions that the search passes are those before every one that fits.
LEMMA SearchPasses ==
  ASSUME TypeOK, Sound, NEW s \in Nat, free_head # 0,
         NEW a \in WalkEnd(next, free_head, {b \in Regions : ~ Fits(b, s) /\ next[b] # 0})
  PROVE  /\ a \in Unused /\ \A x \in Fitting(s) : a <= x
         /\ a \in Fitting(s) \/ Fitting(s) = {}
<1> DEFINE W == {b \in Regions : ~ Fits(b, s) /\ next[b] # 0}
           X == {b \in Unused : \A x \in Fitting(s) : b <= x}
<1>1. /\ DOMAIN next = Regions /\ Regions \subseteq Nat /\ Unused \subseteq Regions
      /\ ListOf(free_head, next, Unused) /\ Fitting(s) \subseteq Unused
  BY SoundFacts DEF Unused, Fitting
<1>2. free_head \in X
  BY <1>1 DEF ListOf
<1>3. \A b \in X \cap W : next[b] \in X
  <2> SUFFICES ASSUME NEW b \in X \cap W PROVE next[b] \in X
    OBVIOUS
  <2>1. b \in Unused /\ next[b] # 0 /\ b \notin Fitting(s) /\ \A x \in Fitting(s) : b <= x
    BY <1>1, FitsIsFitting
  <2>2. next[b] \in Unused /\ \A x \in Unused : x <= b \/ next[b] <= x
    BY <1>1, <2>1 DEF ListOf
  <2>3. ASSUME NEW x \in Fitting(s) PROVE next[b] <= x
    <3>1. b <= x /\ x # b /\ x \in Nat /\ b \in Nat /\ x \in Unused
      BY <1>1, <2>1
    <3>2. ~ (x <= b)
      BY <3>1
    <3> QED BY <2>2, <3>1, <3>2
  <2> QED BY <2>2, <2>3
<1>4. Visited(next, free_head, W) \subseteq X
  <2>1. X \in SUBSET DOMAIN next
    BY <1>1
  <2> HIDE DEF W, X
  <2> QED BY <1>2, <1>3, <2>1, VisitedIn
<1>5. a \in X /\ a \notin W
  BY <1>4 DEF WalkEnd
<1>6. a \in Fitting(s) \/ next[a] = 0
  BY <1>1, <1>5, FitsIsFitting
<1>7. ASSUME next[a] = 0, NEW x \in Fitting(s) PROVE a \in Fitting(s)
  <2>1. a <= x /\ x \in Nat /\ a \in Nat /\ a \in Unused /\ x \in Unused
    BY <1>1, <1>5
  <2>2. x <= a
    BY <1>1, <1>7, <2>1 DEF ListOf
  <2>3. x = a
    BY <2>1, <2>2
  <2> QED BY <2>3
<1> QED BY <1>5, <1>6, <1>7

\* The search finds the lowest free region that passes the test, and comes back
\* with nothing only if there is none (RegionFindFit).
LEMMA FindFitIsFirst ==
  ASSUME TypeOK, Sound, NEW s \in Nat
  PROVE  RegionFindFit(s) = IF Fitting(s) = {} THEN {0}
                            ELSE {a \in Fitting(s) : \A b \in Fitting(s) : a <= b}
<1> DEFINE W == {b \in Regions : ~ Fits(b, s) /\ next[b] # 0}
<1>1. Fitting(s) \subseteq Unused /\ Unused \subseteq Regions /\ Regions \subseteq Nat \ {0}
  BY SoundFacts DEF Fitting, Unused
<1>2. RegionFindFit(s) # {}
  BY FindFitReturns
<1>3. CASE free_head = 0
  <2>1. Unused = {}
    BY <1>3, SoundFacts DEF ListOf
  <2> QED BY <1>1, <1>3, <2>1 DEF RegionFindFit, Search
<1>4. CASE free_head # 0
  <2>1. RegionFindFit(s) = {IF Fits(a, s) THEN a ELSE 0 : a \in WalkEnd(next, free_head, W)}
    BY <1>4 DEF RegionFindFit, Search
  <2>2. ASSUME NEW a \in WalkEnd(next, free_head, W)
        PROVE  /\ a \in Unused /\ \A x \in Fitting(s) : a <= x
               /\ a \in Fitting(s) \/ Fitting(s) = {}
               /\ Fits(a, s) <=> a \in Fitting(s)
    BY <1>1, <1>4, SearchPasses, FitsIsFitting
  <2> HIDE DEF W
  <2>3. CASE Fitting(s) = {}
    <3>1. \A r \in RegionFindFit(s) : r = 0
      BY <2>1, <2>2, <2>3
    <3> QED BY <1>2, <2>3, <3>1
  <2>4. CASE Fitting(s) # {}
    <3>1. \A r \in RegionFindFit(s) : r \in Fitting(s) /\ \A x \in Fitting(s) : r <= x
      BY <2>1, <2>2, <2>4
    <3>2. \A r, x \in Fitting(s) :
            (\A y \in Fitting(s) : r <= y) /\ (\A y \in Fitting(s) : x <= y) => x = r
      <4> SUFFICES ASSUME NEW r \in Fitting(s), NEW x \in Fitting(s),
                          \A y \in Fitting(s) : r <= y, \A y \in Fitting(s) : x <= y
                   PROVE  x = r
        OBVIOUS
      <4>1. r <= x /\ x <= r /\ r \in Nat /\ x \in Nat
        BY <1>1
      <4> QED BY <4>1
    <3>3. PICK r \in RegionFindFit(s) : r \in Fitting(s) /\ \A x \in Fitting(s) : r <= x
      BY <1>2, <3>1
    <3> QED BY <2>4, <3>1, <3>2, <3>3
  <2> QED BY <2>3, <2>4
<1> QED BY <1>3, <1>4

\* Under a careful client Malloc reports "out of memory" only when no free region
\* passes the test, and otherwise takes the lowest one that does.
THEOREM MallocIsFirstFit == CarefulSpec => []FirstFit
<1>1. IInv => FirstFit
  <2> SUFFICES ASSUME IInv, memory = "live", NEW s \in Requests
               PROVE  LET fitting == {a \in Regions \ Used : size[a] + HeaderSize >= s}
                      IN RegionFindFit(s) = IF fitting = {} THEN {0}
                                            ELSE {a \in fitting : \A b \in fitting : a <= b}
    BY DEF FirstFit
  <2>1. s \in Nat
    BY HeapAssumption
  <2>2. TypeOK /\ Sound
    BY DEF IInv
  <2> QED BY <2>1, <2>2, FindFitIsFirst DEF Fitting, Unused
<1> QED BY <1>1, CarefulInvariant, PTL

-----------------------------------------------------------------------------
\* A sound heap without used regions is one region, the one at its start.
LEMMA EmptyIsOneRegion ==
  ASSUME TypeOK, Sound, Used = {}
  PROVE  /\ Regions = {AreaSize} /\ free_head = AreaSize /\ used_head = 0 /\ next[AreaSize] = 0
         /\ size = [a \in {AreaSize} |-> InitialSize - HeaderSize]
<1>1. /\ Tiles(size, Regions) /\ Regions \subseteq Nat \ {0} /\ size \in [Regions -> SizeT]
      /\ ListOf(used_head, next, {}) /\ ListOf(free_head, next, Regions)
      /\ \A a \in Regions : size[a] \in Nat
      /\ HeaderSize \in Nat /\ HeaderSize > 0 /\ AreaSize \in Nat /\ InitialSize \in Nat
  BY SoundFacts, HeapAssumption DEF Unused
<1>2. free_head = AreaSize
  <2>1. AreaSize \in Regions /\ \A a \in Regions : AreaSize <= a
    BY <1>1 DEF Tiles
  <2>2. free_head \in Regions /\ free_head <= AreaSize
    BY <1>1, <2>1 DEF ListOf
  <2>3. free_head \in Nat /\ AreaSize <= free_head
    BY <1>1, <2>1, <2>2
  <2> QED BY <1>1, <2>2, <2>3
<1>3. AreaSize + HeaderSize + size[AreaSize] = TiledEnd
  <2>1. HeadMerged /\ AreaSize # 0
    BY HeapAssumption DEF Sound
  <2>2. End(AreaSize) \in {TiledEnd}
    BY <1>2, <2>1 DEF HeadMerged
  <2> QED BY <2>2 DEF End
<1>4. ASSUME NEW b \in Regions PROVE b = AreaSize
  <2>1. AreaSize <= b /\ b + HeaderSize + size[b] <= TiledEnd /\ b \in Nat /\ size[b] \in Nat
    BY <1>1 DEF Tiles
  <2>2. ~ (AreaSize < b)
    <3>1. AreaSize < b => TiledEnd <= b
      BY <1>1, <1>3 DEF Tiles
    <3> QED BY <1>1, <2>1, <3>1 DEF TiledEnd
  <2> QED BY <1>1, <2>1, <2>2
<1>5. Regions = {AreaSize}
  BY <1>1, <1>4 DEF Tiles
<1>6. size[AreaSize] = InitialSize - HeaderSize
  <2>1. size[AreaSize] \in Nat
    BY <1>1, <1>5
  <2> QED BY <1>1, <1>3, <2>1 DEF TiledEnd
<1> QED BY <1>1, <1>2, <1>5, <1>6 DEF ListOf

\* When a careful client has given back every block, in whatever order, the heap
\* is what InitializeHeap made of it.
THEOREM EmptiedHeapIsFresh == CarefulSpec => []FreshWhenEmpty
<1>1. IInv => FreshWhenEmpty
  <2> SUFFICES ASSUME IInv, memory = "live", DOMAIN held = {}
               PROVE  /\ CountRegions(used_head) = 0 /\ CountRegions(free_head) = 1
                      /\ size = [a \in {AreaSize} |-> InitialSize - HeaderSize]
    BY DEF FreshWhenEmpty
  <2>1. TypeOK /\ Sound
    BY DEF IInv
  <2>2. Used = {}
    BY <2>1, SoundFacts
  <2>3. /\ Regions = {AreaSize} /\ free_head = AreaSize /\ used_head = 0 /\ next[AreaSize] = 0
        /\ size = [a \in {AreaSize} |-> InitialSize - HeaderSize]
    BY <2>1, <2>2, EmptyIsOneRegion
  <2>4. Visited(next, AreaSize, {b \in Regions : next[b] # 0}) = {AreaSize}
    <3>1. {b \in Regions : next[b] # 0} = {} /\ AreaSize \in DOMAIN next
      BY <2>3 DEF Regions
    <3>2. AreaSize \in Visited(next, AreaSize, {})
      BY <3>1, VisitedClosed
    <3>3. Visited(next, AreaSize, {}) \subseteq {AreaSize}
      <4>1. {AreaSize} \in SUBSET DOMAIN next /\ AreaSize \in {AreaSize}
            /\ \A b \in {AreaSize} \cap {} : next[b] \in DOMAIN next => next[b] \in {AreaSize}
        BY <3>1
      <4> QED BY <4>1, VisitedIn, Zenon
    <3> QED BY <3>1, <3>2, <3>3
  <2>5. CountRegions(free_head) = 1
    BY <2>3, <2>4, FS_Singleton, HeapAssumption DEF CountRegions
  <2> QED BY <2>3, <2>5 DEF CountRegions
<1> QED BY <1>1, CarefulInvariant, PTL

-----------------------------------------------------------------------------
(***************************************************************************)
(* A Malloc that is not careful: what it leaves is never sound.            *)
(***************************************************************************)

\* What every outcome of a split holds, whatever the lists are like afterwards.
SplitAs(o, reg, s) ==
  LET rest == reg + HeaderSize + s
  IN /\ DOMAIN o.next = (Regions \ HeadersIn(Regions, rest, rest + HeaderSize)) \cup {rest}
     /\ o.size[rest] = (size[reg] - s - HeaderSize) % SizeMod /\ o.meta[rest] = {}
     /\ \A a \in DOMAIN o.next \ {rest, reg} : o.size[a] = size[a] /\ o.meta[a] = meta[a]
     /\ \E u \in RegionAppend(used_head, [a \in DOMAIN o.next |-> IF a \in Regions THEN next[a] ELSE 0], reg) :
          \E f \in RegionRemove(free_head, u.next, reg) :
            \E g \in RegionAppend(f.head, f.next, rest) : o.next = g.next

LEMMA CarveSplits ==
  ASSUME TypeOK, NEW reg \in Regions, NEW s \in Requests, NEW o \in Carve(reg, s)
  PROVE  SplitAs(o, reg, s)
<1> DEFINE rest  == reg + HeaderSize + s
           kept  == (Regions \ HeadersIn(Regions, rest, rest + HeaderSize)) \cup {rest}
           meta1 == [a \in kept |-> IF a = rest THEN {}
                                    ELSE IF a = reg THEN meta[a] \cup {HEAP_MEMORY_USED}
                                    ELSE meta[a]]
           size1 == [a \in kept |-> IF a = rest THEN (size[reg] - s - HeaderSize) % SizeMod
                                    ELSE IF a = reg THEN s
                                    ELSE size[a]]
           next1 == [a \in kept |-> IF a \in Regions THEN next[a] ELSE 0]
           wr == written \cup (reg + HeaderSize .. rest - 1)
                   \cup UNION {b .. b + HeaderSize - 1 : b \in HeadersIn(Regions, rest, rest + HeaderSize)}
<1>1. /\ Regions \subseteq Nat /\ reg \in Nat /\ s \in Nat /\ HeaderSize \in Nat /\ HeaderSize > 0
      /\ free_head \in Nat /\ used_head \in Nat /\ next \in [Regions -> Nat]
  BY HeapAssumption DEF TypeOK
<1>2. rest \in Nat /\ reg \in kept /\ kept \subseteq Nat
  <2>1. rest \in Nat /\ reg + HeaderSize <= rest /\ ~ (rest < reg + HeaderSize)
    BY <1>1
  <2>2. reg \notin HeadersIn(Regions, rest, rest + HeaderSize)
    BY <2>1 DEF HeadersIn
  <2> QED BY <1>1, <2>1, <2>2
<1>3. o \in Relink(reg, rest, meta1, size1, next1, wr)
  BY DEF Carve, Split
<1>4. next1 \in [kept -> Nat]
  BY <1>1
<1> HIDE DEF rest, kept, meta1, size1, next1, wr
<1>5. PICK u \in RegionAppend(used_head, next1, reg) :
        \E f \in RegionRemove(free_head, u.next, reg) :
          \E g \in RegionAppend(f.head, f.next, rest) :
            o = [free_head |-> g.head, used_head |-> u.head,
                 meta |-> meta1, size |-> size1, next |-> g.next, written |-> wr]
  BY <1>3, RelinkIs
<1>6. u.head \in Nat /\ u.next \in [kept -> Nat]
  BY <1>1, <1>2, <1>4, AppendType
<1>7. PICK f \in RegionRemove(free_head, u.next, reg) :
        \E g \in RegionAppend(f.head, f.next, rest) :
          o = [free_head |-> g.head, used_head |-> u.head,
               meta |-> meta1, size |-> size1, next |-> g.next, written |-> wr]
  BY <1>5
<1>8. f.head \in Nat /\ f.next \in [kept -> Nat]
  BY <1>1, <1>2, <1>6, <1>7, RemoveType
<1>9. PICK g \in RegionAppend(f.head, f.next, rest) :
        o = [free_head |-> g.head, used_head |-> u.head,
             meta |-> meta1, size |-> size1, next |-> g.next, written |-> wr]
  BY <1>7
<1>10. g.next \in [kept -> Nat]
  <2>1. rest \in kept
    BY DEF kept
  <2> QED BY <1>2, <1>8, <2>1, AppendType
<1>11. o.next = g.next /\ o.size = size1 /\ o.meta = meta1 /\ DOMAIN o.next = kept
  BY <1>9, <1>10
<1>12. /\ size1[rest] = (size[reg] - s - HeaderSize) % SizeMod /\ meta1[rest] = {}
       /\ \A a \in kept \ {rest, reg} : size1[a] = size[a] /\ meta1[a] = meta[a]
  BY DEF size1, meta1, kept
<1>13. next1 = [a \in DOMAIN o.next |-> IF a \in Regions THEN next[a] ELSE 0]
  BY <1>11 DEF next1
<1>14. DOMAIN o.next = (Regions \ HeadersIn(Regions, rest, rest + HeaderSize)) \cup {rest}
  BY <1>11 DEF kept
<1> QED BY <1>5, <1>7, <1>9, <1>11, <1>12, <1>13, <1>14 DEF SplitAs, rest

\* The next field of the rest, when reg is not the last region: reg has been put
\* on the used list first, so that unlinking it from the free list hangs what
\* follows it among the used regions there, and then the rest in front of that.
LEMMA RestLeadsToUsed ==
  ASSUME TypeOK, Sound, NEW reg \in Unused, NEW rest \in Nat \ Regions,
         reg < rest, \A a \in Regions : reg < a => rest < a,
         NEW nx, nx = [a \in Regions \cup {rest} |-> IF a \in Regions THEN next[a] ELSE 0],
         NEW u \in RegionAppend(used_head, nx, reg),
         NEW f \in RegionRemove(free_head, u.next, reg),
         NEW g \in RegionAppend(f.head, f.next, rest)
  PROVE  g.next[rest] \in Used \cup {0}
<1> DEFINE D == Regions \cup {rest}
           v == u.next[reg]
           X == {a \in Unused : a < reg}
<1>1. /\ D \subseteq Nat \ {0} /\ Regions \subseteq Nat \ {0} /\ reg \in Nat
      /\ nx \in [D -> Nat] /\ Used \in SUBSET D /\ reg \in D \ Used /\ Unused \subseteq D \ Used
      /\ ListOf(used_head, next, Used) /\ ListOf(free_head, next, Unused)
      /\ \A a \in Regions : nx[a] = next[a]
  <2>1. Regions \subseteq Nat \ {0} /\ next \in [Regions -> Nat] /\ Used \subseteq Regions
    BY SoundFacts
  <2>2. 0 < rest /\ reg \in Regions /\ reg \notin Used
    BY <2>1 DEF Unused
  <2> QED BY <2>1, <2>2, SoundFacts DEF Unused
<1>2. ListOf(used_head, nx, Used)
  BY <1>1, ListFrame, SoundFacts
<1>3. /\ ListOf(u.head, u.next, Used \cup {reg}) /\ u.next \in [D -> Nat]
      /\ \A a \in Unused \ {reg} : u.next[a] = next[a]
  <2>1. Relinked(u, nx, D, Used \cup {reg})
    <3> HIDE DEF D
    <3> QED BY <1>1, <1>2, AppendSorted
  <2>2. \A a \in Unused \ {reg} : a \in D \ (Used \cup {reg}) /\ a \in Regions
    BY <1>1 DEF Unused
  <2> QED BY <1>1, <2>1, <2>2 DEF Relinked
<1>4. v = 0 \/ (v \in Used /\ rest < v /\ v \in Nat)
  <2>1. v = 0 \/ (v \in Used \cup {reg} /\ reg < v)
    BY <1>3 DEF ListOf
  <2>2. v # 0 => v \in Used /\ v \in Regions
    BY <1>1, <2>1 DEF Used
  <2> QED BY <1>1, <2>1, <2>2
<1>5. CASE free_head = reg
  <2>1. f = [head |-> v, next |-> u.next]
    BY <1>5 DEF RegionRemove
  <2>2. CASE v = 0
    <3>1. g.next = [u.next EXCEPT ![rest] = 0]
      BY <2>1, <2>2 DEF RegionAppend
    <3> QED BY <1>3, <3>1
  <2>3. CASE v # 0
    <3>1. g.next = [u.next EXCEPT ![rest] = v]
      BY <1>4, <2>1, <2>3 DEF RegionAppend
    <3> QED BY <1>3, <1>4, <2>3, <3>1
  <2> QED BY <2>2, <2>3
<1>6. CASE free_head # reg
  <2> DEFINE W == {b \in DOMAIN u.next : u.next[b] \notin {0, reg}}
             W2 == {b \in DOMAIN f.next : f.next[b] # 0 /\ f.next[b] < rest}
  <2>1. free_head \in X /\ free_head # 0 /\ X \in SUBSET D
    <3>1. free_head \in Unused /\ free_head <= reg
      BY <1>1 DEF ListOf
    <3>2. free_head \in Nat \ {0} /\ free_head < reg
      <4>1. free_head \in Nat \ {0} /\ reg \in Nat
        BY <1>1, <3>1
      <4> QED BY <1>6, <3>1, <4>1
    <3>3. X \in SUBSET D
      BY <1>1
    <3> QED BY <3>1, <3>2, <3>3
  <2>2. \A b \in X : next[b] \in Unused /\ b < next[b] /\ next[b] <= reg
    BY <1>1 DEF ListOf
  <2>3. PICK c \in WalkEnd(u.next, free_head, W) :
          f = [head |-> free_head,
               next |-> IF u.next[c] = reg THEN [u.next EXCEPT ![c] = v] ELSE u.next]
    BY <1>6, <2>1 DEF RegionRemove
  <2>4. c \in X /\ next[c] = reg /\ u.next[c] = reg
    <3>1. \A b \in X : u.next[b] = next[b]
      BY <1>1, <1>3
    <3>2. \A b \in X \cap W : u.next[b] \in X
      <4> SUFFICES ASSUME NEW b \in X \cap W PROVE u.next[b] \in X
        OBVIOUS
      <4>1. next[b] \in Unused /\ next[b] <= reg /\ next[b] # reg /\ next[b] \in Nat
        BY <1>1, <2>2, <3>1
      <4>2. next[b] < reg
        <5>1. reg \in Nat
          BY <1>1
        <5> QED BY <4>1, <5>1
      <4>3. u.next[b] = next[b]
        BY <3>1
      <4> QED BY <4>1, <4>2, <4>3
    <3>3. Visited(u.next, free_head, W) \subseteq X
      <4>1. X \in SUBSET DOMAIN u.next
        BY <1>3, <2>1
      <4> HIDE DEF W, X
      <4> QED BY <2>1, <3>2, <4>1, VisitedIn
    <3>4. c \in X /\ c \notin W
      BY <2>3, <3>3 DEF WalkEnd
    <3>5. u.next[c] = next[c] /\ next[c] # 0 /\ c \in DOMAIN u.next
      BY <1>1, <1>3, <2>1, <2>2, <3>1, <3>4
    <3> QED BY <3>4, <3>5
  <2>5. /\ f.head = free_head /\ f.next \in [D -> Nat] /\ f.next[c] = v
        /\ \A b \in X \ {c} : f.next[b] = next[b]
    <3>1. f.head = free_head /\ f.next = [u.next EXCEPT ![c] = v]
      BY <2>3, <2>4
    <3>2. c \in D /\ v \in Nat
      BY <1>4, <2>1, <2>4
    <3>3. \A b \in X \ {c} : u.next[b] = next[b] /\ b \in D
      BY <1>1, <1>3, <2>1
    <3>4. /\ [u.next EXCEPT ![c] = v] \in [D -> Nat] /\ [u.next EXCEPT ![c] = v][c] = v
          /\ \A b \in D \ {c} : [u.next EXCEPT ![c] = v][b] = u.next[b]
      <4> HIDE DEF D, v
      <4> QED BY <1>3, <3>2
    <3> QED BY <3>1, <3>3, <3>4
  <2>6. \A b \in X \ {c} : next[b] < reg
    <3> SUFFICES ASSUME NEW b \in X \ {c} PROVE next[b] # reg
      BY <1>1, <2>2
    <3>1. b \in Unused /\ c \in Unused /\ b < reg /\ c < reg /\ b \in Nat /\ c \in Nat
      BY <1>1, <2>4
    <3>2. CASE b < c
      <4>1. next[b] <= c
        BY <1>1, <2>2, <3>1, <3>2 DEF ListOf
      <4> QED BY <1>1, <3>1, <4>1
    <3>3. CASE c < b
      <4>1. reg <= b
        BY <1>1, <2>2, <2>4, <3>1, <3>3 DEF ListOf
      <4> QED BY <1>1, <3>1, <4>1
    <3> QED BY <3>1, <3>2, <3>3
  <2>7. PICK d \in WalkEnd(f.next, free_head, W2) :
          g.next = [f.next EXCEPT ![rest] = f.next[d], ![d] = rest]
    <3>1. ~ (rest < free_head)
      BY <1>1, <2>1
    <3>2. PICK d \in WalkEnd(f.next, free_head, W2) :
            g = [head |-> free_head, next |-> [f.next EXCEPT ![rest] = f.next[d], ![d] = rest]]
      BY <2>1, <2>5, <3>1 DEF RegionAppend
    <3> QED BY <3>2
  <2>8. d \in X /\ d \notin W2
    <3>1. \A b \in X \cap W2 : f.next[b] \in X
      <4> SUFFICES ASSUME NEW b \in X \cap W2 PROVE f.next[b] \in X
        OBVIOUS
      <4>1. b # c
        BY <1>4, <2>5
      <4> QED BY <2>2, <2>5, <2>6, <4>1
    <3>2. Visited(f.next, free_head, W2) \subseteq X
      <4>1. X \in SUBSET DOMAIN f.next
        BY <2>1, <2>5
      <4> HIDE DEF W2, X
      <4> QED BY <2>1, <3>1, <4>1, VisitedIn
    <3> QED BY <2>7, <3>2 DEF WalkEnd
  <2>9. d = c
    <3> SUFFICES ASSUME d # c PROVE FALSE
      OBVIOUS
    <3>1. f.next[d] = next[d] /\ next[d] < reg /\ next[d] \in Nat \ {0} /\ d \in D
      BY <1>1, <2>1, <2>2, <2>5, <2>6, <2>8
    <3>2. next[d] < rest
      BY <1>1, <3>1
    <3> QED BY <2>5, <2>8, <3>1, <3>2
  <2>10. g.next[rest] = v
    <3>1. rest # c /\ rest \in D /\ c \in D
      BY <1>1, <2>1, <2>4
    <3> QED BY <2>5, <2>7, <2>9, <3>1
  <2> QED BY <1>4, <2>10
<1> QED BY <1>5, <1>6

\* Where a split of a region that has room for both headers lies: the header of
\* the rest destroys no other.
LEMMA RestInside ==
  ASSUME TypeOK, Sound, NEW reg \in Unused, NEW s \in Nat, s + HeaderSize <= size[reg],
         NEW rest, rest = reg + HeaderSize + s
  PROVE  /\ rest \in Nat \ Regions /\ reg < rest /\ rest + HeaderSize <= End(reg)
         /\ HeadersIn(Regions, rest, rest + HeaderSize) = {}
         /\ \A a \in Regions : reg < a => rest < a
<1>1. /\ reg \in Regions /\ reg \in Nat /\ size[reg] \in Nat /\ Regions \subseteq Nat \ {0}
      /\ HeaderSize \in Nat /\ HeaderSize > 0
      /\ \A a \in Regions : size[a] \in Nat
      /\ \A a, b \in Regions : a < b => a + HeaderSize + size[a] <= b
  BY SoundFacts DEF Tiles, Unused
<1>2. rest \in Nat /\ reg + HeaderSize <= rest /\ rest + HeaderSize <= reg + HeaderSize + size[reg]
  BY <1>1
<1>3. ASSUME NEW a \in Regions
      PROVE  a # rest /\ ~ (a < rest + HeaderSize /\ rest < a + HeaderSize) /\ (reg < a => rest < a)
  <2>1. CASE a < reg
    <3>1. a + HeaderSize + size[a] <= reg
      BY <1>1, <2>1
    <3> QED BY <1>1, <1>2, <2>1, <3>1
  <2>2. CASE a = reg
    BY <1>1, <1>2, <2>2
  <2>3. CASE reg < a
    <3>1. reg + HeaderSize + size[reg] <= a
      BY <1>1, <2>3
    <3> QED BY <1>1, <1>2, <2>3, <3>1
  <2>4. a \in Nat
    BY <1>1
  <2> QED BY <1>1, <2>1, <2>2, <2>3, <2>4
<1>4. rest \notin Regions /\ \A a \in Regions : reg < a => rest < a
  BY <1>3
<1>5. HeadersIn(Regions, rest, rest + HeaderSize) = {}
  BY <1>3 DEF HeadersIn
<1>6. reg < rest /\ rest + HeaderSize <= End(reg)
  <2>1. End(reg) = reg + HeaderSize + size[reg]
    BY DEF End
  <2> QED BY <1>1, <1>2, <2>1
<1> QED BY <1>2, <1>4, <1>5, <1>6

\* A Malloc that is not careful leaves a heap that is not sound: the size of the
\* rest wraps, or the rest is cut off from the regions behind it, or it is the
\* top and reaches out of the host block.
LEMMA UncarefulDamages ==
  ASSUME TypeOK, Sound, NEW s \in Requests, NEW reg \in Fitting(s),
         ~ (TopRegion(reg) /\ s + HeaderSize + AreaSize <= size[reg]),
         NEW o \in Carve(reg, s),
         meta' = o.meta, size' = o.size, next' = o.next, free_head' = o.free_head
  PROVE  ~ Sound'
<1> SUFFICES ASSUME Sound' PROVE FALSE
  OBVIOUS
<1> DEFINE rest == reg + HeaderSize + s
<1>1. /\ reg \in Unused /\ reg \in Regions /\ reg \in Nat /\ s \in Nat /\ size[reg] \in Nat
      /\ s <= size[reg] + HeaderSize
      /\ HeaderSize \in Nat /\ HeaderSize > 0 /\ AreaSize \in Nat /\ AreaSize > 0
      /\ TiledEnd \in Nat /\ TiledEnd < SizeMod /\ SizeMod \in Nat
      /\ reg + HeaderSize + size[reg] <= TiledEnd /\ Regions \subseteq Nat \ {0}
  <2>1. reg \in Unused /\ size[reg] + HeaderSize >= s /\ s \in Nat
    BY HeapAssumption DEF Fitting
  <2>2. reg \in Regions
    BY <2>1 DEF Unused
  <2>3. size[reg] \in Nat /\ reg \in Nat /\ HeaderSize \in Nat
    BY <2>2, SoundFacts
  <2> QED BY <2>1, <2>2, <2>3, SoundFacts DEF Tiles
<1>2. SplitAs(o, reg, s)
  BY <1>1, CarveSplits
<1>3. /\ Regions' = (Regions \ HeadersIn(Regions, rest, rest + HeaderSize)) \cup {rest}
      /\ size'[rest] = (size[reg] - s - HeaderSize) % SizeMod /\ meta'[rest] = {}
      /\ \A a \in Regions' \ {rest, reg} : size'[a] = size[a] /\ meta'[a] = meta[a]
  BY <1>2 DEF SplitAs, Regions
<1>4. rest \in Nat /\ rest \in Regions' /\ rest + HeaderSize + size'[rest] <= TiledEnd
  <2>1. rest \in Regions'
    BY <1>3
  <2>2. Tiled'
    BY DEF Sound
  <2>3. End(rest)' <= TiledEnd'
    BY <2>1, <2>2 DEF Tiled
  <2> QED BY <1>1, <2>1, <2>3 DEF End, TiledEnd
<1>5. CASE size[reg] < s + HeaderSize
  <2> DEFINE n == size[reg] - s - HeaderSize
  <2>1. n \in Int /\ n < 0
    BY <1>1, <1>5
  <2>2. n % SizeMod >= n + SizeMod /\ n % SizeMod \in Int
    <3> HIDE DEF n
    <3>1. n % SizeMod >= n + SizeMod
      BY <2>1, Wraps
    <3>2. n % SizeMod \in SizeT
      BY <2>1, ModSize
    <3> QED BY <1>1, <3>1, <3>2 DEF SizeT
  <2>3. rest + HeaderSize + (n % SizeMod) <= TiledEnd
    BY <1>3, <1>4
  <2> DEFINE m == n % SizeMod
  <2>4. m \in Int /\ m >= size[reg] - s - HeaderSize + SizeMod
        /\ reg + HeaderSize + s + HeaderSize + m <= TiledEnd
    BY <2>2, <2>3
  <2> HIDE DEF m
  <2> QED BY <1>1, <2>4
<1>6. CASE s + HeaderSize <= size[reg]
  <2>1. /\ rest \in Nat \ Regions /\ reg < rest /\ rest + HeaderSize <= End(reg)
        /\ HeadersIn(Regions, rest, rest + HeaderSize) = {}
        /\ \A a \in Regions : reg < a => rest < a
    BY <1>1, <1>6, RestInside
  <2>2. Regions' = Regions \cup {rest}
    BY <1>3, <2>1
  <2>3. size'[rest] = size[reg] - s - HeaderSize
    <3>1. size[reg] - s - HeaderSize \in 0 .. SizeMod - 1
      BY <1>1, <1>6
    <3> QED BY <1>3, <3>1, Wraps
  <2>4. PICK t \in Unused : TopRegion(t) /\ AreaSize <= size[t]
    BY DEF Sound, TopIsFree, Unused
  <2>5. \A a \in Regions : a <= t /\ (a # t => a < t /\ End(a) <= t)
    BY <2>4, TopIsLast DEF Unused
  <2>6. CASE reg = t
    <3>1. size[reg] < s + HeaderSize + AreaSize /\ End(reg) = TiledEnd
      <4>1. TopRegion(reg) /\ ~ (s + HeaderSize + AreaSize <= size[reg])
        BY <2>4, <2>6
      <4> QED BY <1>1, <4>1 DEF TopRegion
    <3>2. PICK b \in Regions' : End(b)' = TiledEnd /\ AreaSize <= size'[b]
      BY DEF Sound, TopIsFree, TopRegion, TiledEnd
    <3>3. b # rest
      BY <1>1, <2>3, <3>1, <3>2
    <3>4. b < rest
      BY <1>1, <2>1, <2>2, <2>5, <2>6, <3>2, <3>3
    <3>5. End(b)' <= rest
      BY <1>4, <3>2, <3>4 DEF Sound, Tiled
    <3> QED BY <1>1, <1>6, <2>1, <2>3, <3>1, <3>2, <3>5 DEF End
  <2>7. CASE reg # t
    <3>1. reg < t /\ rest < t /\ t \in Regions /\ t \in Nat
      BY <1>1, <2>1, <2>5, <2>7 DEF Unused
    <3>2. next'[rest] \in Used \cup {0}
      <4> DEFINE nx == [a \in Regions \cup {rest} |-> IF a \in Regions THEN next[a] ELSE 0]
      <4>1. DOMAIN o.next = Regions \cup {rest}
        BY <2>2 DEF Regions
      <4>2. PICK u \in RegionAppend(used_head, nx, reg) :
              \E f \in RegionRemove(free_head, u.next, reg) :
                \E g \in RegionAppend(f.head, f.next, rest) : o.next = g.next
        BY <1>2, <4>1 DEF SplitAs
      <4> HIDE DEF nx
      <4>3. PICK f \in RegionRemove(free_head, u.next, reg) :
              \E g \in RegionAppend(f.head, f.next, rest) : o.next = g.next
        BY <4>2
      <4>4. PICK g \in RegionAppend(f.head, f.next, rest) : o.next = g.next
        BY <4>3
      <4>5. nx = [a \in Regions \cup {rest} |-> IF a \in Regions THEN next[a] ELSE 0]
        BY DEF nx
      <4> HIDE DEF rest
      <4>6. g.next[rest] \in Used \cup {0}
        BY <1>1, <2>1, <4>2, <4>3, <4>4, <4>5, RestLeadsToUsed
      <4> QED BY <4>4, <4>6
    <3>3. \A a \in Used : a \in Used'
      <4> SUFFICES ASSUME NEW a \in Used PROVE a \in Used'
        OBVIOUS
      <4>1. a \in Regions /\ a # rest /\ a # reg /\ HEAP_MEMORY_USED \in meta[a]
        BY <1>1, <2>1 DEF Used, Unused
      <4>2. a \in Regions' /\ meta'[a] = meta[a]
        BY <1>3, <2>2, <4>1
      <4> QED BY <4>1, <4>2 DEF Used, HEAP_MEMORY_USED
    <3>4. rest \in Regions' \ Used' /\ t \in Regions' \ Used'
      <4>1. rest \in Regions' \ Used'
        BY <1>3, <1>4 DEF Used
      <4>2. t \in Regions' /\ meta'[t] = meta[t]
        BY <1>3, <2>2, <2>7, <3>1
      <4> QED BY <2>4, <4>1, <4>2 DEF Used, Unused, HEAP_MEMORY_USED
    <3>5. ListOf(free_head', next', Regions' \ Used')
      BY DEF Sound, ListsSound
    <3>6. \/ next'[rest] = 0 /\ t <= rest
          \/ next'[rest] \in Regions' \ Used'
      BY <3>4, <3>5 DEF ListOf
    <3>7. next'[rest] = 0
      BY <3>2, <3>3, <3>6
    <3>8. 0 \notin Regions' \ Used'
      BY <1>1, <2>1, <2>2
    <3> QED BY <1>4, <3>1, <3>6, <3>7, <3>8
  <2> QED BY <2>6, <2>7
<1> QED BY <1>1, <1>5, <1>6

\* A Malloc in a sound heap leaves it sound if and only if the request is careful.
LEMMA MallocIsExact ==
  ASSUME TypeOK, Healthy, NEW s \in Requests, Malloc(s)
  PROVE  Healthy' <=> CarefulRequest(s)
<1>1. TypeOK /\ Sound /\ memory = "live" /\ status = "running"
  BY DEF Healthy
<1>2. CASE CarefulRequest(s)
  BY <1>2, MallocStep DEF Healthy, GoodStep
<1>3. CASE ~ CarefulRequest(s)
  <2>1. PICK reg \in RegionFindFit(s) \ {0} :
          s # 0 /\ ~ (TopRegion(reg) /\ s + HeaderSize + AreaSize <= size[reg])
    BY <1>3 DEF CarefulRequest
  <2>2. /\ Fitting(s) \subseteq Nat \ {0} /\ s \in Nat
        /\ RegionFindFit(s) \subseteq Fitting(s)
        /\ \A a, b \in RegionFindFit(s) : a <= b
    <3>1. Fitting(s) \subseteq Nat \ {0} /\ s \in Nat
      BY <1>1, SoundFacts, HeapAssumption DEF Fitting, Unused
    <3>2. Fitting(s) # {}
      BY <1>1, <2>1, <3>1, FindFitIsFirst
    <3> QED BY <1>1, <3>1, <3>2, FindFitIsFirst
  <2>3. \A a \in RegionFindFit(s) : a = reg
    <3> SUFFICES ASSUME NEW a \in RegionFindFit(s) PROVE a = reg
      OBVIOUS
    <3>1. a <= reg /\ reg <= a /\ a \in Nat /\ reg \in Nat
      BY <2>1, <2>2
    <3> QED BY <3>1
  <2>4. HandOut(reg, s)
    BY <1>1, <2>1, <2>2, <2>3 DEF Malloc, Refuse
  <2>5. CASE Carve(reg, s) = {}
    BY <1>3, <2>4, <2>5 DEF HandOut, Return, Lose, Healthy
  <2>6. CASE Carve(reg, s) # {}
    <3>1. PICK o \in Carve(reg, s) :
            meta' = o.meta /\ size' = o.size /\ next' = o.next /\ free_head' = o.free_head
      BY <2>4, <2>6 DEF HandOut, Return
    <3>2. ~ Sound'
      BY <1>1, <2>1, <2>2, <3>1, UncarefulDamages
    <3> QED BY <1>3, <3>2 DEF Healthy
  <2> QED BY <2>5, <2>6
<1> QED BY <1>2, <1>3

-----------------------------------------------------------------------------
(***************************************************************************)
(* A Free of bytes where no header begins: what it leaves is never sound.  *)
(***************************************************************************)

\* The bytes at a that are taken for a header lie in the data of a region, r.
LEMMA BytesInRegion ==
  ASSUME TypeOK, Sound, NEW a \in Nat, Loose(a), a \notin Regions
  PROVE  /\ a \in Nat \ {0} /\ a # TiledEnd
         /\ \A b \in Regions : b + HeaderSize <= a \/ a + HeaderSize <= b
         /\ \E r \in Regions : r < a /\ a < r + HeaderSize + size[r]
<1>1. a \in Nat \ {0} /\ AreaSize <= a /\ a + HeaderSize <= TiledEnd
  BY HeapAssumption DEF Loose
<1>2. /\ HeaderSize \in Nat /\ HeaderSize > 0 /\ TiledEnd \in Nat /\ AreaSize \in Regions
      /\ Regions \subseteq Nat /\ Tiles(size, Regions) /\ \A b \in Regions : size[b] \in Nat
  BY SoundFacts DEF Tiles
<1>3. \A b \in Regions : b + HeaderSize <= a \/ a + HeaderSize <= b
  BY <1>1, <1>2 DEF Loose, HeadersIn
<1>4. PICK r \in Regions : r < a /\ \A b \in Regions : b < a => b <= r
  <2> DEFINE S == {b \in Regions : b < a}
  <2>1. AreaSize < a /\ AreaSize \in S
    BY <1>1, <1>2, HeapAssumption
  <2>2. S \in SUBSET Nat /\ S # {} /\ \A b \in S : b <= a
    <3>1. \A b \in S : b \in Nat /\ b < a
      BY <1>2
    <3> HIDE DEF S
    <3>2. \A b \in S : b <= a
      BY <1>1, <3>1
    <3> QED BY <2>1, <3>1, <3>2
  <2> HIDE DEF S
  <2>3. PICK r \in S : \A b \in S : b <= r
    BY <1>1, <2>2, LargestBelow
  <2> QED BY <2>3 DEF S
<1>5. a < r + HeaderSize + size[r]
  <2>1. r + HeaderSize + size[r] \in Regions \cup {TiledEnd}
    BY <1>2 DEF Tiles
  <2>2. r + HeaderSize + size[r] # a /\ ~ (r + HeaderSize + size[r] < a)
    BY <1>1, <1>2, <1>4, <2>1
  <2> QED BY <1>1, <1>2, <1>4, <2>2
<1> QED BY <1>1, <1>2, <1>3, <1>4, <1>5

\* Their release merges at most the old head of the free list into them: the
\* header of the region around them stays, and so does its size.
LEMMA BytesStay ==
  ASSUME TypeOK, Sound, NEW a \in Nat, Loose(a), a \notin Regions,
         NEW r \in Regions, r < a, NEW D, D = Regions \cup {a},
         NEW nx \in [D -> Nat], ListOf(free_head, nx, Unused),
         NEW sz \in [D -> SizeT], \A b \in Regions : sz[b] = size[b],
         NEW f \in RegionAppend(free_head, nx, a),
         NEW m \in AttemptMergeWithAdjacent(f.head, sz, f.next)
  PROVE  r \in DOMAIN m.next /\ a \in DOMAIN m.next /\ m.size[r] = size[r]
<1> DEFINE adjacent == {b \in DOMAIN f.next : /\ f.next[b] # 0
                          /\ (b + HeaderSize + sz[b]) % SizeMod = f.next[b]}
           V == Visited(f.next, f.head, adjacent)
           absorbed == V \ {f.head}
           length == [b \in absorbed |-> (HeaderSize + sz[b]) % SizeMod]
           kept == DOMAIN f.next \ UNION {HeadersIn(DOMAIN f.next, b, b + length[b]) : b \in absorbed}
           F == Unused \cup {a}
<1>1. /\ a \in Nat \ {0} /\ a # TiledEnd
      /\ \A b \in Regions : b + HeaderSize <= a \/ a + HeaderSize <= b
  BY BytesInRegion
<1>2. /\ Regions \subseteq Nat \ {0} /\ HeaderSize \in Nat /\ HeaderSize > 0
      /\ TiledEnd \in Nat /\ TiledEnd < SizeMod /\ SizeMod \in Nat
      /\ \A b \in Regions : size[b] \in Nat /\ b + HeaderSize + size[b] <= TiledEnd
      /\ Unused \subseteq Regions
  BY SoundFacts DEF Tiles, Unused
<1>3. /\ D \subseteq Nat \ {0} /\ Unused \in SUBSET D /\ a \in D \ Unused /\ r \in D
  BY <1>1, <1>2
<1>4. f.next \in [D -> Nat] /\ ListOf(f.head, f.next, F)
  <2>1. Relinked(f, nx, D, F)
    BY <1>3, AppendSorted
  <2> QED BY <2>1 DEF Relinked
<1>5. f.head \in F /\ \A b \in F : f.head <= b
  BY <1>4 DEF ListOf
<1>6. free_head \in Unused /\ \A b \in Unused : free_head <= b
  <2>1. Unused # {}
    BY DEF Sound, TopIsFree, Unused
  <2> QED BY <2>1, SoundFacts DEF ListOf
<1>7. f.head \in {a, free_head}
  <2>1. CASE f.head # a
    <3>1. f.head \in Unused /\ f.head <= free_head /\ free_head <= f.head
      BY <1>5, <1>6, <2>1
    <3>2. f.head \in Nat /\ free_head \in Nat
      BY <1>2, <3>1, <1>6
    <3> QED BY <3>1, <3>2
  <2> QED BY <2>1
<1>8. free_head \notin adjacent
  <2> SUFFICES ASSUME free_head \in adjacent PROVE FALSE
    OBVIOUS
  <2>1. free_head \in Regions /\ free_head # 0 /\ sz[free_head] = size[free_head]
    BY <1>2, <1>6
  <2>2. free_head + HeaderSize + size[free_head] \in 0 .. SizeMod - 1
    <3>1. free_head \in Nat /\ free_head + HeaderSize + size[free_head] <= TiledEnd
      BY <1>2, <2>1
    <3> QED BY <1>2, <2>1, <3>1
  <2>3. f.next[free_head] = free_head + HeaderSize + size[free_head] /\ f.next[free_head] # 0
    BY <2>1, <2>2, Wraps
  <2>4. f.next[free_head] \in F
    BY <1>4, <1>6, <2>3 DEF ListOf
  <2>5. f.next[free_head] \in Used \cup {TiledEnd}
    BY <2>1, <2>3 DEF Sound, HeadMerged, End
  <2>6. f.next[free_head] \in Regions \cup {TiledEnd}
    BY <2>5 DEF Used
  <2>7. f.next[free_head] \in Unused
    BY <1>1, <2>4, <2>6
  <2>8. f.next[free_head] = TiledEnd
    BY <2>5, <2>7 DEF Unused
  <2>9. TiledEnd + HeaderSize + size[TiledEnd] <= TiledEnd /\ size[TiledEnd] \in Nat
    BY <1>2, <2>7, <2>8
  <2> QED BY <1>2, <2>9
<1>9. absorbed \subseteq {free_head} /\ (f.head = free_head => absorbed = {})
  <2>1. CASE f.head = free_head
    <3>1. {free_head} \in SUBSET DOMAIN f.next
      BY <1>3, <1>4, <1>6
    <3>2. \A b \in {free_head} \cap adjacent : f.next[b] \in {free_head}
      <4> HIDE DEF adjacent
      <4> QED BY <1>8
    <3>3. V \subseteq {free_head}
      <4> HIDE DEF adjacent
      <4> QED BY <2>1, <3>1, <3>2, VisitedIn
    <3> QED BY <2>1, <3>3
  <2>2. CASE f.head = a
    <3>1. {a, free_head} \in SUBSET DOMAIN f.next
      BY <1>3, <1>4, <1>6
    <3>2. \A b \in {a, free_head} \cap adjacent : f.next[b] \in {a, free_head}
      <4> SUFFICES ASSUME a \in adjacent PROVE f.next[a] \in {a, free_head}
        <5> HIDE DEF adjacent
        <5> QED BY <1>8
      <4>1. f.next[a] # 0
        OBVIOUS
      <4>2. f.next[a] \in F /\ a < f.next[a] /\ \A b \in F : b <= a \/ f.next[a] <= b
        BY <1>4, <4>1 DEF ListOf
      <4>3. f.next[a] \in Unused /\ f.next[a] \in Nat /\ free_head \in Nat /\ free_head # a
            /\ a <= free_head /\ a \in Nat
        BY <1>1, <1>2, <1>3, <1>5, <1>6, <2>2, <4>2
      <4>4. f.next[a] <= free_head /\ free_head <= f.next[a]
        BY <1>6, <4>2, <4>3
      <4> QED BY <4>3, <4>4
    <3>3. V \subseteq {a, free_head}
      <4> HIDE DEF adjacent
      <4> QED BY <2>2, <3>1, <3>2, VisitedIn
    <3> QED BY <1>3, <1>6, <2>2, <3>3
  <2> QED BY <1>7, <2>1, <2>2
<1>10. r \in kept /\ a \in kept
  <2> SUFFICES ASSUME NEW b \in absorbed
               PROVE  /\ r \notin HeadersIn(DOMAIN f.next, b, b + length[b])
                      /\ a \notin HeadersIn(DOMAIN f.next, b, b + length[b])
    <3> HIDE DEF absorbed, length
    <3> QED BY <1>3, <1>4
  <2>1. b = free_head /\ f.head = a
    <3> HIDE DEF absorbed
    <3> QED BY <1>7, <1>9
  <2>2. a <= free_head /\ free_head \in Regions
    BY <1>2, <1>5, <1>6, <2>1
  <2>3. ~ (b < a + HeaderSize)
    BY <1>1, <1>2, <2>1, <2>2
  <2>4. ~ (b < r + HeaderSize)
    <3>1. r \in Nat /\ r < a /\ r + HeaderSize <= a
      <4>1. r \in Nat /\ a \in Nat /\ (r + HeaderSize <= a \/ a + HeaderSize <= r)
        BY <1>1, <1>2
      <4> QED BY <1>2, <4>1
    <3> QED BY <1>1, <1>2, <2>1, <2>2, <3>1
  <2> QED BY <2>3, <2>4 DEF HeadersIn
<1>11. PICK last \in WalkEnd(f.next, f.head, adjacent) :
         m = [size |-> [b \in kept |-> IF b = f.head THEN (last + sz[last] - f.head) % SizeMod
                                                     ELSE sz[b]],
              next |-> [b \in kept |-> IF b = f.head THEN f.next[last] ELSE f.next[b]],
              cleared |-> UNION {b .. b + length[b] - 1 : b \in absorbed}]
  BY DEF AttemptMergeWithAdjacent
<1>12. f.head = r => (last + sz[last] - f.head) % SizeMod = size[r]
  <2> SUFFICES ASSUME f.head = r PROVE (last + sz[last] - f.head) % SizeMod = size[r]
    OBVIOUS
  <2>1. f.head = free_head
    BY <1>1, <1>7
  <2>2. last \in V
    BY <1>11 DEF WalkEnd
  <2>3. last = r
    BY <1>9, <2>1, <2>2
  <2>4. last + sz[last] - f.head = size[r]
    BY <1>2, <2>3
  <2>5. size[r] \in 0 .. SizeMod - 1
    BY <1>2
  <2> QED BY <2>4, <2>5, Wraps
<1> HIDE DEF kept
<1>13. DOMAIN m.next = kept /\ m.size[r] = size[r]
  BY <1>10, <1>11, <1>12
<1> QED BY <1>10, <1>13

\* A Free of bytes where no header begins does not come back, or overwrites a
\* header, or leaves a region within a region.
LEMMA BytesDamage ==
  ASSUME TypeOK, Healthy, NEW a \in Nat, FreeBytes(a)
  PROVE  ~ (status' = "running" /\ Sound')
<1>1. Sound /\ a # 0 /\ a \notin Regions
  BY DEF Healthy, FreeBytes
<1>2. CASE ~ Loose(a)
  BY <1>2 DEF FreeBytes
<1>3. CASE Loose(a)
  <2> SUFFICES ASSUME status' = "running", Sound' PROVE FALSE
    OBVIOUS
  <2> DEFINE D == Regions \cup {a}
             With(map, v) == [b \in D |-> IF b = a THEN v ELSE map[b]]
  <2>1. PICK sz0 \in Requests :
          Return(Release(a, With(meta, {HEAP_MEMORY_USED}), With(size, sz0), With(next, 0)),
                 Without(a), FreedWith(a))
    BY <1>3 DEF FreeBytes
  <2> DEFINE outcomes == Release(a, With(meta, {HEAP_MEMORY_USED}), With(size, sz0), With(next, 0))
  <2>2. PICK r \in Regions : r < a /\ a < r + HeaderSize + size[r]
    BY <1>1, <1>3, BytesInRegion
  <2>3. /\ a \in Nat \ {0} /\ Regions \subseteq Nat \ {0} /\ next \in [Regions -> Nat]
        /\ size \in [Regions -> SizeT] /\ ListOf(free_head, next, Unused) /\ Unused \subseteq Regions
        /\ a \notin {used_head} \cup {next[b] : b \in Regions}
    BY <1>1, <1>3, BytesInRegion, SoundFacts DEF Loose, Unused
  <2> DEFINE nx == With(next, 0)
             sz == With(size, sz0)
  <2>4. /\ nx \in [D -> Nat] /\ \A b \in Regions : nx[b] = next[b]
        /\ nx[a] = 0
    BY <1>1, <2>3
  <2>5. sz \in [D -> SizeT] /\ \A b \in Regions : sz[b] = size[b]
    <3>1. sz0 \in SizeT
      BY HeapAssumption DEF SizeT
    <3> QED BY <1>1, <2>3, <3>1
  <2>6. \A b \in D : nx[b] # a
    BY <2>3, <2>4
  <2>7. outcomes # {}
    <3> HIDE DEF outcomes
    <3>1. CASE outcomes = {}
      BY <2>1, <3>1 DEF Return, Lose, outcomes
    <3> QED BY <3>1
  <2>8. PICK o \in outcomes : size' = o.size /\ next' = o.next
    <3> HIDE DEF With
    <3> QED BY <2>1, <2>7 DEF Return
  <2> DEFINE mt == With(meta, {HEAP_MEMORY_USED})
  <2>9. o \in Release(a, mt, sz, nx)
    OBVIOUS
  <2>10. D = Regions \cup {a}
    OBVIOUS
  <2> HIDE DEF D, nx, sz, mt, outcomes, With
  <2>11. PICK u \in RegionRemove(used_head, nx, a) :
           \E f \in RegionAppend(free_head, u.next, a) :
             \E m \in AttemptMergeWithAdjacent(f.head, sz, f.next) :
               o.size = m.size /\ o.next = m.next
    <3>1. PICK u \in RegionRemove(used_head, nx, a) :
           \E f \in RegionAppend(free_head, u.next, a) :
             \E m \in AttemptMergeWithAdjacent(f.head, sz, f.next) :
               o = [free_head |-> f.head, used_head |-> u.head,
                    meta |-> [b \in DOMAIN m.next |->
                                IF b = a THEN Unmark(mt[b]) ELSE mt[b]],
                    size |-> m.size, next |-> m.next, written |-> written \ m.cleared]
      BY <2>9, ReleaseIs
    <3> QED BY <3>1
  <2>12. u.next = nx
    <3>1. CASE used_head = 0
      BY <2>3, <3>1 DEF RegionRemove
    <3>2. CASE used_head # 0
      <4>1. PICK c \in WalkEnd(nx, used_head, {b \in DOMAIN nx : nx[b] \notin {0, a}}) :
              u = [head |-> used_head, next |-> IF nx[c] = a THEN [nx EXCEPT ![c] = nx[a]] ELSE nx]
        BY <2>3, <2>11, <3>2 DEF RegionRemove
      <4>2. nx[c] # a
        BY <2>4, <2>6, <4>1 DEF WalkEnd, Visited
      <4> QED BY <4>1, <4>2
    <3> QED BY <3>1, <3>2
  <2>13. PICK f \in RegionAppend(free_head, nx, a) :
           \E m \in AttemptMergeWithAdjacent(f.head, sz, f.next) :
             o.size = m.size /\ o.next = m.next
    BY <2>11, <2>12
  <2>14. PICK m \in AttemptMergeWithAdjacent(f.head, sz, f.next) :
           o.size = m.size /\ o.next = m.next
    BY <2>13
  <2>15. ListOf(free_head, nx, Unused)
    <3>1. \A b \in Unused : nx[b] = next[b]
      BY <2>3, <2>4
    <3> QED BY <2>3, <3>1, ListFrame
  <2>16. r \in DOMAIN m.next /\ a \in DOMAIN m.next /\ m.size[r] = size[r]
    BY <1>1, <1>3, <2>2, <2>4, <2>5, <2>10, <2>13, <2>14, <2>15, BytesStay
  <2>17. r \in Regions' /\ a \in Regions' /\ size'[r] = size[r]
    BY <2>8, <2>14, <2>16 DEF Regions
  <2>18. r + HeaderSize + size'[r] <= a
    BY <2>2, <2>17 DEF Sound, Tiled, End
  <2>19. r \in Nat /\ a \in Nat /\ size[r] \in Nat /\ HeaderSize \in Nat
    BY <1>1, <2>3, SoundFacts
  <2> QED BY <2>2, <2>17, <2>18, <2>19
<1> QED BY <1>2, <1>3

-----------------------------------------------------------------------------
(***************************************************************************)
(* Any client, up to the first damage.                                     *)
(***************************************************************************)

\* Until then what clients have freed reads as free, and a heap that is not there
\* has no regions.
UInv ==
  /\ TypeOK
  /\ Healthy => FreedReadFree
  /\ memory # "live" => Regions = {}

\* No heap, or a sound one.
Undamaged == status = "running" /\ (memory = "live" => Sound)

\* The calls that OnlyTheseDamage names.
Harm ==
  \/ memory = "live" /\ \E s \in Requests : ~ CarefulRequest(s) /\ Malloc(s)
  \/ \E a \in Addresses \ freed : FreeBytes(a)
  \/ CallWithoutHeap

\* Each of them damages the heap or does not come back.
LEMMA HarmDamages ==
  ASSUME UInv, Undamaged, Harm
  PROVE  ~ Undamaged' /\ (memory' # "live" => Regions' = {})
<1>1. TypeOK /\ (memory # "live" => Regions = {})
  BY DEF UInv
<1>2. ASSUME memory = "live", NEW s \in Requests, ~ CarefulRequest(s), Malloc(s)
      PROVE  ~ Undamaged' /\ memory' = "live"
  <2>1. Healthy
    BY <1>2 DEF Undamaged, Healthy
  <2>2. ~ Healthy'
    BY <1>1, <1>2, <2>1, MallocIsExact
  <2>3. memory' = "live"
    BY <1>2 DEF Malloc, Refuse, HandOut, Return, Lose, vars
  <2> QED BY <2>2, <2>3 DEF Undamaged, Healthy
<1>3. ASSUME NEW a \in Addresses, FreeBytes(a) PROVE ~ Undamaged' /\ memory' = "live"
  <2>1. Healthy /\ memory = "live"
    BY <1>3 DEF Undamaged, Healthy, FreeBytes
  <2>1a. a \in Nat
    BY HeapAssumption DEF Addresses, LastAddress, TiledEnd
  <2>2. ~ (status' = "running" /\ Sound')
    BY <1>1, <1>3, <2>1, <2>1a, BytesDamage
  <2>3. memory' = "live"
    BY <1>3, <2>1 DEF FreeBytes, Return, Lose
  <2> QED BY <2>2, <2>3 DEF Undamaged
<1>4. CASE CallWithoutHeap
  <2>1. memory # "live"
    BY <1>4 DEF CallWithoutHeap
  <2>2. Lose
    <3>1. ASSUME NEW s \in Requests \ {0}, Malloc(s) PROVE Lose
      BY <2>1, <3>1 DEF Malloc, Refuse
    <3>2. ASSUME NEW a \in Addresses \ {0}, Free(a) PROVE Lose
      BY <1>1, <2>1, <3>2 DEF Free, FreeBytes, Used
    <3>3. ASSUME memory = "freed", DestroyVirtualMachine PROVE Lose
      BY <3>3 DEF DestroyVirtualMachine
    <3> QED BY <1>4, <3>1, <3>2, <3>3 DEF CallWithoutHeap
  <2> QED BY <1>1, <2>1, <2>2 DEF Lose, lists, Undamaged, Regions
<1> QED BY <1>2, <1>3, <1>4 DEF Harm

\* Every other call does not.
LEMMA OthersDoNot ==
  ASSUME UInv, Undamaged, [Next]_vars, ~ Harm
  PROVE  /\ Undamaged' /\ (memory' = "live" => FreedReadFree')
         /\ memory' # "live" => Regions' = {}
<1> DEFINE Goal == /\ Undamaged' /\ (memory' = "live" => FreedReadFree')
                   /\ memory' # "live" => Regions' = {}
<1> SUFFICES Goal
  OBVIOUS
<1>1. /\ TypeOK /\ (memory # "live" => Regions = {}) /\ (Healthy => FreedReadFree)
      /\ status = "running" /\ (memory = "live" => Sound /\ Healthy /\ FreedReadFree)
  BY DEF UInv, Undamaged, Healthy
<1>2. CASE UNCHANGED vars
  <2>1. (Sound' <=> Sound) /\ (FreedReadFree' <=> FreedReadFree)
    BY <1>2, SameHeap
  <2>2. memory' = memory /\ status' = status /\ next' = next
    BY <1>2 DEF vars, lists
  <2> QED BY <1>1, <2>1, <2>2 DEF Undamaged, Regions
<1>3. ASSUME GoodStep, memory = "live" PROVE Goal
  BY <1>1, <1>3 DEF GoodStep, Undamaged
<1>4. ASSUME NoHeap, memory' # "live", UNCHANGED status PROVE Goal
  BY <1>1, <1>4 DEF NoHeap, EmptyMap, Regions, Undamaged
<1>5. CASE CreateVirtualMachine
  BY <1>1, <1>5 DEF CreateVirtualMachine, lists, Regions, Undamaged
<1>6. CASE InitializeHeap
  <2>1. CASE memory' = "null" /\ NoHeap
    BY <1>4, <1>6, <2>1 DEF InitializeHeap
  <2>2. CASE /\ memory' = "live"
             /\ free_head' = AreaSize /\ used_head' = 0
             /\ meta' = [a \in {AreaSize} |-> {}]
             /\ size' = [a \in {AreaSize} |-> InitialSize - HeaderSize]
             /\ next' = [a \in {AreaSize} |-> 0]
             /\ written' = {}
             /\ held' = EmptyMap /\ freed' = {}
    <3>1. Sound'
      BY <2>2, InitializeSound
    <3> QED BY <1>1, <1>6, <2>2, <3>1 DEF InitializeHeap, FreedReadFree, Undamaged
  <2> QED BY <1>6, <2>1, <2>2 DEF InitializeHeap
<1>7. CASE DestroyVirtualMachine
  BY <1>2, <1>4, <1>7 DEF DestroyVirtualMachine, Harm, CallWithoutHeap
<1>8. ASSUME NEW s \in Requests, Malloc(s) PROVE Goal
  <2>1. CASE memory = "live"
    <3>1. CarefulRequest(s) /\ Healthy
      BY <1>1, <1>8, <2>1 DEF Harm
    <3> QED BY <1>1, <1>3, <1>8, <2>1, <3>1, MallocStep
  <2>2. CASE memory # "live"
    <3>1. s = 0
      BY <1>8, <2>2 DEF Harm, CallWithoutHeap
    <3> QED BY <1>2, <1>8, <3>1 DEF Malloc, Refuse
  <2> QED BY <2>1, <2>2
<1>9. ASSUME NEW a \in Addresses, Free(a) PROVE Goal
  <2>1. CASE memory = "live"
    <3>1. ~ FreeBytes(a)
      <4>1. CASE a \in freed
        BY <1>1, <2>1, <4>1, NoBytes
      <4>2. CASE a \notin freed
        BY <4>2 DEF Harm
      <4> QED BY <4>1, <4>2
    <3> QED BY <1>1, <1>3, <1>9, <2>1, <3>1, FreeStep
  <2>2. CASE memory # "live"
    <3>1. a = 0
      BY <1>9, <2>2 DEF Harm, CallWithoutHeap
    <3> QED BY <1>1, <1>2, <1>9, <2>2, <3>1 DEF Free, FreeBytes, Used
  <2> QED BY <2>1, <2>2
<1> HIDE DEF Goal
<1> QED BY <1>2, <1>5, <1>6, <1>7, <1>8, <1>9 DEF Next, LifeCycle

\* Every step up to the first damage keeps the invariant.
LEMMA UntilDamageStep ==
  ASSUME UInv, [UntilDamageNext]_vars
  PROVE  UInv'
<1>1. TypeOK'
  BY TypeNext DEF UInv, UntilDamageNext
<1>2. CASE UNCHANGED vars
  <2>1. (Sound' <=> Sound) /\ (FreedReadFree' <=> FreedReadFree)
    BY <1>2, SameHeap
  <2>2. memory' = memory /\ status' = status /\ next' = next
    BY <1>2 DEF vars, lists
  <2> QED BY <1>1, <2>1, <2>2 DEF UInv, Healthy, Regions
<1>3. CASE UntilDamageNext
  <2>1. Undamaged /\ Next
    BY <1>3 DEF UntilDamageNext, Undamaged, Next
  <2>2. CASE Harm
    BY <1>1, <2>1, <2>2, HarmDamages DEF UInv, Undamaged, Healthy
  <2>3. CASE ~ Harm
    BY <1>1, <2>1, <2>3, OthersDoNot DEF UInv, Healthy
  <2> QED BY <2>2, <2>3
<1> QED BY <1>2, <1>3

LEMMA UntilDamageInvariant == UntilDamage => []UInv
<1>1. Init => UInv
  BY TypeInit DEF Init, UInv, Healthy, EmptyMap, Regions
<1>2. UInv /\ [UntilDamageNext]_vars => UInv'
  BY UntilDamageStep
<1> QED BY <1>1, <1>2, PTL DEF UntilDamage

\* The careful rule is exact: in every sound heap, whatever client made it, it
\* tells the requests that Malloc serves soundly from those that it does not.
THEOREM CarefulRuleIsExact == UntilDamage => CarefulIsExact
<1>1. UInv =>
        [\A s \in Requests : Healthy /\ Malloc(s) => (Healthy' <=> CarefulRequest(s))]_vars
  BY MallocIsExact DEF UInv
<1> QED BY <1>1, UntilDamageInvariant, PTL DEF CarefulIsExact

\* What goes wrong in a sound heap, or without one, is exactly a careless request,
\* a Free of bytes where no header begins and which are not a block freed before,
\* or a call without a heap: no refused Malloc, legal free or double free of what
\* no later block covers, in any order.
THEOREM OnlyTheseCallsDamage == UntilDamage => OnlyTheseDamage
<1>1. UInv /\ [UntilDamageNext]_vars =>
        [status = "running" /\ (memory = "live" => Sound) =>
           (~ (status' = "running" /\ (memory' = "live" => Sound')) <=>
              \/ memory = "live" /\ \E s \in Requests : ~ CarefulRequest(s) /\ Malloc(s)
              \/ \E a \in Addresses \ freed : FreeBytes(a)
              \/ CallWithoutHeap)]_vars
  <2> SUFFICES ASSUME UInv, [UntilDamageNext]_vars, Undamaged
               PROVE  ~ Undamaged' <=> Harm
    BY DEF Undamaged, Harm
  <2>1. [Next]_vars
    BY DEF UntilDamageNext
  <2> QED BY <2>1, HarmDamages, OthersDoNot
<1> QED BY <1>1, UntilDamageInvariant, PTL DEF UntilDamage, OnlyTheseDamage

=============================================================================
