------------------------ MODULE ClassFileAccessProofs ------------------------
(***************************************************************************)
(* What clients of a class file find in it.  First, what is proved of the  *)
(* reader holds while they use it: no call of theirs but one that crashes  *)
(* changes what the reader has left.  Then the functions they call: the    *)
(* loops are induction over the set of their iterations (UpTo), since what *)
(* a loop computes is defined by a recursive function.                     *)
(***************************************************************************)
EXTENDS ClassFileAccess, ClassFileReaderProofs, LoopProofs, FiniteSetTheorems

\* The reader's invariant, unless the program has crashed.
ReaderInvOrLost == ReaderInv \/ phase = "lost"

\* A call leaves the class file alone or crashes (every function on one).
LEMMA CallsOnlyRead ==
  ASSUME Use
  PROVE  UNCHANGED readVars \/ phase' = "lost"
<1>1. ASSUME NEW s, Gets(s)
      PROVE  UNCHANGED readVars \/ phase' = "lost"
  BY <1>1 DEF Gets, Crash
<1>2. ASSUME NEW s, NEW next, Advance(s, next)
      PROVE  UNCHANGED readVars \/ phase' = "lost"
  BY <1>2 DEF Advance, Crash
<1>3. CASE ByIndex
  BY <1>1, <1>3 DEF ByIndex
<1>4. CASE ClassNames
  BY <1>1, <1>4 DEF ClassNames, Crash
<1>5. CASE CreateIterator
  BY <1>5 DEF CreateIterator
<1>6. CASE IteratorNext
  BY <1>1, <1>2, <1>6 DEF IteratorNext
<1>7. CASE GetCodeAttribute
  BY <1>1, <1>7 DEF GetCodeAttribute, Crash
<1>8. CASE GetAttributeInfo
  BY <1>1, <1>8 DEF GetAttributeInfo, Crash
<1>q. QED
  BY <1>3, <1>4, <1>5, <1>6, <1>7, <1>8 DEF Use

LEMMA UseStep == ReaderInvOrLost /\ [Next]_vars => ReaderInvOrLost'
<1> SUFFICES ASSUME ReaderInvOrLost, [Next]_vars
             PROVE  ReaderInvOrLost'
  OBVIOUS
<1>1. UNCHANGED readVars => (ReaderInv => ReaderInv')
  BY ReaderStep
<1>2. UNCHANGED readVars => phase' = phase
  BY DEF readVars
<1>3. CASE ReadNext
  <2>1. phase # "lost"
    BY <1>3 DEF ReadNext, Reject, Accept, ReadStep, SkipEntry, ReadInterfaces, ReadFields,
                SkipMember, SkipAttribute, ReadMethods, ReadAttributes, SkippedMembers, Finish, Blunder
  <2>q. QED
    BY <1>3, <2>1, ReaderStep DEF ReaderInvOrLost
<1>4. CASE Use
  BY <1>1, <1>2, <1>4, CallsOnlyRead DEF ReaderInvOrLost
<1>5. CASE UNCHANGED vars
  BY <1>1, <1>2, <1>5 DEF ReaderInvOrLost, vars
<1>q. QED
  BY <1>3, <1>4, <1>5 DEF Next

LEMMA UseInv == Spec => []ReaderInvOrLost
<1>1. Init => ReaderInvOrLost
  BY ReaderInit DEF Init, ReaderInvOrLost
<1>q. QED
  BY <1>1, UseStep, PTL DEF Spec

\* The counts and offsets of a readable file stay right while it is used
\* (ClassFileReadStatic, with every call on the class file it returns).
THEOREM ReadsRightInUse == Spec => []ReadsRight
<1>1. ReaderInvOrLost => ReadsRight
  BY DEF ReaderInvOrLost, ReaderInv, Typed, FoundSoFar, ReadsRight, Success, Right, TableRight, Tables
<1>q. QED
  BY <1>1, UseInv, PTL

\* The reader stays in step with a readable file, in the program of the runs
\* (ClassFileReadStatic).
THEOREM StaysInStepInUse == Spec => []StaysInStep
<1>1. ReaderInvOrLost => StaysInStep
  BY DEF ReaderInvOrLost, ReaderInv, Typed, StaysInStep, Tables
<1>q. QED
  BY <1>1, UseInv, PTL

-----------------------------------------------------------------------------
(***************************************************************************)
(* What can start at an offset, in any file.                               *)
(***************************************************************************)
Maybe == Nat \cup {ANY}

LEMMA PlaceIs ==
  ASSUME NEW f, NEW p \in Places(f)
  PROVE  \/ p[1] \in {"header", "end", "count"}
         \/ p[1] = "entry" /\ \E s \in DOMAIN f.entry : p = Entry(s)
         \/ p[1] = "member" /\ \E t \in {"fields", "methods"} :
              \E m \in MembersOf(f, t) : p = Member(t, m)
         \/ p[1] = "attribute" /\ \E t \in Lists :
              \E m \in MembersOf(f, t) : \E j \in AttributesOf(f, t, m) : p = Attribute(t, m, j)
<1> DEFINE M == UNION {{Member(t, m) : m \in MembersOf(f, t)} : t \in {"fields", "methods"}}
           A == UNION {UNION {{Attribute(t, m, j) : j \in AttributesOf(f, t, m)} :
                                m \in MembersOf(f, t)} : t \in Lists}
           E == {Entry(s) : s \in DOMAIN f.entry}
           C == {Count(t) : t \in {"interfaces", "fields", "methods", "attributes"}}
<1>0. Places(f) = {Header, End} \cup E \cup C \cup M \cup A
  BY DEF Places
<1>1. CASE p \in {Header, End}
  BY <1>1 DEF Header, End
<1>2. CASE p \in E
  BY <1>2 DEF Entry
<1>3. CASE p \in C
  BY <1>3 DEF Count
<1>4. CASE p \in M
  <2>1. PICK t \in {"fields", "methods"} : p \in {Member(t, m) : m \in MembersOf(f, t)}
    BY <1>4
  <2>2. PICK m \in MembersOf(f, t) : p = Member(t, m)
    BY <2>1
  <2>3. p[1] = "member"
    BY <2>2 DEF Member
  <2> QED BY <2>1, <2>2, <2>3
<1>5. CASE p \in A
  <2>1. PICK t \in Lists : p \in UNION {{Attribute(t, m, j) : j \in AttributesOf(f, t, m)} :
                                         m \in MembersOf(f, t)}
    BY <1>5
  <2>2. PICK m \in MembersOf(f, t) : p \in {Attribute(t, m, j) : j \in AttributesOf(f, t, m)}
    BY <2>1
  <2>3. PICK j \in AttributesOf(f, t, m) : p = Attribute(t, m, j)
    BY <2>2
  <2>4. p[1] = "attribute"
    BY <2>3 DEF Attribute
  <2> QED BY <2>1, <2>2, <2>3, <2>4
<1>6. p \in {Header, End} \/ p \in E \/ p \in C \/ p \in M \/ p \in A
  <2> HIDE DEF E, C, M, A
  <2> QED BY <1>0
<1> QED BY <1>1, <1>2, <1>3, <1>4, <1>5, <1>6

LEMMA EntryPlace ==
  ASSUME NEW f, Structured(f), NEW o, IsPart(f, o, "entry")
  PROVE  o \in Nat /\ f.at[o][4] \in DOMAIN f.entry
<1>1. o \in Nat /\ f.at[o] \in Places(f) /\ f.at[o][1] = "entry"
  BY DEF IsPart, Structured
<1>2. \E s \in DOMAIN f.entry : f.at[o] = Entry(s)
  BY <1>1, PlaceIs
<1> QED BY <1>1, <1>2 DEF Entry

LEMMA MemberPlace ==
  ASSUME NEW f, Structured(f), NEW o, IsPart(f, o, "member")
  PROVE  /\ o \in Nat /\ f.at[o][2] \in {"fields", "methods"}
         /\ f.at[o][3] \in MembersOf(f, f.at[o][2])
         /\ Len(Attributes(f, f.at[o][2], f.at[o][3])) \in Nat
<1>1. o \in Nat /\ f.at[o] \in Places(f) /\ f.at[o][1] = "member"
  BY DEF IsPart, Structured
<1>2. PICK t \in {"fields", "methods"} : \E m \in MembersOf(f, t) : f.at[o] = Member(t, m)
  BY <1>1, PlaceIs
<1>3. PICK m \in MembersOf(f, t) : f.at[o] = Member(t, m)
  BY <1>2
<1>4. Len(Attributes(f, t, m)) \in Nat
  BY <1>2, <1>3, AttributesOfMember DEF Lists
<1> QED BY <1>1, <1>2, <1>3, <1>4 DEF Member

LEMMA MemberAt ==
  ASSUME NEW f, Structured(f), NEW o, IsPart(f, o, "member")
  PROVE  At(f, o, Member(f.at[o][2], f.at[o][3]))
<1>1. o \in DOMAIN f.at /\ f.at[o] \in Places(f) /\ f.at[o][1] = "member"
  BY DEF IsPart, Structured
<1>2. PICK t \in {"fields", "methods"} : \E m \in MembersOf(f, t) : f.at[o] = Member(t, m)
  BY <1>1, PlaceIs
<1>3. PICK m \in MembersOf(f, t) : f.at[o] = Member(t, m)
  BY <1>2
<1> QED BY <1>1, <1>3 DEF Member, At

LEMMA AttributePlacedAt ==
  ASSUME NEW f, Structured(f), NEW o, IsPart(f, o, "attribute")
  PROVE  At(f, o, Attribute(f.at[o][2], f.at[o][3], f.at[o][4]))
<1>1. o \in DOMAIN f.at /\ f.at[o] \in Places(f) /\ f.at[o][1] = "attribute"
  BY DEF IsPart, Structured
<1>2. PICK t \in Lists : \E m \in MembersOf(f, t) : \E j \in AttributesOf(f, t, m) :
                        f.at[o] = Attribute(t, m, j)
  BY <1>1, PlaceIs
<1>3. PICK m \in MembersOf(f, t) : \E j \in AttributesOf(f, t, m) : f.at[o] = Attribute(t, m, j)
  BY <1>2
<1>4. PICK j \in AttributesOf(f, t, m) : f.at[o] = Attribute(t, m, j)
  BY <1>3
<1> QED BY <1>1, <1>4 DEF Attribute, At

LEMMA AttributePlace ==
  ASSUME NEW f, Structured(f), NEW o, IsPart(f, o, "attribute")
  PROVE  /\ o \in Nat /\ f.at[o][2] \in Lists
         /\ f.at[o][3] \in MembersOf(f, f.at[o][2])
         /\ f.at[o][4] \in AttributesOf(f, f.at[o][2], f.at[o][3])
         /\ Attributes(f, f.at[o][2], f.at[o][3])[f.at[o][4] + 1] \in AttributeInfo
<1>1. o \in Nat /\ f.at[o] \in Places(f) /\ f.at[o][1] = "attribute"
  BY DEF IsPart, Structured
<1>2. PICK t \in Lists : \E m \in MembersOf(f, t) : \E j \in AttributesOf(f, t, m) :
                        f.at[o] = Attribute(t, m, j)
  BY <1>1, PlaceIs
<1>3. PICK m \in MembersOf(f, t) : \E j \in AttributesOf(f, t, m) : f.at[o] = Attribute(t, m, j)
  BY <1>2
<1>4. PICK j \in AttributesOf(f, t, m) : f.at[o] = Attribute(t, m, j)
  BY <1>3
<1>5. Attributes(f, t, m)[j + 1] \in AttributeInfo
  BY AttributesOfMember
<1>6. f.at[o][2] = t /\ f.at[o][3] = m /\ f.at[o][4] = j
  BY <1>4 DEF Attribute
<1> QED BY <1>1, <1>5, <1>6

-----------------------------------------------------------------------------
(***************************************************************************)
(* The constant pool.                                                      *)
(***************************************************************************)

\* No entry starts between an entry and the one after it.
LEMMA NextEntry ==
  ASSUME NEW f, WellFormed(f), NEW s \in DOMAIN f.entry
  PROVE  LET n == s + SlotsOf(f.entry[s])
         IN /\ s \in Nat /\ s < f.slots /\ n \in Nat /\ s < n /\ n <= f.slots
            /\ n \in DOMAIN f.entry \/ n = f.slots
            /\ \A r \in DOMAIN f.entry : r \in Nat /\ r < f.slots /\ (r <= s \/ n <= r)
            /\ IntoPool(f, n) = IF n \in DOMAIN f.entry THEN Entry(n) ELSE Header
<1> DEFINE n == s + SlotsOf(f.entry[s])
<1>1. ASSUME NEW r \in DOMAIN f.entry
      PROVE  /\ r \in Nat /\ r < f.slots /\ SlotsOf(f.entry[r]) \in {1, 2}
             /\ SlotsOf(f.entry[r]) = 2 => r + 1 \notin DOMAIN f.entry
             /\ r + SlotsOf(f.entry[r]) \in DOMAIN f.entry \/ r + SlotsOf(f.entry[r]) = f.slots
             /\ r + SlotsOf(f.entry[r]) <= f.slots
  <2>1. r \in Nat /\ f.slots \in Nat
    BY DEF WellFormed, Structured
  <2>2. r + SlotsOf(f.entry[r]) \in (DOMAIN f.entry \cap 0 .. f.slots - 1) \cup {f.slots}
    BY DEF WellFormed, PoolWellFormed
  <2>3. SlotsOf(f.entry[r]) = 2 => r + 1 \notin DOMAIN f.entry
    BY DEF SlotsOf, WellFormed, PoolWellFormed
  <2>4. SlotsOf(f.entry[r]) \in {1, 2}
    BY DEF SlotsOf
  <2> QED BY <2>1, <2>2, <2>3, <2>4
<1>2. f.slots \in Nat /\ s \in Nat /\ n \in Nat /\ s < n /\ n <= f.slots
  BY <1>1 DEF WellFormed, Structured
<1>3. \A r \in DOMAIN f.entry : r \in Nat /\ r < f.slots /\ (r <= s \/ n <= r)
  <2> SUFFICES ASSUME NEW r \in DOMAIN f.entry, ~ (r <= s), ~ (n <= r) PROVE FALSE
    BY <1>1
  <2>1. r \in Nat /\ r = s + 1 /\ SlotsOf(f.entry[s]) = 2
    BY <1>1
  <2> QED BY <1>1, <2>1
<1>4. IntoPool(f, n) = IF n \in DOMAIN f.entry THEN Entry(n) ELSE Header
  BY <1>1, <1>2 DEF IntoPool
<1> QED BY <1>1, <1>2, <1>3, <1>4

\* The first slot, and what is at the pool's offset.
LEMMA FirstEntry ==
  ASSUME NEW f, WellFormed(f)
  PROVE  /\ f.slots \in Nat
         /\ f.slots > 0 => 0 \in DOMAIN f.entry /\ At(f, 10, Entry(0))
         /\ f.slots = 0 => DOMAIN f.entry = {} /\ At(f, 10, Header)
<1>1. f.slots \in Nat
  BY DEF WellFormed, Structured
<1>2. f.slots > 0 => 0 \in DOMAIN f.entry
  BY DEF WellFormed, PoolWellFormed
<1>3. f.slots = 0 => DOMAIN f.entry = {}
  BY NextEntry
<1>4. At(f, 10, IntoPool(f, 0))
  BY DEF WellFormed, LaidOut
<1> QED BY <1>1, <1>2, <1>3, <1>4 DEF IntoPool

\* get_entry and GetConstantPoolEntry move by the size of an entry.
LEMMA BytesAreSize ==
  ASSUME NEW e, e.tag \in Tags
  PROVE  EntryBytes(e) = EntrySize(e)
BY DEF EntryBytes, EntrySize, Skipped, Tags, Wide

\* At an entry get_entry finds it, and goes on to the next place.
LEMMA EntryRead ==
  ASSUME WellFormed(file), NEW s \in DOMAIN file.entry, NEW o, At(file, o, Entry(s))
  PROVE  LET e == file.entry[s]
         IN /\ IsPart(file, o, "entry") /\ EntryAt(o) = e /\ e.tag \in Tags
            /\ get_entry(o) = [entry |-> Decoded(e), next |-> o + EntryBytes(e)]
            /\ At(file, o + EntryBytes(e), IntoPool(file, s + SlotsOf(e)))
<1> DEFINE e == file.entry[s]
<1>1. IsPart(file, o, "entry") /\ EntryAt(o) = e
  BY DEF At, IsPart, Entry, EntryAt
<1>2. e.tag \in Tags
  BY DEF WellFormed, PoolWellFormed
<1>3. get_entry(o) = [entry |-> Decoded(e), next |-> o + EntryBytes(e)]
  BY <1>1, <1>2 DEF get_entry
<1>4. At(file, o + EntryBytes(e), IntoPool(file, s + SlotsOf(e)))
  BY <1>2, AfterEntry, BytesAreSize DEF WellFormed
<1> QED BY <1>1, <1>2, <1>3, <1>4

\* One iteration of GetConstantPoolEntry's loop.
SeekStep(index, s) ==
  IF s.i < index /\ IsPart(file, s.at, "entry") /\ EntryAt(s.at).tag \in Tags
    THEN [at |-> s.at + EntryBytes(EntryAt(s.at)), i |-> s.i + Passed(EntryAt(s.at))]
    ELSE s
IsSeek(g, index) ==
  g = [n \in 0 .. index |-> IF n = 0 THEN [at |-> 10, i |-> 0] ELSE SeekStep(index, g[n - 1])]

LEMMA SeekLoop ==
  ASSUME Structured(file), NEW index \in Nat
  PROVE  \E g : IsSeek(g, index) /\ SeekEntry(index) = g[index].at
<1> DEFINE D == [at : Nat, i : Nat]
           F == [s \in D |-> SeekStep(index, s)]
           start == [at |-> 10, i |-> 0]
<1>1. F \in [D -> D]
  <2> SUFFICES ASSUME NEW s \in D PROVE SeekStep(index, s) \in D
    OBVIOUS
  <2>1. CASE s.i < index /\ IsPart(file, s.at, "entry") /\ EntryAt(s.at).tag \in Tags
    <3>1. EntryAt(s.at).length \in Nat
      BY <2>1, EntryPlace DEF EntryAt, Structured
    <3>2. EntryBytes(EntryAt(s.at)) = EntrySize(EntryAt(s.at))
      BY <2>1, BytesAreSize
    <3>3. EntrySize(EntryAt(s.at)) \in Nat /\ Passed(EntryAt(s.at)) \in Nat
      BY <3>1 DEF EntrySize, Passed, SlotsOf
    <3> QED BY <2>1, <3>2, <3>3 DEF SeekStep
  <2>2. CASE ~ (s.i < index /\ IsPart(file, s.at, "entry") /\ EntryAt(s.at).tag \in Tags)
    BY <2>2 DEF SeekStep
  <2> QED BY <2>1, <2>2
<1>2. PICK g : IsRun(g, D, F, start, index)
  <2> HIDE DEF F
  <2>1. start \in D
    OBVIOUS
  <2> HIDE DEF D, start
  <2> QED BY <1>1, <2>1, Loops
<1>3. ASSUME NEW n \in 0 .. index
      PROVE  g[n] = IF n = 0 THEN start ELSE SeekStep(index, g[n - 1])
  <2>1. n # 0 => g[n - 1] \in D /\ g[n] = F[g[n - 1]]
    <3> HIDE DEF F, D, start
    <3> QED BY <1>1, <1>2, RunSteps
  <2> QED BY <1>2, <2>1 DEF IsRun
<1>4. IsSeek(g, index)
  BY <1>2, <1>3 DEF IsSeek, IsRun
<1> QED BY <1>4, Zenon DEF SeekEntry, IsSeek, SeekStep

\* GetConstantPoolEntry's loop comes to the entry of the index.
LEMMA SeekFinds ==
  ASSUME WellFormed(file), NEW s \in DOMAIN file.entry
  PROVE  At(file, SeekEntry(s), Entry(s))
<1>1. s \in Nat /\ s < file.slots
  BY NextEntry
<1>2. PICK g : IsSeek(g, s) /\ SeekEntry(s) = g[s].at
  BY <1>1, SeekLoop DEF WellFormed
<1>3. \A n \in 0 .. s : g[n] = IF n = 0 THEN [at |-> 10, i |-> 0] ELSE SeekStep(s, g[n - 1])
  BY <1>2 DEF IsSeek
<1> DEFINE Good(n) == /\ g[n].i \in DOMAIN file.entry /\ g[n].i <= s
                      /\ g[n].i = s \/ n <= g[n].i
                      /\ At(file, g[n].at, Entry(g[n].i))
           P == {n \in 0 .. s : Good(n)}
<1>4. 0 \in P
  <2>1. g[0] = [at |-> 10, i |-> 0]
    BY <1>1, <1>3
  <2> QED BY <1>1, <2>1, FirstEntry
<1>5. ASSUME NEW n \in 0 .. s, n \in P, n # s
      PROVE  n + 1 \in P
  <2> DEFINE r == g[n].i
             o == g[n].at
             e == file.entry[r]
  <2>1. r \in DOMAIN file.entry /\ r <= s /\ (r = s \/ n <= r) /\ At(file, o, Entry(r))
    BY <1>5
  <2>2. n + 1 \in 0 .. s /\ n + 1 # 0 /\ (n + 1) - 1 = n
    BY <1>1, <1>5
  <2>3. g[n + 1] = SeekStep(s, g[n])
    BY <1>3, <2>2
  <2>4. IsPart(file, o, "entry") /\ EntryAt(o) = e /\ e.tag \in Tags
        /\ At(file, o + EntryBytes(e), IntoPool(file, r + SlotsOf(e)))
    BY <2>1, EntryRead
  <2>5. CASE r = s
    <3>1. ~ (r < s)
      BY <1>1, <2>5
    <3>2. g[n + 1] = g[n]
      BY <2>3, <3>1 DEF SeekStep
    <3> QED BY <2>1, <2>2, <2>5, <3>2
  <2>6. CASE r # s
    <3>1. r \in Nat /\ r < s
      BY <1>1, <2>1, <2>6, NextEntry
    <3>2. g[n + 1] = [at |-> o + EntryBytes(e), i |-> r + SlotsOf(e)]
      BY <2>3, <2>4, <3>1 DEF SeekStep, Passed
    <3>3. /\ r + SlotsOf(e) \in Nat /\ r < r + SlotsOf(e) /\ r + SlotsOf(e) <= s
          /\ r + SlotsOf(e) \in DOMAIN file.entry
          /\ IntoPool(file, r + SlotsOf(e)) = Entry(r + SlotsOf(e))
      BY <1>1, <2>1, <3>1, NextEntry
    <3>4. n + 1 <= r + SlotsOf(e)
      BY <1>1, <2>1, <2>6, <3>1, <3>3
    <3> QED BY <2>2, <2>4, <3>2, <3>3, <3>4
  <2> QED BY <2>5, <2>6
<1>6. s \in P
  <2> HIDE DEF P
  <2>1. s \in 0 .. s
    BY <1>1
  <2> QED BY <1>1, <1>4, <1>5, <2>1, UpTo
<1>7. g[s].i = s
  BY <1>1, <1>6, NextEntry
<1> QED BY <1>2, <1>6, <1>7

\* So the index of an entry finds it, when the reader has left the right size.
LEMMA IndexFinds ==
  ASSUME WellFormed(file), classfile.cpool_count = file.slots, NEW s \in DOMAIN file.entry
  PROVE  GetConstantPoolEntry(s) = Decoded(file.entry[s])
<1>1. s \in Nat /\ file.slots \in Nat /\ ~ (s >= classfile.cpool_count)
  BY NextEntry, FirstEntry
<1>2. get_entry(SeekEntry(s)).entry = Decoded(file.entry[s])
  BY SeekFinds, EntryRead
<1> QED BY <1>1, <1>2 DEF GetConstantPoolEntry

-----------------------------------------------------------------------------
(***************************************************************************)
(* skip_attributes, read again.                                            *)
(***************************************************************************)
SkipStep(o) == IF IsPart(file, o, "attribute") THEN o + AttributeBytes(AttributeAt(o)) ELSE ANY

IsSkip(g, o, number) == g = [n \in 0 .. number |-> IF n = 0 THEN o ELSE SkipStep(g[n - 1])]

LEMMA SkipStepType ==
  ASSUME Structured(file), NEW o
  PROVE  SkipStep(o) \in Maybe
<1>1. CASE IsPart(file, o, "attribute")
  <2>1. o \in Nat /\ AttributeAt(o) \in AttributeInfo
    BY <1>1, AttributePlace DEF AttributeAt
  <2>2. AttributeBytes(AttributeAt(o)) \in Nat
    BY <2>1 DEF AttributeBytes, AttributeInfo
  <2> QED BY <1>1, <2>1, <2>2 DEF SkipStep, Maybe
<1>2. CASE ~ IsPart(file, o, "attribute")
  BY <1>2 DEF SkipStep, Maybe
<1> QED BY <1>1, <1>2

LEMMA SkipLoop ==
  ASSUME Structured(file), NEW o \in Maybe, NEW number \in Nat
  PROVE  IsSkip(SkipTo(o, number), o, number)
<1> DEFINE F == [s \in Maybe |-> SkipStep(s)]
<1>1. F \in [Maybe -> Maybe]
  BY SkipStepType
<1>2. PICK g : IsRun(g, Maybe, F, o, number)
  <2> HIDE DEF F
  <2> QED BY <1>1, Loops
<1>3. ASSUME NEW n \in 0 .. number
      PROVE  g[n] = IF n = 0 THEN o ELSE SkipStep(g[n - 1])
  <2>1. n # 0 => g[n - 1] \in Maybe /\ g[n] = F[g[n - 1]]
    BY <1>1, <1>2, RunSteps
  <2> QED BY <1>2, <2>1 DEF IsRun
<1>4. IsSkip(g, o, number)
  BY <1>2, <1>3 DEF IsSkip, IsRun
<1> QED BY <1>4, Zenon DEF SkipTo, IsSkip, SkipStep

LEMMA SkipSteps ==
  ASSUME Structured(file), NEW o \in Maybe, NEW number \in Nat
  PROVE  /\ SkipTo(o, number)[0] = o
         /\ \A n \in 0 .. number - 1 : SkipTo(o, number)[n + 1] = SkipStep(SkipTo(o, number)[n])
         /\ \A n \in 0 .. number : SkipTo(o, number)[n] \in Maybe
<1> DEFINE g == SkipTo(o, number)
<1>1. g = [n \in 0 .. number |-> IF n = 0 THEN o ELSE SkipStep(g[n - 1])]
  BY SkipLoop, Zenon DEF IsSkip
<1> HIDE DEF g
<1>2. g[0] = o
  BY <1>1
<1>3. ASSUME NEW n \in 0 .. number - 1
      PROVE  g[n + 1] = SkipStep(g[n])
  <2>1. n + 1 \in 0 .. number /\ n + 1 # 0 /\ (n + 1) - 1 = n
    BY <1>3
  <2> QED BY <1>1, <2>1
<1>4. ASSUME NEW n \in 0 .. number
      PROVE  g[n] \in Maybe
  <2>1. n = 0 \/ g[n] = SkipStep(g[n - 1])
    BY <1>1
  <2> QED BY <1>2, <2>1, SkipStepType
<1> QED BY <1>2, <1>3, <1>4 DEF g

-----------------------------------------------------------------------------
(***************************************************************************)
(* What the reader leaves, of any file.                                    *)
(***************************************************************************)
ReadTyped ==
  /\ file \in Files
  /\ phase \in Tables \cup {"idle", "pool", "astray", "done", "lost"}
  /\ ptr \in Nat /\ i \in Nat /\ count \in Nat /\ attributes \in Nat
  /\ classfile \in [meta : SUBSET Flags, cpool_count : Nat,
                    count : [Tables -> Maybe], off : [Tables -> Maybe]]
  /\ \/ classfile.cpool_count = file.slots
     \/ classfile.meta = {} /\ phase \in {"idle", "done", "lost"}

LEMMA ReadTypedInit == ReadInit => ReadTyped
<1>1. Zero \in [meta : SUBSET Flags, cpool_count : Nat,
                count : [Tables -> Maybe], off : [Tables -> Maybe]]
  BY DEF Zero, Maybe
<1> QED BY <1>1 DEF ReadInit, ReadTyped, Zero

LEMMA OpenTyped ==
  ASSUME ReadTyped, phase \in Tables \cup {"pool"}, NEW t \in Tables, NEW o \in Nat, OpenTable(t, o)
  PROVE  ReadTyped'
<1>1. Structured(file)
  BY AccessAssumption DEF ReadTyped
<1>2. CASE GoAstray
  BY <1>2 DEF GoAstray, ReadTyped, Tables
<1>3. CASE ~ GoAstray
  <2> DEFINE n == Number(file, t)
  <2>1. n \in Nat
    BY <1>1, NumberIsNat
  <2> HIDE DEF n
  <2>2. /\ phase' = t /\ classfile' = [classfile EXCEPT !.count[t] = n, !.off[t] = o + 2]
        /\ ptr' = IF t = "interfaces" THEN o + 2 + n * 2 ELSE o + 2
        /\ i' = 0 /\ count' = n /\ attributes' = IF t = "attributes" THEN n ELSE 0
        /\ file' = file
    BY <1>3 DEF OpenTable, n
  <2>3. classfile.cpool_count = file.slots
    BY DEF ReadTyped, Tables
  <2>4. ptr' \in Nat /\ attributes' \in Nat
    BY <2>1, <2>2
  <2>5. /\ classfile' \in [meta : SUBSET Flags, cpool_count : Nat,
                           count : [Tables -> Maybe], off : [Tables -> Maybe]]
        /\ classfile'.cpool_count = classfile.cpool_count
    <3>1. n \in Maybe /\ o + 2 \in Maybe
      BY <2>1 DEF Maybe
    <3> QED BY <2>2, <3>1 DEF ReadTyped
  <2> QED BY <2>1, <2>2, <2>3, <2>4, <2>5 DEF ReadTyped
<1> QED BY <1>2, <1>3

LEMMA ReadTypedStep == ReadTyped /\ [ReadNext]_readVars => ReadTyped'
<1> SUFFICES ASSUME ReadTyped, [ReadNext]_readVars PROVE ReadTyped'
  OBVIOUS
<1>s. Structured(file) /\ file.slots \in Nat
  BY AccessAssumption DEF ReadTyped, Structured
<1>1. CASE Reject
  BY <1>1 DEF Reject, ReadTyped, Tables
<1>2. CASE Accept
  <2>1. classfile' = [Zero EXCEPT !.meta = {CLASSFILE_META_VALID, CLASSFILE_META_SOURCE_TYPE},
                                  !.cpool_count = file.slots]
    BY <1>2 DEF Accept
  <2>2. /\ classfile' \in [meta : SUBSET Flags, cpool_count : Nat,
                           count : [Tables -> Maybe], off : [Tables -> Maybe]]
        /\ classfile'.cpool_count = file.slots
    BY <1>s, <2>1 DEF Zero, Maybe, Flags
  <2>3. file.slots % CountMod \in Nat
    BY <1>s, ReaderAssumption
  <2> QED BY <1>2, <2>2, <2>3 DEF Accept, ReadTyped
<1>3. CASE SkipEntry
  <2>1. CASE ~ IsPart(file, ptr, "entry")
    BY <1>3, <2>1 DEF SkipEntry, GoAstray, ReadTyped
  <2>2. CASE IsPart(file, ptr, "entry")
    <3> DEFINE e == file.entry[file.at[ptr][4]]
    <3>1. e.tag \in Nat /\ e.length \in Nat
      BY <1>s, <2>2, EntryPlace DEF Structured
    <3> HIDE DEF e
    <3>2. /\ \/ e.tag \in KnownTags /\ ptr' = ptr + Skipped(e) /\ i' = Counted(i, e) /\ count' = count
             \/ ptr' = ptr + 1 /\ i' = i /\ count' = i
          /\ UNCHANGED <<file, phase, attributes, classfile>>
      BY <1>3, <2>2 DEF SkipEntry, e
    <3>3. e.tag \in KnownTags => Skipped(e) \in Nat
      BY <3>1 DEF Skipped, KnownTags, Wide
    <3>4. Counted(i, e) \in Nat
      <4>1. SlotsOf(e) \in Nat
        BY DEF SlotsOf
      <4> QED BY <4>1, ReaderAssumption DEF Counted, ReadTyped
    <3>5. ptr' \in Nat /\ i' \in Nat /\ count' \in Nat
      BY <3>2, <3>3, <3>4 DEF ReadTyped
    <3> QED BY <3>2, <3>5 DEF ReadTyped
  <2> QED BY <2>1, <2>2
<1>4. CASE ReadInterfaces
  <2>1. ptr + 6 \in Nat
    BY DEF ReadTyped
  <2> QED BY <1>4, <2>1, OpenTyped DEF ReadInterfaces, Tables
<1>5. CASE ReadFields \/ ReadMethods \/ ReadAttributes
  <2>1. ptr \in Nat
    BY DEF ReadTyped
  <2> QED BY <1>5, <2>1, OpenTyped DEF ReadFields, ReadMethods, ReadAttributes, SkippedMembers, Tables
<1>6. CASE SkipMember
  <2>1. CASE ~ IsPart(file, ptr, "member")
    BY <1>6, <2>1 DEF SkipMember, GoAstray, ReadTyped
  <2>2. CASE IsPart(file, ptr, "member")
    <3>1. Len(Attributes(file, file.at[ptr][2], file.at[ptr][3])) \in Nat
      BY <1>s, <2>2, MemberPlace
    <3> QED BY <1>6, <2>2, <3>1 DEF SkipMember, ReadTyped
  <2> QED BY <2>1, <2>2
<1>7. CASE SkipAttribute
  <2>1. CASE ~ IsPart(file, ptr, "attribute")
    BY <1>7, <2>1 DEF SkipAttribute, GoAstray, ReadTyped
  <2>2. CASE IsPart(file, ptr, "attribute")
    <3> DEFINE a == Attributes(file, file.at[ptr][2], file.at[ptr][3])[file.at[ptr][4] + 1]
    <3>1. a \in AttributeInfo
      BY <1>s, <2>2, AttributePlace
    <3> HIDE DEF a
    <3>2. /\ ptr' = ptr + AttributeBytes(a) /\ attributes' = attributes - 1
          /\ attributes > 0 /\ UNCHANGED <<file, phase, i, count, classfile>>
      BY <1>7, <2>2 DEF SkipAttribute, a
    <3>3. ptr' \in Nat /\ attributes' \in Nat
      BY <3>1, <3>2 DEF AttributeBytes, AttributeInfo, ReadTyped
    <3> QED BY <3>2, <3>3 DEF ReadTyped
  <2> QED BY <2>1, <2>2
<1>8. CASE Finish
  <2>1. /\ classfile' \in [meta : SUBSET Flags, cpool_count : Nat,
                           count : [Tables -> Maybe], off : [Tables -> Maybe]]
        /\ classfile'.cpool_count = classfile.cpool_count
    BY <1>8 DEF Finish, ReadTyped, Flags
  <2>2. classfile.cpool_count = file.slots
    BY <1>8 DEF Finish, ReadTyped, Tables
  <2> QED BY <1>8, <2>1, <2>2 DEF Finish, ReadTyped
<1>9. CASE Blunder
  <2>1. classfile.cpool_count = file.slots
    BY <1>9 DEF Blunder, ReadTyped, Tables
  <2>2. CASE UNCHANGED classfile /\ phase' = "lost"
    BY <1>9, <2>1, <2>2 DEF Blunder, ReadTyped
  <2>3. CASE ~ (UNCHANGED classfile /\ phase' = "lost")
    <3> DEFINE counts == [t \in Tables |-> IF classfile.off[t] = 0 THEN ANY ELSE classfile.count[t]]
               offs == [t \in Tables |-> IF classfile.off[t] = 0 THEN ANY ELSE classfile.off[t]]
    <3>1. /\ phase' = "done"
          /\ classfile' = [classfile EXCEPT !.meta = @ \cup {CLASSFILE_META_READ_SUCCESS},
                                            !.count = counts, !.off = offs]
      BY <1>9, <2>3 DEF Blunder
    <3>2. counts \in [Tables -> Maybe] /\ offs \in [Tables -> Maybe]
      BY DEF ReadTyped, Maybe
    <3> HIDE DEF counts, offs
    <3>3. /\ classfile' \in [meta : SUBSET Flags, cpool_count : Nat,
                             count : [Tables -> Maybe], off : [Tables -> Maybe]]
          /\ classfile'.cpool_count = classfile.cpool_count
      BY <3>1, <3>2 DEF ReadTyped, Flags
    <3> QED BY <1>9, <2>1, <3>1, <3>3 DEF Blunder, ReadTyped
  <2> QED BY <2>2, <2>3
<1>10. CASE UNCHANGED readVars
  BY <1>10 DEF readVars, ReadTyped
<1> QED BY <1>1, <1>2, <1>3, <1>4, <1>5, <1>6, <1>7, <1>8, <1>9, <1>10 DEF ReadNext, ReadStep

-----------------------------------------------------------------------------
(***************************************************************************)
(* What a call returns.                                                    *)
(***************************************************************************)
FromFile(x) ==
  \/ x.is \in {"nothing", "astray", "entry"}
  \/ \E o : x = read_member(o).member \/ x = ReadAttributeAt(o).attribute

LEMMA EntryType ==
  ASSUME Structured(file), NEW o
  PROVE  /\ get_entry(o).entry.is \in {"nothing", "astray", "entry"}
         /\ get_entry(o).next \in Maybe
<1>1. CASE ~ IsPart(file, o, "entry")
  BY <1>1 DEF get_entry, Astray, Maybe
<1>2. CASE IsPart(file, o, "entry") /\ EntryAt(o).tag \notin Tags
  <2>1. o \in Nat
    BY <1>2, EntryPlace
  <2> QED BY <1>2, <2>1 DEF get_entry, Nothing, Maybe
<1>3. CASE IsPart(file, o, "entry") /\ EntryAt(o).tag \in Tags
  <2>1. o \in Nat /\ EntryAt(o).length \in Nat
    BY <1>3, EntryPlace DEF EntryAt, Structured
  <2>2. EntryBytes(EntryAt(o)) = EntrySize(EntryAt(o))
    BY <1>3, BytesAreSize
  <2>3. EntrySize(EntryAt(o)) \in Nat
    BY <2>1 DEF EntrySize
  <2>4. get_entry(o) = [entry |-> Decoded(EntryAt(o)), next |-> o + EntryBytes(EntryAt(o))]
    BY <1>3 DEF get_entry
  <2>5. Decoded(EntryAt(o)).is = "entry"
    BY DEF Decoded
  <2> QED BY <2>1, <2>2, <2>3, <2>4, <2>5 DEF Maybe
<1> QED BY <1>1, <1>2, <1>3

LEMMA LookUpType ==
  ASSUME Structured(file), NEW n
  PROVE  GetConstantPoolEntry(n).is \in {"nothing", "astray", "entry"}
<1>1. get_entry(SeekEntry(n)).entry.is \in {"nothing", "astray", "entry"}
  BY EntryType
<1> QED BY <1>1 DEF GetConstantPoolEntry, Nothing

LEMMA ClassNameType ==
  ASSUME Structured(file), NEW n
  PROVE  ClassName(n).is \in {"nothing", "astray", "entry"}
<1> DEFINE class == GetConstantPoolEntry(Less1(n))
<1>1. class.is \in {"nothing", "astray", "entry"}
  BY LookUpType
<1>2. GetConstantPoolEntry(Less1(0)).is \in {"nothing", "astray", "entry"}
  BY LookUpType
<1>3. GetConstantPoolEntry(Less1(class.ref)).is \in {"nothing", "astray", "entry"}
  BY LookUpType
<1>4. ClassName(n) \in {Astray, GetConstantPoolEntry(Less1(0)), GetConstantPoolEntry(Less1(class.ref))}
  <2>1. class.is = "nothing" => ClassName(n) = GetConstantPoolEntry(Less1(0))
    BY DEF ClassName
  <2>2. class.is = "astray" => ClassName(n) = Astray
    BY DEF ClassName
  <2>3. class.is = "entry" => ClassName(n) = GetConstantPoolEntry(Less1(class.ref))
    BY DEF ClassName
  <2> HIDE DEF class
  <2> QED BY <1>1, <2>1, <2>2, <2>3
<1> HIDE DEF class
<1> QED BY <1>2, <1>3, <1>4 DEF Astray

LEMMA MemberType ==
  ASSUME Structured(file), NEW o
  PROVE  LET x == read_member(o).member
         IN /\ x = Astray \/ /\ IsPart(file, o, "member") /\ read_member(o).next # ANY
                             /\ x.is = file.at[o][2] /\ x.is \in {"fields", "methods"}
                             /\ x.which = file.at[o][3]
                             /\ x.attributes_count = Len(Attributes(file, x.is, x.which))
                             /\ x.attributes_count \in Nat
                             /\ x.attributes = o + 8 /\ x.attributes \in Nat
                             /\ x.code_attr_off = IF x.is = "methods"
                                                  THEN find_code_attribute(o + 8, x.attributes_count)
                                                  ELSE 0
            /\ read_member(o).next \in Maybe
<1> DEFINE p == file.at[o]
           n == Len(Attributes(file, p[2], p[3]))
           next == SkipTo(o + 8, n)[n]
           m == [is |-> p[2], which |-> p[3], attributes_count |-> n, attributes |-> o + 8,
                 code_attr_off |-> IF p[2] = "methods" THEN find_code_attribute(o + 8, n) ELSE 0]
<1>1. CASE ~ IsPart(file, o, "member")
  BY <1>1 DEF read_member, Maybe
<1>2. CASE IsPart(file, o, "member") /\ next = ANY
  BY <1>2 DEF read_member, Maybe
<1>3. CASE IsPart(file, o, "member") /\ next # ANY
  <2>1. read_member(o) = [member |-> m, next |-> next]
    BY <1>3 DEF read_member
  <2>2. /\ o \in Nat /\ p[2] \in {"fields", "methods"} /\ n \in Nat
    BY <1>3, MemberPlace
  <2>3. next \in Maybe
    <3>1. o + 8 \in Maybe
      BY <2>2 DEF Maybe
    <3>2. \A k \in 0 .. n : SkipTo(o + 8, n)[k] \in Maybe
      BY <2>2, <3>1, SkipSteps
    <3> QED BY <2>2, <3>2
  <2> HIDE DEF next
  <2> QED BY <1>3, <2>1, <2>2, <2>3
<1> QED BY <1>1, <1>2, <1>3

LEMMA AttributeType ==
  ASSUME Structured(file), NEW o
  PROVE  LET x == ReadAttributeAt(o).attribute
         IN /\ x = Astray \/ /\ IsPart(file, o, "attribute") /\ x.is = "attribute"
                             /\ x.attributes_count \in Nat /\ x.attributes \in Nat
            /\ ReadAttributeAt(o).next \in Maybe
<1> DEFINE a == AttributeAt(o)
           inner == o + InnerOffset(a)
           n == Len(Attributes(file, "code", file.at[o][3]))
           behind == SkipTo(inner, n)[n]
           is(type, number, offset) ==
             [is |-> "attribute", type |-> type, attributes_count |-> number, attributes |-> offset]
<1>1. CASE ~ IsPart(file, o, "attribute")
  BY <1>1 DEF ReadAttributeAt, Maybe
<1>2. CASE IsPart(file, o, "attribute")
  <2>1. o \in Nat /\ a \in AttributeInfo
    BY <1>2, AttributePlace DEF AttributeAt
  <2>2. CASE SynthType(a) = "Code" /\ (file.at[o][2] # "methods" \/ behind = ANY)
    BY <1>2, <2>2 DEF ReadAttributeAt, Maybe
  <2>3. CASE SynthType(a) = "Code" /\ file.at[o][2] = "methods" /\ behind # ANY
    <3>1. ReadAttributeAt(o) = [attribute |-> is("Code", n, inner), next |-> behind]
      BY <1>2, <2>3 DEF ReadAttributeAt
    <3>2. inner \in Nat
      BY <2>1 DEF InnerOffset, AttributeInfo
    <3>3. n \in Nat
      <4>1. file.at[o][3] \in MembersOf(file, "code")
        BY <1>2, <2>3, AttributePlace DEF MembersOf, Structured
      <4> QED BY <4>1, AttributesOfMember DEF Lists
    <3>4. behind \in Maybe
      <4>1. inner \in Maybe
        BY <3>2 DEF Maybe
      <4>2. \A k \in 0 .. n : SkipTo(inner, n)[k] \in Maybe
        BY <3>3, <4>1, SkipSteps
      <4> QED BY <3>3, <4>2
    <3> HIDE DEF n, inner, behind
    <3> QED BY <1>2, <3>1, <3>2, <3>3, <3>4
  <2>4. CASE SynthType(a) # "Code"
    <3>1. \/ ReadAttributeAt(o) = [attribute |-> is("ConstantValue", 0, 0), next |-> o + 6 + 2]
          \/ ReadAttributeAt(o) = [attribute |-> is("other", 0, 0), next |-> o + 6]
      BY <1>2, <2>4 DEF ReadAttributeAt
    <3> QED BY <1>2, <2>1, <3>1 DEF Maybe
  <2> QED BY <2>2, <2>3, <2>4
<1> QED BY <1>1, <1>2

\* GetField and GetMethod return what they read, or nothing.
LEMMA GetMemberFrom ==
  ASSUME NEW t, NEW n, NEW bound
  PROVE  FromFile(GetMember(t, n, bound))
BY DEF GetMember, FromFile, Astray, Nothing

\* The client keeps nothing, a member, or a Code attribute.
KeptTyped(x) ==
  \/ x = Nothing
  \/ /\ x.is \in {"fields", "methods", "attribute"}
     /\ x.attributes_count \in Nat /\ x.attributes \in Nat

LEMMA KeptType ==
  ASSUME Structured(file), NEW x, FromFile(x)
  PROVE  /\ KeptTyped(Kept(x))
         /\ Kept(x) \in {x, Nothing}
<1>1. Kept(x) \in {x, Nothing}
  BY DEF Kept
<1>2. CASE x.is \in {"nothing", "astray", "entry"}
  BY <1>2 DEF Kept, KeptTyped
<1>3. ASSUME NEW o, x = read_member(o).member
      PROVE  KeptTyped(Kept(x))
  <2>1. x = Astray \/ KeptTyped(x)
    BY <1>3, MemberType DEF KeptTyped
  <2> QED BY <1>1, <2>1 DEF KeptTyped, Kept, Astray
<1>4. ASSUME NEW o, x = ReadAttributeAt(o).attribute
      PROVE  KeptTyped(Kept(x))
  <2>1. x = Astray \/ KeptTyped(x)
    BY <1>4, AttributeType DEF KeptTyped
  <2> QED BY <1>1, <2>1 DEF KeptTyped, Kept, Astray
<1> QED BY <1>1, <1>2, <1>3, <1>4 DEF FromFile

-----------------------------------------------------------------------------
(***************************************************************************)
(* The steps of a client.                                                  *)
(***************************************************************************)
Returns == \E x : FromFile(x) /\ got' = Kept(x)

LEMMA GetsCase ==
  ASSUME NEW x, FromFile(x), Gets(x)
  PROVE  Crash \/ (UNCHANGED <<readVars, it>> /\ Returns)
<1>1. CASE got' = Kept(x) /\ UNCHANGED <<readVars, it>>
  <2>1. Returns
    BY <1>1, Zenon DEF Returns
  <2> QED BY <1>1, <2>1
<1> QED BY <1>1 DEF Gets

LEMMA UseCases ==
  ASSUME Structured(file), Use
  PROVE  \/ Crash
         \/ UNCHANGED <<readVars, it>> /\ Returns
         \/ CreateIterator
         \/ /\ HasNext /\ UNCHANGED readVars /\ Returns
            /\ \E next \in Maybe :
                 /\ it' = [it EXCEPT !.index = @ + 1, !.ptr = next]
                 /\ it.of = "pool" => next = get_entry(it.ptr).next
                 /\ it.of \in {"fields", "methods"} => next = read_member(it.ptr).next
                 /\ it.of = "attributes" => next = ReadAttributeAt(it.ptr).next
<1>1. CASE ByIndex
  <2>1. PICK n \in Indexes : \/ Gets(GetConstantPoolEntry(n))
                             \/ Gets(GetMember("fields", n, FieldBound))
                             \/ Gets(GetMember("methods", n, MethodBound))
    BY <1>1 DEF ByIndex
  <2>2. FromFile(GetConstantPoolEntry(n))
    BY LookUpType DEF FromFile
  <2> QED BY <2>1, <2>2, GetMemberFrom, GetsCase
<1>2. CASE ClassNames
  <2>1. FromFile(Astray) /\ FromFile(ClassName(file.this)) /\ FromFile(ClassName(file.super))
    BY ClassNameType DEF FromFile, Astray
  <2> QED BY <1>2, <2>1, GetsCase DEF ClassNames
<1>3. CASE IteratorNext /\ ~ HasNext
  <2>1. FromFile(Nothing)
    BY DEF FromFile, Nothing
  <2> QED BY <1>3, <2>1, GetsCase DEF IteratorNext
<1>4. CASE IteratorNext /\ HasNext
  <2>1. ASSUME it.of = "pool", Advance(get_entry(it.ptr).entry, get_entry(it.ptr).next), ~ Crash
        PROVE  /\ UNCHANGED readVars /\ Returns
               /\ \E next \in Maybe : /\ it' = [it EXCEPT !.index = @ + 1, !.ptr = next]
                                      /\ next = get_entry(it.ptr).next
    <3>1. FromFile(get_entry(it.ptr).entry) /\ get_entry(it.ptr).next \in Maybe
      BY EntryType DEF FromFile
    <3> QED BY <2>1, <3>1 DEF Advance, Returns
  <2>2. ASSUME it.of \in {"fields", "methods"},
               Advance(read_member(it.ptr).member, read_member(it.ptr).next), ~ Crash
        PROVE  /\ UNCHANGED readVars /\ Returns
               /\ \E next \in Maybe : /\ it' = [it EXCEPT !.index = @ + 1, !.ptr = next]
                                      /\ next = read_member(it.ptr).next
    <3>1. FromFile(read_member(it.ptr).member) /\ read_member(it.ptr).next \in Maybe
      BY MemberType DEF FromFile
    <3> QED BY <2>2, <3>1 DEF Advance, Returns
  <2>3. ASSUME it.of = "attributes",
               Advance(ReadAttributeAt(it.ptr).attribute, ReadAttributeAt(it.ptr).next), ~ Crash
        PROVE  /\ UNCHANGED readVars /\ Returns
               /\ \E next \in Maybe : /\ it' = [it EXCEPT !.index = @ + 1, !.ptr = next]
                                      /\ next = ReadAttributeAt(it.ptr).next
    <3>1. FromFile(ReadAttributeAt(it.ptr).attribute) /\ ReadAttributeAt(it.ptr).next \in Maybe
      BY AttributeType DEF FromFile
    <3> QED BY <2>3, <3>1 DEF Advance, Returns
  <2> QED BY <1>4, <2>1, <2>2, <2>3 DEF IteratorNext
<1>5. CASE GetCodeAttribute
  <2>1. FromFile(ReadAttributeAt(got.code_attr_off).attribute)
    BY DEF FromFile
  <2> QED BY <1>5, <2>1, GetsCase DEF GetCodeAttribute
<1>6. CASE GetAttributeInfo
  <2>1. FromFile(Nothing)
    BY DEF FromFile, Nothing
  <2> QED BY <1>6, <2>1, GetsCase DEF GetAttributeInfo
<1> QED BY <1>1, <1>2, <1>3, <1>4, <1>5, <1>6 DEF Use

-----------------------------------------------------------------------------
(***************************************************************************)
(* What a client has, in any file.                                         *)
(***************************************************************************)
AccessTyped ==
  /\ it \in [of : {"none", "pool", "fields", "methods", "attributes"},
             index : Nat, count : Nat, ptr : Maybe]
  /\ it.index <= it.count
  /\ KeptTyped(got)
  /\ phase \notin {"done", "lost"} => it = NoIterator /\ got = Nothing

AccessInv == ReadTyped /\ AccessTyped

\* A step of the reader is none of a client.
LEMMA ReadCases ==
  ASSUME ReadNext
  PROVE  phase \notin {"done", "lost"} /\ (phase = "idle" \/ phase' # "idle")
BY DEF ReadNext, Reject, Accept, ReadStep, SkipEntry, ReadInterfaces, ReadFields, SkipMember,
       SkipAttribute, ReadMethods, ReadAttributes, SkippedMembers, Finish, Blunder, OpenTable,
       GoAstray, Tables

LEMMA AccessStep ==
  ASSUME AccessInv, [Next]_vars
  PROVE  AccessInv'
<1>1. CASE ReadNext /\ UNCHANGED accessVars
  <2>1. it' = it /\ got' = got /\ it = NoIterator /\ got = Nothing
    BY <1>1, ReadCases DEF accessVars, AccessInv, AccessTyped
  <2>2. ReadTyped'
    BY <1>1, ReadTypedStep DEF AccessInv
  <2> QED BY <2>1, <2>2 DEF AccessInv, AccessTyped, KeptTyped
<1>2. CASE Use
  <2>1. Structured(file) /\ phase = "done"
    BY <1>2, AccessAssumption DEF AccessInv, ReadTyped, Use
  <2>2. CASE Crash
    BY <2>2 DEF Crash, AccessInv, ReadTyped, AccessTyped, KeptTyped, Tables
  <2>3. CASE UNCHANGED <<readVars, it>> /\ Returns
    <3>1. ReadTyped'
      BY <2>3, ReadTypedStep DEF AccessInv
    <3>2. KeptTyped(got')
      BY <2>1, <2>3, KeptType DEF Returns
    <3> QED BY <2>1, <2>3, <3>1, <3>2 DEF AccessInv, AccessTyped, KeptTyped, readVars
  <2>4. CASE CreateIterator
    <3>1. ReadTyped'
      BY <2>4, ReadTypedStep DEF AccessInv, CreateIterator
    <3>2. /\ classfile.cpool_count \in Nat /\ 10 \in Maybe
          /\ \A t \in {"fields", "methods", "attributes"} :
               classfile.count[t] \in Maybe /\ classfile.off[t] \in Maybe
      BY DEF AccessInv, ReadTyped, Tables, Maybe
    <3>3. got # Nothing => got.attributes_count \in Nat /\ got.attributes \in Nat
      BY DEF AccessInv, AccessTyped, KeptTyped
    <3>4. /\ it' \in [of : {"none", "pool", "fields", "methods", "attributes"},
                      index : Nat, count : Nat, ptr : Maybe]
          /\ it'.index <= it'.count
      BY <2>4, <3>2, <3>3 DEF CreateIterator, Iterator, Maybe, ANY
    <3> QED BY <2>1, <2>4, <3>1, <3>4 DEF AccessInv, AccessTyped, KeptTyped, CreateIterator, readVars
  <2>5. ASSUME HasNext, UNCHANGED readVars, Returns, NEW next \in Maybe,
               it' = [it EXCEPT !.index = @ + 1, !.ptr = next]
        PROVE  AccessInv'
    <3>1. ReadTyped'
      BY <2>5, ReadTypedStep DEF AccessInv
    <3>2. KeptTyped(got')
      BY <2>1, <2>5, KeptType DEF Returns
    <3>3. /\ it' \in [of : {"none", "pool", "fields", "methods", "attributes"},
                      index : Nat, count : Nat, ptr : Maybe]
          /\ it'.index <= it'.count
      <4>1. it \in [of : {"none", "pool", "fields", "methods", "attributes"},
                    index : Nat, count : Nat, ptr : Maybe]
        BY DEF AccessInv, AccessTyped
      <4>2. it.index + 1 \in Nat /\ it.index + 1 <= it.count
        BY <2>5, <4>1 DEF HasNext
      <4>3. it'.index = it.index + 1 /\ it'.count = it.count
        BY <2>5, <4>1
      <4>4. it' \in [of : {"none", "pool", "fields", "methods", "attributes"},
                     index : Nat, count : Nat, ptr : Maybe]
        BY <2>5, <4>1, <4>2
      <4> QED BY <4>2, <4>3, <4>4
    <3> QED BY <2>1, <2>5, <3>1, <3>2, <3>3 DEF AccessInv, AccessTyped, KeptTyped, readVars
  <2> QED BY <1>2, <2>1, <2>2, <2>3, <2>4, <2>5, UseCases
<1>3. CASE UNCHANGED vars
  <2>1. ReadTyped'
    BY <1>3, ReadTypedStep DEF AccessInv, vars
  <2> QED BY <1>3, <2>1 DEF AccessInv, AccessTyped, KeptTyped, vars, readVars, accessVars
<1> QED BY <1>1, <1>2, <1>3 DEF Next

LEMMA AccessInit == Init => AccessInv
<1> SUFFICES ASSUME Init PROVE AccessInv
  OBVIOUS
<1>1. ReadTyped
  BY ReadTypedInit DEF Init
<1> QED BY <1>1 DEF AccessInv, AccessTyped, KeptTyped, Init, NoIterator, Maybe

LEMMA AccessAlways == Spec => []AccessInv
<1>1. AccessInv /\ [Next]_vars => AccessInv'
  BY AccessStep
<1> QED BY <1>1, AccessInit, PTL DEF Spec

\* Every variable keeps its type, whatever the file and whatever the client calls
\* (all functions of the class file library).
THEOREM TypeCorrectInUse == Spec => []TypeOK
<1>1. AccessInv => TypeOK
  <2> SUFFICES ASSUME AccessInv PROVE TypeOK
    OBVIOUS
  <2>1. got.is \in {"nothing", "fields", "methods", "attribute"}
    BY DEF AccessInv, AccessTyped, KeptTyped, Nothing
  <2>2. it.index \in 0 .. it.count
    BY DEF AccessInv, AccessTyped
  <2> QED BY <2>1, <2>2 DEF TypeOK, AccessInv, ReadTyped, AccessTyped, Maybe, Flags
<1> QED BY <1>1, AccessAlways, PTL

\* The index of an entry finds that entry, in every well-formed file whose magic was
\* found, however its reading ended (GetConstantPoolEntry, get_entry).
THEOREM IndexExact == Spec => []IndexFindsEntry
<1>1. AccessInv => IndexFindsEntry
  <2> SUFFICES ASSUME AccessInv, classfile.meta # {}, WellFormed(file), NEW s \in DOMAIN file.entry
               PROVE  GetConstantPoolEntry(s) = Decoded(file.entry[s])
    BY DEF IndexFindsEntry
  <2>1. classfile.cpool_count = file.slots
    BY DEF AccessInv, ReadTyped
  <2> QED BY <2>1, IndexFinds
<1> QED BY <1>1, AccessAlways, PTL

-----------------------------------------------------------------------------
(***************************************************************************)
(* The pool's iterator.                                                    *)
(***************************************************************************)
EntriesBefore(f, s) == {r \in DOMAIN f.entry : r < s}

LEMMA EntriesCounted ==
  ASSUME NEW f, WellFormed(f)
  PROVE  /\ IsFiniteSet(DOMAIN f.entry) /\ Cardinality(DOMAIN f.entry) \in Nat
         /\ \A s : /\ Cardinality(EntriesBefore(f, s)) \in Nat
                   /\ IsFiniteSet(EntriesBefore(f, s))
         /\ \A s \in DOMAIN f.entry :
              Cardinality(EntriesBefore(f, s)) < Cardinality(DOMAIN f.entry)
<1>1. f.slots \in Nat /\ DOMAIN f.entry \subseteq 0 .. f.slots - 1
  BY NextEntry, FirstEntry
<1>2. IsFiniteSet(0 .. f.slots - 1)
  BY <1>1, FS_Interval
<1>3. IsFiniteSet(DOMAIN f.entry) /\ Cardinality(DOMAIN f.entry) \in Nat
  BY <1>1, <1>2, FS_Subset, FS_CardinalityType
<1>4. ASSUME NEW s
      PROVE  /\ Cardinality(EntriesBefore(f, s)) \in Nat /\ IsFiniteSet(EntriesBefore(f, s))
             /\ EntriesBefore(f, s) \subseteq DOMAIN f.entry
  BY <1>3, FS_Subset, FS_CardinalityType DEF EntriesBefore
<1>5. ASSUME NEW s \in DOMAIN f.entry
      PROVE  Cardinality(EntriesBefore(f, s)) < Cardinality(DOMAIN f.entry)
  <2>1. s \notin EntriesBefore(f, s)
    BY NextEntry DEF EntriesBefore
  <2>2. EntriesBefore(f, s) # DOMAIN f.entry
    BY <2>1
  <2>3. /\ Cardinality(EntriesBefore(f, s)) <= Cardinality(DOMAIN f.entry)
        /\ Cardinality(EntriesBefore(f, s)) = Cardinality(DOMAIN f.entry)
             => EntriesBefore(f, s) = DOMAIN f.entry
    BY <1>3, <1>4, FS_Subset
  <2> QED BY <1>3, <1>4, <2>2, <2>3
<1> QED BY <1>3, <1>4, <1>5

LEMMA EntryCounted ==
  ASSUME NEW f, WellFormed(f), NEW s \in DOMAIN f.entry
  PROVE  LET n == s + SlotsOf(f.entry[s])
         IN /\ Cardinality(EntriesBefore(f, n)) = Cardinality(EntriesBefore(f, s)) + 1
            /\ n \notin DOMAIN f.entry => EntriesBefore(f, n) = DOMAIN f.entry
<1> DEFINE n == s + SlotsOf(f.entry[s])
<1>1. /\ s \in Nat /\ n \in Nat /\ s < n
      /\ n \in DOMAIN f.entry \/ n = f.slots
      /\ \A r \in DOMAIN f.entry : r \in Nat /\ r < f.slots /\ (r <= s \/ n <= r)
  BY NextEntry
<1> HIDE DEF n
<1>2. EntriesBefore(f, n) = EntriesBefore(f, s) \cup {s}
  BY <1>1 DEF EntriesBefore
<1>3. s \notin EntriesBefore(f, s)
  BY <1>1 DEF EntriesBefore
<1>4. Cardinality(EntriesBefore(f, n)) = Cardinality(EntriesBefore(f, s)) + 1
  BY <1>2, <1>3, EntriesCounted, FS_AddElement
<1>5. n \notin DOMAIN f.entry => EntriesBefore(f, n) = DOMAIN f.entry
  BY <1>1 DEF EntriesBefore
<1> QED BY <1>4, <1>5 DEF n

\* Where the iterator's pointer is after index calls.
PoolAt(f, index, o) ==
  \/ \E s \in DOMAIN f.entry :
       At(f, o, Entry(s)) /\ Cardinality(EntriesBefore(f, s)) = index
  \/ index = Cardinality(DOMAIN f.entry) /\ At(f, o, Header)
  \/ index > Cardinality(DOMAIN f.entry) /\ o = ANY

LEMMA PoolFirst ==
  ASSUME WellFormed(file)
  PROVE  PoolAt(file, 0, 10)
<1>1. CASE file.slots > 0
  <2>1. 0 \in DOMAIN file.entry /\ At(file, 10, Entry(0))
    BY <1>1, FirstEntry
  <2>2. EntriesBefore(file, 0) = {}
    BY NextEntry DEF EntriesBefore
  <2> QED BY <2>1, <2>2, FS_EmptySet DEF PoolAt
<1>2. CASE file.slots = 0
  BY <1>2, FirstEntry, FS_EmptySet DEF PoolAt
<1> QED BY <1>1, <1>2, FirstEntry

LEMMA PoolNext ==
  ASSUME WellFormed(file), NEW index \in Nat, NEW o, PoolAt(file, index, o)
  PROVE  PoolAt(file, index + 1, get_entry(o).next)
<1> DEFINE N == Cardinality(DOMAIN file.entry)
<1>0. N \in Nat
  BY EntriesCounted
<1> HIDE DEF N
<1>1. ASSUME NEW s \in DOMAIN file.entry,
             At(file, o, Entry(s)), Cardinality(EntriesBefore(file, s)) = index
      PROVE  PoolAt(file, index + 1, get_entry(o).next)
  <2> DEFINE n == s + SlotsOf(file.entry[s])
  <2>1. At(file, get_entry(o).next, IntoPool(file, n))
    <3>1. /\ get_entry(o) = [entry |-> Decoded(file.entry[s]), next |-> o + EntryBytes(file.entry[s])]
          /\ At(file, o + EntryBytes(file.entry[s]), IntoPool(file, n))
      BY <1>1, EntryRead
    <3> QED BY <3>1
  <2>2. IntoPool(file, n) = IF n \in DOMAIN file.entry THEN Entry(n) ELSE Header
    BY NextEntry
  <2>3. /\ Cardinality(EntriesBefore(file, n)) = index + 1
        /\ n \notin DOMAIN file.entry => EntriesBefore(file, n) = DOMAIN file.entry
    BY <1>1, EntryCounted
  <2> HIDE DEF n
  <2> QED BY <2>1, <2>2, <2>3 DEF PoolAt
<1>2. CASE index >= N /\ (At(file, o, Header) \/ o = ANY)
  <2>1. ~ IsPart(file, o, "entry")
    <3>1. CASE At(file, o, Header)
      BY <3>1 DEF At, IsPart, Header
    <3>2. CASE o = ANY
      BY <3>2, EntryPlace DEF WellFormed, ANY
    <3> QED BY <1>2, <3>1, <3>2
  <2>2. get_entry(o).next = ANY
    BY <2>1 DEF get_entry
  <2> QED BY <1>0, <1>2, <2>2 DEF PoolAt, N
<1> QED BY <1>0, <1>1, <1>2 DEF PoolAt, N

PoolIt == it.of = "pool" /\ phase = "done" /\ WellFormed(file) => PoolAt(file, it.index, it.ptr)

LEMMA PoolItExact == AccessInv /\ PoolIt => PoolIteratorExact
<1> SUFFICES ASSUME AccessInv, it.of = "pool", phase = "done", WellFormed(file),
                    PoolAt(file, it.index, it.ptr)
             PROVE  PoolIteratorExact
  BY DEF PoolIt, PoolIteratorExact
<1> DEFINE N == Cardinality(DOMAIN file.entry)
<1>1. N \in Nat
  BY EntriesCounted
<1> HIDE DEF N
<1>2. ASSUME NEW s \in DOMAIN file.entry,
             At(file, it.ptr, Entry(s)), Cardinality(EntriesBefore(file, s)) = it.index
      PROVE  PoolIteratorExact
  <2>1. it.index \in Nat /\ it.index < N
    BY <1>2, EntriesCounted DEF N
  <2> QED BY <1>2, <2>1 DEF PoolIteratorExact, EntriesBefore, N
<1>3. CASE it.index = N /\ At(file, it.ptr, Header)
  BY <1>1, <1>3 DEF PoolIteratorExact, N
<1>4. CASE it.index > N /\ it.ptr = ANY
  <2>1. ~ (it.index < N) /\ it.index # N
    BY <1>1, <1>4 DEF AccessInv, AccessTyped
  <2> QED BY <1>4, <2>1 DEF PoolIteratorExact, N
<1> QED BY <1>2, <1>3, <1>4 DEF PoolAt, N

LEMMA PoolStep ==
  ASSUME AccessInv, PoolIt, [Next]_vars
  PROVE  PoolIt'
<1>1. CASE ReadNext /\ UNCHANGED accessVars
  <2>1. it'.of = "none"
    BY <1>1, ReadCases DEF accessVars, AccessInv, AccessTyped, NoIterator
  <2> QED BY <2>1 DEF PoolIt
<1>2. CASE Use
  <2>1. Structured(file) /\ phase = "done"
    BY <1>2, AccessAssumption DEF AccessInv, ReadTyped, Use
  <2>2. CASE Crash
    BY <2>2 DEF Crash, PoolIt
  <2>3. CASE UNCHANGED <<readVars, it>>
    BY <2>3 DEF readVars, PoolIt
  <2>4. CASE CreateIterator
    <3>1. it'.of = "pool" => it'.index = 0 /\ it'.ptr = 10
      BY <2>4 DEF CreateIterator, Iterator
    <3>2. file' = file
      BY <2>4 DEF CreateIterator, readVars
    <3> QED BY <3>1, <3>2, PoolFirst DEF PoolIt
  <2>5. ASSUME UNCHANGED readVars, NEW next \in Maybe,
               it' = [it EXCEPT !.index = @ + 1, !.ptr = next],
               it.of = "pool" => next = get_entry(it.ptr).next
        PROVE  PoolIt'
    <3>1. it'.of = it.of /\ it'.index = it.index + 1 /\ it'.ptr = next /\ it.index \in Nat
      BY <2>5 DEF AccessInv, AccessTyped
    <3>2. file' = file /\ phase' = phase
      BY <2>5 DEF readVars
    <3>3. it.of = "pool" /\ WellFormed(file) => PoolAt(file, it.index + 1, get_entry(it.ptr).next)
      BY <2>1, <3>1, PoolNext DEF PoolIt
    <3> QED BY <2>5, <3>1, <3>2, <3>3 DEF PoolIt
  <2> QED BY <1>2, <2>1, <2>2, <2>3, <2>4, <2>5, UseCases
<1>3. CASE UNCHANGED vars
  BY <1>3 DEF PoolIt, vars, readVars, accessVars
<1> QED BY <1>1, <1>2, <1>3 DEF Next

\* The pool's iterator is at each entry in turn, then at the header, then outside the
\* pool (CreateConstantPoolIterator, ConstantPoolIteratorNext).
THEOREM PoolIteratorIsExact == Spec => []PoolIteratorExact
<1>1. Init => PoolIt
  BY DEF Init, NoIterator, PoolIt
<1>2. AccessInv /\ PoolIt /\ [Next]_vars => PoolIt'
  BY PoolStep
<1> QED BY <1>1, <1>2, AccessAlways, PoolItExact, PTL DEF Spec

-----------------------------------------------------------------------------
(***************************************************************************)
(* Walking through lists of attributes and tables of members.              *)
(***************************************************************************)
IntoAny(f, t, m, k) == IF t = "code" THEN IntoCode(f, m, k) ELSE IntoList(f, t, m, k)

LEMMA AfterAny ==
  ASSUME NEW f, LaidOut(f), NEW o, NEW t, NEW m, NEW j, At(f, o, Attribute(t, m, j))
  PROVE  /\ At(f, o + (6 + Attributes(f, t, m)[j + 1].length), IntoAny(f, t, m, j + 1))
         /\ AfterPlace(f, Attribute(t, m, j)) = IntoAny(f, t, m, j + 1)
<1>1. Attribute(t, m, j) # End
  BY DEF Attribute, End
<1>2. Size(f, Attribute(t, m, j)) = 6 + Attributes(f, t, m)[j + 1].length
  BY DEF Size, Attribute, Count
<1>3. AfterPlace(f, Attribute(t, m, j)) = IntoAny(f, t, m, j + 1)
  <2>1. CASE t = "code"
    BY <2>1 DEF AfterPlace, Attribute, IntoAny
  <2>2. CASE t # "code"
    BY <2>2 DEF AfterPlace, Attribute, IntoAny
  <2> QED BY <2>1, <2>2
<1> QED BY <1>1, <1>2, <1>3, AfterAt

LEMMA OfAttribute ==
  ASSUME NEW f, Structured(f), NEW t \in Lists, NEW m \in MembersOf(f, t), NEW k \in AttributesOf(f, t, m)
  PROVE  IntoAny(f, t, m, k) = Attribute(t, m, k)
<1>1. k < Len(Attributes(f, t, m))
  BY AttributesOfMember DEF AttributesOf
<1>2. CASE t = "code"
  BY <1>1, <1>2 DEF IntoAny, IntoCode
<1>3. CASE t # "code"
  BY <1>1, <1>3 DEF IntoAny, IntoList
<1> QED BY <1>2, <1>3

LEMMA AtAttribute ==
  ASSUME NEW o, NEW t, NEW m, NEW k, At(file, o, Attribute(t, m, k))
  PROVE  IsPart(file, o, "attribute") /\ AttributeAt(o) = Attributes(file, t, m)[k + 1]
BY DEF At, IsPart, Attribute, AttributeAt

\* skip_attributes comes to the attributes of a list one after another.
LEMMA ListWalked ==
  ASSUME WellFormed(file), NEW t \in Lists, NEW m \in MembersOf(file, t), NEW o,
         At(file, o, IntoAny(file, t, m, 0))
  PROVE  LET n == Len(Attributes(file, t, m))
         IN \A k \in 0 .. n : At(file, SkipTo(o, n)[k], IntoAny(file, t, m, k))
<1> DEFINE n == Len(Attributes(file, t, m))
           g == SkipTo(o, n)
           P == {k \in 0 .. n : At(file, g[k], IntoAny(file, t, m, k))}
<1>1. Structured(file) /\ LaidOut(file) /\ n \in Nat
  BY AttributesOfMember DEF WellFormed
<1>2. o \in Maybe
  BY DEF At, WellFormed, Structured, Maybe
<1>3. g[0] = o /\ \A k \in 0 .. n - 1 : g[k + 1] = SkipStep(g[k])
  <2> HIDE DEF n
  <2> QED BY <1>1, <1>2, SkipSteps
<1> HIDE DEF g
<1>4. 0 \in P
  BY <1>1, <1>3
<1>5. ASSUME NEW k \in 0 .. n, k \in P, k # n
      PROVE  k + 1 \in P
  <2>1. k \in AttributesOf(file, t, m) /\ k \in 0 .. n - 1 /\ k + 1 \in 0 .. n
    BY <1>1, <1>5 DEF AttributesOf
  <2>2. At(file, g[k], Attribute(t, m, k))
    <3>1. At(file, g[k], IntoAny(file, t, m, k))
      BY <1>5
    <3> QED BY <1>1, <2>1, <3>1, OfAttribute
  <2>3. IsPart(file, g[k], "attribute") /\ AttributeAt(g[k]) = Attributes(file, t, m)[k + 1]
    BY <2>2, AtAttribute
  <2>4. g[k + 1] = g[k] + (6 + Attributes(file, t, m)[k + 1].length)
    <3>1. Attributes(file, t, m)[k + 1].length \in Nat
      BY <1>1, <2>1, AttributesOfMember DEF AttributeInfo
    <3>2. g[k + 1] = SkipStep(g[k])
      BY <1>3, <2>1
    <3>3. g[k] \in Nat
      BY <1>1, <2>3, AttributePlace
    <3> QED BY <2>3, <3>1, <3>2, <3>3 DEF SkipStep, AttributeBytes
  <2>5. At(file, g[k + 1], IntoAny(file, t, m, k + 1))
    BY <1>1, <2>2, <2>4, AfterAny
  <2> QED BY <2>1, <2>5
<1>6. \A k \in 0 .. n : k \in P
  <2> HIDE DEF P, n
  <2> QED BY <1>1, <1>4, <1>5, UpTo
<1> QED BY <1>6 DEF g

\* A member is read whole, and the next one is after it.
LEMMA MemberRead ==
  ASSUME WellFormed(file), NEW t \in {"fields", "methods"}, NEW m \in MembersOf(file, t), NEW o,
         At(file, o, Member(t, m))
  PROVE  LET x == read_member(o).member
         IN /\ x.is = t /\ x.which = m
            /\ x.code_attr_off = IF t = "methods"
                 THEN find_code_attribute(o + 8, Len(Attributes(file, t, m))) ELSE 0
            /\ At(file, o + 8, IntoAny(file, t, m, 0))
            /\ At(file, read_member(o).next, IntoTable(file, t, m + 1))
<1> DEFINE n == Len(Attributes(file, t, m))
           next == SkipTo(o + 8, n)[n]
<1>1. Structured(file) /\ LaidOut(file) /\ n \in Nat /\ t \in Lists
  BY AttributesOfMember DEF WellFormed, Lists
<1>2. IsPart(file, o, "member") /\ file.at[o][2] = t /\ file.at[o][3] = m
  BY DEF At, IsPart, Member
<1>3. At(file, o + 8, IntoAny(file, t, m, 0))
  BY <1>1, AfterMember DEF IntoAny
<1>4. At(file, next, IntoTable(file, t, m + 1))
  <2>1. At(file, next, IntoAny(file, t, m, n))
    <3>1. \A k \in 0 .. n : At(file, SkipTo(o + 8, n)[k], IntoAny(file, t, m, k))
      BY <1>1, <1>3, ListWalked
    <3> HIDE DEF n
    <3> QED BY <1>1, <3>1
  <2>2. IntoAny(file, t, m, n) = IntoTable(file, t, m + 1)
    BY <1>1 DEF IntoAny, IntoList
  <2> QED BY <2>1, <2>2
<1>5. next # ANY
  BY <1>1, <1>4 DEF At, Structured, ANY
<1> HIDE DEF next
<1>6. /\ read_member(o).next = next
      /\ read_member(o).member.is = t /\ read_member(o).member.which = m
      /\ read_member(o).member.code_attr_off =
           IF t = "methods" THEN find_code_attribute(o + 8, n) ELSE 0
  BY <1>2, <1>5 DEF read_member, next
<1> QED BY <1>3, <1>4, <1>6

LEMMA NoMemberRead ==
  ASSUME NEW o, ~ IsPart(file, o, "member")
  PROVE  read_member(o) = [member |-> Astray, next |-> ANY]
BY DEF read_member

\* Behind the last member there is none.
LEMMA EndOfTable ==
  ASSUME WellFormed(file), NEW t \in {"fields", "methods"}, NEW o,
         At(file, o, IntoTable(file, t, Number(file, t))) \/ o = ANY
  PROVE  ~ IsPart(file, o, "member")
<1>1. CASE o = ANY
  BY <1>1 DEF WellFormed, Structured, IsPart, ANY
<1>2. CASE At(file, o, IntoTable(file, t, Number(file, t)))
  <2>1. Number(file, t) \in Nat
    BY NumberIsNat DEF WellFormed, Tables
  <2>2. IntoTable(file, t, Number(file, t)) = AfterTable(t)
    BY <2>1 DEF IntoTable
  <2>3. AfterTable(t)[1] = "count"
    BY DEF AfterTable, Count
  <2> QED BY <1>2, <2>2, <2>3 DEF At, IsPart
<1> QED BY <1>1, <1>2

LEMMA AtMemberOf ==
  ASSUME WellFormed(file), NEW t \in {"fields", "methods"}, NEW n \in Nat, n < Number(file, t)
  PROVE  IntoTable(file, t, n) = Member(t, n) /\ n \in MembersOf(file, t)
<1>1. Number(file, t) = Len(file.list[t]) /\ Number(file, t) \in Nat
  BY NumberIsNat DEF Number, WellFormed, Tables
<1> QED BY <1>1 DEF IntoTable, MembersOf

\* From one place in a table to the next.
LEMMA TableStep ==
  ASSUME WellFormed(file), NEW t \in {"fields", "methods"}, NEW n \in Nat, n < Number(file, t),
         NEW o, At(file, o, IntoTable(file, t, n))
  PROVE  At(file, read_member(o).next, IntoTable(file, t, n + 1))
BY AtMemberOf, MemberRead

-----------------------------------------------------------------------------
\* The loop of GetField and GetMethod.
IsSeekMember(g, t, index) ==
  g = [n \in 0 .. index |-> IF n = 0 THEN classfile.off[t] ELSE read_member(g[n - 1]).next]

LEMMA SeekMemberLoop ==
  ASSUME Structured(file), NEW t, classfile.off[t] \in Maybe, NEW index \in Nat
  PROVE  \E g : IsSeekMember(g, t, index) /\ SeekMember(t, index) = g[index]
<1>1. PICK F \in [Maybe -> Maybe] : \A o \in Maybe : F[o] = read_member(o).next
  <2>1. [o \in Maybe |-> read_member(o).next] \in [Maybe -> Maybe]
    BY MemberType
  <2> QED BY <2>1
<1>2. PICK start \in Maybe : start = classfile.off[t]
  OBVIOUS
<1>3. PICK g : IsRun(g, Maybe, F, start, index)
  BY Loops
<1>4. ASSUME NEW n \in 0 .. index
      PROVE  g[n] = IF n = 0 THEN classfile.off[t] ELSE read_member(g[n - 1]).next
  <2>1. n # 0 => g[n - 1] \in Maybe /\ g[n] = F[g[n - 1]]
    BY <1>3, RunSteps
  <2> QED BY <1>1, <1>2, <1>3, <2>1 DEF IsRun
<1>5. IsSeekMember(g, t, index)
  BY <1>3, <1>4 DEF IsSeekMember, IsRun
<1> QED BY <1>5, Zenon DEF SeekMember, IsSeekMember

LEMMA MemberSought ==
  ASSUME WellFormed(file), NEW t \in {"fields", "methods"}, NEW index \in Nat,
         classfile.off[t] \in Maybe, At(file, classfile.off[t], IntoTable(file, t, 0))
  PROVE  /\ index <= Number(file, t) => At(file, SeekMember(t, index), IntoTable(file, t, index))
         /\ index > Number(file, t) => SeekMember(t, index) = ANY
<1> DEFINE N == Number(file, t)
<1>1. N \in Nat /\ Structured(file)
  BY NumberIsNat DEF WellFormed, Tables
<1>2. PICK g : IsSeekMember(g, t, index) /\ SeekMember(t, index) = g[index]
  BY <1>1, SeekMemberLoop
<1>3. \A n \in 0 .. index : g[n] = IF n = 0 THEN classfile.off[t] ELSE read_member(g[n - 1]).next
  BY <1>2 DEF IsSeekMember
<1> HIDE DEF N
<1> DEFINE Good(n) == /\ n <= N => At(file, g[n], IntoTable(file, t, n))
                      /\ n > N => g[n] = ANY
           P == {n \in 0 .. index : Good(n)}
<1>4. 0 \in P
  <2>1. g[0] = classfile.off[t]
    BY <1>3
  <2> QED BY <1>1, <2>1
<1>5. ASSUME NEW n \in 0 .. index, n \in P, n # index
      PROVE  n + 1 \in P
  <2>1. n + 1 \in 0 .. index /\ n + 1 # 0 /\ (n + 1) - 1 = n /\ n \in Nat
    BY <1>5
  <2>2. g[n + 1] = read_member(g[n]).next
    BY <1>3, <2>1
  <2>3. CASE n < N
    <3>1. At(file, g[n], IntoTable(file, t, n))
      BY <1>1, <1>5, <2>1, <2>3
    <3>2. At(file, g[n + 1], IntoTable(file, t, n + 1))
      BY <2>1, <2>2, <2>3, <3>1, TableStep DEF N
    <3>3. ~ (n + 1 > N)
      BY <1>1, <2>1, <2>3
    <3> QED BY <2>1, <3>2, <3>3
  <2>4. CASE ~ (n < N)
    <3>1. At(file, g[n], IntoTable(file, t, N)) \/ g[n] = ANY
      BY <1>1, <1>5, <2>1, <2>4
    <3>2. g[n + 1] = ANY
      BY <2>2, <3>1, EndOfTable, NoMemberRead DEF N
    <3>3. ~ (n + 1 <= N)
      BY <1>1, <2>1, <2>4
    <3> QED BY <2>1, <3>2, <3>3
  <2> QED BY <2>3, <2>4
<1>6. index \in P
  <2> HIDE DEF P
  <2>1. index \in 0 .. index
    OBVIOUS
  <2> QED BY <1>4, <1>5, <2>1, UpTo
<1> QED BY <1>2, <1>6 DEF N

-----------------------------------------------------------------------------
(***************************************************************************)
(* A class file that was read right.                                       *)
(***************************************************************************)
LEMMA RightTables ==
  ASSUME AccessInv, Usable
  PROVE  /\ WellFormed(file) /\ Structured(file) /\ LaidOut(file)
         /\ classfile.cpool_count = file.slots /\ file.slots \in Nat
         /\ \A t \in {"fields", "methods"} :
              /\ classfile.count[t] = Number(file, t) /\ Number(file, t) \in Nat
              /\ classfile.off[t] \in Maybe /\ At(file, classfile.off[t], IntoTable(file, t, 0))
<1>1. WellFormed(file) /\ Structured(file) /\ LaidOut(file) /\ file.slots \in Nat
  BY DEF Usable, WellFormed, Structured
<1>2. ASSUME NEW t \in {"fields", "methods"}
      PROVE  /\ classfile.count[t] = Number(file, t) /\ Number(file, t) \in Nat
             /\ classfile.off[t] \in Maybe /\ At(file, classfile.off[t], IntoTable(file, t, 0))
  <2> DEFINE off == classfile.off[t]
  <2>1. t \in Tables
    BY DEF Tables
  <2>2. classfile.count[t] = Number(file, t) /\ At(file, off - 2, Count(t))
    BY <2>1 DEF Usable, Right
  <2>3. off \in Maybe
    BY <2>1 DEF AccessInv, ReadTyped
  <2> HIDE DEF off
  <2>4. At(file, (off - 2) + 2, IntoTable(file, t, 0))
    BY <1>1, <2>2, AfterCount
  <2>5. (off - 2) + 2 = off
    BY <2>3 DEF Maybe, ANY
  <2> QED BY <1>1, <2>1, <2>2, <2>3, <2>4, <2>5, NumberIsNat DEF off
<1> QED BY <1>1, <1>2 DEF Usable, Right

\* The two functions find the member of an index that is one.
LEMMA FindsMember ==
  ASSUME AccessInv, Usable, NEW t \in {"fields", "methods"}, NEW n \in Nat
  PROVE  LET x == read_member(SeekMember(t, n)).member
         IN IF n < Number(file, t) THEN x.is = t /\ x.which = n ELSE x = Astray
<1> DEFINE N == Number(file, t)
           o == SeekMember(t, n)
<1>1. WellFormed(file) /\ N \in Nat
  BY RightTables
<1>2. /\ n <= N => At(file, o, IntoTable(file, t, n))
      /\ n > N => o = ANY
  BY RightTables, MemberSought
<1> HIDE DEF N, o
<1>3. CASE n < N
  <2>1. At(file, o, Member(t, n)) /\ n \in MembersOf(file, t)
    BY <1>1, <1>2, <1>3, AtMemberOf DEF N
  <2>2. read_member(o).member.is = t /\ read_member(o).member.which = n
    BY <1>1, <2>1, MemberRead
  <2> QED BY <1>3, <2>2 DEF N, o
<1>4. CASE ~ (n < N)
  <2>1. At(file, o, IntoTable(file, t, N)) \/ o = ANY
    BY <1>1, <1>2, <1>4
  <2>2. ~ IsPart(file, o, "member")
    BY <1>1, <2>1, EndOfTable DEF N
  <2>3. read_member(o).member = Astray
    BY <2>2, NoMemberRead
  <2> QED BY <1>4, <2>3 DEF N, o
<1> QED BY <1>3, <1>4

LEMMA MembersExactly == AccessInv => MembersExact
<1> SUFFICES ASSUME AccessInv, Usable, NEW n \in Indexes
             PROVE  LET field == GetMember("fields", n, FieldBound)
                        method == GetMember("methods", n, MethodBound)
                    IN /\ IF n < Number(file, "fields") THEN field.is = "fields" /\ field.which = n
                          ELSE field = Nothing
                       /\ IF n >= file.slots THEN method = Nothing
                          ELSE IF n < Number(file, "methods") THEN method.is = "methods" /\ method.which = n
                          ELSE method = Astray
  BY DEF MembersExact
<1>1. n \in Nat
  BY AccessAssumption
<1>2. /\ FieldBound = Number(file, "fields") /\ Number(file, "fields") \in Nat
      /\ MethodBound = file.slots /\ file.slots \in Nat
  BY RightTables DEF FieldBound, MethodBound
<1>3. FieldBound # ANY /\ MethodBound # ANY
  BY <1>2 DEF ANY
<1>4. /\ n >= FieldBound => GetMember("fields", n, FieldBound) = Nothing
      /\ n >= MethodBound => GetMember("methods", n, MethodBound) = Nothing
  BY <1>3 DEF GetMember
<1>5. /\ ~ (n >= FieldBound) =>
           GetMember("fields", n, FieldBound) = read_member(SeekMember("fields", n)).member
      /\ ~ (n >= MethodBound) =>
           GetMember("methods", n, MethodBound) = read_member(SeekMember("methods", n)).member
  BY <1>3 DEF GetMember
<1>6. n < Number(file, "fields") <=> ~ (n >= FieldBound)
  BY <1>1, <1>2
<1>7. n < Number(file, "fields") => /\ GetMember("fields", n, FieldBound).is = "fields"
                                    /\ GetMember("fields", n, FieldBound).which = n
  BY <1>1, <1>5, <1>6, FindsMember
<1>8. CASE n >= file.slots
  BY <1>2, <1>4, <1>6, <1>7, <1>8
<1>9. CASE ~ (n >= file.slots)
  <2>1. GetMember("methods", n, MethodBound) = read_member(SeekMember("methods", n)).member
    BY <1>2, <1>5, <1>9
  <2>2. IF n < Number(file, "methods")
          THEN /\ GetMember("methods", n, MethodBound).is = "methods"
               /\ GetMember("methods", n, MethodBound).which = n
          ELSE GetMember("methods", n, MethodBound) = Astray
    BY <1>1, <2>1, FindsMember
  <2> QED BY <1>4, <1>6, <1>7, <1>9, <2>2
<1> QED BY <1>8, <1>9

-----------------------------------------------------------------------------
(***************************************************************************)
(* Names.                                                                  *)
(***************************************************************************)
LEMMA Less1OfIndex ==
  ASSUME AccessInv, WellFormed(file), NEW index, IsIndex(file, index)
  PROVE  Less1(index) = index - 1 /\ index - 1 \in DOMAIN file.entry
<1>1. index - 1 \in DOMAIN file.entry
  BY DEF IsIndex
<1>2. index - 1 \in Nat /\ index - 1 < file.slots
  BY <1>1, NextEntry
<1>3. file.slots < IndexMod /\ IndexMod \in Nat /\ file.slots \in Nat
  BY AccessAssumption DEF AccessInv, ReadTyped, Structured
<1> QED BY <1>1, <1>2, <1>3 DEF Less1

LEMMA NameFound ==
  ASSUME AccessInv, WellFormed(file), classfile.cpool_count = file.slots,
         NEW index, IsIndex(file, index)
  PROVE  /\ GetConstantPoolEntry(Less1(index)) = Decoded(file.entry[index - 1])
         /\ TextOf(GetConstantPoolEntry(Less1(index))) = Text(file, index)
<1>1. GetConstantPoolEntry(Less1(index)) = Decoded(file.entry[index - 1])
  BY Less1OfIndex, IndexFinds
<1> QED BY <1>1 DEF TextOf, Decoded, Text

\* The name of an attribute.
LEMMA AttributeNamed ==
  ASSUME AccessInv, WellFormed(file), classfile.cpool_count = file.slots,
         NEW t \in Lists, NEW m \in MembersOf(file, t), NEW k \in AttributesOf(file, t, m)
  PROVE  LET a == Attributes(file, t, m)[k + 1] IN SynthType(a) = Text(file, a.name)
<1>1. IsIndex(file, Attributes(file, t, m)[k + 1].name)
  BY DEF WellFormed, NamesWellFormed
<1> QED BY <1>1, NameFound DEF SynthType

\* find_code_attribute finds the Code attribute of a method that has one.
LEMMA CodeFound ==
  ASSUME AccessInv, WellFormed(file), classfile.cpool_count = file.slots,
         NEW m \in MembersOf(file, "methods"), NEW o, At(file, o, IntoAny(file, "methods", m, 0))
  PROVE  LET n == Len(Attributes(file, "methods", m))
             code == {k \in 0 .. n - 1 : Text(file, Attributes(file, "methods", m)[k + 1].name) = "Code"}
         IN /\ code = {} => find_code_attribute(o, n) = 0
            /\ code # {} => \E k \in code : At(file, find_code_attribute(o, n), Attribute("methods", m, k))
<1> DEFINE L == Attributes(file, "methods", m)
           n == Len(L)
           code == {k \in 0 .. n - 1 : Text(file, L[k + 1].name) = "Code"}
           g == SkipTo(o, n)
           found == {k \in 0 .. n - 1 : /\ IsPart(file, g[k], "attribute")
                                        /\ SynthType(AttributeAt(g[k])) = "Code"}
<1>1. n \in Nat /\ "methods" \in Lists /\ Structured(file) /\ 0 .. n - 1 = AttributesOf(file, "methods", m)
  BY AttributesOfMember DEF WellFormed, Lists, AttributesOf
<1>2. \A k \in 0 .. n : At(file, g[k], IntoAny(file, "methods", m, k))
  BY <1>1, ListWalked
<1>3. ASSUME NEW k \in 0 .. n - 1
      PROVE  /\ At(file, g[k], Attribute("methods", m, k))
             /\ IsPart(file, g[k], "attribute") /\ SynthType(AttributeAt(g[k])) = Text(file, L[k + 1].name)
  <2>1. k \in AttributesOf(file, "methods", m) /\ k \in 0 .. n
    BY <1>1
  <2>2. At(file, g[k], Attribute("methods", m, k))
    BY <1>1, <1>2, <2>1, OfAttribute
  <2>3. IsPart(file, g[k], "attribute") /\ AttributeAt(g[k]) = L[k + 1]
    BY <2>2, AtAttribute
  <2> QED BY <1>1, <2>1, <2>2, <2>3, AttributeNamed
<1>4. found = code
  BY <1>3
<1>5. \A j, k \in code : j = k
  <2> SUFFICES ASSUME NEW j \in code, NEW k \in code PROVE j = k
    OBVIOUS
  <2>1. j \in AttributesOf(file, "methods", m) /\ k \in AttributesOf(file, "methods", m)
    BY <1>1
  <2>2. Text(file, L[j + 1].name) = "Code" /\ Text(file, L[k + 1].name) = "Code"
    OBVIOUS
  <2> QED BY <1>1, <2>1, <2>2 DEF WellFormed, NamesWellFormed
<1>6. find_code_attribute(o, n) =
        IF found = {} THEN 0 ELSE g[CHOOSE k \in found : \A j \in found : k <= j]
  BY Zenon DEF find_code_attribute
<1>7. ASSUME NEW k \in code
      PROVE  find_code_attribute(o, n) = g[k]
  <2>1. k \in found /\ \A j \in found : j = k
    BY <1>4, <1>5
  <2>2. k <= k
    OBVIOUS
  <2> HIDE DEF found, code, g
  <2>3. (CHOOSE j \in found : \A i1 \in found : j <= i1) = k
    BY <2>1, <2>2
  <2> QED BY <1>6, <2>1, <2>3
<1> QED BY <1>3, <1>4, <1>6, <1>7

-----------------------------------------------------------------------------
(***************************************************************************)
(* The iterators over members, and what a client keeps.                    *)
(***************************************************************************)
MemberIt ==
  Usable /\ it.of \in {"fields", "methods"} =>
    /\ it.count = Number(file, it.of)
    /\ At(file, it.ptr, IntoTable(file, it.of, it.index))

GotFrom == phase = "done" => FromFile(got)

\* A call reads the same as long as the reader's variables stay the same.
LEMMA CallsSame ==
  ASSUME UNCHANGED readVars
  PROVE  /\ \A o : read_member(o)' = read_member(o)
         /\ \A o : ReadAttributeAt(o)' = ReadAttributeAt(o)
<1>1. file' = file /\ classfile' = classfile
  BY DEF readVars
<1>2. ASSUME NEW o, NEW n PROVE SkipTo(o, n)' = SkipTo(o, n)
  BY <1>1, Zenon DEF SkipTo, IsPart, AttributeAt, AttributeBytes
<1>3. ASSUME NEW n PROVE SeekEntry(n)' = SeekEntry(n)
  BY <1>1, Zenon DEF SeekEntry, IsPart, EntryAt
<1>4. ASSUME NEW o PROVE get_entry(o)' = get_entry(o)
  BY <1>1 DEF get_entry, EntryAt
<1>5. ASSUME NEW n PROVE GetConstantPoolEntry(n)' = GetConstantPoolEntry(n)
  BY <1>1, <1>3, <1>4 DEF GetConstantPoolEntry
<1>6. ASSUME NEW a PROVE SynthType(a)' = SynthType(a)
  BY <1>5 DEF SynthType
<1>7. ASSUME NEW o PROVE AttributeAt(o)' = AttributeAt(o)
  BY <1>1 DEF AttributeAt
<1>8. ASSUME NEW o, NEW n PROVE find_code_attribute(o, n)' = find_code_attribute(o, n)
  <2> DEFINE is(k) == /\ IsPart(file, SkipTo(o, n)[k], "attribute")
                      /\ SynthType(AttributeAt(SkipTo(o, n)[k])) = "Code"
             found == {k \in 0 .. n - 1 : is(k)}
             Least(S) == CHOOSE k \in S : \A j \in S : k <= j
  <2>1. ASSUME NEW k PROVE is(k)' <=> is(k)
    BY <1>1, <1>2, <1>6, <1>7
  <2>2. found' = found
    <3> HIDE DEF is
    <3> QED BY <2>1
  <2>3. find_code_attribute(o, n) =
          IF found = {} THEN 0 ELSE SkipTo(o, n)[Least(found)]
    BY Zenon DEF find_code_attribute
  <2>4. find_code_attribute(o, n)' =
          IF found' = {} THEN 0 ELSE SkipTo(o, n)'[Least(found')]
    BY Zenon DEF find_code_attribute
  <2> HIDE DEF found, Least
  <2> QED BY <1>2, <2>2, <2>3, <2>4
<1>9. ASSUME NEW o PROVE read_member(o)' = read_member(o)
  BY <1>1, <1>2, <1>8 DEF read_member
<1>10. ASSUME NEW o PROVE ReadAttributeAt(o)' = ReadAttributeAt(o)
  BY <1>1, <1>2, <1>6, <1>7 DEF ReadAttributeAt
<1> QED BY <1>9, <1>10

LEMMA FromFileSame ==
  ASSUME UNCHANGED readVars, NEW x, FromFile(x)
  PROVE  FromFile(x)'
BY CallsSame DEF FromFile

LEMMA GotFromStep ==
  ASSUME AccessInv, GotFrom, [Next]_vars
  PROVE  GotFrom'
<1>0. FromFile(Nothing)'
  BY DEF FromFile, Nothing
<1>1. CASE ReadNext /\ UNCHANGED accessVars
  <2>1. got' = Nothing
    BY <1>1, ReadCases DEF accessVars, AccessInv, AccessTyped
  <2> QED BY <1>0, <2>1 DEF GotFrom, FromFile, Nothing
<1>2. ASSUME UNCHANGED readVars, phase = "done", UNCHANGED got
      PROVE  GotFrom'
  <2>1. PICK x : x = got
    OBVIOUS
  <2>2. FromFile(x)
    BY <1>2, <2>1 DEF GotFrom
  <2>3. FromFile(x)'
    BY <1>2, <2>2, FromFileSame
  <2>4. got' = x
    BY <1>2, <2>1
  <2> QED BY <2>3, <2>4 DEF GotFrom, FromFile
<1>3. ASSUME UNCHANGED readVars, Returns
      PROVE  GotFrom'
  <2>1. PICK x : FromFile(x) /\ got' = Kept(x)
    BY <1>3 DEF Returns
  <2>2. FromFile(x)'
    BY <1>3, <2>1, FromFileSame
  <2>3. got' \in {x, Nothing}
    BY <2>1 DEF Kept
  <2> QED BY <1>0, <2>2, <2>3 DEF GotFrom, FromFile
<1>4. CASE Use
  <2>1. Structured(file) /\ phase = "done"
    BY <1>4, AccessAssumption DEF AccessInv, ReadTyped, Use
  <2>2. CASE Crash
    BY <2>2 DEF Crash, GotFrom
  <2>3. CASE CreateIterator
    BY <1>2, <2>1, <2>3 DEF CreateIterator
  <2> QED BY <1>3, <1>4, <2>1, <2>2, <2>3, UseCases
<1>5. CASE UNCHANGED vars
  <2>1. CASE phase = "done"
    BY <1>2, <1>5, <2>1 DEF vars, accessVars
  <2>2. CASE phase # "done"
    BY <1>5, <2>2 DEF GotFrom, vars, readVars
  <2> QED BY <2>1, <2>2
<1> QED BY <1>1, <1>4, <1>5 DEF Next

LEMMA UsableSame ==
  ASSUME UNCHANGED readVars
  PROVE  Usable' <=> Usable
BY DEF readVars, Usable, Right, At

LEMMA MemberItStep ==
  ASSUME AccessInv, MemberIt, [Next]_vars
  PROVE  MemberIt'
<1>1. CASE ReadNext /\ UNCHANGED accessVars
  <2>1. it'.of = "none"
    BY <1>1, ReadCases DEF accessVars, AccessInv, AccessTyped, NoIterator
  <2> QED BY <2>1 DEF MemberIt
<1>2. CASE Use
  <2>1. Structured(file) /\ phase = "done"
    BY <1>2, AccessAssumption DEF AccessInv, ReadTyped, Use
  <2>2. CASE Crash
    BY <2>2 DEF Crash, MemberIt, Usable
  <2>3. ASSUME UNCHANGED readVars, UNCHANGED it
        PROVE  MemberIt'
    BY <2>3, UsableSame DEF MemberIt, readVars, At
  <2>4. CASE CreateIterator
    <3> SUFFICES ASSUME Usable', it'.of \in {"fields", "methods"}
                 PROVE  /\ it'.count = Number(file', it'.of)
                        /\ At(file', it'.ptr, IntoTable(file', it'.of, it'.index))
      BY DEF MemberIt
    <3>1. UNCHANGED readVars /\ file' = file
      BY <2>4 DEF CreateIterator, readVars
    <3>2. Usable
      BY <3>1, UsableSame
    <3>3. PICK t \in {"fields", "methods"} : it' = Iterator(t, classfile.count[t], classfile.off[t])
      BY <2>4 DEF CreateIterator, Iterator
    <3>4. /\ classfile.count[t] = Number(file, t) /\ classfile.count[t] # ANY
          /\ At(file, classfile.off[t], IntoTable(file, t, 0))
      BY <3>2, RightTables DEF ANY
    <3>5. /\ it'.of = t /\ it'.index = 0 /\ it'.ptr = classfile.off[t]
          /\ it'.count = classfile.count[t]
      BY <3>3, <3>4 DEF Iterator
    <3> QED BY <3>1, <3>4, <3>5
  <2>5. ASSUME UNCHANGED readVars, HasNext, NEW next \in Maybe,
               it' = [it EXCEPT !.index = @ + 1, !.ptr = next],
               it.of \in {"fields", "methods"} => next = read_member(it.ptr).next
        PROVE  MemberIt'
    <3> SUFFICES ASSUME Usable', it'.of \in {"fields", "methods"}
                 PROVE  /\ it'.count = Number(file', it'.of)
                        /\ At(file', it'.ptr, IntoTable(file', it'.of, it'.index))
      BY DEF MemberIt
    <3>1. file' = file /\ Usable
      BY <2>5, UsableSame DEF readVars
    <3>2. /\ it'.of = it.of /\ it'.index = it.index + 1 /\ it'.ptr = next /\ it'.count = it.count
          /\ it.index \in Nat
      BY <2>5 DEF AccessInv, AccessTyped
    <3>3. /\ it.count = Number(file, it.of) /\ it.index < Number(file, it.of)
          /\ At(file, it.ptr, IntoTable(file, it.of, it.index))
      BY <2>5, <3>1, <3>2 DEF MemberIt, HasNext
    <3>4. At(file, read_member(it.ptr).next, IntoTable(file, it.of, it.index + 1))
      BY <3>1, <3>2, <3>3, TableStep DEF Usable
    <3> QED BY <2>5, <3>1, <3>2, <3>3, <3>4
  <2> QED BY <1>2, <2>1, <2>2, <2>3, <2>4, <2>5, UseCases
<1>3. CASE UNCHANGED vars
  BY <1>3, UsableSame DEF MemberIt, vars, readVars, accessVars, At
<1> QED BY <1>1, <1>2, <1>3 DEF Next

\* Whatever member a client has, its Code attribute was found.
LEMMA GotCode ==
  ASSUME AccessInv, Usable, GotFrom, got.is = "methods"
  PROVE  LET code == {j \in DOMAIN Attributes(file, "methods", got.which) :
                        Text(file, Attributes(file, "methods", got.which)[j].name) = "Code"}
         IN IF code = {} THEN got.code_attr_off = 0
            ELSE \E j \in code : At(file, got.code_attr_off, Attribute("methods", got.which, j - 1))
<1>1. WellFormed(file) /\ Structured(file) /\ classfile.cpool_count = file.slots
  BY RightTables
<1>2. PICK o : got = read_member(o).member
  <2>1. FromFile(got)
    BY DEF GotFrom, Usable
  <2>2. ASSUME NEW o, got = ReadAttributeAt(o).attribute
        PROVE  FALSE
    BY <1>1, <2>2, AttributeType DEF Astray
  <2> QED BY <2>1, <2>2 DEF FromFile
<1>3. IsPart(file, o, "member") /\ file.at[o][2] = "methods" /\ file.at[o][3] = got.which
  BY <1>1, <1>2, MemberType DEF Astray
<1>4. got.which \in MembersOf(file, "methods")
  BY <1>1, <1>3, MemberPlace
<1>5. At(file, o, Member("methods", got.which))
  BY <1>1, <1>3, <1>4, MemberAt
<1> DEFINE m == got.which
           n == Len(Attributes(file, "methods", m))
           here == {k \in 0 .. n - 1 : Text(file, Attributes(file, "methods", m)[k + 1].name) = "Code"}
           code == {j \in DOMAIN Attributes(file, "methods", m) :
                      Text(file, Attributes(file, "methods", m)[j].name) = "Code"}
<1>6. /\ got.code_attr_off = find_code_attribute(o + 8, n)
      /\ At(file, o + 8, IntoAny(file, "methods", m, 0))
  BY <1>1, <1>2, <1>4, <1>5, MemberRead
<1>7. /\ here = {} => got.code_attr_off = 0
      /\ here # {} => \E k \in here : At(file, got.code_attr_off, Attribute("methods", m, k))
  BY <1>1, <1>4, <1>6, CodeFound
<1>8. n \in Nat /\ DOMAIN Attributes(file, "methods", m) = 1 .. n
  BY <1>1, <1>4, AttributesOfMember DEF Lists
<1>9. \A k \in here : k + 1 \in code /\ (k + 1) - 1 = k
  BY <1>8
<1>10. \A j \in code : j - 1 \in here
  BY <1>8
<1> HIDE DEF here, code, m, n
<1>11. CASE here = {}
  <2>1. code = {}
    BY <1>10, <1>11
  <2> QED BY <1>7, <1>11, <2>1 DEF m, code
<1>12. CASE here # {}
  <2>1. PICK k \in here : At(file, got.code_attr_off, Attribute("methods", m, k))
    BY <1>7, <1>12
  <2>2. k + 1 \in code /\ (k + 1) - 1 = k
    BY <1>9
  <2>3. code # {} /\ \E j \in code : At(file, got.code_attr_off, Attribute("methods", m, j - 1))
    BY <2>1, <2>2
  <2> QED BY <2>3 DEF m, code
<1> QED BY <1>11, <1>12

-----------------------------------------------------------------------------
\* In a class file that was read right GetField finds the field of every index, and
\* GetMethod the methods whose index is below the size of the pool (read_field,
\* read_method).
THEOREM MembersAreExact == Spec => []MembersExact
BY AccessAlways, MembersExactly, PTL

\* Field and method iterators are at the member of their index, and every method a
\* client has knows where its Code attribute is (MethodIteratorNext, FieldIteratorNext,
\* read_method, find_code_attribute).
THEOREM MembersIterateRight == Spec => []MembersIterate
<1>1. Init => MemberIt /\ GotFrom
  BY DEF Init, MemberIt, GotFrom, NoIterator, ReadInit
<1>2. AccessInv /\ MemberIt /\ GotFrom /\ [Next]_vars => MemberIt' /\ GotFrom'
  BY MemberItStep, GotFromStep
<1>3. AccessInv /\ MemberIt /\ GotFrom => MembersIterate
  BY GotCode DEF MemberIt, MembersIterate
<1> QED BY <1>1, <1>2, <1>3, AccessAlways, PTL DEF Spec

-----------------------------------------------------------------------------
(***************************************************************************)
(* The names of a class.                                                   *)
(***************************************************************************)

\* The pool ends at the header.
LEMMA HeaderPlaced ==
  ASSUME WellFormed(file)
  PROVE  \E h : At(file, h, Header)
<1>1. file.slots \in Nat
  BY FirstEntry
<1>2. CASE file.slots = 0
  BY <1>2, FirstEntry
<1>3. CASE file.slots # 0
  <2> SUFFICES ASSUME \A h : ~ At(file, h, Header) PROVE FALSE
    OBVIOUS
  <2>1. ASSUME NEW s \in DOMAIN file.entry
        PROVE  /\ s \in Nat /\ s + SlotsOf(file.entry[s]) \in DOMAIN file.entry
               /\ s < s + SlotsOf(file.entry[s]) /\ s + SlotsOf(file.entry[s]) \in Nat
    <3>1. At(file, SeekEntry(s) + EntryBytes(file.entry[s]),
             IntoPool(file, s + SlotsOf(file.entry[s])))
      BY SeekFinds, EntryRead
    <3> QED BY <3>1, NextEntry
  <2> DEFINE P == {n \in 0 .. file.slots : \E s \in DOMAIN file.entry : n <= s}
  <2>2. 0 \in P
    <3>1. 0 \in DOMAIN file.entry /\ 0 \in 0 .. file.slots
      BY <1>1, <1>3, FirstEntry
    <3> QED BY <3>1
  <2>3. ASSUME NEW n \in 0 .. file.slots, n \in P, n # file.slots
        PROVE  n + 1 \in P
    <3>1. PICK s \in DOMAIN file.entry : n <= s
      BY <2>3
    <3>2. n + 1 \in 0 .. file.slots
      BY <1>1, <2>3
    <3>3. /\ s \in Nat /\ s + SlotsOf(file.entry[s]) \in DOMAIN file.entry
          /\ s < s + SlotsOf(file.entry[s]) /\ s + SlotsOf(file.entry[s]) \in Nat
      BY <2>1
    <3>4. n + 1 <= s + SlotsOf(file.entry[s])
      BY <3>1, <3>3
    <3> QED BY <3>2, <3>3, <3>4
  <2>4. file.slots \in P
    <3> HIDE DEF P
    <3>1. file.slots \in 0 .. file.slots
      BY <1>1
    <3> QED BY <1>1, <2>2, <2>3, <3>1, UpTo
  <2> QED BY <1>1, <2>4, NextEntry
<1> QED BY <1>1, <1>2, <1>3

LEMMA HeaderIsFound ==
  ASSUME AccessInv, Usable
  PROVE  HeaderFound
<1> DEFINE off == classfile.off["interfaces"]
<1>1. WellFormed(file) /\ LaidOut(file) /\ Structured(file)
  BY RightTables
<1>2. PICK h : At(file, h, Header)
  BY <1>1, HeaderPlaced
<1>3. At(file, h + 6, Count("interfaces"))
  BY <1>1, <1>2, AfterHeader
<1>4. At(file, off - 2, Count("interfaces")) /\ off \in Maybe
  BY DEF Usable, Right, AccessInv, ReadTyped, Tables
<1> HIDE DEF off
<1>5. h + 6 = off - 2
  BY <1>1, <1>3, <1>4 DEF At, LaidOut
<1>6. h \in Nat
  BY <1>1, <1>2 DEF At, Structured
<1>7. h = off - 8
  BY <1>4, <1>5, <1>6 DEF Maybe, ANY
<1> QED BY <1>2, <1>7 DEF HeaderFound, off

LEMMA ClassNamed ==
  ASSUME AccessInv, Usable, NEW index, IsClass(file, index)
  PROVE  ClassName(index).text = Text(file, file.entry[index - 1].ref)
<1> DEFINE e == file.entry[index - 1]
<1>1. WellFormed(file) /\ classfile.cpool_count = file.slots
  BY RightTables
<1>2. IsIndex(file, index) /\ e.tag = 7 /\ IsIndex(file, e.ref)
  BY DEF IsClass
<1>3. GetConstantPoolEntry(Less1(index)) = Decoded(e)
  BY <1>1, <1>2, NameFound
<1>4. GetConstantPoolEntry(Less1(e.ref)) = Decoded(file.entry[e.ref - 1])
  BY <1>1, <1>2, NameFound
<1> HIDE DEF e
<1>5. Decoded(e).is = "entry" /\ Decoded(e).ref = e.ref
  BY <1>2 DEF Decoded
<1>6. ClassName(index) = GetConstantPoolEntry(Less1(e.ref))
  BY <1>3, <1>5 DEF ClassName
<1>7. Decoded(file.entry[e.ref - 1]).text = Text(file, e.ref)
  BY DEF Decoded, Text
<1> QED BY <1>4, <1>6, <1>7 DEF e

LEMMA NoClassNamed ==
  ASSUME AccessInv, Usable
  PROVE  ClassName(0) = Nothing
<1>1. file.slots < IndexMod /\ IndexMod \in Nat /\ file.slots \in Nat
  BY AccessAssumption DEF AccessInv, ReadTyped, Structured
<1>2. Less1(0) = IndexMod - 1
  BY <1>1 DEF Less1
<1>3. Less1(0) >= classfile.cpool_count
  BY <1>1, <1>2, RightTables
<1>4. GetConstantPoolEntry(Less1(0)) = Nothing
  BY <1>3 DEF GetConstantPoolEntry
<1> QED BY <1>4 DEF ClassName, Nothing

\* The names of the class and of its super class are those of the file
\* (GetClassFileName, GetSuperClassName).
THEOREM NamesAlwaysResolve == Spec => []NamesResolve
<1>1. AccessInv => NamesResolve
  <2> SUFFICES ASSUME AccessInv, Usable PROVE NamesResolve
    BY DEF NamesResolve
  <2>1. IsClass(file, file.this) /\ (file.super = 0 \/ IsClass(file, file.super))
    BY DEF Usable, WellFormed, NamesWellFormed
  <2> QED BY <2>1, HeaderIsFound, ClassNamed, NoClassNamed DEF NamesResolve
<1> QED BY <1>1, AccessAlways, PTL

-----------------------------------------------------------------------------
(***************************************************************************)
(* The iterator over attributes.                                           *)
(***************************************************************************)

\* A Code attribute is read to its end.
LEMMA CodeRead ==
  ASSUME AccessInv, Usable, NEW m \in MembersOf(file, "methods"),
         NEW j \in AttributesOf(file, "methods", m), NEW o, At(file, o, Attribute("methods", m, j)),
         Text(file, Attributes(file, "methods", m)[j + 1].name) = "Code"
  PROVE  At(file, ReadAttributeAt(o).next, IntoList(file, "methods", m, j + 1))
<1> DEFINE L == Attributes(file, "methods", m)
           a == L[j + 1]
           n == Len(Attributes(file, "code", m))
           inner == o + InnerOffset(a)
           behind == SkipTo(inner, n)[n]
<1>1. /\ WellFormed(file) /\ Structured(file) /\ LaidOut(file)
      /\ classfile.cpool_count = file.slots
  BY RightTables
<1>2. IsPart(file, o, "attribute") /\ AttributeAt(o) = a
  BY AtAttribute
<1>3. SynthType(a) = "Code"
  BY <1>1, AttributeNamed DEF Lists
<1>4. /\ file.at[o] = Attribute("methods", m, j) /\ o \in DOMAIN file.at
      /\ file.at[o][2] = "methods" /\ file.at[o][3] = m /\ file.at[o][4] = j
  BY DEF At, Attribute
<1>5. a \in AttributeInfo /\ Len(L) \in Nat /\ j + 1 \in 1 .. Len(L)
  BY <1>1, AttributesOfMember DEF AttributesOf, Lists
<1>6. At(file, inner, IntoCode(file, m, 0))
  <2>1. IsCode(file, file.at[o])
    BY <1>4 DEF IsCode, Attribute
  <2>2. At(file, o + CodeHeader(a), IntoCode(file, m, 0))
    BY <1>1, <1>4, <2>1 DEF LaidOut
  <2>3. CodeHeader(a) = InnerOffset(a)
    BY <1>5 DEF CodeHeader, InnerOffset, AttributeInfo
  <2> QED BY <2>2, <2>3
<1>7. m \in MembersOf(file, "code") /\ "code" \in Lists
  BY <1>1 DEF Structured, MembersOf, Lists
<1>8. n \in Nat
  BY <1>1, <1>7, AttributesOfMember
<1> HIDE DEF n
<1>9. At(file, behind, IntoCode(file, m, n))
  <2>1. At(file, inner, IntoAny(file, "code", m, 0))
    BY <1>6 DEF IntoAny
  <2>2. \A k \in 0 .. n : At(file, SkipTo(inner, n)[k], IntoAny(file, "code", m, k))
    BY <1>1, <1>7, <2>1, ListWalked DEF n
  <2> QED BY <1>8, <2>2 DEF IntoAny
<1>10. IntoCode(file, m, n) = IntoList(file, "methods", m, j + 1)
  <2>1. (CHOOSE k \in 1 .. Len(L) : Text(file, L[k].name) = "Code") = j + 1
    <3>1. ASSUME NEW k \in 1 .. Len(L), Text(file, L[k].name) = "Code"
          PROVE  k = j + 1
      <4>1. k - 1 \in AttributesOf(file, "methods", m) /\ (k - 1) + 1 = k
        BY <1>5 DEF AttributesOf
      <4>2. k - 1 = j
        BY <1>1, <3>1, <4>1 DEF WellFormed, NamesWellFormed, Lists
      <4> QED BY <4>1, <4>2
    <3> QED BY <1>5, <3>1
  <2>2. ~ (n < Len(Attributes(file, "code", m)))
    BY <1>8 DEF n
  <2> QED BY <2>1, <2>2 DEF IntoCode
<1>11. behind # ANY
  BY <1>1, <1>9 DEF At, Structured, ANY
<1>12. ReadAttributeAt(o).next = behind
  BY <1>2, <1>3, <1>4, <1>11 DEF ReadAttributeAt, n
<1> QED BY <1>9, <1>10, <1>12

\* An attribute is read to its end exactly if it is of a known kind or empty.
LEMMA AttributeRead ==
  ASSUME AccessInv, Usable, NEW o, IsPart(file, o, "attribute")
  PROVE  At(file, ReadAttributeAt(o).next, AfterPlace(file, file.at[o])) <=>
           Text(file, AttributeAt(o).name) \in {"Code", "ConstantValue"} \/ AttributeAt(o).length = 0
<1> DEFINE t == file.at[o][2]
           m == file.at[o][3]
           j == file.at[o][4]
           a == Attributes(file, t, m)[j + 1]
<1>1. /\ WellFormed(file) /\ Structured(file) /\ LaidOut(file)
      /\ classfile.cpool_count = file.slots
  BY RightTables
<1>2. /\ o \in Nat /\ t \in Lists /\ m \in MembersOf(file, t) /\ j \in AttributesOf(file, t, m)
      /\ a \in AttributeInfo /\ AttributeAt(o) = a
  BY <1>1, AttributePlace DEF AttributeAt
<1>3. At(file, o, Attribute(t, m, j)) /\ file.at[o] = Attribute(t, m, j)
  BY <1>1, AttributePlacedAt DEF At
<1>4. SynthType(a) = Text(file, a.name)
  BY <1>1, <1>2, AttributeNamed
<1>5. /\ At(file, o + (6 + a.length), IntoAny(file, t, m, j + 1))
      /\ AfterPlace(file, file.at[o]) = IntoAny(file, t, m, j + 1)
  BY <1>1, <1>3, AfterAny
<1>6. /\ Text(file, a.name) = "ConstantValue" => a.length = 2
      /\ Text(file, a.name) = "Code" => t = "methods"
  BY <1>1, <1>2 DEF WellFormed, NamesWellFormed
<1> DEFINE after == IntoAny(file, t, m, j + 1)
<1>7. CASE Text(file, a.name) = "Code"
  <2>1. t = "methods"
    BY <1>6, <1>7
  <2>2. At(file, ReadAttributeAt(o).next, IntoList(file, "methods", m, j + 1))
    BY <1>2, <1>3, <1>7, <2>1, CodeRead
  <2>3. after = IntoList(file, "methods", m, j + 1)
    BY <2>1 DEF IntoAny
  <2> QED BY <1>2, <1>5, <1>7, <2>2, <2>3
<1>8. CASE Text(file, a.name) = "ConstantValue"
  <2>1. ReadAttributeAt(o).next = o + 6 + 2
    BY <1>2, <1>4, <1>8 DEF ReadAttributeAt
  <2>2. o + 6 + 2 = o + (6 + a.length)
    BY <1>2, <1>6, <1>8
  <2> QED BY <1>2, <1>5, <1>8, <2>1, <2>2
<1>9. CASE Text(file, a.name) \notin {"Code", "ConstantValue"}
  <2>1. ReadAttributeAt(o).next = o + 6
    BY <1>2, <1>4, <1>9 DEF ReadAttributeAt
  <2>2. CASE a.length = 0
    <3>1. o + 6 = o + (6 + a.length)
      BY <1>2, <2>2
    <3> QED BY <1>2, <1>5, <2>1, <2>2, <3>1
  <2>3. CASE a.length # 0
    <3>1. o + 6 # o + (6 + a.length)
      BY <1>2, <2>3 DEF AttributeInfo
    <3>2. ~ At(file, o + 6, after)
      BY <1>1, <1>5, <3>1 DEF At, LaidOut
    <3> QED BY <1>2, <1>5, <1>9, <2>1, <2>3, <3>2
  <2> QED BY <2>2, <2>3
<1> QED BY <1>7, <1>8, <1>9

LEMMA AttributesStep ==
  ASSUME AccessInv, [Next]_vars, Usable, it.of = "attributes", it'.index = it.index + 1,
         IsPart(file, it.ptr, "attribute")
  PROVE  At(file, it'.ptr, AfterPlace(file, file.at[it.ptr])) <=>
           \/ Text(file, AttributeAt(it.ptr).name) \in {"Code", "ConstantValue"}
           \/ AttributeAt(it.ptr).length = 0
<1>1. it.index \in Nat /\ Structured(file) /\ phase = "done"
  BY RightTables DEF AccessInv, AccessTyped, Usable
<1>2. it' # it
  BY <1>1
<1>3. Use
  BY <1>1, <1>2, ReadCases DEF Next, vars, accessVars
<1>4. it'.ptr = ReadAttributeAt(it.ptr).next
  <2>1. ~ Crash /\ ~ UNCHANGED it
    BY <1>2 DEF Crash
  <2>2. ~ CreateIterator
    BY <1>1 DEF CreateIterator, Iterator
  <2>3. PICK next \in Maybe : /\ it' = [it EXCEPT !.index = @ + 1, !.ptr = next]
                              /\ next = ReadAttributeAt(it.ptr).next
    BY <1>1, <1>3, <2>1, <2>2, UseCases
  <2> QED BY <2>3 DEF AccessInv, AccessTyped
<1> QED BY <1>4, AttributeRead

\* From one attribute the iterator comes to the next exactly if the first is a Code or
\* ConstantValue attribute or empty (AttributeIteratorNext, ReadAttributeAt).
THEOREM AttributesAreExact == Spec => AttributesExact
<1>1. AccessInv /\ [Next]_vars =>
        [Usable /\ it.of = "attributes" /\ it'.index = it.index + 1 /\ IsPart(file, it.ptr, "attribute") =>
           LET a == AttributeAt(it.ptr)
           IN At(file, it'.ptr, AfterPlace(file, file.at[it.ptr])) <=>
                Text(file, a.name) \in {"Code", "ConstantValue"} \/ a.length = 0]_vars
  BY AttributesStep
<1> QED BY <1>1, AccessAlways, PTL DEF Spec, AttributesExact
=============================================================================
