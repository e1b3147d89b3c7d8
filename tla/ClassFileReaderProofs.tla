------------------------- MODULE ClassFileReaderProofs -------------------------
(***************************************************************************)
(* Proofs about ClassFileReadStatic, for all files and all widths of the   *)
(* counter: in a readable file it stays in step with the file's structures *)
(* and every count and offset it reports is right.                         *)
(***************************************************************************)
EXTENDS ClassFileReader, TLAPS

-----------------------------------------------------------------------------
(***************************************************************************)
(* What comes after each kind of place in a file that is laid out.         *)
(***************************************************************************)

LEMMA AfterAt ==
  ASSUME NEW f, LaidOut(f), NEW p, NEW o, At(f, o, p), p # End
  PROVE  At(f, o + Size(f, p), AfterPlace(f, p))
BY DEF LaidOut, At

LEMMA AfterEntry ==
  ASSUME NEW f, LaidOut(f), NEW s, NEW o, At(f, o, Entry(s))
  PROVE  At(f, o + EntrySize(f.entry[s]), IntoPool(f, s + SlotsOf(f.entry[s])))
<1>1. Entry(s) # End
  BY DEF Entry, End
<1>2. Size(f, Entry(s)) = EntrySize(f.entry[s])
  BY DEF Size, Entry, Count
<1>3. AfterPlace(f, Entry(s)) = IntoPool(f, s + SlotsOf(f.entry[s]))
  BY DEF AfterPlace, Entry, Count
<1>q. QED
  BY <1>1, <1>2, <1>3, AfterAt

LEMMA AfterHeader ==
  ASSUME NEW f, LaidOut(f), NEW o, At(f, o, Header)
  PROVE  At(f, o + 6, Count("interfaces"))
<1>1. Header # End
  BY DEF Header, End
<1>2. Size(f, Header) = 6 /\ AfterPlace(f, Header) = Count("interfaces")
  BY DEF Size, AfterPlace, Header, Count
<1>q. QED
  BY <1>1, <1>2, AfterAt

LEMMA AfterInterfaces ==
  ASSUME NEW f, LaidOut(f), NEW o, At(f, o, Count("interfaces"))
  PROVE  At(f, o + (2 + 2 * f.interfaces), Count("fields"))
<1>1. Count("interfaces") # End
  BY DEF Count, End
<1>2. Size(f, Count("interfaces")) = 2 + 2 * f.interfaces
  BY DEF Size, Count
<1>3. AfterPlace(f, Count("interfaces")) = Count("fields")
  BY DEF AfterPlace, IntoRows, Count
<1>q. QED
  BY <1>1, <1>2, <1>3, AfterAt

LEMMA AfterCount ==
  ASSUME NEW f, LaidOut(f), NEW o, NEW t \in {"fields", "methods"}, At(f, o, Count(t))
  PROVE  At(f, o + 2, IntoTable(f, t, 0))
<1>1. Count(t) # End
  BY DEF Count, End
<1>2. Size(f, Count(t)) = 2 /\ AfterPlace(f, Count(t)) = IntoTable(f, t, 0)
  BY DEF Size, AfterPlace, IntoRows, Count
<1>q. QED
  BY <1>1, <1>2, AfterAt

LEMMA AfterCountAttributes ==
  ASSUME NEW f, LaidOut(f), NEW o, At(f, o, Count("attributes"))
  PROVE  At(f, o + 2, IntoList(f, "attributes", 0, 0))
<1>1. Count("attributes") # End
  BY DEF Count, End
<1>2. Size(f, Count("attributes")) = 2
  BY DEF Size, Count
<1>3. AfterPlace(f, Count("attributes")) = IntoList(f, "attributes", 0, 0)
  BY DEF AfterPlace, IntoRows, Count
<1>q. QED
  BY <1>1, <1>2, <1>3, AfterAt

LEMMA AfterMember ==
  ASSUME NEW f, LaidOut(f), NEW o, NEW t, NEW m, At(f, o, Member(t, m))
  PROVE  At(f, o + 8, IntoList(f, t, m, 0))
<1>1. Member(t, m) # End
  BY DEF Member, End
<1>2. Size(f, Member(t, m)) = 8
  BY DEF Size, Member, Count
<1>3. AfterPlace(f, Member(t, m)) = IntoList(f, t, m, 0)
  BY DEF AfterPlace, Member, Count
<1>q. QED
  BY <1>1, <1>2, <1>3, AfterAt

LEMMA AfterAttribute ==
  ASSUME NEW f, LaidOut(f), NEW o, NEW t, t # "code", NEW m, NEW j, At(f, o, Attribute(t, m, j))
  PROVE  At(f, o + (6 + Attributes(f, t, m)[j + 1].length), IntoList(f, t, m, j + 1))
<1>1. Attribute(t, m, j) # End
  BY DEF Attribute, End
<1>2. /\ Size(f, Attribute(t, m, j)) = 6 + Attributes(f, t, m)[j + 1].length
      /\ AfterPlace(f, Attribute(t, m, j)) = IntoList(f, t, m, j + 1)
  BY DEF Size, AfterPlace, Attribute, Count
<1>q. QED
  BY <1>1, <1>2, AfterAt

\* skip_cpool moves by the size of an entry for every tag it knows.
LEMMA SkippedIsSize ==
  ASSUME NEW e, e.tag \in KnownTags
  PROVE  Skipped(e) = EntrySize(e)
BY DEF KnownTags, Skipped, EntrySize, Wide

LEMMA NumberIsNat ==
  ASSUME NEW f, Structured(f), NEW t \in Tables
  PROVE  Number(f, t) \in Nat
BY DEF Structured, Number, Tables

\* Every member has a list of attributes.
LEMMA AttributesOfMember ==
  ASSUME NEW f, Structured(f), NEW t \in Lists, NEW m \in MembersOf(f, t)
  PROVE  /\ Attributes(f, t, m) \in Seq(AttributeInfo)
         /\ Len(Attributes(f, t, m)) \in Nat
         /\ \A j \in AttributesOf(f, t, m) : Attributes(f, t, m)[j + 1] \in AttributeInfo
<1>1. f.list[t] \in Seq(Seq(AttributeInfo))
  BY DEF Structured
<1>2. m + 1 \in 1 .. Len(f.list[t])
  BY <1>1 DEF MembersOf
<1>3. Attributes(f, t, m) \in Seq(AttributeInfo)
  BY <1>1, <1>2 DEF Attributes
<1>4. \A j \in AttributesOf(f, t, m) : Attributes(f, t, m)[j + 1] \in AttributeInfo
  BY <1>3 DEF AttributesOf
<1>q. QED
  BY <1>3, <1>4

-----------------------------------------------------------------------------
(***************************************************************************)
(* The inductive invariant: where the reader is in a readable file, and    *)
(* which tables it has found.                                              *)
(***************************************************************************)
Flags == {CLASSFILE_META_VALID, CLASSFILE_META_SOURCE_TYPE, CLASSFILE_META_READ_SUCCESS}

Typed ==
  /\ phase \in Tables \cup {"idle", "pool", "done"}
  /\ ptr \in Nat
  /\ classfile \in [meta : SUBSET Flags, cpool_count : Nat,
                    count : [Tables -> Nat], off : [Tables -> Nat]]

InPool ==
  /\ count = file.slots /\ i \in 0 .. count
  /\ i < count => i \in DOMAIN file.entry
  /\ At(file, ptr, IntoPool(file, i))

\* The reader is in the attributes of member m, with so many to go.
InList(table, m) ==
  /\ attributes \in 0 .. Len(Attributes(file, table, m))
  /\ At(file, ptr, IntoList(file, table, m, Len(Attributes(file, table, m)) - attributes))

InTable(table) ==
  /\ count = Number(file, table) /\ i \in 0 .. count
  /\ i = 0 => attributes = 0 /\ At(file, ptr, IntoTable(file, table, 0))
  /\ i > 0 => InList(table, i - 1)

InStep ==
  /\ phase = "pool" => InPool
  /\ phase = "interfaces" => At(file, ptr, Count("fields"))
  /\ phase = "fields" => InTable("fields")
  /\ phase = "methods" => InTable("methods")
  /\ phase = "attributes" => InList("attributes", 0)

TableRight(t) == /\ classfile.count[t] = Number(file, t)
                 /\ At(file, classfile.off[t] - 2, Count(t))

FoundSoFar ==
  /\ phase # "idle" => classfile.cpool_count = file.slots
  /\ phase \in Tables \cup {"done"} => TableRight("interfaces")
  /\ phase \in {"fields", "methods", "attributes", "done"} => TableRight("fields")
  /\ phase \in {"methods", "attributes", "done"} => TableRight("methods")
  /\ phase \in {"attributes", "done"} => TableRight("attributes")

ReaderInv == Readable(file) => Typed /\ InStep /\ FoundSoFar

-----------------------------------------------------------------------------
\* What a table that is found where it is expected adds to the class file.
LEMMA Opened ==
  ASSUME NEW t \in Tables, NEW o, Readable(file), Typed, At(file, o, Count(t)), OpenTable(t, o)
  PROVE  /\ file' = file /\ Typed'
         /\ phase' = t
         /\ TableRight(t)'
         /\ \A u \in Tables \ {t} : TableRight(u) => TableRight(u)'
         /\ classfile'.cpool_count = classfile.cpool_count
         /\ i' = 0 /\ count' = Number(file, t)
         /\ attributes' = IF t = "attributes" THEN Number(file, t) ELSE 0
         /\ ptr' = IF t = "interfaces" THEN o + 2 + 2 * file.interfaces ELSE o + 2
<1> DEFINE n == Number(file, t)
<1>1. n \in Nat /\ (t = "interfaces" => n = file.interfaces)
  BY NumberIsNat DEF Readable, WellFormed, Number
<1>2. o \in Nat
  BY DEF At, Readable, WellFormed, Structured
<1>3. /\ phase' = t
      /\ classfile' = [classfile EXCEPT !.count[t] = n, !.off[t] = o + 2]
      /\ ptr' = IF t = "interfaces" THEN o + 2 + n * 2 ELSE o + 2
      /\ i' = 0 /\ count' = n
      /\ attributes' = IF t = "attributes" THEN n ELSE 0
      /\ file' = file
  BY DEF OpenTable
<1>4. file' = file
  BY <1>3
<1>5. ptr' \in Nat /\ (t = "interfaces" => ptr' = o + 2 + 2 * file.interfaces)
  BY <1>1, <1>2, <1>3
<1>6. /\ classfile'.cpool_count = classfile.cpool_count
      /\ classfile'.count = [classfile.count EXCEPT ![t] = n]
      /\ classfile'.off = [classfile.off EXCEPT ![t] = o + 2]
      /\ classfile' \in [meta : SUBSET Flags, cpool_count : Nat,
                         count : [Tables -> Nat], off : [Tables -> Nat]]
  <2> DEFINE C == [classfile.count EXCEPT ![t] = n]
             O == [classfile.off EXCEPT ![t] = o + 2]
  <2>1. C \in [Tables -> Nat] /\ O \in [Tables -> Nat]
    BY <1>1, <1>2 DEF Typed
  <2>2. classfile' = [classfile EXCEPT !.count = C, !.off = O]
    BY <1>3 DEF Typed
  <2> HIDE DEF C, O
  <2>3. /\ classfile'.cpool_count = classfile.cpool_count
        /\ classfile'.count = C /\ classfile'.off = O
        /\ classfile' \in [meta : SUBSET Flags, cpool_count : Nat,
                           count : [Tables -> Nat], off : [Tables -> Nat]]
    BY <2>1, <2>2 DEF Typed
  <2>q. QED
    BY <2>3 DEF C, O
<1>7. Typed'
  BY <1>3, <1>5, <1>6 DEF Typed
<1>8. TableRight(t)'
  <2>1. classfile'.count[t] = n /\ classfile'.off[t] = o + 2 /\ (o + 2) - 2 = o
    BY <1>2, <1>6 DEF Typed
  <2>q. QED
    BY <2>1, <1>4 DEF TableRight
<1>9. ASSUME NEW u \in Tables \ {t}, TableRight(u)
      PROVE  TableRight(u)'
  <2>1. classfile'.count[u] = classfile.count[u] /\ classfile'.off[u] = classfile.off[u]
    BY <1>6 DEF Typed
  <2>q. QED
    BY <2>1, <1>4, <1>9 DEF TableRight
<1>q. QED
  BY <1>3, <1>4, <1>5, <1>6, <1>7, <1>8, <1>9

\* In the pool the reader is at entry i, and past its end at the header.
LEMMA AtEntry ==
  ASSUME Readable(file), InPool, i < count
  PROVE  /\ i \in DOMAIN file.entry /\ file.entry[i].tag \in KnownTags
         /\ IsPart(file, ptr, "entry") /\ file.at[ptr][4] = i
         /\ At(file, ptr, Entry(i))
<1>1. At(file, ptr, Entry(i))
  BY DEF InPool, IntoPool
<1>q. QED
  BY <1>1 DEF InPool, Readable, At, IsPart, Entry

\* Where skip_cpool is after one more entry.
LEMMA EntrySkipped ==
  ASSUME Readable(file), Typed, InPool, SkipEntry
  PROVE  /\ i < count /\ InPool' /\ ptr' \in Nat
         /\ UNCHANGED <<file, phase, attributes, classfile>>
<1> DEFINE e == file.entry[i]
           next == i + SlotsOf(e)
<1>1. i < count /\ i \in Nat /\ ptr \in Nat /\ CountMod \in Nat
  BY ReaderAssumption DEF SkipEntry, InPool, Typed
<1>2. /\ i \in DOMAIN file.entry /\ e.tag \in KnownTags /\ IsPart(file, ptr, "entry")
      /\ file.at[ptr][4] = i /\ At(file, ptr, Entry(i))
  BY <1>1, AtEntry
<1>3. /\ ptr' = ptr + Skipped(e) /\ i' = Counted(i, e) /\ count' = count
      /\ UNCHANGED <<file, phase, attributes, classfile>>
  BY <1>2 DEF SkipEntry
<1>4. /\ SlotsOf(e) \in {1, 2} /\ e.length \in Nat
      /\ next \in (DOMAIN file.entry \cap 0 .. file.slots - 1) \cup {file.slots}
      /\ file.slots \in Nat /\ file.slots < CountMod
  BY <1>2 DEF Readable, WellFormed, Structured, PoolWellFormed, SlotsOf
<1>5. next \in 0 .. count /\ next < CountMod /\ (next < count => next \in DOMAIN file.entry)
  BY <1>1, <1>4 DEF InPool
<1>6. i' = next
  BY <1>1, <1>3, <1>5 DEF Counted
<1>7. ptr' = ptr + EntrySize(e)
  BY <1>2, <1>3, SkippedIsSize
<1>8. At(file, ptr', IntoPool(file, next))
  BY <1>2, <1>7, AfterEntry DEF Readable, WellFormed
<1>9. ptr' \in Nat
  BY <1>8 DEF At, Readable, WellFormed, Structured
<1>10. file' = file
  BY <1>3
<1>q. QED
  BY <1>1, <1>3, <1>5, <1>6, <1>8, <1>9, <1>10 DEF InPool

\* The next place in a list, once an attribute is skipped.
LEMMA AttributeSkipped ==
  ASSUME Readable(file), NEW t \in {"fields", "methods", "attributes"},
         NEW m \in 0 .. Len(file.list[t]) - 1, InList(t, m), SkipAttribute
  PROVE  /\ InList(t, m)' /\ ptr' \in Nat
         /\ UNCHANGED <<file, phase, i, count, classfile>>
<1> DEFINE L == Attributes(file, t, m)
           j == Len(L) - attributes
<1>1. Len(L) \in Nat /\ \A k \in 0 .. Len(L) - 1 : L[k + 1].length \in Nat
  BY AttributesOfMember DEF Readable, WellFormed, Lists, MembersOf, AttributesOf, AttributeInfo
<1>2. attributes \in 1 .. Len(L) /\ j \in 0 .. Len(L) - 1 /\ Len(L) - (attributes - 1) = j + 1
  BY <1>1 DEF InList, SkipAttribute
<1>3. At(file, ptr, Attribute(t, m, j))
  BY <1>1, <1>2 DEF InList, IntoList
<1>4. /\ IsPart(file, ptr, "attribute") /\ file.at[ptr][2] = t
      /\ file.at[ptr][3] = m /\ file.at[ptr][4] = j
  BY <1>3 DEF At, IsPart, Attribute
<1>5. /\ ptr' = ptr + AttributeBytes(L[j + 1]) /\ attributes' = attributes - 1
      /\ UNCHANGED <<file, phase, i, count, classfile>>
  BY <1>4 DEF SkipAttribute
<1>6. ptr' = ptr + (6 + L[j + 1].length)
  BY <1>1, <1>2, <1>5 DEF AttributeBytes
<1>7. At(file, ptr', IntoList(file, t, m, j + 1))
  BY <1>3, <1>6, AfterAttribute DEF Readable, WellFormed
<1>8. file' = file
  BY <1>5
<1>9. ptr' \in Nat
  BY <1>7 DEF At, Readable, WellFormed, Structured
<1>q. QED
  BY <1>1, <1>2, <1>5, <1>7, <1>8, <1>9 DEF InList

\* A loop over members is at member i when it has passed the attributes of the
\* one before, and behind the table when i is at its bound.
LEMMA AtMember ==
  ASSUME Readable(file), NEW t \in {"fields", "methods"}, InTable(t), attributes = 0
  PROVE  At(file, ptr, IntoTable(file, t, i))
<1>1. Number(file, t) \in Nat /\ i \in Nat
  BY NumberIsNat DEF Readable, WellFormed, InTable, Tables
<1>2. CASE i = 0
  BY <1>2 DEF InTable
<1>3. CASE i > 0
  <2>1. i - 1 \in 0 .. Len(file.list[t]) - 1
    BY <1>1, <1>3 DEF InTable, Number
  <2>2. Len(Attributes(file, t, i - 1)) \in Nat
    BY <2>1, AttributesOfMember DEF Readable, WellFormed, Lists, MembersOf
  <2>3. At(file, ptr, IntoList(file, t, i - 1, Len(Attributes(file, t, i - 1))))
    BY <1>3, <2>2 DEF InTable, InList
  <2>4. IntoList(file, t, i - 1, Len(Attributes(file, t, i - 1))) = IntoTable(file, t, (i - 1) + 1)
    BY <2>2 DEF IntoList
  <2>q. QED
    BY <1>1, <2>3, <2>4
<1>q. QED
  BY <1>1, <1>2, <1>3

LEMMA MemberSkipped ==
  ASSUME Readable(file), NEW t \in {"fields", "methods"}, phase = t, InTable(t), SkipMember
  PROVE  /\ InTable(t)' /\ ptr' \in Nat
         /\ UNCHANGED <<file, phase, count, classfile>>
<1>1. attributes = 0 /\ i < count
  BY DEF SkipMember
<1>2. count = Number(file, t) /\ i \in 0 .. Len(file.list[t]) - 1 /\ count = Len(file.list[t])
  BY <1>1, NumberIsNat DEF InTable, Number, Readable, WellFormed, Tables
<1>3. At(file, ptr, Member(t, i))
  BY <1>1, <1>2, AtMember DEF IntoTable
<1>4. IsPart(file, ptr, "member") /\ file.at[ptr][2] = t /\ file.at[ptr][3] = i
  BY <1>3 DEF At, IsPart, Member
<1>5. /\ ptr' = ptr + 8 /\ i' = i + 1 /\ attributes' = Len(Attributes(file, t, i))
      /\ UNCHANGED <<file, phase, count, classfile>>
  BY <1>4 DEF SkipMember
<1>6. Len(Attributes(file, t, i)) \in Nat
  BY <1>2, AttributesOfMember DEF Readable, WellFormed, Lists, MembersOf
<1>7. At(file, ptr', IntoList(file, t, i, 0))
  BY <1>3, <1>5, AfterMember DEF Readable, WellFormed
<1>8. file' = file /\ ptr' \in Nat
  BY <1>5, <1>7 DEF At, Readable, WellFormed, Structured
<1>9. i' - 1 = i /\ i' > 0 /\ i' \in 0 .. count'
  BY <1>2, <1>5
<1>10. ASSUME NEW m, m = i
       PROVE  InList(t, m)'
  <2>1. attributes' \in 0 .. attributes' /\ attributes' - attributes' = 0
    BY <1>5, <1>6
  <2>q. QED
    BY <1>2, <1>5, <1>6, <1>7, <1>8, <1>10, <2>1 DEF InList
<1>11. InList(t, i - 1)'
  BY <1>9, <1>10
<1>12. count' = Number(file, t)' /\ ~ (i' = 0)
  <2>1. count' = count /\ Number(file, t)' = Number(file, t)
    BY <1>5, <1>8
  <2>2. i + 1 # 0
    BY <1>2
  <2>q. QED
    BY <1>2, <1>5, <2>1, <2>2
<1>13. InTable(t)'
  BY <1>9, <1>11, <1>12 DEF InTable
<1>q. QED
  BY <1>5, <1>8, <1>13

-----------------------------------------------------------------------------
LEMMA ReaderInit == ReadInit => ReaderInv
<1>1. Zero \in [meta : SUBSET Flags, cpool_count : Nat, count : [Tables -> Nat],
                off : [Tables -> Nat]]
  BY DEF Zero
<1>q. QED
  BY <1>1 DEF ReadInit, ReaderInv, Typed, InStep, FoundSoFar, Tables

\* Every action keeps the invariant (each handler of the reader).
LEMMA ReaderStep == ReaderInv /\ [ReadNext]_readVars => ReaderInv'
<1> SUFFICES ASSUME ReaderInv, [ReadNext]_readVars, Readable(file)'
             PROVE  (Typed /\ InStep /\ FoundSoFar)'
  BY DEF ReaderInv
<1>1. file' = file
  BY DEF ReadNext, Reject, Accept, ReadStep, SkipEntry, ReadInterfaces, ReadFields, SkipMember,
         SkipAttribute, ReadMethods, ReadAttributes, Finish, Blunder, OpenTable, GoAstray,
         readVars
<1>2. Readable(file) /\ Typed /\ InStep /\ FoundSoFar
  BY <1>1 DEF ReaderInv
<1>3. WellFormed(file) /\ LaidOut(file) /\ Structured(file)
  BY <1>2 DEF Readable, WellFormed
<1>4. CASE Reject
  BY <1>2, <1>4 DEF Reject, Readable
<1>5. CASE Accept
  <2>1. /\ phase' = "pool" /\ ptr' = 10 /\ i' = 0 /\ count' = file.slots % CountMod
        /\ classfile' = [Zero EXCEPT !.meta = {CLASSFILE_META_VALID, CLASSFILE_META_SOURCE_TYPE},
                                     !.cpool_count = file.slots]
    BY <1>5 DEF Accept
  <2>2. file.slots \in Nat /\ file.slots < CountMod /\ CountMod \in Nat
    BY <1>2, ReaderAssumption DEF Readable, WellFormed, Structured, PoolWellFormed
  <2>3. count' = file.slots
    BY <2>1, <2>2
  <2>4. file.slots > 0 => 0 \in DOMAIN file.entry
    BY <1>2 DEF Readable, WellFormed, Structured, PoolWellFormed
  <2>5. InPool'
    BY <1>1, <1>3, <2>1, <2>2, <2>3, <2>4 DEF InPool, LaidOut
  <2>6. /\ classfile' \in [meta : SUBSET Flags, cpool_count : Nat, count : [Tables -> Nat],
                           off : [Tables -> Nat]]
        /\ classfile'.cpool_count = file.slots
    BY <2>1, <2>2 DEF Zero, Flags
  <2>q. QED
    BY <1>1, <2>1, <2>5, <2>6 DEF Typed, InStep, FoundSoFar, Tables
<1>6. CASE SkipEntry
  <2>1. phase = "pool" /\ InPool
    BY <1>2, <1>6 DEF SkipEntry, InStep
  <2>2. InPool' /\ ptr' \in Nat /\ UNCHANGED <<phase, classfile>>
    BY <1>2, <1>6, <2>1, EntrySkipped
  <2>q. QED
    BY <1>1, <1>2, <2>1, <2>2 DEF Typed, InStep, FoundSoFar, Tables
<1>7. CASE ReadInterfaces
  <2>1. phase = "pool" /\ InPool /\ count <= i
    BY <1>2, <1>7 DEF ReadInterfaces, InStep
  <2>2. At(file, ptr, Header)
    BY <1>3, <2>1 DEF InPool, IntoPool, WellFormed, Structured, PoolWellFormed
  <2>3. At(file, ptr + 6, Count("interfaces"))
    BY <1>3, <2>2, AfterHeader
  <2>4. OpenTable("interfaces", ptr + 6) /\ "interfaces" \in Tables
    BY <1>7 DEF ReadInterfaces, Tables
  <2>5. /\ Typed' /\ phase' = "interfaces" /\ TableRight("interfaces")'
        /\ classfile'.cpool_count = classfile.cpool_count
        /\ ptr' = (ptr + 6) + 2 + 2 * file.interfaces
    BY <1>2, <2>3, <2>4, Opened
  <2>6. ptr \in Nat /\ file.interfaces \in Nat
    BY <1>2, <1>3 DEF Typed, Structured
  <2>7. At(file, ptr', Count("fields"))
    <3>1. ptr' = (ptr + 6) + (2 + 2 * file.interfaces)
      BY <2>5, <2>6
    <3>q. QED
      BY <1>3, <2>3, <3>1, AfterInterfaces
  <2>q. QED
    BY <1>1, <1>2, <2>1, <2>5, <2>7 DEF InStep, FoundSoFar, Tables
<1>8. CASE ReadFields
  <2>1. /\ phase = "interfaces" /\ At(file, ptr, Count("fields")) /\ OpenTable("fields", ptr)
        /\ "fields" \in Tables /\ "interfaces" \in Tables \ {"fields"}
    BY <1>2, <1>8 DEF ReadFields, InStep, Tables
  <2>2. /\ Typed' /\ phase' = "fields" /\ TableRight("fields")' /\ i' = 0 /\ attributes' = 0
        /\ TableRight("interfaces") => TableRight("interfaces")'
        /\ classfile'.cpool_count = classfile.cpool_count
        /\ count' = Number(file, "fields") /\ ptr' = ptr + 2
    BY <1>2, <2>1, Opened
  <2>3. At(file, ptr', IntoTable(file, "fields", 0))
    BY <1>3, <2>1, <2>2, AfterCount
  <2>4. InTable("fields")'
    BY <1>1, <1>3, <2>1, <2>2, <2>3, NumberIsNat DEF InTable
  <2>q. QED
    BY <1>1, <1>2, <2>1, <2>2, <2>4 DEF InStep, FoundSoFar, Tables
<1>9. CASE ReadMethods
  <2>1. /\ phase = "fields" /\ InTable("fields") /\ attributes = 0 /\ count <= i
        /\ OpenTable("methods", ptr)
        /\ "methods" \in Tables /\ {"interfaces", "fields"} \subseteq Tables \ {"methods"}
    BY <1>2, <1>9 DEF ReadMethods, SkippedMembers, InStep, Tables
  <2>2. At(file, ptr, Count("methods"))
    <3>1. At(file, ptr, IntoTable(file, "fields", i))
      BY <1>2, <2>1, AtMember
    <3>2. Number(file, "fields") \in Nat
      BY <1>3, NumberIsNat DEF Tables
    <3>3. ~ (i < Number(file, "fields"))
      BY <2>1, <3>2 DEF InTable
    <3>q. QED
      BY <3>1, <3>3 DEF IntoTable, AfterTable
  <2>3. /\ Typed' /\ phase' = "methods" /\ TableRight("methods")' /\ i' = 0 /\ attributes' = 0
        /\ TableRight("interfaces") => TableRight("interfaces")'
        /\ TableRight("fields") => TableRight("fields")'
        /\ classfile'.cpool_count = classfile.cpool_count
        /\ count' = Number(file, "methods") /\ ptr' = ptr + 2
    BY <1>2, <2>1, <2>2, Opened
  <2>4. At(file, ptr', IntoTable(file, "methods", 0))
    BY <1>3, <2>2, <2>3, AfterCount
  <2>5. InTable("methods")'
    BY <1>1, <1>3, <2>1, <2>3, <2>4, NumberIsNat DEF InTable
  <2>q. QED
    BY <1>1, <1>2, <2>1, <2>3, <2>5 DEF InStep, FoundSoFar, Tables
<1>10. CASE ReadAttributes
  <2>1. /\ phase = "methods" /\ InTable("methods") /\ attributes = 0 /\ count <= i
        /\ OpenTable("attributes", ptr)
        /\ "attributes" \in Tables /\ Tables \ {"attributes"} = {"interfaces", "fields", "methods"}
    BY <1>2, <1>10 DEF ReadAttributes, SkippedMembers, InStep, Tables
  <2>2. At(file, ptr, Count("attributes"))
    <3>1. At(file, ptr, IntoTable(file, "methods", i))
      BY <1>2, <2>1, AtMember
    <3>2. Number(file, "methods") \in Nat
      BY <1>3, NumberIsNat DEF Tables
    <3>3. ~ (i < Number(file, "methods"))
      BY <2>1, <3>2 DEF InTable
    <3>q. QED
      BY <3>1, <3>3 DEF IntoTable, AfterTable
  <2>3. /\ Typed' /\ phase' = "attributes" /\ TableRight("attributes")'
        /\ attributes' = Number(file, "attributes")
        /\ \A u \in {"interfaces", "fields", "methods"} : TableRight(u) => TableRight(u)'
        /\ classfile'.cpool_count = classfile.cpool_count
        /\ ptr' = ptr + 2
    BY <1>2, <2>1, <2>2, Opened
  <2>4. At(file, ptr', IntoList(file, "attributes", 0, 0))
    BY <1>3, <2>2, <2>3, AfterCountAttributes
  <2>5. /\ Number(file, "attributes") = Len(Attributes(file, "attributes", 0))
        /\ Number(file, "attributes") \in Nat
    BY <1>3, <2>1, NumberIsNat DEF Number, Attributes
  <2>6. InList("attributes", 0)'
    BY <1>1, <2>3, <2>4, <2>5 DEF InList
  <2>q. QED
    BY <1>1, <1>2, <2>1, <2>3, <2>6 DEF InStep, FoundSoFar, Tables
<1>11. CASE SkipMember
  <2>1. PICK t \in {"fields", "methods"} : phase = t
    BY <1>11 DEF SkipMember
  <2>2. InTable(t)
    BY <1>2, <2>1 DEF InStep
  <2>3. InTable(t)' /\ ptr' \in Nat /\ UNCHANGED <<phase, classfile>>
    BY <1>2, <1>11, <2>1, <2>2, MemberSkipped
  <2>q. QED
    BY <1>1, <1>2, <2>1, <2>3 DEF Typed, InStep, FoundSoFar, Tables, TableRight
<1>12. CASE SkipAttribute
  <2>1. phase \in {"fields", "methods", "attributes"} /\ attributes > 0
    BY <1>12 DEF SkipAttribute
  <2>2. CASE phase = "attributes"
    <3>1. InList("attributes", 0) /\ 0 \in 0 .. Len(file.list["attributes"]) - 1
      <4>1. Len(file.list["attributes"]) = 1
        BY <1>3 DEF Structured
      <4>q. QED
        BY <1>2, <2>2, <4>1 DEF InStep
    <3>2. InList("attributes", 0)' /\ ptr' \in Nat /\ UNCHANGED <<phase, classfile>>
      BY <1>2, <1>12, <3>1, AttributeSkipped
    <3>q. QED
      BY <1>1, <1>2, <2>2, <3>2 DEF Typed, InStep, FoundSoFar, Tables, TableRight
  <2>3. CASE phase \in {"fields", "methods"}
    <3>1. PICK t \in {"fields", "methods"} : phase = t
      BY <2>3
    <3>2. InTable(t)
      BY <1>2, <3>1 DEF InStep
    <3>3. i > 0 /\ i - 1 \in 0 .. Len(file.list[t]) - 1 /\ InList(t, i - 1) /\ count = Number(file, t)
      BY <1>3, <2>1, <3>2, NumberIsNat DEF InTable, Number, Tables
    <3>4. PICK m \in 0 .. Len(file.list[t]) - 1 : m = i - 1
      BY <3>3
    <3>5. InList(t, m)' /\ ptr' \in Nat /\ UNCHANGED <<phase, i, count, classfile>>
      BY <1>2, <1>12, <3>3, <3>4, AttributeSkipped
    <3>6. InList(t, i - 1)'
      BY <3>4, <3>5
    <3>7. i' \in 0 .. count' /\ i' # 0 /\ count' = Number(file, t)'
      BY <1>1, <3>2, <3>3, <3>5 DEF InTable
    <3>8. InTable(t)'
      BY <3>6, <3>7 DEF InTable
    <3>q. QED
      BY <1>1, <1>2, <3>1, <3>5, <3>8 DEF Typed, InStep, FoundSoFar, Tables, TableRight
  <2>q. QED
    BY <2>1, <2>2, <2>3
<1>13. CASE Finish
  <2>1. /\ phase = "attributes" /\ phase' = "done" /\ ptr' = ptr
        /\ classfile' = [classfile EXCEPT !.meta = @ \cup {CLASSFILE_META_READ_SUCCESS}]
    BY <1>13 DEF Finish
  <2>2. /\ classfile' \in [meta : SUBSET Flags, cpool_count : Nat, count : [Tables -> Nat],
                           off : [Tables -> Nat]]
        /\ classfile'.cpool_count = classfile.cpool_count
        /\ classfile'.count = classfile.count /\ classfile'.off = classfile.off
    BY <1>2, <2>1 DEF Typed, Flags
  <2>q. QED
    BY <1>1, <1>2, <2>1, <2>2 DEF Typed, InStep, FoundSoFar, Tables, TableRight
<1>14. CASE Blunder
  BY <1>2, <1>14 DEF Blunder, Typed, Tables
<1>15. CASE UNCHANGED readVars
  BY <1>1, <1>2, <1>15 DEF readVars, Typed, InStep, FoundSoFar, Tables, TableRight, InPool,
                           InTable, InList
<1>q. QED
  BY <1>4, <1>5, <1>6, <1>7, <1>8, <1>9, <1>10, <1>11, <1>12, <1>13, <1>14, <1>15
     DEF ReadNext, ReadStep

-----------------------------------------------------------------------------
\* Of a readable file every count and offset that is reported is right, whatever
\* the file and however wide the counter (ClassFileReadStatic).
THEOREM ReadsRightAlways == ReadSpec => []ReadsRight
<1>1. ReaderInv => ReadsRight
  BY DEF ReaderInv, Typed, FoundSoFar, ReadsRight, Success, Right, TableRight, Tables
<1>q. QED
  BY <1>1, ReaderInit, ReaderStep, PTL DEF ReadSpec

\* In a readable file the reader never takes bytes for what they are not
\* (ClassFileReadStatic and the functions it calls).
THEOREM StaysInStepAlways == ReadSpec => []StaysInStep
<1>1. ReaderInv => StaysInStep
  BY DEF ReaderInv, Typed, StaysInStep, Tables
<1>q. QED
  BY <1>1, ReaderInit, ReaderStep, PTL DEF ReadSpec
=============================================================================
