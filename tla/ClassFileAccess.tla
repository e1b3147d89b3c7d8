--------------------------- MODULE ClassFileAccess ---------------------------
(***************************************************************************)
(* The use of a class file that ClassFileReadStatic has returned: look-ups *)
(* by index, iterators, and the functions built on them.  All of them read *)
(* the file's bytes again, from the offsets the reader has left.           *)
(***************************************************************************)
EXTENDS ClassFileReader, FiniteSets

CONSTANTS
  IndexMod,    \* indexes are uint16_t, modulo 2^16
  Indexes      \* the indexes clients ask for

ASSUME AccessAssumption ==
  /\ IndexMod \in Nat /\ Indexes \subseteq 0 .. IndexMod - 1
  /\ \A f \in Files : Structured(f) /\ f.slots < IndexMod

VARIABLES
  it,     \* the client's iterator
  got     \* what the last call returned, if another call can take it

accessVars == <<it, got>>
vars == <<readVars, accessVars>>

\* What a call returns: the structure {0}, or one read from bytes that are not
\* what they are taken for; else a record of the values that matter.
Nothing == [is |-> "nothing"]
Astray == [is |-> "astray"]

Less1(n) == (n - 1) % IndexMod

-----------------------------------------------------------------------------
(***************************************************************************)
(* The constant pool.                                                      *)
(***************************************************************************)

\* Mutant: the reference to a class counts from 0 as well.
DecodedAll(e) == [is |-> "entry", tag |-> e.tag, text |-> e.text, ref |-> Less1(e.ref)]

\* Most references are converted to count from 0, those to a class are not.
Decoded(e) == [is |-> "entry", tag |-> e.tag, text |-> e.text,
               ref |-> IF e.tag \in {8, 12} \cup 15 .. 20 THEN Less1(e.ref) ELSE e.ref]

\* Mutant: only the high half of a long or double is read.
EntryBytesHalf(e) == IF e.tag \in Wide THEN 1 + 4 ELSE EntrySize(e)

\* How far get_entry and GetConstantPoolEntry, which know all tags, move.
EntryBytes(e) == CASE e.tag = 17 -> 1 + 4
                   [] e.tag \in {19, 20} -> 1 + 2
                   [] OTHER -> Skipped(e)

EntryAt(o) == file.entry[file.at[o][4]]

\* get_entry: what it returns, and where it leaves the pointer.
get_entry(o) ==
  IF ~ IsPart(file, o, "entry") THEN [entry |-> Astray, next |-> ANY]
  ELSE IF EntryAt(o).tag \notin Tags THEN [entry |-> Nothing, next |-> o + 1]
  ELSE [entry |-> Decoded(EntryAt(o)), next |-> o + EntryBytes(EntryAt(o))]

\* Mutant: a long or double is passed like any other entry.
PassedOne(e) == 1

Passed(e) == SlotsOf(e)

\* Where GetConstantPoolEntry stands after n iterations. It stops at the index,
\* and at bytes it cannot pass.
SeekEntry(index) ==
  LET loop[n \in 0 .. index] ==
        IF n = 0 THEN [at |-> 10, i |-> 0]
        ELSE LET s == loop[n - 1]
             IN IF s.i < index /\ IsPart(file, s.at, "entry") /\ EntryAt(s.at).tag \in Tags
                  THEN [at |-> s.at + EntryBytes(EntryAt(s.at)), i |-> s.i + Passed(EntryAt(s.at))]
                  ELSE s
  IN loop[index].at

\* Mutant: no range check.
LookUpUnchecked(index) == get_entry(SeekEntry(index)).entry

GetConstantPoolEntry(index) ==
  IF index >= classfile.cpool_count THEN Nothing ELSE get_entry(SeekEntry(index)).entry

TextOf(entry) == IF entry.is = "entry" THEN entry.text ELSE ""

\* Mutant: the index is taken to count from 0.
SynthTypeFrom0(a) == TextOf(GetConstantPoolEntry(a.name))

\* The hash of an attribute's name identifies it; name indexes count from 1.
SynthType(a) == TextOf(GetConstantPoolEntry(Less1(a.name)))

-----------------------------------------------------------------------------
(***************************************************************************)
(* Members and attributes.                                                 *)
(***************************************************************************)
AttributeAt(o) == LET p == file.at[o] IN Attributes(file, p[2], p[3])[p[4] + 1]

\* The offsets that skip_attributes comes to, and find_code_attribute alike.
SkipTo(o, number) ==
  LET loop[n \in 0 .. number] ==
        IF n = 0 THEN o
        ELSE IF IsPart(file, loop[n - 1], "attribute")
          THEN loop[n - 1] + AttributeBytes(AttributeAt(loop[n - 1]))
          ELSE ANY
  IN loop

\* find_code_attribute: the first attribute of that name, or NULL.
find_code_attribute(o, number) ==
  LET found == {n \in 0 .. number - 1 :
                  /\ IsPart(file, SkipTo(o, number)[n], "attribute")
                  /\ SynthType(AttributeAt(SkipTo(o, number)[n])) = "Code"}
  IN IF found = {} THEN 0
     ELSE SkipTo(o, number)[CHOOSE n \in found : \A m \in found : n <= m]

\* read_field and read_method: the structure and where they leave the pointer.
\* "which" stands for the name, descriptor and access flags.
read_member(o) ==
  LET p == file.at[o]
      n == Len(Attributes(file, p[2], p[3]))
      next == SkipTo(o + 8, n)[n]
  IN IF ~ IsPart(file, o, "member") \/ next = ANY THEN [member |-> Astray, next |-> ANY]
     ELSE [member |-> [is |-> p[2], which |-> p[3], attributes_count |-> n, attributes |-> o + 8,
                       code_attr_off |-> IF p[2] = "methods" THEN find_code_attribute(o + 8, n)
                                         ELSE 0],
           next |-> next]

SeekMember(table, index) ==
  LET loop[n \in 0 .. index] ==
        IF n = 0 THEN classfile.off[table] ELSE read_member(loop[n - 1]).next
  IN loop[index]

\* Mutant: one too many.
MaxFieldsLoose == classfile.count["fields"] + 1

\* What the two functions hold an index against.
FieldBound == classfile.count["fields"]
MethodBound == classfile.cpool_count

GetMember(table, index, bound) ==
  IF bound = ANY THEN Astray
  ELSE IF index >= bound THEN Nothing
  ELSE read_member(SeekMember(table, index)).member

\* Mutant: the exception table is not passed.
InnerOffsetNoTable(a) == 6 + 8 + a.code + 2 + 2

\* Where the inner attributes start in a Code attribute: behind its header,
\* max_stack, max_locals, the code, the exception table and their count.
InnerOffset(a) == 6 + 8 + a.code + 2 + 8 * a.handlers + 2

\* ReadAttributeAt reads the contents of two kinds of attribute, and leaves the
\* pointer before the contents of the others. Only a method's attribute can have
\* the contents of the first kind.
ReadAttributeAt(o) ==
  LET a       == AttributeAt(o)
      inner   == o + InnerOffset(a)
      n       == Len(Attributes(file, "code", file.at[o][3]))
      behind  == SkipTo(inner, n)[n]
      is(type, number, offset) ==
        [is |-> "attribute", type |-> type, attributes_count |-> number, attributes |-> offset]
      lost    == [attribute |-> Astray, next |-> ANY]
  IN IF ~ IsPart(file, o, "attribute") THEN lost
     ELSE CASE SynthType(a) = "Code" ->
                 IF file.at[o][2] # "methods" \/ behind = ANY THEN lost
                 ELSE [attribute |-> is("Code", n, inner), next |-> behind]
            [] SynthType(a) = "ConstantValue" ->
                 [attribute |-> is("ConstantValue", 0, 0), next |-> o + 6 + 2]
            [] OTHER -> [attribute |-> is("other", 0, 0), next |-> o + 6]

-----------------------------------------------------------------------------
(***************************************************************************)
(* The calls of a client. A call that follows a NULL pointer crashes; one  *)
(* that reads astray may crash or return anything.                         *)
(***************************************************************************)
Crash == phase' = "lost" /\ UNCHANGED <<file, ptr, i, count, attributes, classfile, it, got>>

Kept(structure) ==
  IF structure.is \in {"fields", "methods"} THEN structure
  ELSE IF structure.is = "attribute" THEN (IF structure.type = "Code" THEN structure ELSE Nothing)
  ELSE Nothing

Gets(structure) ==
  \/ got' = Kept(structure) /\ UNCHANGED <<readVars, it>>
  \/ structure = Astray /\ Crash

ByIndex ==
  \E n \in Indexes :
    \/ Gets(GetConstantPoolEntry(n))
    \/ Gets(GetMember("fields", n, FieldBound))
    \/ Gets(GetMember("methods", n, MethodBound))

\* The name of the class with that index in the pool, as the utilities look it
\* up; index 0, of no class, leaves the pool on the other side.
ClassName(index) ==
  LET class == GetConstantPoolEntry(Less1(index))
  IN CASE class.is = "astray" -> Astray
       [] class.is = "nothing" -> GetConstantPoolEntry(Less1(0))
       [] OTHER -> GetConstantPoolEntry(Less1(class.ref))

\* The utilities read this_class and super_class from before if_off.
HeaderFound == At(file, classfile.off["interfaces"] - 8, Header)

ClassNames ==
  IF classfile.off["interfaces"] = 0 THEN Crash
  ELSE IF ~ HeaderFound THEN Gets(Astray)
  ELSE Gets(ClassName(file.this)) \/ Gets(ClassName(file.super))

NoIterator == [of |-> "none", index |-> 0, count |-> 0, ptr |-> 0]

\* A count read astray may be anything: it is taken for 1, one more read astray.
Iterator(of, number, offset) ==
  [of |-> of, index |-> 0, count |-> IF number = ANY THEN 1 ELSE number, ptr |-> offset]

\* An iterator over the pool, over members, or over attributes: those of the
\* class, or of the member or Code attribute the client has.
CreateIterator ==
  /\ \/ it' = Iterator("pool", classfile.cpool_count, 10)
     \/ \E table \in {"fields", "methods", "attributes"} :
          it' = Iterator(table, classfile.count[table], classfile.off[table])
     \/ /\ got # Nothing
        /\ it' = Iterator("attributes", got.attributes_count, got.attributes)
  /\ UNCHANGED <<readVars, got>>

\* The three kinds of Next, each with what it reads at the pointer.
Advance(structure, next) ==
  \/ structure = Astray /\ Crash
  \/ /\ got' = Kept(structure)
     /\ it' = [it EXCEPT !.index = @ + 1, !.ptr = next]
     /\ UNCHANGED readVars

\* Mutant: one call too many.
HasNextLoose == it.index <= it.count

\* IteratorHasNext; all three kinds of Next check the same.
HasNext == it.index < it.count

IteratorNext ==
  IF ~ HasNext THEN Gets(Nothing)
  ELSE \/ /\ it.of = "pool"
          /\ Advance(get_entry(it.ptr).entry, get_entry(it.ptr).next)
       \/ /\ it.of \in {"fields", "methods"}
          /\ Advance(read_member(it.ptr).member, read_member(it.ptr).next)
       \/ /\ it.of = "attributes"
          /\ Advance(ReadAttributeAt(it.ptr).attribute, ReadAttributeAt(it.ptr).next)

\* Only for a method; its code_attr_off may be NULL.
GetCodeAttribute ==
  /\ got.is = "methods"
  /\ IF got.code_attr_off = 0 THEN Crash ELSE Gets(ReadAttributeAt(got.code_attr_off).attribute)

\* The names are looked up in a NULL class file, so the first look-up crashes.
GetAttributeInfo ==
  /\ got.is \in {"fields", "methods"}
  /\ IF got.attributes_count = 0 THEN Gets(Nothing) ELSE Crash

Use ==
  /\ phase = "done"
  /\ \/ ByIndex \/ ClassNames \/ CreateIterator \/ IteratorNext
     \/ GetCodeAttribute \/ GetAttributeInfo

Init == ReadInit /\ it = NoIterator /\ got = Nothing

Next ==
  \/ ReadNext /\ UNCHANGED accessVars
  \/ Use

Spec == Init /\ [][Next]_vars

-----------------------------------------------------------------------------
(***************************************************************************)
(* Properties.                                                             *)
(***************************************************************************)

\* The type invariant.
TypeOK ==
  /\ phase \in Tables \cup {"idle", "pool", "astray", "done", "lost"}
  /\ ptr \in Nat /\ i \in Nat /\ count \in Nat /\ attributes \in Nat
  /\ classfile.meta \subseteq {CLASSFILE_META_VALID, CLASSFILE_META_SOURCE_TYPE,
                               CLASSFILE_META_READ_SUCCESS}
  /\ classfile.cpool_count \in Nat
  /\ classfile.count \in [Tables -> Nat \cup {ANY}]
  /\ classfile.off \in [Tables -> Nat \cup {ANY}]
  /\ it.of \in {"none", "pool", "fields", "methods", "attributes"}
  /\ it.index \in 0 .. it.count /\ it.ptr \in Nat \cup {ANY}
  /\ got.is \in {"nothing", "fields", "methods", "attribute"}

\* A client of a class file that was read right.
Usable == phase = "done" /\ WellFormed(file) /\ classfile.off["attributes"] # 0 /\ Right

\* The index of an entry's first slot finds that entry, in any well-formed file
\* whatever became of its reading (GetConstantPoolEntry, get_entry).
IndexFindsEntry ==
  phase = "done" /\ classfile.meta # {} /\ WellFormed(file) =>
    \A s \in DOMAIN file.entry : GetConstantPoolEntry(s) = Decoded(file.entry[s])

\* The n-th call of the pool's iterator is at the n-th entry; it runs out of the
\* pool exactly if there are fewer entries than slots (ConstantPoolIteratorNext).
PoolIteratorExact ==
  it.of = "pool" /\ phase = "done" /\ WellFormed(file) =>
    LET Before(s) == {r \in DOMAIN file.entry : r < s}
    IN CASE it.index < Cardinality(DOMAIN file.entry) ->
              \E s \in DOMAIN file.entry :
                At(file, it.ptr, Entry(s)) /\ Cardinality(Before(s)) = it.index
         [] it.index = Cardinality(DOMAIN file.entry) -> At(file, it.ptr, Header)
         [] OTHER -> it.ptr = ANY

\* GetField and GetMethod find the member of that index. An index out of range
\* is refused by GetField; GetMethod refuses those that are not below the size
\* of the pool, be they in range or not, and reads on behind the table for others.
MembersExact ==
  Usable => \A n \in Indexes :
    LET field == GetMember("fields", n, FieldBound)
        method == GetMember("methods", n, MethodBound)
    IN /\ IF n < Number(file, "fields") THEN field.is = "fields" /\ field.which = n
          ELSE field = Nothing
       /\ IF n >= file.slots THEN method = Nothing
          ELSE IF n < Number(file, "methods") THEN method.is = "methods" /\ method.which = n
          ELSE method = Astray

\* A method's Code attribute is found if and only if it has one, and an iterator
\* over members is always at the member of its index (find_code_attribute,
\* read_field, read_method).
MembersIterate ==
  Usable =>
    /\ it.of \in {"fields", "methods"} => At(file, it.ptr, IntoTable(file, it.of, it.index))
    /\ got.is = "methods" =>
         LET code == {j \in DOMAIN Attributes(file, "methods", got.which) :
                        Text(file, Attributes(file, "methods", got.which)[j].name) = "Code"}
         IN IF code = {} THEN got.code_attr_off = 0
            ELSE \E j \in code : At(file, got.code_attr_off, Attribute("methods", got.which, j - 1))

\* An iterator over attributes goes from one to the next exactly if it reads the
\* attribute to its end: those of the two known kinds, and empty ones. Behind any
\* other it is astray (AttributeIteratorNext, ReadAttributeAt).
AttributesExact ==
  [][Usable /\ it.of = "attributes" /\ it'.index = it.index + 1 /\ IsPart(file, it.ptr, "attribute") =>
       LET a == AttributeAt(it.ptr)
       IN At(file, it'.ptr, AfterPlace(file, file.at[it.ptr])) <=>
            Text(file, a.name) \in {"Code", "ConstantValue"} \/ a.length = 0]_vars

\* The names of a class and of its super class are found; there is none for
\* java.lang.Object, whose super_class is 0 (GetClassFileName, GetSuperClassName).
NamesResolve ==
  Usable =>
    /\ HeaderFound
    /\ ClassName(file.this).text = Text(file, file.entry[file.this - 1].ref)
    /\ IF file.super = 0 THEN ClassName(file.super) = Nothing
       ELSE ClassName(file.super).text = Text(file, file.entry[file.super - 1].ref)

-----------------------------------------------------------------------------
(***************************************************************************)
(* What the documentation says and the code does not do.                   *)
(***************************************************************************)

\* The iterator and the index are two ways to the same entry (README.md of the
\* class file module; ConstantPoolIteratorNext, GetConstantPoolEntry).
IteratorAgreesWithIndex ==
  it.of = "pool" /\ it.index < it.count /\ Usable =>
    get_entry(it.ptr).entry = GetConstantPoolEntry(it.index)

\* GetCodeAttribute returns "an empty structure if not found" (classfile.h).
CodeOrEmpty == [][GetCodeAttribute => phase' = "done"]_vars
=============================================================================
