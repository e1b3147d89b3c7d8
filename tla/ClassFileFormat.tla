--------------------------- MODULE ClassFileFormat ---------------------------
(***************************************************************************)
(* The bytes that the class file library is given, as the Java class file  *)
(* format defines them: what a reader of this repository is measured       *)
(* against.  A file is abstracted to which structure starts at which       *)
(* offset, and to the few values in those structures that a reader follows.*)
(***************************************************************************)
EXTENDS Integers, Sequences

CONSTANT Files    \* the files a program may hand to the reader

(***************************************************************************)
(* A file f is a record of                                                 *)
(*   magic       whether it starts with 0xCAFEBABE;                        *)
(*   slots       constant_pool_count - 1;                                  *)
(*   entry       first slot of each constant pool entry -> the entry, a    *)
(*               record of tag, length (of a Utf8), ref (the index another *)
(*               entry is named by, from 1, or 0) and text (of a Utf8);    *)
(*   this, super the two class indexes, from 1, super 0 for none;          *)
(*   interfaces  their number;                                             *)
(*   list        table -> the attribute lists of its members, in order:    *)
(*               "fields" and "methods"; "code", the inner list of each    *)
(*               method's Code attribute; and "attributes", with one       *)
(*               list, that of the class itself;                           *)
(*   at          offset -> the place that starts there.                    *)
(* An attribute is a record of name (an index, from 1), length, and, of a  *)
(* Code attribute, code and handlers (code_length, the number of table     *)
(* entries).  A place is a tuple <<part, table, member, index>>.           *)
(***************************************************************************)
Entry(slot) == <<"entry", "pool", 0, slot>>
Header == <<"header", "class", 0, 0>>         \* access_flags, this_class, super_class
Count(table) == <<"count", table, 0, 0>>
Member(table, m) == <<"member", table, m, 0>>
Attribute(table, m, j) == <<"attribute", table, m, j>>
End == <<"end", "class", 0, 0>>

At(f, offset, place) == offset \in DOMAIN f.at /\ f.at[offset] = place
IsPart(f, offset, part) == offset \in DOMAIN f.at /\ f.at[offset][1] = part

\* The number a count stands for.
Number(f, table) ==
  CASE table = "interfaces" -> f.interfaces
    [] table = "attributes" -> Len(f.list[table][1])
    [] OTHER -> Len(f.list[table])

Attributes(f, table, m) == f.list[table][m + 1]
Text(f, index) == f.entry[index - 1].text

-----------------------------------------------------------------------------
(***************************************************************************)
(* How many bytes a place takes, and which place comes after it.           *)
(***************************************************************************)
Wide == {5, 6}       \* CONSTANT_Long and CONSTANT_Double take two slots
Tags == {1} \cup 3 .. 12 \cup 15 .. 20

SlotsOf(entry) == IF entry.tag \in Wide THEN 2 ELSE 1

EntrySize(entry) ==
  1 + CASE entry.tag = 1 -> 2 + entry.length
        [] entry.tag \in {7, 8, 16, 19, 20} -> 2
        [] entry.tag = 15 -> 3
        [] entry.tag \in Wide -> 8
        [] OTHER -> 4

Size(f, place) ==
  CASE place[1] = "entry" -> EntrySize(f.entry[place[4]])
    [] place[1] = "header" -> 6
    [] place = Count("interfaces") -> 2 + 2 * f.interfaces
    [] place[1] = "member" -> 8
    [] place[1] = "attribute" -> 6 + Attributes(f, place[2], place[3])[place[4] + 1].length
    [] OTHER -> 2

AfterTable(table) ==
  Count(CASE table = "interfaces" -> "fields"
          [] table = "fields" -> "methods"
          [] OTHER -> "attributes")

\* A loop over slots, members or attributes that has come to number n is at:
IntoPool(f, n) == IF n < f.slots THEN Entry(n) ELSE Header

IntoTable(f, table, n) == IF n < Number(f, table) THEN Member(table, n) ELSE AfterTable(table)

IntoList(f, table, m, n) ==
  IF n < Len(Attributes(f, table, m)) THEN Attribute(table, m, n)
  ELSE IF table = "attributes" THEN End
  ELSE IntoTable(f, table, m + 1)

IntoRows(f, table) ==
  CASE table = "interfaces" -> Count("fields")
    [] table = "attributes" -> IntoList(f, table, 0, 0)
    [] OTHER -> IntoTable(f, table, 0)

\* The inner list of a Code attribute ends where that attribute does.
IntoCode(f, m, n) ==
  LET outer == Attributes(f, "methods", m)
  IN IF n < Len(Attributes(f, "code", m)) THEN Attribute("code", m, n)
     ELSE IntoList(f, "methods", m,
                   CHOOSE j \in 1 .. Len(outer) : Text(f, outer[j].name) = "Code")

AfterPlace(f, place) ==
  LET table == place[2]
  IN CASE place[1] = "entry" -> IntoPool(f, place[4] + SlotsOf(f.entry[place[4]]))
       [] place[1] = "header" -> Count("interfaces")
       [] place[1] = "count" -> IntoRows(f, table)
       [] place[1] = "member" -> IntoList(f, table, place[3], 0)
       [] place[1] = "attribute" /\ table = "code" -> IntoCode(f, place[3], place[4] + 1)
       [] OTHER -> IntoList(f, table, place[3], place[4] + 1)

\* Behind its header, stack and locals, code and exception table a Code attribute
\* has the number of its inner attributes and these.
CodeHeader(a) == 6 + 2 + 2 + (4 + a.code) + (2 + 8 * a.handlers) + 2

IsCode(f, place) ==
  /\ place[1] = "attribute" /\ place[2] = "methods"
  /\ Text(f, Attributes(f, "methods", place[3])[place[4] + 1].name) = "Code"

-----------------------------------------------------------------------------
(***************************************************************************)
(* Whatever its bytes, the numbers read from a file are natural numbers,   *)
(* and only a structure that it has can start at an offset of it.          *)
(***************************************************************************)
Lists == {"fields", "methods", "code", "attributes"}
AttributeInfo == [name : Nat, length : Nat, code : Nat, handlers : Nat]

MembersOf(f, table) == 0 .. Len(f.list[table]) - 1
AttributesOf(f, table, m) == 0 .. Len(Attributes(f, table, m)) - 1

Places(f) ==
  {Header, End}
    \cup {Entry(s) : s \in DOMAIN f.entry}
    \cup {Count(table) : table \in {"interfaces", "fields", "methods", "attributes"}}
    \cup (UNION {{Member(table, m) : m \in MembersOf(f, table)} : table \in {"fields", "methods"}})
    \cup (UNION {UNION {{Attribute(table, m, j) : j \in AttributesOf(f, table, m)} :
                          m \in MembersOf(f, table)} : table \in Lists})

Structured(f) ==
  /\ f.slots \in Nat /\ f.interfaces \in Nat
  /\ \A s \in DOMAIN f.entry : s \in Nat /\ f.entry[s].tag \in Nat /\ f.entry[s].length \in Nat
  /\ \A table \in Lists : f.list[table] \in Seq(Seq(AttributeInfo))
  /\ Len(f.list["attributes"]) = 1 /\ Len(f.list["code"]) = Len(f.list["methods"])
  /\ DOMAIN f.at \subseteq Nat /\ f.at \in [DOMAIN f.at -> Places(f)]

-----------------------------------------------------------------------------
(***************************************************************************)
(* A file is well formed if its places follow one another without a gap    *)
(* and its indexes are those of entries of the right kind.                 *)
(***************************************************************************)
PoolWellFormed(f) ==
  /\ \A s \in DOMAIN f.entry :
       /\ f.entry[s].tag \in Tags
       /\ f.entry[s].tag \in Wide => s + 1 \notin DOMAIN f.entry
       /\ s + SlotsOf(f.entry[s]) \in (DOMAIN f.entry \cap 0 .. f.slots - 1) \cup {f.slots}
  /\ f.slots > 0 => 0 \in DOMAIN f.entry

\* Indexes count from 1; 0 is no index.
IsIndex(f, index) == index - 1 \in DOMAIN f.entry
IsClass(f, index) ==
  IsIndex(f, index) /\ f.entry[index - 1].tag = 7 /\ IsIndex(f, f.entry[index - 1].ref)

\* Each method has at most one Code attribute, and nothing else has one.
NamesWellFormed(f) ==
  /\ IsClass(f, f.this) /\ (f.super = 0 \/ IsClass(f, f.super))
  /\ \A table \in Lists : \A m \in MembersOf(f, table) :
       LET a(j) == Attributes(f, table, m)[j + 1]
       IN \A j \in AttributesOf(f, table, m) :
            /\ IsIndex(f, a(j).name)
            /\ Text(f, a(j).name) = "ConstantValue" => a(j).length = 2
            /\ Text(f, a(j).name) = "Code" =>
                 /\ table = "methods"
                 /\ \A k \in AttributesOf(f, table, m) : Text(f, a(k).name) = "Code" => k = j

LaidOut(f) ==
  /\ At(f, 10, IntoPool(f, 0))
  /\ \A o \in DOMAIN f.at :
       LET p == f.at[o]
       IN /\ p # End => At(f, o + Size(f, p), AfterPlace(f, p))
          /\ IsCode(f, p) =>
               At(f, o + CodeHeader(Attributes(f, "methods", p[3])[p[4] + 1]), IntoCode(f, p[3], 0))
  /\ \A o, q \in DOMAIN f.at : f.at[o] = f.at[q] => o = q

WellFormed(f) == Structured(f) /\ PoolWellFormed(f) /\ NamesWellFormed(f) /\ LaidOut(f)
=============================================================================
