--------------------------- MODULE ClassFileReader ---------------------------
(***************************************************************************)
(* ClassFileReadStatic: one pass over a class file in memory, that records *)
(* the count of each table and where it starts.  One action per iteration  *)
(* of a loop.  Pointers are offsets from the source, NULL is 0.  A read    *)
(* keeps nothing for the next one, so a behaviour has one.                 *)
(***************************************************************************)
EXTENDS ClassFileFormat

CONSTANT CountMod    \* skip_cpool counts in a uint8_t, modulo 2^8

VARIABLES
  file,         \* the bytes in memory that source points at
  phase,        \* "idle", the table the reader is at, "astray", "done" or "lost"
  ptr,
  i,            \* the counter of the loop over entries or members
  count,        \* its bound
  attributes,   \* attributes that skip_attributes has yet to skip
  classfile     \* the result

readVars == <<file, phase, ptr, i, count, attributes, classfile>>

ASSUME ReaderAssumption == CountMod \in Nat \ {0, 1}

Tables == {"interfaces", "fields", "methods", "attributes"}

CLASSFILE_META_VALID == "valid"
CLASSFILE_META_SOURCE_TYPE == "source type"
CLASSFILE_META_READ_SUCCESS == "read success"

\* The structure {0}, and a number that stands for whatever is read from bytes
\* that are not what they are taken for.
Zero == [meta |-> {}, cpool_count |-> 0,
         count |-> [t \in Tables |-> 0], off |-> [t \in Tables |-> 0]]
ANY == -1

\* Mutant: a long or double is counted as one entry.
CountOne(n, e) == (n + 1) % CountMod

\* i after the iteration that skips e: "i++" on a uint8_t, twice for a wide entry.
Counted(n, e) == (n + SlotsOf(e)) % CountMod

\* The tags skip_cpool knows, and how far it moves for each.
Skipped(e) ==
  1 + CASE e.tag \in {7, 8, 16} -> 2
        [] e.tag \in {3, 4} \cup 9 .. 12 \cup {18} -> 4
        [] e.tag \in Wide -> 8
        [] e.tag = 15 -> 3
        [] e.tag = 1 -> 2 + e.length
KnownTags == {1} \cup 3 .. 12 \cup {15, 16, 18}

-----------------------------------------------------------------------------
GoAstray ==
  /\ phase' = "astray"
  /\ UNCHANGED <<file, ptr, i, count, attributes, classfile>>

\* No magic: the structure stays empty. A NULL source is treated alike.
Reject ==
  /\ phase = "idle" /\ ~ file.magic
  /\ phase' = "done"
  /\ UNCHANGED <<file, ptr, i, count, attributes, classfile>>

Accept ==
  /\ phase = "idle" /\ file.magic
  /\ phase' = "pool"
  /\ classfile' = [Zero EXCEPT !.meta = {CLASSFILE_META_VALID, CLASSFILE_META_SOURCE_TYPE},
                               !.cpool_count = file.slots]
  /\ ptr' = 10 /\ i' = 0 /\ count' = file.slots % CountMod
  /\ UNCHANGED <<file, attributes>>

\* An unknown tag ends the loop behind the tag.
SkipEntry ==
  /\ phase = "pool" /\ i < count
  /\ IF ~ IsPart(file, ptr, "entry") THEN GoAstray
     ELSE LET e == file.entry[file.at[ptr][4]]
          IN /\ \/ /\ e.tag \in KnownTags
                   /\ ptr' = ptr + Skipped(e) /\ i' = Counted(i, e) /\ count' = count
                \/ /\ e.tag \notin KnownTags
                   /\ ptr' = ptr + 1 /\ i' = i /\ count' = i
             /\ UNCHANGED <<file, phase, attributes, classfile>>

\* The count at o is that of the next table, whose rows start behind it.
OpenTable(table, o) ==
  IF ~ At(file, o, Count(table)) THEN GoAstray
  ELSE LET n == Number(file, table)
       IN /\ phase' = table
          /\ classfile' = [classfile EXCEPT !.count[table] = n, !.off[table] = o + 2]
          /\ ptr' = IF table = "interfaces" THEN o + 2 + n * 2 ELSE o + 2
          /\ i' = 0 /\ count' = n
          /\ attributes' = IF table = "attributes" THEN n ELSE 0
          /\ UNCHANGED file

ReadInterfaces == phase = "pool" /\ count <= i /\ OpenTable("interfaces", ptr + 6)
ReadFields == phase = "interfaces" /\ OpenTable("fields", ptr)
SkippedMembers(table) == phase = table /\ attributes = 0 /\ count <= i
ReadMethods == SkippedMembers("fields") /\ OpenTable("methods", ptr)
ReadAttributes == SkippedMembers("methods") /\ OpenTable("attributes", ptr)

\* skip_fields and skip_methods, up to the attributes of one member.
SkipMember ==
  /\ phase \in {"fields", "methods"} /\ attributes = 0 /\ i < count
  /\ IF ~ IsPart(file, ptr, "member") THEN GoAstray
     ELSE /\ ptr' = ptr + 8 /\ i' = i + 1
          /\ attributes' = Len(Attributes(file, file.at[ptr][2], file.at[ptr][3]))
          /\ UNCHANGED <<file, phase, count, classfile>>

\* Mutant: the six bytes of its header are not counted.
AttributeHeaderless(a) == 2 + a.length

AttributeBytes(a) == 2 + 4 + a.length

SkipAttribute ==
  /\ phase \in {"fields", "methods", "attributes"} /\ attributes > 0
  /\ IF ~ IsPart(file, ptr, "attribute") THEN GoAstray
     ELSE LET p == file.at[ptr]
          IN /\ ptr' = ptr + AttributeBytes(Attributes(file, p[2], p[3])[p[4] + 1])
             /\ attributes' = attributes - 1
             /\ UNCHANGED <<file, phase, i, count, classfile>>

Finish ==
  /\ phase = "attributes" /\ attributes = 0
  /\ phase' = "done"
  /\ classfile' = [classfile EXCEPT !.meta = @ \cup {CLASSFILE_META_READ_SUCCESS}]
  /\ UNCHANGED <<file, ptr, i, count, attributes>>

\* Astray the reader goes on with whatever it finds: it leaves the file, and may
\* crash, or comes back with any values for what it has not read yet.
Blunder ==
  /\ phase = "astray"
  /\ \/ phase' = "lost" /\ UNCHANGED classfile
     \/ /\ phase' = "done"
        /\ classfile' =
             [classfile EXCEPT
                !.meta = @ \cup {CLASSFILE_META_READ_SUCCESS},
                !.count = [t \in Tables |-> IF classfile.off[t] = 0 THEN ANY ELSE @[t]],
                !.off = [t \in Tables |-> IF @[t] = 0 THEN ANY ELSE @[t]]]
  /\ UNCHANGED <<file, ptr, i, count, attributes>>

ReadStep ==
  \/ SkipEntry \/ ReadInterfaces \/ ReadFields \/ SkipMember \/ SkipAttribute
  \/ ReadMethods \/ ReadAttributes \/ Finish \/ Blunder

ReadInit ==
  /\ file \in Files /\ phase = "idle" /\ classfile = Zero
  /\ ptr = 0 /\ i = 0 /\ count = 0 /\ attributes = 0

ReadNext == Reject \/ Accept \/ ReadStep

ReadSpec == ReadInit /\ [][ReadNext]_readVars

-----------------------------------------------------------------------------
(***************************************************************************)
(* Properties.                                                             *)
(***************************************************************************)

\* The files this reader is able to read: those whose pool has at most 255
\* slots and no tag that was added after Java 8.
Readable(f) ==
  /\ WellFormed(f) /\ f.magic
  /\ f.slots < CountMod
  /\ \A s \in DOMAIN f.entry : f.entry[s].tag \in KnownTags

Success == phase = "done" /\ CLASSFILE_META_READ_SUCCESS \in classfile.meta

\* Every count is the file's and every offset points at its table.
Right ==
  /\ classfile.cpool_count = file.slots
  /\ \A t \in Tables : /\ classfile.count[t] = Number(file, t)
                       /\ At(file, classfile.off[t] - 2, Count(t))

\* Of a readable file every count and offset that is reported is right
\* (ClassFileReadStatic and all the skip functions together).
ReadsRight == Success /\ Readable(file) => Right

\* In a readable file the reader is never at bytes that are not what it takes
\* them for, so it cannot crash (ClassFileReadStatic).
StaysInStep == phase = "astray" => ~ Readable(file)
=============================================================================
