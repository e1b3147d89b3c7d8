----------------------------- MODULE MCClassFile -----------------------------
(***************************************************************************)
(* Class files for TLC. Each is a constant pool, an arrangement of members *)
(* and attributes, and the layout that follows from them.                  *)
(***************************************************************************)
EXTENDS ClassFileAccess, TLC, SequencesExt, FiniteSetsExt

Item(tag, length, ref, text) == [tag |-> tag, length |-> length, ref |-> ref, text |-> text]
Plain(tag) == Item(tag, 0, 0, "")

\* The entries every file needs, when n slots come before them; this class is
\* entry n + 5, the super class, with its own name, n + 7.
Base(n) ==
  << Item(1, 4, 0, "Code"), Item(1, 2, 0, "ConstantValue"), Item(1, 3, 0, "Other"),
     Item(1, 1, 0, "Test1"), Item(7, 0, n + 4, ""), Item(1, 1, 0, "Object"), Item(7, 0, n + 6, "") >>

SlotsIn(pool) == FoldSeq(LAMBDA e, n : n + SlotsOf(e), 0, pool)
FirstSlot(pool, k) == SlotsIn(SubSeq(pool, 1, k - 1))

PoolOf(pool) ==
  [s \in {FirstSlot(pool, k) : k \in DOMAIN pool} |->
     pool[CHOOSE k \in DOMAIN pool : FirstSlot(pool, k) = s]]

\* The layout that follows from the sizes: the places from p at offset o on.
MaxPlaces == 60
Lay(f, o, p) ==
  LET Extend(laid, n) ==
        LET place == laid.at[laid.end]
            next == laid.end + Size(f, place)
        IN IF place = End THEN laid
           ELSE [at |-> laid.at @@ (next :> AfterPlace(f, place)), end |-> next]
  IN FoldLeft(Extend, [at |-> (o :> p), end |-> o], [n \in 1 .. MaxPlaces |-> n]).at

\* Inside a Code attribute its inner attributes are places too.
LayAll(f) ==
  LET outer == Lay(f, 10, IntoPool(f, 0))
      Inner(o) == o + CodeHeader(Attributes(f, "methods", outer[o][3])[outer[o][4] + 1])
      codes == {o \in DOMAIN outer : IsCode(f, outer[o])}
  IN FoldSet(LAMBDA o, at : at @@ Lay(f, Inner(o), IntoCode(f, outer[o][3], 0)), outer, codes)

\* Arrangements of members, given that n slots come before the base entries.
Attr(name, length) == [name |-> name, length |-> length, code |-> 0, handlers |-> 0]
Value(n) == Attr(n + 2, 2)
Other(n, length) == Attr(n + 3, length)

\* A Code attribute with that much code, handlers and inner attributes.
Code(n, code, handlers, inner) ==
  [name |-> n + 1, code |-> code, handlers |-> handlers,
   length |-> 12 + code + 8 * handlers + FoldSeq(LAMBDA a, sum : sum + 6 + a.length, 0, inner)]

Members(fields, methods, inner, class) ==
  [fields |-> fields, methods |-> methods, code |-> inner, attributes |-> <<class>>]

NoMembers(n) == Members(<<>>, <<>>, <<>>, <<>>)

\* As javac writes them: code with one and with two inner attributes.
Ordinary(n) ==
  LET one == <<Other(n, 6)>>
      two == <<Other(n, 6), Other(n, 4)>>
  IN Members(<< <<Value(n)>>, <<>> >>,
             << <<Code(n, 5, 0, one)>>, <<Code(n, 9, 1, two), Other(n, 4)>>, <<>> >>,
             <<one, two, <<>> >>,
             <<Other(n, 2)>>)

\* Attributes in unusual order, with empty ones.
Mixed(n) ==
  Members(<< <<Other(n, 0), Value(n)>>, <<Other(n, 3), Value(n), Other(n, 0)>> >>,
          << <<Other(n, 0), Other(n, 7), Code(n, 1, 0, <<>>)>> >>,
          << <<>> >>,
          <<Other(n, 0), Other(n, 5), Other(n, 0)>>)

\* More methods than the base pool has slots.
Crowded(n) ==
  Members(<<>>, [k \in 1 .. 9 |-> <<>>], [k \in 1 .. 9 |-> <<>>], <<>>)

Arrangements(n) == {NoMembers(n), Ordinary(n), Mixed(n), Crowded(n)}

File(front, back, list, interfaces, super) ==
  LET n == SlotsIn(front)
      pool == front \o Base(n) \o back
      f == [magic |-> TRUE, slots |-> SlotsIn(pool), entry |-> PoolOf(pool),
            this |-> n + 5, super |-> IF super THEN n + 7 ELSE 0,
            interfaces |-> interfaces, list |-> list]
  IN f @@ [at |-> LayAll(f)]

FilesWith(front, back, interfaces, super) ==
  {File(front, back, list, interfaces, super) : list \in Arrangements(SlotsIn(front))}

\* skip_cpool may count to 11 here. The pools: with and without wide entries,
\* before and behind those that are looked up, with every kind of entry, one slot
\* below the limit, at it, and so far above it that the counter wraps, with a wide
\* entry across the limit, and with tags skip_cpool does not know.
WellFormedFiles ==
  UNION {
    FilesWith(<<>>, <<>>, 0, TRUE),
    FilesWith(<<>>, <<>>, 2, FALSE),
    FilesWith(<<Plain(5)>>, <<>>, 1, TRUE),
    FilesWith(<<Plain(3)>>, <<Plain(6)>>, 1, TRUE),
    FilesWith(<<Item(8, 0, 2, ""), Plain(15)>>, <<Plain(5)>>, 0, TRUE),
    FilesWith(<<Plain(12), Plain(6), Plain(16)>>, <<>>, 0, TRUE),
    FilesWith(<<Plain(6)>>, <<Plain(5), Plain(9)>>, 0, TRUE),
    FilesWith(<<>>, [k \in 1 .. 17 |-> IF k = 5 THEN Plain(6) ELSE Plain(10)], 0, TRUE),
    FilesWith(<<Plain(17)>>, <<>>, 0, TRUE),
    FilesWith(<<>>, <<Plain(19), Plain(20)>>, 0, TRUE)}

\* Damaged files: another magic, cut short behind the first 30 or 70 bytes, or
\* with a tag that does not exist.
Sample == File(<<Plain(5)>>, <<>>, Ordinary(2), 1, TRUE)
Cut(f, o) == [f EXCEPT !.at = [x \in {y \in DOMAIN @ : y < o} |-> @[x]]]
DamagedFiles ==
  {[Sample EXCEPT !.magic = FALSE], Cut(Sample, 30), Cut(Sample, 70), Cut(Sample, 110),
   [Sample EXCEPT !.entry = [@ EXCEPT ![4].tag = 2]]}

AllFiles == WellFormedFiles \cup DamagedFiles

SomeIndexes == 0 .. 10 \cup {63}

ASSUME FilesAreWellFormed == \A f \in WellFormedFiles : WellFormed(f)
ASSUME SomeFilesReadable == \E f \in WellFormedFiles : Readable(f) /\ f.slots = CountMod - 1
=============================================================================
