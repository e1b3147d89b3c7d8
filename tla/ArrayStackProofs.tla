--------------------------- MODULE ArrayStackProofs --------------------------
(***************************************************************************)
(* What the operations of an ArrayStack keep, for every stack, whatever    *)
(* words it is used for: W is the set of words and holds GARBAGE.          *)
(***************************************************************************)
EXTENDS ArrayStack, Integers, SequenceTheorems, TLAPS

IsStack(s, W, c) ==
  /\ s \in [data : Seq(W), capacity : {c}, log : SUBSET {"overflow", "underflow"}]
  /\ Len(s.data) <= c

\* Some word of data was never written.
Dirty(data) == \E i \in DOMAIN data : data[i] = GARBAGE

\* A stack that holds such a word has reported an underflow, unless excuse says
\* that the word came from elsewhere.
Reported(s, excuse) == Dirty(s.data) => "underflow" \in s.log \/ excuse

-----------------------------------------------------------------------------
(***************************************************************************)
(* Types.                                                                  *)
(***************************************************************************)

\* A push keeps a stack within its capacity (ArrayStackPush).
LEMMA PushType ==
  ASSUME NEW W, NEW c \in Nat, NEW s, IsStack(s, W, c), NEW words \in Seq(W)
  PROVE  IsStack(ArrayStackPush(s, words), W, c)
<1>1. CASE Size(s) + Len(words) > s.capacity
  BY <1>1 DEF ArrayStackPush, IsStack
<1>2. CASE ~ (Size(s) + Len(words) > s.capacity)
  <2>1. s.data \in Seq(W) /\ s.capacity = c
    BY DEF IsStack
  <2>2. s.data \o words \in Seq(W) /\ Len(s.data \o words) = Len(s.data) + Len(words)
    BY <2>1
  <2>3. Len(s.data \o words) <= c
    BY <1>2, <2>1, <2>2 DEF Size
  <2> QED BY <1>2, <2>2, <2>3 DEF ArrayStackPush, IsStack
<1> QED BY <1>1, <1>2

\* A pop keeps a stack a stack (ArrayStackPop).
LEMMA PopType ==
  ASSUME NEW W, NEW c \in Nat, NEW s, IsStack(s, W, c), NEW n \in Nat
  PROVE  IsStack(ArrayStackPop(s, n), W, c)
<1>1. CASE n > Size(s)
  BY <1>1 DEF ArrayStackPop, IsStack
<1>2. CASE ~ (n > Size(s))
  <2> DEFINE m == Len(s.data) - n
  <2>1. s.data \in Seq(W) /\ Len(s.data) \in Nat
    BY DEF IsStack
  <2>2. m \in 0 .. Len(s.data)
    BY <1>2, <2>1 DEF Size
  <2>3. SubSeq(s.data, 1, m) \in Seq(W) /\ Len(SubSeq(s.data, 1, m)) = m
    BY <2>1, <2>2
  <2>4. ArrayStackPop(s, n) = [s EXCEPT !.data = SubSeq(s.data, 1, m)]
    BY <1>2 DEF ArrayStackPop, Size
  <2> HIDE DEF m
  <2>5. m <= c
    BY <2>1, <2>2 DEF IsStack
  <2> QED BY <2>3, <2>4, <2>5 DEF IsStack
<1> QED BY <1>1, <1>2

\* A pop yields words, as many as were asked for (ArrayStackPop).
LEMMA PoppedType ==
  ASSUME NEW W, GARBAGE \in W, NEW c \in Nat, NEW s, IsStack(s, W, c), NEW n \in Nat
  PROVE  Popped(s, n) \in Seq(W) /\ Len(Popped(s, n)) = n
<1>1. CASE n > Size(s)
  BY <1>1 DEF Popped, Garbage
<1>2. CASE ~ (n > Size(s))
  <2>1. s.data \in Seq(W) /\ Len(s.data) \in Nat /\ n <= Len(s.data)
    BY <1>2 DEF IsStack, Size
  <2>2. SubSeq(s.data, Len(s.data) - n + 1, Len(s.data)) \in Seq(W)
    BY <2>1
  <2>3. Len(SubSeq(s.data, Len(s.data) - n + 1, Len(s.data))) = n
    BY <2>1
  <2> QED BY <1>2, <2>2, <2>3 DEF Popped, Size
<1> QED BY <1>1, <1>2

\* The instructions that move words (POP to SWAP).
LEMMA StackInstructionType ==
  ASSUME NEW W, GARBAGE \in W, NEW c \in Nat, NEW s, IsStack(s, W, c), NEW n \in Nat, NEW k \in Nat
  PROVE  /\ IsStack(DupN(s, n), W, c)
         /\ IsStack(DupX(s, n, k), W, c)
         /\ IsStack(SWAP(s), W, c)
<1>1. IsStack(DupN(s, n), W, c)
  BY PushType, PopType, PoppedType DEF DupN, PushTwice
<1>2. IsStack(DupX(s, n, k), W, c)
  <2>1. IsStack(ArrayStackPop(ArrayStackPop(s, n), k), W, c)
    BY PopType
  <2>2. Popped(s, n) \in Seq(W) /\ Popped(ArrayStackPop(s, n), k) \in Seq(W)
    BY PopType, PoppedType
  <2> QED BY <2>1, <2>2, PushType DEF DupX
<1>3. IsStack(SWAP(s), W, c)
  <2>1. IsStack(ArrayStackPop(ArrayStackPop(s, 1), 1), W, c)
    BY PopType
  <2>2. Popped(s, 1) \in Seq(W) /\ Popped(ArrayStackPop(s, 1), 1) \in Seq(W)
    BY PopType, PoppedType
  <2> QED BY <2>1, <2>2, PushType DEF SWAP
<1> QED BY <1>1, <1>2, <1>3

\* An empty stack.
LEMMA CreateType ==
  ASSUME NEW W, NEW c \in Nat, NEW log \in SUBSET {"overflow", "underflow"}
  PROVE  IsStack(CreateArrayStack(c, log), W, c)
<1>1. <<>> \in Seq(W) /\ Len(<<>>) = 0
  OBVIOUS
<1> QED BY <1>1 DEF CreateArrayStack, IsStack

-----------------------------------------------------------------------------
(***************************************************************************)
(* What was never written is on a stack only after an underflow has been   *)
(* reported.                                                               *)
(***************************************************************************)

\* A push adds no garbage but that of the words pushed, and forgets no report.
LEMMA PushAdds ==
  ASSUME NEW W, NEW c \in Nat, NEW s, IsStack(s, W, c), NEW words \in Seq(W)
  PROVE  /\ Dirty(ArrayStackPush(s, words).data) => Dirty(s.data) \/ Dirty(words)
         /\ s.log \subseteq ArrayStackPush(s, words).log
<1>1. CASE Size(s) + Len(words) > s.capacity
  BY <1>1 DEF ArrayStackPush, IsStack
<1>2. CASE ~ (Size(s) + Len(words) > s.capacity)
  <2> DEFINE d == s.data
  <2>1. d \in Seq(W) /\ ArrayStackPush(s, words).data = d \o words
        /\ ArrayStackPush(s, words).log = s.log
    BY <1>2 DEF ArrayStackPush, IsStack
  <2> HIDE DEF d
  <2>2. ASSUME NEW i \in DOMAIN (d \o words), (d \o words)[i] = GARBAGE
        PROVE  Dirty(d) \/ Dirty(words)
    <3>1. i \in 1 .. Len(d) + Len(words)
      BY <2>1, <2>2
    <3>2. CASE i <= Len(d)
      <4>1. i \in DOMAIN d /\ d[i] = GARBAGE
        BY <2>1, <2>2, <3>1, <3>2
      <4> QED BY <4>1 DEF Dirty
    <3>3. CASE i > Len(d)
      <4>1. i - Len(d) \in DOMAIN words /\ words[i - Len(d)] = GARBAGE
        BY <2>1, <2>2, <3>1, <3>3
      <4> QED BY <4>1 DEF Dirty
    <3> QED BY <2>1, <3>1, <3>2, <3>3
  <2>3. Dirty(d \o words) => Dirty(d) \/ Dirty(words)
    BY <2>2 DEF Dirty
  <2> QED BY <2>1, <2>3 DEF d
<1> QED BY <1>1, <1>2

\* So the stack has still reported what it has to.
LEMMA PushReports ==
  ASSUME NEW W, NEW c \in Nat, NEW s, IsStack(s, W, c), NEW words \in Seq(W), NEW excuse \in BOOLEAN,
         Reported(s, excuse), Dirty(words) => "underflow" \in s.log \/ excuse
  PROVE  /\ Reported(ArrayStackPush(s, words), excuse)
         /\ s.log \subseteq ArrayStackPush(s, words).log
BY PushAdds DEF Reported

\* A pop hands out garbage only if it reports an underflow, now or earlier.
LEMMA PopReports ==
  ASSUME NEW W, NEW c \in Nat, NEW s, IsStack(s, W, c), NEW n \in Nat, NEW excuse \in BOOLEAN,
         Reported(s, excuse)
  PROVE  /\ Reported(ArrayStackPop(s, n), excuse)
         /\ s.log \subseteq ArrayStackPop(s, n).log
         /\ Dirty(Popped(s, n)) => "underflow" \in ArrayStackPop(s, n).log \/ excuse
<1>1. CASE n > Size(s)
  BY <1>1 DEF ArrayStackPop, IsStack, Reported
<1>2. CASE ~ (n > Size(s))
  <2> DEFINE d == s.data
  <2>1. /\ d \in Seq(W) /\ Len(d) \in Nat /\ n <= Len(d)
        /\ ArrayStackPop(s, n).data = SubSeq(d, 1, Len(d) - n)
        /\ ArrayStackPop(s, n).log = s.log
        /\ Popped(s, n) = SubSeq(d, Len(d) - n + 1, Len(d))
    <3>1. d \in Seq(W) /\ Len(d) \in Nat /\ n <= Len(d)
      BY <1>2 DEF IsStack, Size
    <3>2. ArrayStackPop(s, n) = [s EXCEPT !.data = SubSeq(d, 1, Len(d) - n)]
      BY <1>2 DEF ArrayStackPop, Size
    <3>3. Popped(s, n) = SubSeq(d, Len(d) - n + 1, Len(d))
      BY <1>2 DEF Popped, Size
    <3> HIDE DEF d
    <3> QED BY <3>1, <3>2, <3>3 DEF IsStack
  <2> HIDE DEF d
  <2>2. Dirty(SubSeq(d, 1, Len(d) - n)) => Dirty(d)
    BY <2>1 DEF Dirty
  <2>3. Dirty(SubSeq(d, Len(d) - n + 1, Len(d))) => Dirty(d)
    <3> SUFFICES ASSUME NEW i \in DOMAIN SubSeq(d, Len(d) - n + 1, Len(d)),
                        SubSeq(d, Len(d) - n + 1, Len(d))[i] = GARBAGE
                 PROVE  \E j \in DOMAIN d : d[j] = GARBAGE
      BY DEF Dirty
    <3>1. i \in 1 .. n /\ d[Len(d) - n + i] = GARBAGE
      BY <2>1
    <3>2. Len(d) - n + i \in DOMAIN d
      BY <2>1, <3>1
    <3> QED BY <3>1, <3>2
  <2> QED BY <2>1, <2>2, <2>3 DEF Reported, d
<1> QED BY <1>1, <1>2

\* The instructions that move words put garbage in their place only if they, or
\* an earlier instruction, found too few operands (POP to SWAP).
LEMMA StackInstructionReports ==
  ASSUME NEW W, GARBAGE \in W, NEW c \in Nat, NEW s, IsStack(s, W, c), NEW n \in Nat, NEW k \in Nat,
         NEW excuse \in BOOLEAN, Reported(s, excuse)
  PROVE  /\ Reported(DupN(s, n), excuse) /\ s.log \subseteq DupN(s, n).log
         /\ Reported(DupX(s, n, k), excuse) /\ s.log \subseteq DupX(s, n, k).log
         /\ Reported(SWAP(s), excuse) /\ s.log \subseteq SWAP(s).log
<1> DEFINE p(i) == ArrayStackPop(s, i)
           pp(i, j) == ArrayStackPop(p(i), j)
<1>1. ASSUME NEW i \in Nat, NEW j \in Nat
      PROVE  /\ IsStack(p(i), W, c) /\ Reported(p(i), excuse) /\ s.log \subseteq p(i).log
             /\ Popped(s, i) \in Seq(W)
             /\ Dirty(Popped(s, i)) => "underflow" \in p(i).log \/ excuse
  <2>1. Popped(s, i) \in Seq(W) /\ IsStack(p(i), W, c)
    BY PopType, PoppedType
  <2> QED BY <2>1, PopReports
<1>2. ASSUME NEW i \in Nat, NEW j \in Nat
      PROVE  /\ IsStack(pp(i, j), W, c) /\ Reported(pp(i, j), excuse)
             /\ p(i).log \subseteq pp(i, j).log
             /\ Popped(p(i), j) \in Seq(W)
             /\ Dirty(Popped(p(i), j)) => "underflow" \in pp(i, j).log \/ excuse
  <2>1. IsStack(p(i), W, c) /\ Reported(p(i), excuse)
    BY <1>1
  <2> HIDE DEF p
  <2>2. Popped(p(i), j) \in Seq(W) /\ IsStack(pp(i, j), W, c)
    BY <2>1, PopType, PoppedType
  <2> QED BY <2>1, <2>2, PopReports
<1> HIDE DEF p
<1>3. ASSUME NEW t, IsStack(t, W, c), Reported(t, excuse), s.log \subseteq t.log,
             NEW a \in Seq(W), Dirty(a) => "underflow" \in t.log \/ excuse,
             NEW b \in Seq(W), Dirty(b) => "underflow" \in t.log \/ excuse
      PROVE  LET u == ArrayStackPush(ArrayStackPush(t, a), b)
             IN IsStack(u, W, c) /\ Reported(u, excuse) /\ s.log \subseteq u.log
                /\ t.log \subseteq u.log
  <2> DEFINE v == ArrayStackPush(t, a)
  <2>1. IsStack(v, W, c) /\ Reported(v, excuse) /\ t.log \subseteq v.log
    BY <1>3, PushType, PushReports
  <2> HIDE DEF v
  <2>2. /\ IsStack(ArrayStackPush(v, b), W, c) /\ Reported(ArrayStackPush(v, b), excuse)
        /\ v.log \subseteq ArrayStackPush(v, b).log
    BY <1>3, <2>1, PushType, PushReports
  <2> QED BY <1>3, <2>1, <2>2 DEF v
<1>4. Reported(DupN(s, n), excuse) /\ s.log \subseteq DupN(s, n).log
  BY <1>1, <1>3 DEF DupN, PushTwice, p
<1>5. Reported(DupX(s, n, k), excuse) /\ s.log \subseteq DupX(s, n, k).log
  <2> DEFINE u == ArrayStackPush(ArrayStackPush(pp(n, k), Popped(s, n)), Popped(p(n), k))
  <2>1. IsStack(u, W, c) /\ Reported(u, excuse) /\ s.log \subseteq u.log /\ pp(n, k).log \subseteq u.log
    <3>1. Dirty(Popped(s, n)) => "underflow" \in pp(n, k).log \/ excuse
      BY <1>1, <1>2
    <3>2. s.log \subseteq pp(n, k).log
      BY <1>1, <1>2
    <3> QED BY <1>1, <1>2, <1>3, <3>1, <3>2
  <2>2. Dirty(Popped(s, n)) => "underflow" \in u.log \/ excuse
    BY <1>1, <1>2, <2>1
  <2>3. DupX(s, n, k) = ArrayStackPush(u, Popped(s, n))
    BY DEF DupX, p
  <2> HIDE DEF u
  <2> QED BY <1>1, <2>1, <2>2, <2>3, PushReports
<1>6. Reported(SWAP(s), excuse) /\ s.log \subseteq SWAP(s).log
  <2>1. Dirty(Popped(s, 1)) => "underflow" \in pp(1, 1).log \/ excuse
    BY <1>1, <1>2
  <2>2. s.log \subseteq pp(1, 1).log
    BY <1>1, <1>2
  <2>3. SWAP(s) = ArrayStackPush(ArrayStackPush(pp(1, 1), Popped(s, 1)), Popped(p(1), 1))
    BY DEF SWAP, p
  <2> QED BY <1>1, <1>2, <1>3, <2>1, <2>2, <2>3
<1> QED BY <1>4, <1>5, <1>6

-----------------------------------------------------------------------------
(***************************************************************************)
(* What the instructions that move words leave on a stack that has the     *)
(* operands.  d is what the stack holds; the pieces of it have names of    *)
(* their own, so that a stack of five words is not five indices.           *)
(***************************************************************************)
Holds(s, W, c, d) == IsStack(s, W, c) /\ s.data = d

\* d without its top n words, the top n words, and e on top of d.
Front(d, n)  == SubSeq(d, 1, Len(d) - n)
Top(d, n)    == SubSeq(d, Len(d) - n + 1, Len(d))
OnTop(d, e)  == d \o e

\* What a stack holds fits into it.
LEMMA HeldFits ==
  ASSUME NEW W, NEW c \in Nat, NEW s, NEW d, Holds(s, W, c, d)
  PROVE  d \in Seq(W) /\ Len(d) \in Nat /\ Len(d) <= c
BY DEF Holds, IsStack

\* The two pieces a sequence is cut into.
LEMMA Pieces ==
  ASSUME NEW W, NEW d \in Seq(W), NEW n \in Nat, n <= Len(d)
  PROVE  /\ Front(d, n) \in Seq(W) /\ Len(Front(d, n)) = Len(d) - n
         /\ Top(d, n) \in Seq(W) /\ Len(Top(d, n)) = n
<1>1. Front(d, n) \in Seq(W) /\ Len(Front(d, n)) = Len(d) - n
  BY DEF Front
<1>2. Top(d, n) \in Seq(W) /\ Len(Top(d, n)) = n
  BY DEF Top
<1> QED BY <1>1, <1>2

LEMMA Stacked ==
  ASSUME NEW W, NEW d \in Seq(W), NEW e \in Seq(W)
  PROVE  OnTop(d, e) \in Seq(W) /\ Len(OnTop(d, e)) = Len(d) + Len(e)
BY DEF OnTop

\* A pop takes the top off (ArrayStackPop).
LEMMA PopIs ==
  ASSUME NEW W, NEW c \in Nat, NEW s, NEW d, Holds(s, W, c, d), NEW n \in Nat, n <= Len(d)
  PROVE  Holds(ArrayStackPop(s, n), W, c, Front(d, n)) /\ Popped(s, n) = Top(d, n)
<1>1. d \in Seq(W) /\ Len(d) \in Nat /\ ~ (n > Size(s)) /\ s.data = d /\ IsStack(s, W, c)
  BY DEF Holds, IsStack, Size
<1>2. ArrayStackPop(s, n) = [s EXCEPT !.data = Front(d, n)]
  BY <1>1 DEF ArrayStackPop, Size, Front
<1>3. ArrayStackPop(s, n).data = Front(d, n)
  BY <1>1, <1>2 DEF IsStack
<1>4. Popped(s, n) = Top(d, n)
  BY <1>1 DEF Popped, Size, Top
<1>5. IsStack(ArrayStackPop(s, n), W, c)
  BY <1>1, PopType
<1> QED BY <1>3, <1>4, <1>5 DEF Holds

\* A push adds to the top when there is room (ArrayStackPush).
LEMMA PushIs ==
  ASSUME NEW W, NEW c \in Nat, NEW s, NEW d, Holds(s, W, c, d), NEW e \in Seq(W),
         Len(d) + Len(e) <= c
  PROVE  Holds(ArrayStackPush(s, e), W, c, OnTop(d, e))
<1>1. IsStack(s, W, c) /\ s.data = d /\ s.capacity = c /\ Len(d) \in Nat /\ Len(e) \in Nat
  BY DEF Holds, IsStack
<1>2. ArrayStackPush(s, e) = [s EXCEPT !.data = OnTop(d, e)]
  BY <1>1 DEF ArrayStackPush, Size, OnTop
<1>3. ArrayStackPush(s, e).data = OnTop(d, e)
  BY <1>1, <1>2 DEF IsStack
<1>4. IsStack(ArrayStackPush(s, e), W, c)
  BY <1>1, PushType
<1> QED BY <1>3, <1>4 DEF Holds

\* Otherwise it reports that there is none.
LEMMA PushReportsOverflow ==
  ASSUME NEW W, NEW c \in Nat, NEW s, NEW d, Holds(s, W, c, d), NEW e \in Seq(W),
         Len(d) + Len(e) > c
  PROVE  Holds(ArrayStackPush(s, e), W, c, d) /\ "overflow" \in ArrayStackPush(s, e).log
<1>1. IsStack(s, W, c) /\ s.data = d /\ s.capacity = c /\ Len(d) \in Nat /\ Len(e) \in Nat
  BY DEF Holds, IsStack
<1>2. ArrayStackPush(s, e) = [s EXCEPT !.log = s.log \cup {"overflow"}]
  BY <1>1 DEF ArrayStackPush, Size
<1>3. ArrayStackPush(s, e).data = d /\ "overflow" \in ArrayStackPush(s, e).log
  BY <1>1, <1>2 DEF IsStack
<1>4. IsStack(ArrayStackPush(s, e), W, c)
  BY <1>1, PushType
<1> QED BY <1>3, <1>4 DEF Holds

\* Copying the top n words (DUP, DUP2): without room for the copy only the copy
\* is missing.
LEMMA DupNIs ==
  ASSUME NEW W, NEW c \in Nat, NEW s, NEW d, Holds(s, W, c, d), NEW n \in Nat, n <= Len(d)
  PROVE  LET as == OnTop(Front(d, n), Top(d, n))
         IN /\ Len(d) + n <= c => Holds(DupN(s, n), W, c, OnTop(as, Top(d, n)))
            /\ Len(d) + n > c => Holds(DupN(s, n), W, c, as) /\ "overflow" \in DupN(s, n).log
<1> DEFINE t == Top(d, n)
           as == OnTop(Front(d, n), t)
           p == ArrayStackPush(ArrayStackPop(s, n), t)
<1>1. d \in Seq(W) /\ Len(d) \in Nat /\ Len(d) <= c
  BY HeldFits
<1>2. Holds(ArrayStackPop(s, n), W, c, Front(d, n)) /\ Popped(s, n) = t
  BY PopIs
<1>3. DupN(s, n) = ArrayStackPush(p, t)
  BY <1>2 DEF DupN, PushTwice
<1>4. Front(d, n) \in Seq(W) /\ Len(Front(d, n)) = Len(d) - n /\ t \in Seq(W) /\ Len(t) = n
  BY <1>1, Pieces
<1> HIDE DEF t, p
<1>5. Holds(p, W, c, as)
  BY <1>1, <1>2, <1>4, PushIs DEF p
<1>6. Len(as) = Len(d)
  <2>1. Len(as) = Len(Front(d, n)) + Len(t)
    BY <1>4, Stacked
  <2> QED BY <1>1, <1>4, <2>1
<1> HIDE DEF as
<1>7. Len(d) + n <= c => Holds(DupN(s, n), W, c, OnTop(as, t))
  BY <1>3, <1>4, <1>5, <1>6, PushIs
<1>8. Len(d) + n > c => Holds(DupN(s, n), W, c, as) /\ "overflow" \in DupN(s, n).log
  BY <1>3, <1>4, <1>5, <1>6, PushReportsOverflow
<1> QED BY <1>7, <1>8 DEF as, t

\* Putting the top n words beneath the k under them: the first two of the pushes
\* of DUP_X1 to DUP2_X2, and those of SWAP, have room.
Turned(s, n, k) ==
  ArrayStackPush(ArrayStackPush(ArrayStackPop(ArrayStackPop(s, n), k), Popped(s, n)),
                 Popped(ArrayStackPop(s, n), k))
TurnedWords(d, n, k) == OnTop(OnTop(Front(Front(d, n), k), Top(d, n)), Top(Front(d, n), k))

LEMMA TurnedRound ==
  ASSUME NEW W, NEW c \in Nat, NEW s, NEW d, Holds(s, W, c, d), NEW n \in Nat, NEW k \in Nat,
         n + k <= Len(d)
  PROVE  /\ Holds(Turned(s, n, k), W, c, TurnedWords(d, n, k))
         /\ Len(TurnedWords(d, n, k)) = Len(d)
<1> DEFINE f == Front(d, n)
           t == Top(d, n)
           a == Front(f, k)
           u == Top(f, k)
           rest == ArrayStackPop(s, n)
           base == ArrayStackPop(rest, k)
           p == ArrayStackPush(base, t)
<1>1. d \in Seq(W) /\ Len(d) \in Nat /\ Len(d) <= c /\ n <= Len(d) /\ k <= Len(d) - n
  BY HeldFits
<1>2. f \in Seq(W) /\ Len(f) = Len(d) - n /\ t \in Seq(W) /\ Len(t) = n
  BY <1>1, Pieces
<1>3. Holds(rest, W, c, f) /\ Popped(s, n) = t
  BY <1>1, PopIs
<1> HIDE DEF f, t, rest
<1>4. a \in Seq(W) /\ Len(a) = Len(d) - n - k /\ u \in Seq(W) /\ Len(u) = k
  <2>1. k <= Len(f)
    BY <1>1, <1>2
  <2>2. Len(a) = Len(f) - k
    BY <1>2, <2>1, Pieces DEF f
  <2> QED BY <1>2, <2>1, <2>2, Pieces
<1>5. Holds(base, W, c, a) /\ Popped(rest, k) = u
  BY <1>1, <1>2, <1>3, PopIs
<1>6. Turned(s, n, k) = ArrayStackPush(p, u) /\ TurnedWords(d, n, k) = OnTop(OnTop(a, t), u)
  BY <1>3, <1>5 DEF Turned, TurnedWords, f, t, rest
<1> HIDE DEF a, u, base
<1>7. OnTop(a, t) \in Seq(W) /\ Len(OnTop(a, t)) = Len(d) - k
  <2>1. OnTop(a, t) \in Seq(W) /\ Len(OnTop(a, t)) = Len(a) + Len(t)
    BY <1>2, <1>4, Stacked
  <2> QED BY <1>1, <1>2, <1>4, <2>1
<1>8. Holds(p, W, c, OnTop(a, t))
  BY <1>1, <1>2, <1>4, <1>5, PushIs DEF p
<1> HIDE DEF p
<1>9. Holds(ArrayStackPush(p, u), W, c, OnTop(OnTop(a, t), u))
  BY <1>1, <1>4, <1>7, <1>8, PushIs
<1>10. Len(OnTop(OnTop(a, t), u)) = Len(d)
  <2>1. Len(OnTop(OnTop(a, t), u)) = Len(OnTop(a, t)) + Len(u)
    BY <1>4, <1>7, Stacked
  <2> QED BY <1>1, <1>4, <1>7, <2>1
<1> QED BY <1>6, <1>9, <1>10

\* Copying the top n words beneath the k under them (DUP_X1 to DUP2_X2): without
\* room for the copy the words are only turned round.
LEMMA DupXIs ==
  ASSUME NEW W, NEW c \in Nat, NEW s, NEW d, Holds(s, W, c, d), NEW n \in Nat, NEW k \in Nat,
         n + k <= Len(d)
  PROVE  LET turned == TurnedWords(d, n, k)
         IN /\ Len(d) + n <= c => Holds(DupX(s, n, k), W, c, OnTop(turned, Top(d, n)))
            /\ Len(d) + n > c => /\ Holds(DupX(s, n, k), W, c, turned)
                                 /\ "overflow" \in DupX(s, n, k).log
<1> DEFINE t == Top(d, n)
           turned == TurnedWords(d, n, k)
<1>1. d \in Seq(W) /\ Len(d) \in Nat /\ Len(d) <= c /\ n <= Len(d)
  BY HeldFits
<1>2. t \in Seq(W) /\ Len(t) = n /\ Popped(s, n) = t
  <2>1. Popped(s, n) = t
    BY <1>1, PopIs
  <2> QED BY <1>1, <2>1, Pieces
<1>3. Holds(Turned(s, n, k), W, c, turned) /\ Len(turned) = Len(d)
  BY TurnedRound
<1>4. DupX(s, n, k) = ArrayStackPush(Turned(s, n, k), t)
  BY <1>2 DEF DupX, Turned
<1> HIDE DEF t, turned
<1>5. Len(d) + n <= c => Holds(DupX(s, n, k), W, c, OnTop(turned, t))
  BY <1>2, <1>3, <1>4, PushIs
<1>6. Len(d) + n > c => Holds(DupX(s, n, k), W, c, turned) /\ "overflow" \in DupX(s, n, k).log
  BY <1>2, <1>3, <1>4, PushReportsOverflow
<1> QED BY <1>5, <1>6 DEF t, turned

LEMMA SwapIs ==
  ASSUME NEW W, NEW c \in Nat, NEW s, NEW d, Holds(s, W, c, d), 2 <= Len(d)
  PROVE  Holds(SWAP(s), W, c, TurnedWords(d, 1, 1))
<1>1. SWAP(s) = Turned(s, 1, 1)
  BY DEF SWAP, Turned
<1> QED BY <1>1, TurnedRound

=============================================================================
