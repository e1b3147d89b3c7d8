-------------------------- MODULE OperandStackProofs --------------------------
(***************************************************************************)
(* The stack instructions, for every set of words and every capacity: they *)
(* keep the stack within its capacity, do what the JVM defines when there  *)
(* are operands and room, lose nothing when there is no room, and leave    *)
(* garbage only where an underflow has been reported.                      *)
(***************************************************************************)
EXTENDS OperandStack, ArrayStackProofs, FiniteSetTheorems

W == Words \cup {GARBAGE}

\* The inductive invariant.
StackInv == IsStack(stack, W, Capacity) /\ Reported(stack, FALSE)

LEMMA Constants == Capacity \in Nat /\ GARBAGE \notin Words /\ GARBAGE \in W
BY OperandStackAssumption DEF W

LEMMA StackInit == Init => StackInv
<1> SUFFICES ASSUME Init PROVE StackInv
  OBVIOUS
<1>1. IsStack(stack, W, Capacity)
  BY Constants, CreateType DEF Init
<1>2. stack.data = <<>>
  BY DEF Init, CreateArrayStack
<1>3. ~ Dirty(<<>>)
  BY DEF Dirty
<1> QED BY <1>1, <1>2, <1>3 DEF StackInv, Reported

\* Each instruction is one of three (POP to SWAP).
LEMMA Instructions ==
  ASSUME NEW op \in StackInstructions, NEW s
  PROVE  \/ \E n \in {1, 2} : After(op, s) = ArrayStackPop(s, n)
         \/ \E n \in {1, 2} : After(op, s) = DupN(s, n)
         \/ \E n \in {1, 2}, k \in {1, 2} : After(op, s) = DupX(s, n, k)
         \/ After(op, s) = SWAP(s)
<1>1. CASE op \in {"POP", "POP2"}
  BY <1>1 DEF After, POP, POP2
<1>2. CASE op \in {"DUP", "DUP2"}
  BY <1>2 DEF After, DUP, DUP2
<1>3. CASE op \in {"DUP_X1", "DUP_X2", "DUP2_X1", "DUP2_X2"}
  BY <1>3 DEF After, DUP_X1, DUP_X2, DUP2_X1, DUP2_X2
<1>4. CASE op = "SWAP"
  BY <1>4 DEF After
<1> QED BY <1>1, <1>2, <1>3, <1>4 DEF StackInstructions

LEMMA StackStep == StackInv /\ [Next]_stack => StackInv'
<1> SUFFICES ASSUME StackInv, [Next]_stack PROVE StackInv'
  OBVIOUS
<1>1. IsStack(stack, W, Capacity) /\ Reported(stack, FALSE)
  BY DEF StackInv
<1>2. CASE Push
  <2>1. PICK w \in Words, v \in Words : \E words \in {<<w>>, <<w, v>>} : stack' = ArrayStackPush(stack, words)
    BY <1>2 DEF Push
  <2>2. PICK words \in {<<w>>, <<w, v>>} : stack' = ArrayStackPush(stack, words)
    BY <2>1
  <2>3. words \in Seq(W) /\ ~ Dirty(words)
    <3>1. GARBAGE # w /\ GARBAGE # v /\ w \in W /\ v \in W
      BY Constants DEF W
    <3>2. CASE words = <<w>>
      <4>1. words \in Seq(W) /\ \A i \in DOMAIN words : words[i] = w
        BY <3>1, <3>2
      <4> QED BY <3>1, <4>1 DEF Dirty
    <3>3. CASE words = <<w, v>>
      <4>1. words \in Seq(W) /\ \A i \in DOMAIN words : words[i] = w \/ words[i] = v
        BY <3>1, <3>3
      <4> QED BY <3>1, <4>1 DEF Dirty
    <3> QED BY <2>2, <3>2, <3>3
  <2> QED BY <1>1, <2>2, <2>3, Constants, PushType, PushReports DEF StackInv
<1>3. CASE Pop
  BY <1>1, <1>3, Constants, PopType, PopReports DEF Pop, StackInv
<1>4. CASE \E op \in StackInstructions : Perform(op)
  <2>1. PICK op \in StackInstructions : stack' = After(op, stack)
    BY <1>4 DEF Perform
  <2>2. CASE \E n \in {1, 2} : stack' = ArrayStackPop(stack, n)
    BY <1>1, <2>2, Constants, PopType, PopReports DEF StackInv
  <2>3. CASE \E n \in {1, 2} : stack' = DupN(stack, n)
    BY <1>1, <2>3, Constants, StackInstructionType, StackInstructionReports DEF StackInv
  <2>4. CASE \E n \in {1, 2}, k \in {1, 2} : stack' = DupX(stack, n, k)
    <3>1. PICK n \in Nat, k \in Nat : stack' = DupX(stack, n, k)
      BY <2>4
    <3> QED BY <1>1, <3>1, Constants, StackInstructionType, StackInstructionReports DEF StackInv
  <2>5. CASE stack' = SWAP(stack)
    <3>1. 1 \in Nat
      OBVIOUS
    <3> QED BY <1>1, <2>5, <3>1, Constants, StackInstructionType, StackInstructionReports DEF StackInv
  <2> QED BY <2>1, <2>2, <2>3, <2>4, <2>5, Instructions
<1>5. CASE UNCHANGED stack
  BY <1>5 DEF StackInv
<1> QED BY <1>2, <1>3, <1>4, <1>5 DEF Next

LEMMA StackAlways == Spec => []StackInv
BY StackInit, StackStep, PTL DEF Spec

\* Whatever the program pushes and pops, the stack holds words and left-over
\* memory, never more than its capacity (ArrayStackPush, ArrayStackPop).
THEOREM TypeCorrect == Spec => []TypeOK
<1>1. StackInv => TypeOK
  BY DEF StackInv, IsStack, TypeOK, Size, W
<1> QED BY <1>1, StackAlways, PTL

\* A word that nobody has written is on the stack only after an underflow has
\* been reported (ArrayStackPop and the handlers that go on after it).
THEOREM GarbageAlwaysReported == Spec => []GarbageIsReported
<1>1. StackInv => GarbageIsReported
  BY DEF StackInv, Reported, Dirty, GarbageIsReported
<1> QED BY <1>1, StackAlways, PTL

-----------------------------------------------------------------------------
(***************************************************************************)
(* What the instructions do, word by word.                                 *)
(***************************************************************************)

LEMMA FrontAt ==
  ASSUME NEW V, NEW d \in Seq(V), NEW n \in Nat, n <= Len(d)
  PROVE  \A i \in 1 .. Len(d) - n : Front(d, n)[i] = d[i]
BY DEF Front

LEMMA TopAt ==
  ASSUME NEW V, NEW d \in Seq(V), NEW n \in Nat, n <= Len(d)
  PROVE  \A i \in 1 .. n : Top(d, n)[i] = d[Len(d) - n + i]
BY DEF Top

LEMMA OnTopAt ==
  ASSUME NEW V, NEW d \in Seq(V), NEW e \in Seq(V)
  PROVE  \A i \in 1 .. Len(d) + Len(e) :
           OnTop(d, e)[i] = IF i <= Len(d) THEN d[i] ELSE e[i - Len(d)]
BY DEF OnTop

LEMMA OnTopBelow ==
  ASSUME NEW V, NEW d \in Seq(V), NEW e \in Seq(V), NEW i \in 1 .. Len(d)
  PROVE  OnTop(d, e)[i] = d[i]
BY DEF OnTop

LEMMA OnTopAbove ==
  ASSUME NEW V, NEW d \in Seq(V), NEW e \in Seq(V), NEW i \in 1 .. Len(e)
  PROVE  OnTop(d, e)[Len(d) + i] = e[i]
BY DEF OnTop

\* The words of a stack whose top n words have moved beneath the next k.
LEMMA TurnedAt ==
  ASSUME NEW V, NEW d \in Seq(V), NEW n \in Nat, NEW k \in Nat, n + k <= Len(d)
  PROVE  LET turned == TurnedWords(d, n, k)
             m == Len(d) - n - k
         IN /\ turned \in Seq(V) /\ Len(turned) = Len(d)
            /\ \A i \in 1 .. Len(d) :
                 turned[i] = IF i <= m THEN d[i] ELSE IF i <= m + n THEN d[i + k] ELSE d[i - n]
<1> DEFINE f == Front(d, n)
           t == Top(d, n)
           a == Front(f, k)
           u == Top(f, k)
           b == OnTop(a, t)
           m == Len(d) - n - k
<1>1. Len(d) \in Nat /\ n <= Len(d) /\ k <= Len(d) - n /\ m \in Nat
  OBVIOUS
<1>2. f \in Seq(V) /\ Len(f) = Len(d) - n /\ t \in Seq(V) /\ Len(t) = n
  BY <1>1, Pieces
<1>3. /\ \A i \in 1 .. Len(d) - n : f[i] = d[i]
      /\ \A i \in 1 .. n : t[i] = d[Len(d) - n + i]
  BY <1>1, FrontAt, TopAt
<1>4. TurnedWords(d, n, k) = OnTop(b, u)
  BY DEF TurnedWords
<1> HIDE DEF f, t
<1>5. k <= Len(f)
  BY <1>1, <1>2
<1>6. a \in Seq(V) /\ Len(a) = Len(f) - k /\ u \in Seq(V) /\ Len(u) = k
  BY <1>2, <1>5, Pieces
<1>7. /\ \A i \in 1 .. Len(f) - k : a[i] = f[i]
      /\ \A i \in 1 .. k : u[i] = f[Len(f) - k + i]
  BY <1>2, <1>5, FrontAt, TopAt
<1> HIDE DEF a, u
<1>8. b \in Seq(V) /\ Len(b) = Len(a) + Len(t)
  BY <1>2, <1>6, Stacked
<1>9. \A i \in 1 .. Len(a) + Len(t) : b[i] = IF i <= Len(a) THEN a[i] ELSE t[i - Len(a)]
  BY <1>2, <1>6, OnTopAt
<1> HIDE DEF b
<1>10. OnTop(b, u) \in Seq(V) /\ Len(OnTop(b, u)) = Len(b) + Len(u)
  BY <1>6, <1>8, Stacked
<1>11. \A i \in 1 .. Len(b) + Len(u) : OnTop(b, u)[i] = IF i <= Len(b) THEN b[i] ELSE u[i - Len(b)]
  BY <1>6, <1>8, OnTopAt
<1> DEFINE z == OnTop(b, u)
<1> HIDE DEF z
<1>12. Len(a) = m /\ Len(b) = m + n /\ Len(b) + Len(u) = Len(d)
  BY <1>1, <1>2, <1>6, <1>8
<1>13. \A i \in 1 .. Len(d) :
         z[i] = IF i <= m THEN d[i] ELSE IF i <= m + n THEN d[i + k] ELSE d[i - n]
  <2> SUFFICES ASSUME NEW i \in 1 .. Len(d)
               PROVE  z[i] = IF i <= m THEN d[i] ELSE IF i <= m + n THEN d[i + k] ELSE d[i - n]
    OBVIOUS
  <2>1. CASE i <= m
    <3>1. /\ i \in 1 .. Len(b) + Len(u) /\ i <= Len(b)
          /\ i \in 1 .. Len(a) + Len(t) /\ i <= Len(a)
          /\ i \in 1 .. Len(f) - k /\ i \in 1 .. Len(d) - n
      BY <1>1, <1>2, <1>6, <1>12, <2>1
    <3>2. z[i] = b[i] /\ b[i] = a[i]
      BY <1>9, <1>11, <3>1 DEF z
    <3>3. a[i] = f[i] /\ f[i] = d[i]
      BY <1>3, <1>7, <3>1
    <3> QED BY <2>1, <3>2, <3>3
  <2>2. CASE i > m /\ i <= m + n
    <3>1. z[i] = b[i] /\ b[i] = t[i - m]
      BY <1>1, <1>2, <1>9, <1>11, <1>12, <2>2 DEF z
    <3>2. t[i - m] = d[Len(d) - n + (i - m)]
      BY <1>1, <1>3, <2>2
    <3>3. Len(d) - n + (i - m) = i + k
      BY <1>1
    <3> QED BY <2>2, <3>1, <3>2, <3>3
  <2>3. CASE i > m + n
    <3>1. z[i] = u[i - (m + n)]
      <4>1. i \in 1 .. Len(b) + Len(u) /\ ~ (i <= Len(b))
        BY <1>1, <1>12, <2>3
      <4> QED BY <1>11, <1>12, <4>1 DEF z
    <3>2. i - (m + n) \in 1 .. k
      BY <1>1, <2>3
    <3>3. u[i - (m + n)] = f[Len(f) - k + (i - (m + n))]
      BY <1>7, <3>2
    <3>4. Len(f) - k + (i - (m + n)) = i - n /\ i - n \in 1 .. Len(d) - n
      BY <1>1, <1>2, <2>3
    <3>5. f[i - n] = d[i - n]
      BY <1>3, <3>4
    <3>6. ~ (i <= m) /\ ~ (i <= m + n)
      BY <1>1, <2>3
    <3> QED BY <3>1, <3>3, <3>4, <3>5, <3>6
  <2> QED BY <1>1, <2>1, <2>2, <2>3
<1> QED BY <1>4, <1>10, <1>12, <1>13 DEF z

\* Below the top words d keeps the first m of its words; above them it has those
\* that L names, counted from the top of d.
Layout(d, m, L) == SubSeq(d, 1, m) \o [i \in 1 .. Len(L) |-> d[Len(d) + 1 - L[i]]]

LEMMA IsLayout ==
  ASSUME NEW V, NEW d \in Seq(V), NEW m \in 0 .. Len(d), NEW L \in Seq(1 .. Len(d)),
         NEW z \in Seq(V), Len(z) = m + Len(L), \A i \in 1 .. m : z[i] = d[i],
         \A j \in 1 .. Len(L) : z[m + j] = d[Len(d) + 1 - L[j]]
  PROVE  z = Layout(d, m, L)
<1> DEFINE b == SubSeq(d, 1, m)
           e == [i \in 1 .. Len(L) |-> d[Len(d) + 1 - L[i]]]
           y == OnTop(b, e)
<1>1. Len(d) \in Nat /\ Len(L) \in Nat /\ m \in Nat /\ \A j \in 1 .. Len(L) : L[j] \in 1 .. Len(d)
  OBVIOUS
<1>2. b \in Seq(V) /\ Len(b) = m /\ \A i \in 1 .. m : b[i] = d[i]
  OBVIOUS
<1>3. e \in Seq(V) /\ Len(e) = Len(L)
  <2>1. \A j \in 1 .. Len(L) : d[Len(d) + 1 - L[j]] \in V
    BY <1>1
  <2> QED BY <1>1, <2>1
<1>4. \A j \in 1 .. Len(L) : e[j] = d[Len(d) + 1 - L[j]]
  OBVIOUS
<1> HIDE DEF b, e
<1>5. y \in Seq(V) /\ Len(y) = m + Len(L)
  <2>1. y \in Seq(V) /\ Len(y) = Len(b) + Len(e)
    BY <1>2, <1>3, Stacked
  <2> QED BY <1>2, <1>3, <2>1
<1>6. \A i \in 1 .. m + Len(L) : y[i] = IF i <= m THEN b[i] ELSE e[i - m]
  <2>1. \A i \in 1 .. Len(b) + Len(e) : y[i] = IF i <= Len(b) THEN b[i] ELSE e[i - Len(b)]
    BY <1>2, <1>3, OnTopAt
  <2> QED BY <1>2, <1>3, <2>1
<1> HIDE DEF y
<1>7. ASSUME NEW i \in 1 .. Len(z)
      PROVE  z[i] = y[i]
  <2>1. CASE i <= m
    BY <1>1, <1>2, <1>6, <2>1
  <2>2. CASE i > m
    <3>1. i - m \in 1 .. Len(L) /\ m + (i - m) = i /\ ~ (i <= m)
      BY <1>1, <2>2
    <3>2. z[i] = d[Len(d) + 1 - L[i - m]]
      BY <3>1
    <3>3. y[i] = e[i - m]
      BY <1>6, <3>1
    <3> QED BY <1>4, <3>1, <3>2, <3>3
  <2> QED BY <1>1, <2>1, <2>2
<1>8. z = y
  BY <1>5, <1>7, SeqEqual
<1> QED BY <1>8 DEF y, b, e, OnTop, Layout

\* A stack is its front and its top.
LEMMA Recut ==
  ASSUME NEW V, NEW d \in Seq(V), NEW n \in Nat, n <= Len(d)
  PROVE  OnTop(Front(d, n), Top(d, n)) = d
<1> DEFINE f == Front(d, n)
           t == Top(d, n)
           z == OnTop(f, t)
<1>1. f \in Seq(V) /\ Len(f) = Len(d) - n /\ t \in Seq(V) /\ Len(t) = n
  BY Pieces
<1>2. /\ \A i \in 1 .. Len(d) - n : f[i] = d[i]
      /\ \A i \in 1 .. n : t[i] = d[Len(d) - n + i]
  BY FrontAt, TopAt
<1> HIDE DEF f, t
<1>3. z \in Seq(V) /\ Len(z) = Len(f) + Len(t)
  BY <1>1, Stacked
<1>4. \A i \in 1 .. Len(f) + Len(t) : z[i] = IF i <= Len(f) THEN f[i] ELSE t[i - Len(f)]
  BY <1>1, OnTopAt
<1> HIDE DEF z
<1>5. ASSUME NEW i \in 1 .. Len(d)
      PROVE  z[i] = d[i]
  <2>1. CASE i <= Len(d) - n
    BY <1>1, <1>2, <1>4, <2>1
  <2>2. CASE i > Len(d) - n
    <3>1. z[i] = t[i - (Len(d) - n)]
      BY <1>1, <1>4, <2>2
    <3>2. i - (Len(d) - n) \in 1 .. n /\ Len(d) - n + (i - (Len(d) - n)) = i
      BY <2>2
    <3> QED BY <1>2, <3>1, <3>2
  <2> QED BY <2>1, <2>2
<1>6. Len(z) = Len(d)
  BY <1>1, <1>3
<1>7. z = d
  BY <1>3, <1>5, <1>6, SeqEqual
<1> QED BY <1>7 DEF z, f, t

\* The words the instructions leave.  All of them list the top n words, then the
\* k beneath, and those that copy the top n words again.
Lists(L, n, k) == \A j \in 1 .. Len(L) : L[j] = IF j <= n THEN n + 1 - j ELSE n + n + k + 1 - j

\* DUP_X1 to DUP2_X2.
LEMMA DupXLayout ==
  ASSUME NEW V, NEW c \in Nat, NEW s, NEW d, Holds(s, V, c, d), NEW n \in Nat, NEW k \in Nat,
         n + k <= Len(d), Len(d) + n <= c,
         NEW L \in Seq(1 .. Len(d)), Len(L) = n + k + n, Lists(L, n, k)
  PROVE  Holds(DupX(s, n, k), V, c, Layout(d, Len(d) - (n + k), L))
<1> DEFINE x == TurnedWords(d, n, k)
           t == Top(d, n)
           z == OnTop(x, t)
           m == Len(d) - (n + k)
<1>1. d \in Seq(V) /\ Len(d) \in Nat /\ n <= Len(d) /\ m \in 0 .. Len(d)
  BY HeldFits
<1>2. Holds(DupX(s, n, k), V, c, z)
  BY DupXIs
<1>3. x \in Seq(V) /\ Len(x) = Len(d)
  BY <1>1, TurnedAt
<1>4. \A i \in 1 .. Len(d) :
        x[i] = IF i <= Len(d) - n - k THEN d[i]
               ELSE IF i <= Len(d) - n - k + n THEN d[i + k] ELSE d[i - n]
  BY <1>1, TurnedAt
<1>5. t \in Seq(V) /\ Len(t) = n
  BY <1>1, Pieces
<1>6. \A i \in 1 .. n : t[i] = d[Len(d) - n + i]
  BY <1>1, TopAt
<1> HIDE DEF x, t
<1>7. z \in Seq(V) /\ Len(z) = Len(d) + n
  <2>1. z \in Seq(V) /\ Len(z) = Len(x) + Len(t)
    BY <1>3, <1>5, Stacked
  <2> QED BY <1>3, <1>5, <2>1
<1>8. /\ \A i \in 1 .. Len(d) : z[i] = x[i]
      /\ \A i \in 1 .. n : z[Len(d) + i] = t[i]
  <2>0. x \in Seq(V) /\ t \in Seq(V)
    BY <1>3, <1>5
  <2>1. \A i \in 1 .. Len(x) : z[i] = x[i]
    BY <2>0, OnTopBelow
  <2>2. \A i \in 1 .. Len(t) : z[Len(x) + i] = t[i]
    BY <2>0, OnTopAbove
  <2> QED BY <1>3, <1>5, <2>1, <2>2
<1>9. m = Len(d) - (n + k) /\ m = Len(d) - n - k
  BY <1>1
<1> HIDE DEF z, m
<1>10. Len(z) = m + Len(L)
  BY <1>1, <1>7, <1>9
<1>11. \A i \in 1 .. m : z[i] = d[i]
  <2> SUFFICES ASSUME NEW i \in 1 .. m PROVE z[i] = d[i]
    OBVIOUS
  <2>1. i \in 1 .. Len(d) /\ i <= Len(d) - n - k
    BY <1>1, <1>9
  <2> QED BY <1>4, <1>8, <2>1
<1>12. ASSUME NEW j \in 1 .. Len(L)
       PROVE  z[m + j] = d[Len(d) + 1 - L[j]]
  <2> DEFINE i == m + j
  <2>1. L[j] = IF j <= n THEN n + 1 - j ELSE n + n + k + 1 - j
    BY DEF Lists
  <2>2. i = m + j /\ i \in Nat /\ j \in Nat
    BY <1>1
  <2> HIDE DEF i
  <2>3. CASE j <= n
    <3>1. i \in 1 .. Len(d) /\ i + k = Len(d) + 1 - L[j]
          /\ i <= Len(d) - n - k + n /\ ~ (i <= Len(d) - n - k)
      BY <1>1, <1>9, <2>1, <2>2, <2>3
    <3>2. z[i] = x[i] /\ x[i] = d[i + k]
      BY <1>4, <1>8, <3>1
    <3> QED BY <2>2, <3>1, <3>2
  <2>4. CASE j > n /\ j <= n + k
    <3>1. i \in 1 .. Len(d) /\ i - n = Len(d) + 1 - L[j]
          /\ ~ (i <= Len(d) - n - k + n) /\ ~ (i <= Len(d) - n - k)
      BY <1>1, <1>9, <2>1, <2>2, <2>4
    <3>2. z[i] = x[i] /\ x[i] = d[i - n]
      BY <1>4, <1>8, <3>1
    <3> QED BY <2>2, <3>1, <3>2
  <2>5. CASE j > n + k
    <3> DEFINE h == j - n - k
    <3>0. L[j] = n + n + k + 1 - j
      BY <2>1, <2>2, <2>5
    <3>1. h \in 1 .. n /\ i = Len(d) + h /\ Len(d) - n + h = Len(d) + 1 - L[j]
      <4>1. h \in 1 .. n /\ i = Len(d) + h
        BY <1>1, <1>9, <2>2, <2>5
      <4>2. Len(d) - n + h = Len(d) + 1 - (n + n + k + 1 - j)
        BY <1>1, <2>2
      <4> QED BY <3>0, <4>1, <4>2
    <3> HIDE DEF h
    <3>2. z[Len(d) + h] = t[h] /\ t[h] = d[Len(d) - n + h]
      BY <1>6, <1>8, <3>1
    <3> QED BY <2>2, <3>1, <3>2
  <2> QED BY <2>2, <2>3, <2>4, <2>5
<1>13. z = Layout(d, m, L)
  BY <1>1, <1>7, <1>10, <1>11, <1>12, IsLayout
<1> QED BY <1>2, <1>13 DEF m, z, x, t

\* DUP and DUP2.
LEMMA DupNLayout ==
  ASSUME NEW V, NEW c \in Nat, NEW s, NEW d, Holds(s, V, c, d), NEW n \in Nat,
         n <= Len(d), Len(d) + n <= c,
         NEW L \in Seq(1 .. Len(d)), Len(L) = n + n, Lists(L, n, 0)
  PROVE  Holds(DupN(s, n), V, c, Layout(d, Len(d) - n, L))
<1> DEFINE t == Top(d, n)
           z == OnTop(d, t)
           m == Len(d) - n
<1>1. d \in Seq(V) /\ Len(d) \in Nat /\ m \in 0 .. Len(d)
  BY HeldFits
<1>2. Holds(DupN(s, n), V, c, z)
  BY <1>1, DupNIs, Recut
<1>3. t \in Seq(V) /\ Len(t) = n
  BY <1>1, Pieces
<1>4. \A i \in 1 .. n : t[i] = d[Len(d) - n + i]
  BY <1>1, TopAt
<1> HIDE DEF t
<1>5. z \in Seq(V) /\ Len(z) = Len(d) + n
  <2>1. z \in Seq(V) /\ Len(z) = Len(d) + Len(t)
    BY <1>1, <1>3, Stacked
  <2> QED BY <1>3, <2>1
<1>6. /\ \A i \in 1 .. Len(d) : z[i] = d[i]
      /\ \A i \in 1 .. n : z[Len(d) + i] = t[i]
  <2>0. d \in Seq(V) /\ t \in Seq(V)
    BY <1>1, <1>3
  <2>1. \A i \in 1 .. Len(d) : z[i] = d[i]
    BY <2>0, OnTopBelow
  <2>2. \A i \in 1 .. Len(t) : z[Len(d) + i] = t[i]
    BY <2>0, OnTopAbove
  <2> QED BY <1>3, <2>1, <2>2
<1>7. m = Len(d) - n
  OBVIOUS
<1> HIDE DEF z, m
<1>8. Len(z) = m + Len(L)
  BY <1>1, <1>5, <1>7
<1>9. \A i \in 1 .. m : z[i] = d[i]
  BY <1>1, <1>6
<1>10. ASSUME NEW j \in 1 .. Len(L)
       PROVE  z[m + j] = d[Len(d) + 1 - L[j]]
  <2> DEFINE i == m + j
  <2>1. L[j] = IF j <= n THEN n + 1 - j ELSE n + n + 0 + 1 - j
    BY DEF Lists
  <2>2. i = m + j /\ i \in Nat /\ j \in Nat
    BY <1>1
  <2> HIDE DEF i
  <2>3. CASE j <= n
    <3>1. i \in 1 .. Len(d) /\ i = Len(d) + 1 - L[j]
      BY <1>1, <1>7, <2>1, <2>2, <2>3
    <3>2. z[i] = d[i]
      BY <1>6, <3>1
    <3> QED BY <2>2, <3>1, <3>2
  <2>4. CASE j > n
    <3> DEFINE h == j - n
    <3>1. h \in 1 .. n /\ i = Len(d) + h /\ Len(d) - n + h = Len(d) + 1 - L[j]
      BY <1>1, <1>7, <2>1, <2>2, <2>4
    <3> HIDE DEF h
    <3>2. z[Len(d) + h] = t[h] /\ t[h] = d[Len(d) - n + h]
      BY <1>4, <1>6, <3>1
    <3> QED BY <2>2, <3>1, <3>2
  <2> QED BY <2>2, <2>3, <2>4
<1>11. z = Layout(d, m, L)
  BY <1>1, <1>5, <1>8, <1>9, <1>10, IsLayout
<1> QED BY <1>2, <1>11 DEF m, z, t

\* SWAP.
LEMMA SwapLayout ==
  ASSUME NEW V, NEW c \in Nat, NEW s, NEW d, Holds(s, V, c, d), 2 <= Len(d)
  PROVE  Holds(SWAP(s), V, c, Layout(d, Len(d) - 2, <<1, 2>>))
<1> DEFINE z == TurnedWords(d, 1, 1)
           m == Len(d) - 2
           L == <<1, 2>>
<1>1. d \in Seq(V) /\ Len(d) \in Nat /\ m \in 0 .. Len(d) /\ 1 \in Nat /\ 1 + 1 <= Len(d)
  BY HeldFits
<1>2. Holds(SWAP(s), V, c, z)
  BY SwapIs
<1>3. z \in Seq(V) /\ Len(z) = Len(d)
  BY <1>1, TurnedAt
<1>4. \A i \in 1 .. Len(d) :
        z[i] = IF i <= Len(d) - 1 - 1 THEN d[i]
               ELSE IF i <= Len(d) - 1 - 1 + 1 THEN d[i + 1] ELSE d[i - 1]
  BY <1>1, TurnedAt
<1>5. L \in Seq(1 .. Len(d)) /\ Len(L) = 2 /\ L[1] = 1 /\ L[2] = 2
  BY <1>1
<1>6. m = Len(d) - 2
  OBVIOUS
<1> HIDE DEF z, L, m
<1>7. \A i \in 1 .. m : z[i] = d[i]
  BY <1>1, <1>4, <1>6
<1>8. \A j \in 1 .. Len(L) : z[m + j] = d[Len(d) + 1 - L[j]]
  <2>1. z[m + 1] = d[Len(d) + 1 - L[1]] /\ z[m + 2] = d[Len(d) + 1 - L[2]]
    BY <1>1, <1>4, <1>5, <1>6
  <2>2. \A j \in 1 .. Len(L) : j = 1 \/ j = 2
    BY <1>5
  <2> QED BY <2>1, <2>2
<1>9. Len(z) = m + Len(L)
  BY <1>1, <1>3, <1>5, <1>6
<1>10. z = Layout(d, m, L)
  BY <1>1, <1>3, <1>5, <1>7, <1>8, <1>9, IsLayout
<1> QED BY <1>2, <1>10 DEF m, L, z

\* POP and POP2.
LEMMA PopLayout ==
  ASSUME NEW V, NEW c \in Nat, NEW s, NEW d, Holds(s, V, c, d), NEW n \in Nat, n <= Len(d)
  PROVE  Holds(ArrayStackPop(s, n), V, c, Layout(d, Len(d) - n, <<>>))
<1> DEFINE z == Front(d, n)
           m == Len(d) - n
           L == <<>>
<1>1. d \in Seq(V) /\ Len(d) \in Nat /\ m \in 0 .. Len(d)
  BY HeldFits
<1>2. Holds(ArrayStackPop(s, n), V, c, z)
  BY PopIs
<1>3. z \in Seq(V) /\ Len(z) = m /\ \A i \in 1 .. m : z[i] = d[i]
  BY <1>1, Pieces, FrontAt
<1>4. L \in Seq(1 .. Len(d)) /\ Len(L) = 0
  OBVIOUS
<1> HIDE DEF z, m, L
<1>5. Len(z) = m + Len(L)
  BY <1>1, <1>3, <1>4
<1>6. \A j \in 1 .. Len(L) : z[m + j] = d[Len(d) + 1 - L[j]]
  BY <1>4
<1>7. z = Layout(d, m, L)
  <2>1. z \in Seq(V) /\ L \in Seq(1 .. Len(d)) /\ \A i \in 1 .. m : z[i] = d[i]
    BY <1>3, <1>4
  <2> QED BY <1>1, <1>5, <1>6, <2>1, IsLayout
<1> QED BY <1>2, <1>7 DEF m, L, z

\* With operands and room each instruction leaves the words the JVM defines.
LEMMA DoesAsJVM ==
  ASSUME NEW s, NEW d, Holds(s, W, Capacity, d), NEW op \in StackInstructions,
         Takes[op] <= Len(d), Len(d) - Takes[op] + Len(Leaves[op]) <= Capacity
  PROVE  Holds(After(op, s), W, Capacity, Layout(d, Len(d) - Takes[op], Leaves[op]))
<1>1. d \in Seq(W) /\ Len(d) \in Nat /\ Len(d) <= Capacity /\ Capacity \in Nat
  BY HeldFits, Constants
<1>2. CASE op = "POP"
  <2>1. Takes[op] = 1 /\ Leaves[op] = <<>> /\ After(op, s) = ArrayStackPop(s, 1)
    BY <1>2 DEF Takes, Leaves, After, POP
  <2> QED BY <1>1, <2>1, PopLayout
<1>3. CASE op = "POP2"
  <2>1. Takes[op] = 2 /\ Leaves[op] = <<>> /\ After(op, s) = ArrayStackPop(s, 2)
    BY <1>3 DEF Takes, Leaves, After, POP2
  <2> QED BY <1>1, <2>1, PopLayout
<1>4. CASE op = "DUP"
  <2> DEFINE L == <<1, 1>>
  <2>1. Takes[op] = 1 /\ Leaves[op] = L /\ After(op, s) = DupN(s, 1)
    BY <1>4 DEF Takes, Leaves, After, DUP
  <2>2. Len(L) = 1 + 1 /\ Lists(L, 1, 0)
    BY DEF Lists
  <2>3. L \in Seq(1 .. Len(d)) /\ Len(d) + 1 <= Capacity /\ 1 <= Len(d)
    BY <1>1, <2>1, <2>2
  <2> HIDE DEF L
  <2> QED BY <1>1, <2>1, <2>2, <2>3, DupNLayout
<1>5. CASE op = "DUP2"
  <2> DEFINE L == <<2, 1, 2, 1>>
  <2>1. Takes[op] = 2 /\ Leaves[op] = L /\ After(op, s) = DupN(s, 2)
    BY <1>5 DEF Takes, Leaves, After, DUP2
  <2>2. Len(L) = 2 + 2 /\ Lists(L, 2, 0)
    BY DEF Lists
  <2>3. L \in Seq(1 .. Len(d)) /\ Len(d) + 2 <= Capacity /\ 2 <= Len(d)
    BY <1>1, <2>1, <2>2
  <2> HIDE DEF L
  <2> QED BY <1>1, <2>1, <2>2, <2>3, DupNLayout
<1>6. CASE op = "DUP_X1"
  <2> DEFINE L == <<1, 2, 1>>
  <2>1. Takes[op] = 1 + 1 /\ Leaves[op] = L /\ After(op, s) = DupX(s, 1, 1)
    BY <1>6 DEF Takes, Leaves, After, DUP_X1
  <2>2. Len(L) = 1 + 1 + 1 /\ Lists(L, 1, 1)
    BY DEF Lists
  <2>3. L \in Seq(1 .. Len(d)) /\ Len(d) + 1 <= Capacity /\ 1 + 1 <= Len(d)
    BY <1>1, <2>1, <2>2
  <2> HIDE DEF L
  <2> QED BY <1>1, <2>1, <2>2, <2>3, DupXLayout
<1>7. CASE op = "DUP_X2"
  <2> DEFINE L == <<1, 3, 2, 1>>
  <2>1. Takes[op] = 1 + 2 /\ Leaves[op] = L /\ After(op, s) = DupX(s, 1, 2)
    BY <1>7 DEF Takes, Leaves, After, DUP_X2
  <2>2. Len(L) = 1 + 2 + 1 /\ Lists(L, 1, 2)
    BY DEF Lists
  <2>3. L \in Seq(1 .. Len(d)) /\ Len(d) + 1 <= Capacity /\ 1 + 2 <= Len(d)
    BY <1>1, <2>1, <2>2
  <2> HIDE DEF L
  <2> QED BY <1>1, <2>1, <2>2, <2>3, DupXLayout
<1>8. CASE op = "DUP2_X1"
  <2> DEFINE L == <<2, 1, 3, 2, 1>>
  <2>1. Takes[op] = 2 + 1 /\ Leaves[op] = L /\ After(op, s) = DupX(s, 2, 1)
    BY <1>8 DEF Takes, Leaves, After, DUP2_X1
  <2>2. Len(L) = 2 + 1 + 2 /\ Lists(L, 2, 1)
    BY DEF Lists
  <2>3. L \in Seq(1 .. Len(d)) /\ Len(d) + 2 <= Capacity /\ 2 + 1 <= Len(d)
    BY <1>1, <2>1, <2>2
  <2> HIDE DEF L
  <2> QED BY <1>1, <2>1, <2>2, <2>3, DupXLayout
<1>9. CASE op = "DUP2_X2"
  <2> DEFINE L == <<2, 1, 4, 3, 2, 1>>
  <2>1. Takes[op] = 2 + 2 /\ Leaves[op] = L /\ After(op, s) = DupX(s, 2, 2)
    BY <1>9 DEF Takes, Leaves, After, DUP2_X2
  <2>2. Len(L) = 2 + 2 + 2 /\ Lists(L, 2, 2)
    BY DEF Lists
  <2>3. L \in Seq(1 .. Len(d)) /\ Len(d) + 2 <= Capacity /\ 2 + 2 <= Len(d)
    BY <1>1, <2>1, <2>2
  <2> HIDE DEF L
  <2> QED BY <1>1, <2>1, <2>2, <2>3, DupXLayout
<1>10. CASE op = "SWAP"
  <2>1. Takes[op] = 2 /\ Leaves[op] = <<1, 2>> /\ After(op, s) = SWAP(s)
    BY <1>10 DEF Takes, Leaves, After
  <2> QED BY <1>1, <2>1, SwapLayout
<1> QED
  BY <1>2, <1>3, <1>4, <1>5, <1>6, <1>7, <1>8, <1>9, <1>10 DEF StackInstructions

\* POP, POP2, DUP, DUP_X1, DUP_X2, DUP2, DUP2_X1, DUP2_X2 and SWAP do what the
\* JVM defines, however many words the stack holds beneath their operands.
THEOREM WorksAsJVM == Spec => AsJVM
<1> DEFINE Step == \A op \in StackInstructions :
              Perform(op) /\ Enough(op) /\ Room(op) =>
                stack'.data = Below(op) \o [i \in 1 .. Len(Leaves[op]) |-> FromTop(Leaves[op][i])]
<1>1. StackInv => Step
  <2> SUFFICES ASSUME StackInv, NEW op \in StackInstructions, Perform(op), Enough(op), Room(op)
               PROVE  stack'.data = Below(op) \o [i \in 1 .. Len(Leaves[op]) |-> FromTop(Leaves[op][i])]
    OBVIOUS
  <2> DEFINE d == stack.data
  <2>1. Holds(stack, W, Capacity, d)
    BY DEF StackInv, Holds
  <2>2. Takes[op] <= Len(d) /\ Len(d) - Takes[op] + Len(Leaves[op]) <= Capacity
    BY DEF Enough, Room, Size
  <2>3. Holds(After(op, stack), W, Capacity, Layout(d, Len(d) - Takes[op], Leaves[op]))
    BY <2>1, <2>2, DoesAsJVM
  <2>4. stack'.data = Layout(d, Len(d) - Takes[op], Leaves[op])
    BY <2>3 DEF Holds, Perform
  <2> QED BY <2>4, Zenon DEF Layout, Below, FromTop, Size
<1>2. StackInv /\ [Next]_stack => [Step]_stack
  BY <1>1
<1> QED BY <1>2, StackAlways, PTL DEF Spec, AsJVM

-----------------------------------------------------------------------------
(***************************************************************************)
(* Counting words.                                                         *)
(***************************************************************************)
Places(d, w) == {i \in DOMAIN d : d[i] = w}

LEMMA PlacesFinite ==
  ASSUME NEW V, NEW d \in Seq(V), NEW w
  PROVE  IsFiniteSet(Places(d, w)) /\ Cardinality(Places(d, w)) \in Nat
<1>1. IsFiniteSet(1 .. Len(d))
  BY FS_Interval
<1>2. Places(d, w) \in SUBSET (1 .. Len(d))
  BY DEF Places
<1> QED BY <1>1, <1>2, FS_Subset, FS_CardinalityType

\* A word is on e on top of d as often as on both.
LEMMA CountAdds ==
  ASSUME NEW V, NEW d \in Seq(V), NEW e \in Seq(V), NEW w
  PROVE  Cardinality(Places(OnTop(d, e), w)) = Cardinality(Places(d, w)) + Cardinality(Places(e, w))
<1> DEFINE z == OnTop(d, e)
           moved == {i \in Places(z, w) : i > Len(d)}
           F == [i \in Places(e, w) |-> Len(d) + i]
<1>0. Len(d) \in Nat /\ Len(e) \in Nat
  OBVIOUS
<1>1. z \in Seq(V) /\ Len(z) = Len(d) + Len(e) /\ Len(d) \in Nat /\ Len(e) \in Nat
  BY <1>0, Stacked, Zenon
<1>2. \A i \in 1 .. Len(d) : z[i] = d[i]
  BY OnTopBelow
<1>3. \A i \in 1 .. Len(e) : z[Len(d) + i] = e[i]
  BY OnTopAbove
<1> HIDE DEF z
<1>4. Places(z, w) = Places(d, w) \cup moved /\ Places(d, w) \cap moved = {}
  <2>1. DOMAIN z = 1 .. Len(d) + Len(e) /\ DOMAIN d = 1 .. Len(d)
    BY <1>1
  <2>2. \A i \in Places(z, w) : i \in Places(d, w) \/ i \in moved
    <3> SUFFICES ASSUME NEW i \in Places(z, w), ~ (i > Len(d)) PROVE i \in Places(d, w)
      OBVIOUS
    <3>1. i \in 1 .. Len(d) /\ z[i] = w
      BY <1>1, <2>1 DEF Places
    <3> QED BY <1>2, <2>1, <3>1 DEF Places
  <2>3. \A i \in Places(d, w) : i \in Places(z, w) /\ ~ (i > Len(d))
    <3> SUFFICES ASSUME NEW i \in Places(d, w) PROVE i \in Places(z, w) /\ ~ (i > Len(d))
      OBVIOUS
    <3>1. i \in 1 .. Len(d) /\ d[i] = w
      BY <2>1 DEF Places
    <3>2. i \in DOMAIN z /\ ~ (i > Len(d)) /\ z[i] = w
      BY <1>1, <1>2, <2>1, <3>1
    <3> QED BY <3>2 DEF Places
  <2>4. \A i \in moved : i \in Places(z, w) /\ i > Len(d)
    OBVIOUS
  <2> HIDE DEF moved
  <2> QED BY <2>2, <2>3, <2>4
<1>5. F \in Bijection(Places(e, w), moved)
  <2>1. DOMAIN z = 1 .. Len(d) + Len(e) /\ DOMAIN e = 1 .. Len(e)
    BY <1>1
  <2>2. \A i \in Places(e, w) : i \in Nat /\ Len(d) + i \in moved
    <3> SUFFICES ASSUME NEW i \in Places(e, w) PROVE i \in Nat /\ Len(d) + i \in moved
      OBVIOUS
    <3>1. i \in 1 .. Len(e) /\ e[i] = w
      BY <2>1 DEF Places
    <3>2. Len(d) + i \in DOMAIN z /\ Len(d) + i > Len(d) /\ z[Len(d) + i] = w /\ i \in Nat
      BY <1>1, <1>3, <2>1, <3>1
    <3> QED BY <3>2 DEF Places
  <2>3. \A j \in moved : \E i \in Places(e, w) : Len(d) + i = j
    <3> SUFFICES ASSUME NEW j \in moved PROVE \E i \in Places(e, w) : Len(d) + i = j
      OBVIOUS
    <3>1. j \in 1 .. Len(d) + Len(e) /\ j > Len(d) /\ z[j] = w
      BY <2>1 DEF Places
    <3>2. j - Len(d) \in 1 .. Len(e) /\ Len(d) + (j - Len(d)) = j
      BY <1>1, <3>1
    <3>3. j - Len(d) \in Places(e, w)
      BY <1>3, <2>1, <3>1, <3>2 DEF Places
    <3> QED BY <3>2, <3>3
  <2> HIDE DEF moved
  <2>4. F \in [Places(e, w) -> moved]
    BY <2>2
  <2>5. \A a, b \in Places(e, w) : F[a] = F[b] => a = b
    BY <1>1, <2>2
  <2>6. \A j \in moved : \E i \in Places(e, w) : F[i] = j
    BY <2>3
  <2> HIDE DEF F
  <2>7. F \in Injection(Places(e, w), moved)
    BY <2>4, <2>5 DEF Injection, IsInjective
  <2>8. F \in Surjection(Places(e, w), moved)
    BY <2>4, <2>6 DEF Surjection
  <2> QED BY <2>7, <2>8 DEF Bijection
<1> HIDE DEF moved, F
<1>6. IsFiniteSet(Places(d, w)) /\ IsFiniteSet(Places(e, w)) /\ Cardinality(Places(d, w)) \in Nat
  BY PlacesFinite
<1>7. IsFiniteSet(moved) /\ Cardinality(moved) = Cardinality(Places(e, w))
  BY <1>5, <1>6, FS_Bijection DEF ExistsBijection
<1>8. Cardinality(Places(z, w)) = Cardinality(Places(d, w)) + Cardinality(moved) - Cardinality({})
  BY <1>4, <1>6, <1>7, FS_Union
<1>9. Cardinality({}) = 0 /\ Cardinality(moved) \in Nat
  BY <1>7, FS_EmptySet, FS_CardinalityType
<1> QED BY <1>6, <1>7, <1>8, <1>9 DEF z

\* Turning words round neither loses one nor makes one up.
LEMMA TurnedKeepsCounts ==
  ASSUME NEW V, NEW d \in Seq(V), NEW n \in Nat, NEW k \in Nat, n + k <= Len(d), NEW w
  PROVE  Cardinality(Places(TurnedWords(d, n, k), w)) = Cardinality(Places(d, w))
<1> DEFINE f == Front(d, n)
           t == Top(d, n)
           a == Front(f, k)
           u == Top(f, k)
           C(x) == Cardinality(Places(x, w))
<1>1. Len(d) \in Nat /\ n <= Len(d) /\ k <= Len(d) - n
  OBVIOUS
<1>2. f \in Seq(V) /\ Len(f) = Len(d) - n /\ t \in Seq(V) /\ OnTop(f, t) = d
  BY <1>1, Pieces, Recut
<1>3. TurnedWords(d, n, k) = OnTop(OnTop(a, t), u)
  BY DEF TurnedWords
<1> HIDE DEF f, t
<1>4. k <= Len(f)
  BY <1>1, <1>2
<1>5. a \in Seq(V) /\ u \in Seq(V) /\ OnTop(a, u) = f
  BY <1>2, <1>4, Pieces, Recut
<1> HIDE DEF a, u
<1>6. OnTop(a, t) \in Seq(V)
  BY <1>2, <1>5, Stacked
<1>7. /\ C(OnTop(OnTop(a, t), u)) = C(OnTop(a, t)) + C(u)
      /\ C(OnTop(a, t)) = C(a) + C(t)
      /\ C(OnTop(a, u)) = C(a) + C(u)
      /\ C(OnTop(f, t)) = C(f) + C(t)
  BY <1>2, <1>5, <1>6, CountAdds
<1>8. C(a) \in Nat /\ C(t) \in Nat /\ C(u) \in Nat
  BY <1>2, <1>5, PlacesFinite
<1> HIDE DEF C
<1>9. C(OnTop(OnTop(a, t), u)) = C(d)
  BY <1>2, <1>5, <1>7, <1>8
<1> QED BY <1>3, <1>9 DEF C

\* What lies beneath the words that are turned round stays as it is.
LEMMA TurnedKeepsBelow ==
  ASSUME NEW V, NEW d \in Seq(V), NEW n \in Nat, NEW k \in Nat, n + k <= Len(d)
  PROVE  SubSeq(TurnedWords(d, n, k), 1, Len(d) - (n + k)) = SubSeq(d, 1, Len(d) - (n + k))
<1> DEFINE z == TurnedWords(d, n, k)
           m == Len(d) - (n + k)
<1>1. Len(d) \in Nat /\ m \in 0 .. Len(d) /\ m = Len(d) - n - k
  OBVIOUS
<1>2. z \in Seq(V) /\ Len(z) = Len(d)
  BY TurnedAt
<1>3. \A i \in 1 .. Len(d) :
        z[i] = IF i <= Len(d) - n - k THEN d[i]
               ELSE IF i <= Len(d) - n - k + n THEN d[i + k] ELSE d[i - n]
  BY TurnedAt
<1> HIDE DEF z, m
<1>4. \A i \in 1 .. m : z[i] = d[i]
  <2> SUFFICES ASSUME NEW i \in 1 .. m PROVE z[i] = d[i]
    OBVIOUS
  <2>1. i \in 1 .. Len(d) /\ i <= Len(d) - n - k
    BY <1>1
  <2> QED BY <1>3, <2>1
<1>5. /\ SubSeq(z, 1, m) \in Seq(V) /\ Len(SubSeq(z, 1, m)) = m
      /\ \A i \in 1 .. m : SubSeq(z, 1, m)[i] = z[i]
  BY <1>1, <1>2
<1>6. /\ SubSeq(d, 1, m) \in Seq(V) /\ Len(SubSeq(d, 1, m)) = m
      /\ \A i \in 1 .. m : SubSeq(d, 1, m)[i] = d[i]
  BY <1>1
<1>7. SubSeq(z, 1, m) = SubSeq(d, 1, m)
  <2> DEFINE p == SubSeq(z, 1, m)
             q == SubSeq(d, 1, m)
  <2>1. p \in Seq(V) /\ q \in Seq(V) /\ Len(p) = m /\ Len(q) = m /\ \A i \in 1 .. m : p[i] = q[i]
    BY <1>4, <1>5, <1>6
  <2> HIDE DEF p, q
  <2>2. p = q
    BY <2>1, SeqEqual
  <2> QED BY <2>2 DEF p, q
<1> QED BY <1>7 DEF z, m

\* d and e are the same up to the order of the words above the lowest m.
Reordered(e, d, m) ==
  /\ SubSeq(d, 1, m) = SubSeq(e, 1, m)
  /\ \A w \in W : Cardinality(Places(e, w)) = Cardinality(Places(d, w))

LEMMA DupXReorders ==
  ASSUME NEW s, NEW d, Holds(s, W, Capacity, d), NEW n \in Nat, NEW k \in Nat, n + k <= Len(d),
         Len(d) + n > Capacity
  PROVE  \E e : /\ Holds(DupX(s, n, k), W, Capacity, e) /\ "overflow" \in DupX(s, n, k).log
                /\ Reordered(e, d, Len(d) - (n + k))
<1>1. d \in Seq(W) /\ Capacity \in Nat
  BY HeldFits, Constants
<1>2. /\ Holds(DupX(s, n, k), W, Capacity, TurnedWords(d, n, k))
      /\ "overflow" \in DupX(s, n, k).log
  BY <1>1, DupXIs
<1>3. Reordered(TurnedWords(d, n, k), d, Len(d) - (n + k))
  BY <1>1, TurnedKeepsBelow, TurnedKeepsCounts DEF Reordered
<1> QED BY <1>2, <1>3

LEMMA DupNReorders ==
  ASSUME NEW s, NEW d, Holds(s, W, Capacity, d), NEW n \in Nat, n <= Len(d), Len(d) + n > Capacity
  PROVE  \E e : /\ Holds(DupN(s, n), W, Capacity, e) /\ "overflow" \in DupN(s, n).log
                /\ Reordered(e, d, Len(d) - n)
<1>1. d \in Seq(W) /\ Capacity \in Nat
  BY HeldFits, Constants
<1>2. Holds(DupN(s, n), W, Capacity, d) /\ "overflow" \in DupN(s, n).log
  <2>1. OnTop(Front(d, n), Top(d, n)) = d
    BY <1>1, Recut
  <2>2. /\ Holds(DupN(s, n), W, Capacity, OnTop(Front(d, n), Top(d, n)))
        /\ "overflow" \in DupN(s, n).log
    BY <1>1, DupNIs
  <2> QED BY <2>1, <2>2
<1>3. Reordered(d, d, Len(d) - n)
  BY DEF Reordered
<1> QED BY <1>2, <1>3

\* With operands but without room an instruction reports it and at most turns
\* its operands round.  Those that leave no more words than they take have room.
LEMMA WithoutRoom ==
  ASSUME NEW s, NEW d, Holds(s, W, Capacity, d), NEW op \in StackInstructions,
         Takes[op] <= Len(d), Len(d) - Takes[op] + Len(Leaves[op]) > Capacity
  PROVE  \E e : /\ Holds(After(op, s), W, Capacity, e) /\ "overflow" \in After(op, s).log
                /\ Reordered(e, d, Len(d) - Takes[op])
<1>1. d \in Seq(W) /\ Len(d) \in Nat /\ Len(d) <= Capacity /\ Capacity \in Nat
  BY HeldFits, Constants
<1>2. CASE op \in {"POP", "POP2", "SWAP"}
  <2>1. Takes[op] >= Len(Leaves[op]) /\ Takes[op] \in Nat /\ Len(Leaves[op]) \in Nat
    <3>1. CASE op = "POP"
      BY <3>1 DEF Takes, Leaves
    <3>2. CASE op = "POP2"
      BY <3>2 DEF Takes, Leaves
    <3>3. CASE op = "SWAP"
      BY <3>3 DEF Takes, Leaves
    <3> QED BY <1>2, <3>1, <3>2, <3>3
  <2> QED BY <1>1, <2>1
<1>3. CASE op = "DUP"
  <2>1. Takes[op] = 1 /\ Len(Leaves[op]) = 2 /\ After(op, s) = DupN(s, 1)
    BY <1>3 DEF Takes, Leaves, After, DUP
  <2>2. Len(d) + 1 > Capacity /\ 1 <= Len(d)
    BY <1>1, <2>1
  <2> QED BY <2>1, <2>2, DupNReorders
<1>4. CASE op = "DUP2"
  <2>1. Takes[op] = 2 /\ Len(Leaves[op]) = 4 /\ After(op, s) = DupN(s, 2)
    BY <1>4 DEF Takes, Leaves, After, DUP2
  <2>2. Len(d) + 2 > Capacity /\ 2 <= Len(d)
    BY <1>1, <2>1
  <2> QED BY <2>1, <2>2, DupNReorders
<1>5. CASE op = "DUP_X1"
  <2>1. Takes[op] = 1 + 1 /\ Len(Leaves[op]) = 3 /\ After(op, s) = DupX(s, 1, 1)
    BY <1>5 DEF Takes, Leaves, After, DUP_X1
  <2>2. Len(d) + 1 > Capacity /\ 1 + 1 <= Len(d)
    BY <1>1, <2>1
  <2> QED BY <2>1, <2>2, DupXReorders
<1>6. CASE op = "DUP_X2"
  <2>1. Takes[op] = 1 + 2 /\ Len(Leaves[op]) = 4 /\ After(op, s) = DupX(s, 1, 2)
    BY <1>6 DEF Takes, Leaves, After, DUP_X2
  <2>2. Len(d) + 1 > Capacity /\ 1 + 2 <= Len(d)
    BY <1>1, <2>1
  <2> QED BY <2>1, <2>2, DupXReorders
<1>7. CASE op = "DUP2_X1"
  <2>1. Takes[op] = 2 + 1 /\ Len(Leaves[op]) = 5 /\ After(op, s) = DupX(s, 2, 1)
    BY <1>7 DEF Takes, Leaves, After, DUP2_X1
  <2>2. Len(d) + 2 > Capacity /\ 2 + 1 <= Len(d)
    BY <1>1, <2>1
  <2> QED BY <2>1, <2>2, DupXReorders
<1>8. CASE op = "DUP2_X2"
  <2>1. Takes[op] = 2 + 2 /\ Len(Leaves[op]) = 6 /\ After(op, s) = DupX(s, 2, 2)
    BY <1>8 DEF Takes, Leaves, After, DUP2_X2
  <2>2. Len(d) + 2 > Capacity /\ 2 + 2 <= Len(d)
    BY <1>1, <2>1
  <2> QED BY <2>1, <2>2, DupXReorders
<1> QED
  BY <1>2, <1>3, <1>4, <1>5, <1>6, <1>7, <1>8 DEF StackInstructions

\* An instruction whose copy does not fit reports the overflow, and every word is
\* still on the stack as often as before, those beneath the operands in place.
THEOREM OverflowKeepsWords == Spec => OverflowLosesNothing
<1> DEFINE Step == \A op \in StackInstructions :
              Perform(op) /\ Enough(op) /\ ~ Room(op) =>
                /\ "overflow" \in stack'.log
                /\ Below(op) = SubSeq(stack'.data, 1, Size(stack) - Takes[op])
                /\ \A w \in Words \cup {GARBAGE} : Count(stack'.data, w) = Count(stack.data, w)
<1>1. StackInv => Step
  <2> SUFFICES ASSUME StackInv, NEW op \in StackInstructions, Perform(op), Enough(op), ~ Room(op)
               PROVE  /\ "overflow" \in stack'.log
                      /\ Below(op) = SubSeq(stack'.data, 1, Size(stack) - Takes[op])
                      /\ \A w \in Words \cup {GARBAGE} : Count(stack'.data, w) = Count(stack.data, w)
    OBVIOUS
  <2> DEFINE d == stack.data
  <2>1. Holds(stack, W, Capacity, d)
    BY DEF StackInv, Holds
  <2>2. Len(d) \in Nat /\ Capacity \in Nat /\ Takes[op] \in Nat /\ Len(Leaves[op]) \in Nat
    <3>1. Len(d) \in Nat /\ Capacity \in Nat
      BY <2>1, HeldFits, Constants
    <3>2. Takes[op] \in Nat /\ Len(Leaves[op]) \in Nat
      BY DEF Takes, Leaves, StackInstructions
    <3> QED BY <3>1, <3>2
  <2>3. Takes[op] <= Len(d) /\ Len(d) - Takes[op] + Len(Leaves[op]) > Capacity
    BY <2>2 DEF Enough, Room, Size
  <2>4. PICK e : /\ Holds(After(op, stack), W, Capacity, e) /\ "overflow" \in After(op, stack).log
                 /\ Reordered(e, d, Len(d) - Takes[op])
    BY <2>1, <2>3, WithoutRoom
  <2>5. stack'.data = e /\ "overflow" \in stack'.log
    BY <2>4 DEF Holds, Perform
  <2>6. Below(op) = SubSeq(e, 1, Size(stack) - Takes[op])
    BY <2>4, Zenon DEF Reordered, Below, Size
  <2>7. \A w \in Words \cup {GARBAGE} : Count(e, w) = Count(stack.data, w)
    BY <2>4, Zenon DEF Reordered, Count, Places, W
  <2> QED BY <2>5, <2>6, <2>7, Zenon
<1>2. StackInv /\ [Next]_stack => [Step]_stack
  BY <1>1
<1> QED BY <1>2, StackAlways, PTL DEF Spec, OverflowLosesNothing

=============================================================================
