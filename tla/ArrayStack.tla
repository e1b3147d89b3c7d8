----------------------------- MODULE ArrayStack -----------------------------
(***************************************************************************)
(* The ArrayStack, a byte array with a fill mark, that holds the operands  *)
(* of a frame.  All its users move 4 or 8 bytes at a time, so it is kept   *)
(* as a sequence of 4-byte words.  A push that does not fit and a pop of   *)
(* more than there is do nothing but report an error; the caller of such a *)
(* pop goes on with a variable that nobody has set.                        *)
(***************************************************************************)
EXTENDS Naturals, Sequences

\* A word that was never written: left-over memory.
GARBAGE == "garbage"
Garbage(n) == [i \in 1 .. n |-> GARBAGE]

\* A stack, and what error() has reported about it.
CreateArrayStack(capacity, log) == [data |-> <<>>, capacity |-> capacity, log |-> log]

Size(s) == Len(s.data)

\* Mutants: the room is not checked; as much as fits is copied.
PushUnchecked(s, words) == [s EXCEPT !.data = @ \o words]
PushTruncated(s, words) ==
  [s EXCEPT !.data = @ \o [i \in {j \in DOMAIN words : Size(s) + j <= s.capacity} |-> words[i]]]

ArrayStackPush(s, words) ==
  IF Size(s) + Len(words) > s.capacity
    THEN [s EXCEPT !.log = @ \cup {"overflow"}]
    ELSE [s EXCEPT !.data = @ \o words]

\* The stack after popping n words, and the words the caller then holds.
ArrayStackPop(s, n) ==
  IF n > Size(s)
    THEN [s EXCEPT !.log = @ \cup {"underflow"}]
    ELSE [s EXCEPT !.data = SubSeq(@, 1, Size(s) - n)]

\* Mutant: the copy is made before the fill mark moves, from the first unused
\* word on.
PoppedAbove(s, n) ==
  IF n > Size(s) THEN Garbage(n) ELSE [i \in 1 .. n |-> IF i = 1 THEN s.data[Size(s)] ELSE GARBAGE]

Popped(s, n) ==
  IF n > Size(s) THEN Garbage(n) ELSE SubSeq(s.data, Size(s) - n + 1, Size(s))

-----------------------------------------------------------------------------
(***************************************************************************)
(* The handlers that work on the operand stack alone.  n and k are widths  *)
(* in words: 1 for int and float, 2 for long and double.                   *)
(***************************************************************************)
PushTwice(s, words) == ArrayStackPush(ArrayStackPush(s, words), words)

\* Copy the top n words.
DupN(s, n) == PushTwice(ArrayStackPop(s, n), Popped(s, n))

\* Copy the top n words beneath the k words under them.
DupX(s, n, k) ==
  LET top   == Popped(s, n)
      rest  == ArrayStackPop(s, n)
      below == Popped(rest, k)
  IN ArrayStackPush(ArrayStackPush(ArrayStackPush(ArrayStackPop(rest, k), top), below), top)

\* Mutant: both copies of the top word are put back on top.
DUP_X2_Above(s) ==
  LET rest == ArrayStackPop(s, 1)
  IN PushTwice(ArrayStackPush(ArrayStackPop(rest, 2), Popped(rest, 2)), Popped(s, 1))

POP(s)     == ArrayStackPop(s, 1)
POP2(s)    == ArrayStackPop(s, 2)
DUP(s)     == DupN(s, 1)
DUP_X1(s)  == DupX(s, 1, 1)
DUP_X2(s)  == DupX(s, 1, 2)
DUP2(s)    == DupN(s, 2)
DUP2_X1(s) == DupX(s, 2, 1)
DUP2_X2(s) == DupX(s, 2, 2)
SWAP(s) ==
  LET rest == ArrayStackPop(s, 1)
  IN ArrayStackPush(ArrayStackPush(ArrayStackPop(rest, 1), Popped(s, 1)), Popped(rest, 1))

(***************************************************************************)
(* A binary operation on two values of n words.  What it computes is not   *)
(* modelled, only whether it computes with words somebody has set.         *)
(***************************************************************************)
Binary(s, n) ==
  LET rest     == ArrayStackPop(s, n)
      operands == Popped(s, n) \o Popped(rest, n)
      result   == IF \E i \in DOMAIN operands : operands[i] = GARBAGE THEN GARBAGE
                                                                      ELSE "value"
  IN ArrayStackPush(ArrayStackPop(rest, n), [i \in 1 .. n |-> result])

=============================================================================
