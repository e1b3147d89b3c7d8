---------------------------- MODULE OperandStack ----------------------------
(***************************************************************************)
(* One ArrayStack under every sequence of its operations: the Push and Pop *)
(* functions an embedder calls, and the stack instructions of the          *)
(* interpreter, also with too few operands and without room.               *)
(***************************************************************************)
EXTENDS ArrayStack, FiniteSets

CONSTANTS
  Words,      \* the 4-byte words that are pushed
  Capacity    \* the capacity in words: max_stack of the method

ASSUME OperandStackAssumption == Capacity \in Nat /\ GARBAGE \notin Words

VARIABLE stack

Init == stack = CreateArrayStack(Capacity, {})

\* PushInt and PushFloat push one word, PushLong, PushDouble and (with 64-bit
\* addresses) PushAddress two.
Push == \E w, v \in Words : \E words \in {<<w>>, <<w, v>>} : stack' = ArrayStackPush(stack, words)

\* PopByte and PopShort pop a word too.
Pop == \E n \in {1, 2} : stack' = ArrayStackPop(stack, n)

StackInstructions ==
  {"POP", "POP2", "DUP", "DUP_X1", "DUP_X2", "DUP2", "DUP2_X1", "DUP2_X2", "SWAP"}

After(op, s) ==
  CASE op = "POP"     -> POP(s)
    [] op = "POP2"    -> POP2(s)
    [] op = "DUP"     -> DUP(s)
    [] op = "DUP_X1"  -> DUP_X1(s)
    [] op = "DUP_X2"  -> DUP_X2(s)
    [] op = "DUP2"    -> DUP2(s)
    [] op = "DUP2_X1" -> DUP2_X1(s)
    [] op = "DUP2_X2" -> DUP2_X2(s)
    [] op = "SWAP"    -> SWAP(s)

Perform(op) == stack' = After(op, stack)

Next == Push \/ Pop \/ \E op \in StackInstructions : Perform(op)

Spec == Init /\ [][Next]_stack

-----------------------------------------------------------------------------
(***************************************************************************)
(* The JVM's stack instructions: how many words each takes, and the words  *)
(* it leaves, counted from the top of the stack and listed from the bottom.*)
(***************************************************************************)
Takes == [POP |-> 1, POP2 |-> 2, DUP |-> 1, DUP_X1 |-> 2, DUP_X2 |-> 3,
          DUP2 |-> 2, DUP2_X1 |-> 3, DUP2_X2 |-> 4, SWAP |-> 2]
Leaves == [POP |-> <<>>, POP2 |-> <<>>, DUP |-> <<1, 1>>, DUP_X1 |-> <<1, 2, 1>>,
           DUP_X2 |-> <<1, 3, 2, 1>>, DUP2 |-> <<2, 1, 2, 1>>,
           DUP2_X1 |-> <<2, 1, 3, 2, 1>>, DUP2_X2 |-> <<2, 1, 4, 3, 2, 1>>,
           SWAP |-> <<1, 2>>]

Enough(op) == Takes[op] <= Size(stack)
Room(op) == Size(stack) - Takes[op] + Len(Leaves[op]) <= Capacity
Below(op) == SubSeq(stack.data, 1, Size(stack) - Takes[op])
FromTop(i) == stack.data[Size(stack) + 1 - i]

Count(data, w) == Cardinality({i \in DOMAIN data : data[i] = w})

\* The type invariant: a stack never holds more than its capacity.
TypeOK ==
  /\ stack.data \in Seq(Words \cup {GARBAGE}) /\ Size(stack) <= stack.capacity
  /\ stack.capacity = Capacity
  /\ stack.log \subseteq {"overflow", "underflow"}

\* Left-over memory is pushed only after an underflow has been reported
\* (ArrayStackPop and the handlers that go on with what it left unset).
GarbageIsReported ==
  (\E i \in DOMAIN stack.data : stack.data[i] = GARBAGE) => "underflow" \in stack.log

\* With operands and room for the result a stack instruction does what the JVM
\* defines, whatever the widths of the values it moves (POP to SWAP).
AsJVM ==
  [][\A op \in StackInstructions :
       Perform(op) /\ Enough(op) /\ Room(op) =>
         stack'.data = Below(op) \o [i \in 1 .. Len(Leaves[op]) |-> FromTop(Leaves[op][i])]]_stack

\* An instruction that finds no room for its copy reports it and has lost no
\* word and made up none: it has at most turned its operands round (the last
\* of several pushes fails).
OverflowLosesNothing ==
  [][\A op \in StackInstructions :
       Perform(op) /\ Enough(op) /\ ~ Room(op) =>
         /\ "overflow" \in stack'.log
         /\ Below(op) = SubSeq(stack'.data, 1, Size(stack) - Takes[op])
         /\ \A w \in Words \cup {GARBAGE} : Count(stack'.data, w) = Count(stack.data, w)]_stack

=============================================================================
