-------------------------- MODULE InterpreterProofs -------------------------
(***************************************************************************)
(* What the loop of ThreadCurrentExecute does to the code, for every code, *)
(* every room for operands and locals and both address sizes.              *)
(*                                                                         *)
(* Every opcode is dispatched by an action of its own, but all of them     *)
(* touch code and pc only through Dispatch(ops, n).  So the proofs have    *)
(* one lemma for a dispatch, and one that says every step is a dispatch    *)
(* with the n that belongs to its opcode, or leaves code and pc alone.     *)
(***************************************************************************)
EXTENDS Interpreter, ArrayStackProofs, FiniteSetTheorems

\* How far the handler of the opcode b moves pc.
Moves(b) == IF b = 17 THEN 2 ELSE IF b \in {16} \cup (21 .. 25) \cup (54 .. 58) THEN 1 ELSE 0

\* The code keeps its length and its bytes stay bytes.
CodeOK ==
  /\ IsFiniteSet(DOMAIN code) /\ DOMAIN code = 0 .. CodeLength - 1
  /\ code \in [DOMAIN code -> Byte]
  /\ loaded \in [DOMAIN code -> Byte]
  /\ pc \in Nat

\* Footprint of a call that is running, whatever status says.
FootprintOfCall ==
  \A i \in DOMAIN code :
    /\ i > pc => code[i] = loaded[i]
    /\ i < pc => \/ code[i] \in Spent
                 \/ i > 0 /\ code[i - 1] = 18 /\ code[i] = loaded[i]

IInv == CodeOK /\ Footprint

\* A dispatch of the opcode at pc, and nothing more about its handler.
DispatchOne == Dispatch(Byte, Moves(code[pc]))

\* A surviving dispatch stays out of the bytes behind the table.
Survives == status' # "lost" => code[pc] \notin 205 .. 253

-----------------------------------------------------------------------------
\* Every step of a running call is a dispatch whose handler moves pc by what its
\* opcode says and survives only inside the table, or falls off the end (the
\* handlers of the table).
LEMMA StepIsDispatch ==
  ASSUME CodeOK, Step
  PROVE  \/ FallOffTheEnd
         \/ DispatchOne /\ Survives
<1>1. CASE FallOffTheEnd
  BY <1>1
<1>2. CASE PushConstant
  BY <1>2 DEF PushConstant, Dispatch, DispatchOne, Survives, Moves, Byte
<1>3. CASE PushImmediate
  BY <1>3 DEF PushImmediate, Dispatch, DispatchOne, Survives, Moves, Byte
<1>4. CASE Load
  BY <1>4 DEF Load, Dispatch, DispatchOne, Survives, Moves, Byte
<1>5. CASE LoadN
  BY <1>5 DEF LoadN, Dispatch, DispatchOne, Survives, Moves, Byte
<1>6. CASE Store
  BY <1>6 DEF Store, Dispatch, DispatchOne, Survives, Moves, Byte
<1>7. CASE StoreN
  BY <1>7 DEF StoreN, Dispatch, DispatchOne, Survives, Moves, Byte
<1>8. CASE StackInstruction
  BY <1>8 DEF StackInstruction, Dispatch, DispatchOne, Survives, Moves, Byte
<1>9. CASE Arithmetic
  BY <1>9 DEF Arithmetic, Dispatch, DispatchOne, Survives, Moves, Byte
<1>10. CASE ReturnValue
  BY <1>10 DEF ReturnValue, Dispatch, DispatchOne, Survives, Moves, Byte
<1>11. CASE Break
  BY <1>11 DEF Break, Dispatch, DispatchOne, Survives, Moves, Byte
<1>12. CASE NoOperation
  BY <1>12 DEF NoOperation, Dispatch, DispatchOne, Survives, Moves, Byte, Constants, ArrayInstructions,
               BitInstructions, Conversions, Branches, ObjectInstructions, RETURN
<1>13. CASE OutsideTable
  BY <1>13 DEF OutsideTable, Wild, Lose, Dispatch, DispatchOne, Survives, Moves, Byte
<1> QED
  BY <1>1, <1>2, <1>3, <1>4, <1>5, <1>6, <1>7, <1>8, <1>9, <1>10, <1>11, <1>12, <1>13 DEF Step

\* What a dispatch does to the code and to pc (the head of the loop).
LEMMA DispatchEffect ==
  ASSUME CodeOK, DispatchOne
  PROVE  /\ status = "running" /\ pc \in DOMAIN code
         /\ code' = [code EXCEPT ![pc] = (code[pc] + 1) % 256]
         /\ DOMAIN code' = DOMAIN code
         /\ code'[pc] = (code[pc] + 1) % 256
         /\ \A i \in DOMAIN code \ {pc} : code'[i] = code[i]
         /\ pc' = pc + Moves(code[pc])
         /\ loaded' = loaded
<1>1. CodeLength \in Nat
  BY FS_CardinalityType DEF CodeOK, CodeLength
<1>2. pc \in DOMAIN code
  BY <1>1 DEF DispatchOne, Dispatch, CodeOK
<1> QED
  BY <1>2 DEF DispatchOne, Dispatch, Increment, CodeOK

\* The code keeps its shape (every write of the loop goes to an opcode).
LEMMA DispatchKeepsCode ==
  ASSUME CodeOK, DispatchOne
  PROVE  CodeOK'
<1>1. code' \in [DOMAIN code -> Byte]
  <2>1. code[pc] \in Byte
    BY DispatchEffect DEF CodeOK
  <2>2. (code[pc] + 1) % 256 \in Byte
    BY <2>1 DEF Byte
  <2> QED
    BY <2>2, DispatchEffect DEF CodeOK
<1>2. pc' \in Nat
  BY DispatchEffect DEF CodeOK, Moves
<1>3. CodeLength' = CodeLength
  BY DispatchEffect DEF CodeLength
<1> QED
  BY <1>1, <1>2, <1>3, DispatchEffect DEF CodeOK

\* A dispatch leaves the byte it counted up behind pc only as a spent one, and
\* SIPUSH the byte it jumps over as it was.
LEMMA DispatchFootprint ==
  ASSUME CodeOK, DispatchOne, FootprintOfCall
  PROVE  FootprintOfCall'
<1> DEFINE op == code[pc]
<1>0. op \in Byte /\ pc \in Nat /\ Moves(op) \in {0, 1, 2} /\ pc' = pc + Moves(op)
  BY DispatchEffect DEF CodeOK, Moves
<1> SUFFICES ASSUME NEW i \in DOMAIN code
             PROVE  /\ i > pc' => code'[i] = loaded'[i]
                    /\ i < pc' => \/ code'[i] \in Spent
                                  \/ i > 0 /\ code'[i - 1] = 18 /\ code'[i] = loaded'[i]
  BY DispatchEffect DEF FootprintOfCall
<1>1. i \in Nat /\ i \in Int
  BY DEF CodeOK
<1>2. i > pc' => code'[i] = loaded'[i]
  BY <1>0, <1>1, DispatchEffect DEF FootprintOfCall
<1>3. CASE i < pc
  <2>1. code'[i] = code[i]
    BY <1>0, <1>1, <1>3, DispatchEffect
  <2>2. CASE code[i] \in Spent
    BY <1>2, <2>1, <2>2
  <2>3. CASE i > 0 /\ code[i - 1] = 18 /\ code[i] = loaded[i]
    <3>0. CodeLength \in Nat
      BY FS_CardinalityType DEF CodeOK, CodeLength
    <3>1. i - 1 \in DOMAIN code \ {pc}
      BY <1>0, <1>1, <1>3, <2>3, <3>0 DEF CodeOK
    <3>2. code'[i - 1] = 18
      BY <2>3, <3>1, DispatchEffect
    <3> QED
      BY <1>2, <2>1, <2>3, <3>2, DispatchEffect
  <2> QED
    BY <1>3, <2>2, <2>3 DEF FootprintOfCall
<1>4. CASE i = pc /\ i < pc'
  <2>1. op \in {16, 17} \cup (21 .. 25) \cup (54 .. 58)
    BY <1>0, <1>4 DEF Moves
  <2>2. code'[i] = op + 1
    BY <1>4, <2>1, DispatchEffect
  <2> QED
    BY <1>2, <2>1, <2>2 DEF Spent
<1>5. CASE i > pc /\ i < pc'
  <2>1. op = 17 /\ i = pc + 1
    BY <1>0, <1>1, <1>5 DEF Moves
  <2>2. code'[i - 1] = 18
    BY <1>0, <2>1, DispatchEffect
  <2>3. code'[i] = loaded'[i]
    BY <1>0, <1>5, <2>1, DispatchEffect DEF FootprintOfCall
  <2> QED
    BY <1>0, <1>2, <2>1, <2>2, <2>3
<1> QED
  BY <1>0, <1>1, <1>2, <1>3, <1>4, <1>5

-----------------------------------------------------------------------------
\* The invariant holds before the first call.
LEMMA InitIInv == Init => IInv
<1> SUFFICES ASSUME Init PROVE IInv
  OBVIOUS
<1>1. CodeOK
  <2>1. IsFiniteSet(DOMAIN code) /\ DOMAIN code = 0 .. CodeLength - 1
    BY InterpreterAssumption DEF Init, CodeLength
  <2>2. code \in [0 .. CodeLength - 1 -> Byte]
    BY InterpreterAssumption DEF Init, CodeLength
  <2> QED
    BY <2>1, <2>2 DEF Init, CodeOK
<1> QED
  BY <1>1 DEF IInv, Init, Footprint

\* Every step keeps it: a call starts at the first byte with nothing behind it.
LEMMA NextIInv == IInv /\ [Next]_vars => IInv'
<1> SUFFICES ASSUME IInv, [Next]_vars PROVE IInv'
  OBVIOUS
<1>1. CASE Call
  <2>1. CodeOK'
    BY <1>1 DEF IInv, CodeOK, Call, frame, CodeLength
  <2>2. CASE status' = "running"
    BY <1>1, <2>1, <2>2 DEF IInv, CodeOK, Call, Footprint, frame
  <2>3. CASE status' # "running"
    BY <2>1, <2>3 DEF IInv, Footprint
  <2> QED
    BY <2>2, <2>3
<1>2. CASE FallOffTheEnd
  BY <1>2 DEF IInv, CodeOK, Footprint, FallOffTheEnd, frame, CodeLength
<1>3. CASE DispatchOne
  <2>1. FootprintOfCall
    BY <1>3, DispatchEffect DEF IInv, Footprint, FootprintOfCall
  <2>2. CodeOK' /\ FootprintOfCall'
    BY <1>3, <2>1, DispatchKeepsCode, DispatchFootprint DEF IInv
  <2> QED
    BY <2>2 DEF IInv, Footprint, FootprintOfCall
<1>4. CASE UNCHANGED vars
  BY <1>4 DEF IInv, CodeOK, Footprint, vars, frame, CodeLength
<1> QED
  BY <1>1, <1>2, <1>3, <1>4, StepIsDispatch DEF Next, IInv

\* The inductive invariant of the interpreter.
THEOREM Invariant == Spec => []IInv
BY InitIInv, NextIInv, PTL DEF Spec

\* What a call does to its code: nothing ahead of pc, and behind it only opcodes
\* counted up to one that reads operands.
THEOREM FootprintHolds == Spec => []Footprint
<1>1. IInv => Footprint
  BY DEF IInv
<1> QED
  BY <1>1, Invariant, PTL

\* A dispatched byte is one nearer to the end of the table.
LEMMA DispatchUsesUp ==
  ASSUME CodeOK, DispatchOne, Survives, status' # "lost"
  PROVE  /\ Left(code'[pc]) < Left(code[pc])
         /\ \A j \in DOMAIN code \ {pc} : code'[j] = code[j]
<1>1. code[pc] \in Byte /\ code[pc] \notin 205 .. 253
  <2>1. pc \in DOMAIN code
    BY DispatchEffect
  <2> QED
    BY <2>1 DEF CodeOK, Survives
<1>2. CASE code[pc] \in 0 .. 204
  BY <1>2, DispatchEffect DEF Left
<1>3. CASE code[pc] \in {254, 255}
  BY <1>3, DispatchEffect DEF Left
<1> QED
  BY <1>1, <1>2, <1>3, DispatchEffect DEF Byte

\* Every dispatch that a call survives brings one byte of the code nearer to the
\* end of the table, and no byte ever goes back: the variant behind termination.
THEOREM BytesAreUsedUp == Spec => UsesUpBytes
<1>1. IInv /\ [Next]_vars =>
        (status = "running" /\ code' # code /\ status' # "lost" =>
           \E i \in DOMAIN code : /\ Left(code'[i]) < Left(code[i])
                                  /\ \A j \in DOMAIN code \ {i} : code'[j] = code[j])
  <2> SUFFICES ASSUME IInv, [Next]_vars, status = "running", code' # code, status' # "lost"
               PROVE  \E i \in DOMAIN code : /\ Left(code'[i]) < Left(code[i])
                                             /\ \A j \in DOMAIN code \ {i} : code'[j] = code[j]
    OBVIOUS
  <2>1. Step
    BY DEF Next, Call, vars
  <2>2. DispatchOne /\ Survives
    BY <2>1, StepIsDispatch DEF FallOffTheEnd, IInv
  <2>3. pc \in DOMAIN code
    BY <2>2, DispatchEffect DEF IInv
  <2> QED
    BY <2>2, <2>3, DispatchUsesUp DEF IInv
<1> QED
  BY <1>1, Invariant, PTL DEF Spec, UsesUpBytes

-----------------------------------------------------------------------------
(***************************************************************************)
(* Type correctness.                                                       *)
(***************************************************************************)

\* The arithmetic instructions (IADD to FREM).
LEMMA BinaryType ==
  ASSUME NEW c \in Nat, NEW s, IsStack(s, Word, c), NEW n \in Nat
  PROVE  IsStack(Binary(s, n), Word, c)
<1> DEFINE rest     == ArrayStackPop(s, n)
           operands == Popped(s, n) \o Popped(rest, n)
           result   == IF \E i \in DOMAIN operands : operands[i] = GARBAGE THEN GARBAGE
                                                                          ELSE "value"
<1>1. IsStack(ArrayStackPop(rest, n), Word, c)
  BY PopType
<1>2. result \in Word
  BY DEF Word
<1>3. [i \in 1 .. n |-> result] \in Seq(Word)
  <2> HIDE DEF result
  <2> QED
    BY <1>2
<1>4. Binary(s, n) = ArrayStackPush(ArrayStackPop(rest, n), [i \in 1 .. n |-> result])
  BY DEF Binary
<1> QED
  <2> HIDE DEF rest, result
  <2> QED
    BY <1>1, <1>3, <1>4, PushType

\* A value that a handler pushes.
LEMMA ValuesType ==
  ASSUME NEW n \in Nat
  PROVE  Values(n) \in Seq(Word)
BY DEF Values, Word

\* Words loaded from the locals, or from behind them.
LEMMA LocalsType ==
  ASSUME locals \in [0 .. MaxLocals - 1 -> Word], NEW i \in Nat, NEW n \in Nat
  PROVE  Locals(i, n) \in Seq(Word)
<1>1. ASSUME NEW k \in 1 .. n
      PROVE  (IF i + k - 1 < MaxLocals THEN locals[i + k - 1] ELSE GARBAGE) \in Word
  BY InterpreterAssumption DEF Word
<1> QED
  BY <1>1 DEF Locals

\* The state of a frame and of its caller, apart from code and pc.
FrameOK ==
  /\ IsStack(opstack, Word, MaxStack) /\ IsStack(caller, Word, CallerStack)
  /\ locals \in [0 .. MaxLocals - 1 -> Word]
  /\ prev \in BOOLEAN /\ unset \in BOOLEAN
  /\ status \in {"idle", "running", "lost"}

\* What a handler pops off the operand stack, and what it leaves of it.
LEMMA OperandsPopped ==
  ASSUME FrameOK, NEW n \in Nat
  PROVE  /\ Popped(opstack, n) \in Seq(Word) /\ Len(Popped(opstack, n)) = n
         /\ IsStack(ArrayStackPop(opstack, n), Word, MaxStack)
<1>1. GARBAGE \in Word /\ MaxStack \in Nat /\ IsStack(opstack, Word, MaxStack)
  BY InterpreterAssumption DEF Word, FrameOK
<1>2. Popped(opstack, n) \in Seq(Word) /\ Len(Popped(opstack, n)) = n
  BY <1>1, PoppedType
<1>3. IsStack(ArrayStackPop(opstack, n), Word, MaxStack)
  BY <1>1, PopType
<1> QED
  BY <1>2, <1>3

\* Every handler keeps the operand stacks and the locals what they are.
LEMMA StepFrame ==
  ASSUME CodeOK, FrameOK, Step
  PROVE  FrameOK'
<1>0. /\ MaxStack \in Nat /\ CallerStack \in Nat /\ GARBAGE \in Word
      /\ \A i \in 1 .. 5 : Width[i] \in {1, 2}
  BY InterpreterAssumption DEF Width, Word
<1> USE <1>0
<1> DEFINE op == code[pc]
<1>1. CASE FallOffTheEnd
  BY <1>1 DEF FallOffTheEnd, frame, FrameOK
<1>2. CASE PushConstant
  <2>1. IsStack(opstack', Word, MaxStack)
    BY <1>2, PushType, ValuesType DEF PushConstant, FrameOK
  <2> QED
    BY <1>2, <2>1 DEF PushConstant, Dispatch, Continue, FrameOK
<1>3. CASE PushImmediate
  <2>1. IsStack(opstack', Word, MaxStack)
    BY <1>3, PushType, ValuesType DEF PushImmediate, FrameOK
  <2> QED
    BY <1>3, <2>1 DEF PushImmediate, Dispatch, Continue, FrameOK
<1>4. ASSUME NEW i \in Nat, NEW n \in {1, 2}, LoadWords(i, n), prev' = prev
      PROVE  FrameOK'
  <2>1. IsStack(opstack', Word, MaxStack)
    BY <1>4, PushType, LocalsType DEF LoadWords, FrameOK
  <2>2. unset' \in BOOLEAN
    BY <1>4 DEF LoadWords, FrameOK
  <2> QED
    BY <1>4, <2>1, <2>2 DEF LoadWords, Continue, FrameOK
<1>5. CASE Load
  <2>1. op \in 21 .. 25 /\ prev' = prev
    BY <1>5 DEF Load, Dispatch
  <2> QED
    BY <1>4, <1>5, <2>1 DEF Load
<1>6. CASE LoadN
  <2>1. op \in 26 .. 45 /\ prev' = prev
    BY <1>6 DEF LoadN, Dispatch
  <2>2. (op - 26) % 4 \in Nat /\ ((op - 26) \div 4) + 1 \in 1 .. 5
    BY <2>1
  <2> QED
    BY <1>4, <1>6, <2>1, <2>2 DEF LoadN
<1>7. ASSUME NEW i \in Nat, NEW n \in {1, 2}, StoreWords(i, n), prev' = prev
      PROVE  FrameOK'
  <2> DEFINE words == Popped(opstack, n)
             after == ArrayStackPop(opstack, n)
  <2>1. words \in Seq(Word) /\ Len(words) = n /\ IsStack(after, Word, MaxStack)
    <3>1. n \in Nat
      OBVIOUS
    <3> QED
      BY <3>1, OperandsPopped
  <2>2. locals' \in [0 .. MaxLocals - 1 -> Word]
    BY <1>7, <2>1 DEF StoreWords, FrameOK
  <2>3. IsStack([after EXCEPT !.data = Garbage(Len(after.data))], Word, MaxStack)
    <3> DEFINE m    == Len(after.data)
               data == Garbage(m)
    <3>1. m \in Nat /\ m <= MaxStack
      BY <2>1 DEF IsStack
    <3>2. data \in Seq(Word) /\ Len(data) = m
      <4> HIDE DEF m
      <4> QED
        BY <3>1 DEF Garbage, Word
    <3> HIDE DEF data, m
    <3>3. IsStack([after EXCEPT !.data = data], Word, MaxStack)
      BY <2>1, <3>1, <3>2 DEF IsStack
    <3> QED
      BY <3>3 DEF data, m
  <2>4. IsStack(opstack', Word, MaxStack)
    BY <1>7, <2>1, <2>3 DEF StoreWords
  <2>5. unset' \in BOOLEAN /\ status' \in {"idle", "running", "lost"} /\ caller' = caller
    BY <1>7 DEF StoreWords, Continue, Lose, FrameOK
  <2> QED
    BY <1>7, <2>2, <2>4, <2>5 DEF FrameOK
<1>8. CASE Store
  <2>1. op \in 54 .. 58 /\ prev' = prev
    BY <1>8 DEF Store, Dispatch
  <2> QED
    BY <1>7, <1>8, <2>1 DEF Store
<1>9. CASE StoreN
  <2>1. op \in 59 .. 78 /\ prev' = prev
    BY <1>9 DEF StoreN, Dispatch
  <2>2. (op - 59) % 4 \in Nat /\ ((op - 59) \div 4) + 1 \in 1 .. 5
    BY <2>1
  <2> QED
    BY <1>7, <1>9, <2>1, <2>2 DEF StoreN
<1>10. CASE StackInstruction
  <2>1. op \in 87 .. 95
    BY <1>10 DEF StackInstruction, Dispatch
  <2>2. IsStack(opstack', Word, MaxStack)
    <3>1. /\ IsStack(POP(opstack), Word, MaxStack) /\ IsStack(POP2(opstack), Word, MaxStack)
          /\ IsStack(DUP(opstack), Word, MaxStack) /\ IsStack(DUP_X1(opstack), Word, MaxStack)
          /\ IsStack(DUP_X2(opstack), Word, MaxStack) /\ IsStack(DUP2(opstack), Word, MaxStack)
          /\ IsStack(DUP2_X1(opstack), Word, MaxStack) /\ IsStack(DUP2_X2(opstack), Word, MaxStack)
          /\ IsStack(SWAP(opstack), Word, MaxStack)
      BY PopType, StackInstructionType
         DEF FrameOK, POP, POP2, DUP, DUP_X1, DUP_X2, DUP2, DUP2_X1, DUP2_X2
    <3> QED
      BY <1>10, <2>1, <3>1 DEF StackInstruction
  <2> QED
    BY <1>10, <2>2 DEF StackInstruction, Dispatch, Continue, FrameOK
<1>11. CASE Arithmetic
  <2>1. ((op - 96) % 4) + 1 \in 1 .. 5
    BY <1>11 DEF Arithmetic, Dispatch
  <2>2. IsStack(opstack', Word, MaxStack)
    <3> DEFINE n == Width[((op - 96) % 4) + 1]
    <3>1. n \in Nat /\ IsStack(opstack, Word, MaxStack)
      BY <2>1 DEF FrameOK
    <3>2. IsStack(Binary(opstack, n), Word, MaxStack)
      <4> HIDE DEF n
      <4> QED
        BY <3>1, BinaryType
    <3> QED
      BY <1>11, <3>2 DEF Arithmetic
  <2> QED
    BY <1>11, <2>2 DEF Arithmetic, Dispatch, Continue, Lose, FrameOK
<1>12. CASE ReturnValue
  <2>1. op - 189 \in 1 .. 5
    BY <1>12 DEF ReturnValue, Dispatch
  <2>2. IsStack(opstack', Word, MaxStack) /\ IsStack(caller', Word, CallerStack)
    <3> DEFINE n == Width[op - 189]
    <3>1. n \in {1, 2}
      BY <2>1
    <3>2. IsStack(ArrayStackPop(opstack, n), Word, MaxStack) /\ Popped(opstack, n) \in Seq(Word)
      <4>1. n \in Nat /\ IsStack(opstack, Word, MaxStack)
        BY <3>1 DEF FrameOK
      <4> HIDE DEF n
      <4> QED
        BY <4>1, PopType, PoppedType
    <3>3. IsStack(ArrayStackPush(caller, Popped(opstack, n)), Word, CallerStack)
      BY <3>2, PushType DEF FrameOK
    <3> QED
      BY <1>12, <3>2, <3>3 DEF ReturnValue, FrameOK
  <2> QED
    BY <1>12, <2>2 DEF ReturnValue, Dispatch, Continue, FrameOK
<1>13. CASE Break
  BY <1>13 DEF Break, Dispatch, FrameOK
<1>14. CASE NoOperation
  BY <1>14 DEF NoOperation, Dispatch, Continue, FrameOK
<1>15. CASE OutsideTable
  BY <1>15 DEF OutsideTable, Dispatch, Wild, Lose, FrameOK
<1> QED
  BY <1>1, <1>2, <1>3, <1>5, <1>6, <1>8, <1>9, <1>10, <1>11, <1>12, <1>13, <1>14, <1>15 DEF Step

\* A call sets up an empty frame (Call).
LEMMA CallFrame ==
  ASSUME FrameOK, Call
  PROVE  FrameOK'
<1>1. MaxStack \in Nat /\ CallerStack \in Nat
  BY InterpreterAssumption
<1>2. /\ opstack.log \in SUBSET {"overflow", "underflow"}
      /\ caller.log \in SUBSET {"overflow", "underflow"}
  BY DEF FrameOK, IsStack
<1>3. /\ IsStack(CreateArrayStack(MaxStack, opstack.log), Word, MaxStack)
      /\ IsStack(CreateArrayStack(CallerStack, caller.log), Word, CallerStack)
  BY <1>1, <1>2, CreateType
<1>4. CASE status' = "lost" /\ UNCHANGED <<code, loaded, frame>>
  BY <1>4 DEF frame, FrameOK
<1>5. CASE status' = "running"
  BY <1>3, <1>5 DEF Call, FrameOK, Word
<1> QED
  BY <1>4, <1>5 DEF Call

\* A pc past the code is past it by at most the byte SIPUSH reads too much.
PcOK == pc <= CodeLength + 1

\* Operand stacks stay within their capacities, locals and code keep their
\* shape, and pc stays at most one byte past the end of the code.
THEOREM TypeCorrect == Spec => []TypeOK
<1> DEFINE Typed == CodeOK /\ FrameOK /\ PcOK
<1>1. Init => Typed
  <2> SUFFICES ASSUME Init PROVE Typed
    OBVIOUS
  <2>1. CodeOK /\ CodeLength \in Nat
    BY InitIInv, FS_CardinalityType DEF IInv, CodeOK, CodeLength
  <2>2. FrameOK
    BY InterpreterAssumption, CreateType DEF Init, FrameOK, Word
  <2> QED
    BY <2>1, <2>2 DEF Init, PcOK
<1>2. IInv /\ IInv' /\ Typed /\ [Next]_vars => Typed'
  <2> SUFFICES ASSUME IInv, IInv', Typed, [Next]_vars PROVE Typed'
    OBVIOUS
  <2>1. CodeOK' /\ CodeLength \in Nat /\ CodeLength' \in Nat
    BY FS_CardinalityType DEF IInv, CodeOK, CodeLength
  <2>2. FrameOK'
    <3>1. CASE UNCHANGED vars
      BY <3>1 DEF vars, frame, FrameOK
    <3> QED
      BY <3>1, StepFrame, CallFrame DEF Next
  <2>3. PcOK'
    <3>1. CASE Call
      BY <2>1, <3>1 DEF Call, PcOK, frame, CodeLength
    <3>2. CASE FallOffTheEnd \/ UNCHANGED vars
      BY <3>2 DEF FallOffTheEnd, vars, PcOK, frame, CodeLength
    <3>3. CASE DispatchOne
      <4>1. CodeLength' = CodeLength
        BY <3>3, DispatchEffect DEF CodeLength
      <4>2. pc \in Nat /\ pc < CodeLength /\ Moves(code[pc]) \in {0, 1, 2}
        BY <3>3 DEF DispatchOne, Dispatch, CodeOK, Moves
      <4> QED
        BY <2>1, <3>3, <4>1, <4>2, DispatchEffect DEF PcOK
    <3> QED
      BY <3>1, <3>2, <3>3, StepIsDispatch DEF Next
  <2> QED
    BY <2>1, <2>2, <2>3
<1>3. Typed => TypeOK
  <2> SUFFICES ASSUME Typed PROVE TypeOK
    OBVIOUS
  <2>1. CodeLength \in Nat
    BY FS_CardinalityType DEF CodeOK, CodeLength
  <2> QED
    BY <2>1 DEF CodeOK, FrameOK, PcOK, TypeOK, Stack, IsStack
<1> QED
  BY <1>1, <1>2, <1>3, Invariant, PTL DEF Spec

-----------------------------------------------------------------------------
(***************************************************************************)
(* What was never written leaves a frame only after an underflow has been  *)
(* reported or a local was read, or a store made, astray.                  *)
(***************************************************************************)

\* The excuses for garbage on the caller's stack are those for garbage on the
\* stack of the frame that put it there; the frame's log outlives it.
Clean == Reported(opstack, unset) /\ CleanResult

\* An arithmetic instruction computes garbage only from garbage.
LEMMA BinaryReports ==
  ASSUME NEW c \in Nat, NEW s, IsStack(s, Word, c), NEW n \in Nat, NEW excuse \in BOOLEAN,
         Reported(s, excuse)
  PROVE  Reported(Binary(s, n), excuse) /\ s.log \subseteq Binary(s, n).log
<1> DEFINE rest     == ArrayStackPop(s, n)
           last     == ArrayStackPop(rest, n)
           a        == Popped(s, n)
           b        == Popped(rest, n)
           result   == IF \E i \in DOMAIN (a \o b) : (a \o b)[i] = GARBAGE THEN GARBAGE
                                                                          ELSE "value"
           words    == [i \in 1 .. n |-> result]
<1>0. GARBAGE \in Word
  BY DEF Word
<1>1. /\ IsStack(rest, Word, c) /\ Reported(rest, excuse) /\ s.log \subseteq rest.log
      /\ a \in Seq(Word)
      /\ Dirty(a) => "underflow" \in rest.log \/ excuse
  <2>1. IsStack(rest, Word, c) /\ a \in Seq(Word)
    BY <1>0, PopType, PoppedType
  <2> QED BY <2>1, PopReports
<1>2. /\ IsStack(last, Word, c) /\ Reported(last, excuse) /\ rest.log \subseteq last.log
      /\ b \in Seq(Word)
      /\ Dirty(b) => "underflow" \in last.log \/ excuse
  <2> HIDE DEF rest
  <2>1. IsStack(last, Word, c) /\ b \in Seq(Word)
    BY <1>0, <1>1, PopType, PoppedType
  <2> QED BY <1>1, <2>1, PopReports
<1>3. Binary(s, n) = ArrayStackPush(last, words)
  BY DEF Binary
<1> HIDE DEF rest, last, a, b
<1>4. (\E i \in DOMAIN (a \o b) : (a \o b)[i] = GARBAGE) => Dirty(a) \/ Dirty(b)
  <2> SUFFICES ASSUME NEW i \in DOMAIN (a \o b), (a \o b)[i] = GARBAGE
               PROVE  Dirty(a) \/ Dirty(b)
    OBVIOUS
  <2>1. i \in 1 .. Len(a) + Len(b)
    BY <1>1, <1>2
  <2>2. CASE i <= Len(a)
    <3>1. i \in DOMAIN a /\ a[i] = GARBAGE
      BY <1>1, <1>2, <2>1, <2>2
    <3> QED BY <3>1 DEF Dirty
  <2>3. CASE i > Len(a)
    <3>1. i - Len(a) \in DOMAIN b /\ b[i - Len(a)] = GARBAGE
      BY <1>1, <1>2, <2>1, <2>3
    <3> QED BY <3>1 DEF Dirty
  <2> QED BY <1>1, <2>1, <2>2, <2>3
<1>5. words \in Seq(Word) /\ (Dirty(words) => result = GARBAGE)
  <2>1. result \in Word
    BY DEF Word
  <2> HIDE DEF result
  <2> QED BY <2>1 DEF Dirty
<1>6. result = GARBAGE => Dirty(a) \/ Dirty(b)
  BY <1>4 DEF GARBAGE
<1> HIDE DEF words, result
<1>7. Dirty(words) => "underflow" \in last.log \/ excuse
  <2>1. Dirty(words) => Dirty(a) \/ Dirty(b)
    BY <1>5, <1>6
  <2>2. Dirty(a) => "underflow" \in last.log \/ excuse
    BY <1>1, <1>2
  <2> QED BY <1>2, <2>1, <2>2
<1> QED BY <1>1, <1>2, <1>3, <1>5, <1>7, PushReports

\* A handler that works on the operand stack alone and reports what it has to.
LEMMA StackOnly ==
  ASSUME Clean, Reported(opstack', unset), opstack.log \subseteq opstack'.log,
         UNCHANGED <<caller, unset>>
  PROVE  Clean'
BY DEF Clean, CleanResult, Reported, Dirty

\* Every handler passes garbage on only with its excuse.
LEMMA StepClean ==
  ASSUME CodeOK, FrameOK, Clean, Step
  PROVE  Clean'
<1>0. /\ MaxStack \in Nat /\ CallerStack \in Nat /\ GARBAGE \in Word
      /\ \A i \in 1 .. 5 : Width[i] \in {1, 2}
      /\ IsStack(opstack, Word, MaxStack) /\ IsStack(caller, Word, CallerStack)
      /\ unset \in BOOLEAN /\ Reported(opstack, unset)
  BY InterpreterAssumption DEF Width, Word, FrameOK, Clean
<1> DEFINE op == code[pc]
<1>1. ASSUME UNCHANGED <<opstack, caller, unset>> PROVE Clean'
  BY <1>1 DEF Clean, CleanResult, Reported, Dirty
<1>2. ASSUME NEW n \in {1, 2}, opstack' = ArrayStackPush(opstack, Values(n)),
             UNCHANGED <<caller, unset>>
      PROVE  Clean'
  <2>1. Values(n) \in Seq(Word) /\ ~ Dirty(Values(n))
    BY DEF Values, Word, Dirty, GARBAGE
  <2>2. Reported(opstack', unset) /\ opstack.log \subseteq opstack'.log
    BY <1>0, <1>2, <2>1, PushReports
  <2> QED BY <1>2, <2>2, StackOnly
<1>3. CASE PushConstant
  BY <1>2, <1>3 DEF PushConstant
<1>4. CASE PushImmediate
  BY <1>2, <1>4 DEF PushImmediate
<1>5. ASSUME NEW i \in Nat, NEW n \in {1, 2}, LoadWords(i, n)
      PROVE  Clean'
  <2>1. /\ opstack' = ArrayStackPush(opstack, Locals(i, n)) /\ caller' = caller
        /\ unset' = (unset \/ \E k \in 1 .. n : Locals(i, n)[k] = GARBAGE)
    BY <1>5 DEF LoadWords
  <2>2. Locals(i, n) \in Seq(Word) /\ unset' \in BOOLEAN /\ (unset => unset')
    BY <1>0, <2>1, LocalsType DEF FrameOK
  <2>3. Dirty(Locals(i, n)) => unset'
    <3>1. DOMAIN Locals(i, n) = 1 .. n
      BY DEF Locals
    <3> QED BY <2>1, <3>1 DEF Dirty
  <2>4. Reported(opstack, unset')
    BY <1>0, <2>2 DEF Reported
  <2>5. Reported(opstack', unset') /\ opstack.log \subseteq opstack'.log
    BY <1>0, <2>1, <2>2, <2>3, <2>4, PushReports
  <2> QED BY <2>1, <2>2, <2>5 DEF Clean, CleanResult, Reported
<1>6. CASE Load
  <2>1. op \in 21 .. 25
    BY <1>6 DEF Load, Dispatch
  <2> QED BY <1>0, <1>5, <1>6, <2>1 DEF Load
<1>7. CASE LoadN
  <2>1. op \in 26 .. 45
    BY <1>7 DEF LoadN, Dispatch
  <2>2. (op - 26) % 4 \in Nat /\ ((op - 26) \div 4) + 1 \in 1 .. 5
    BY <2>1
  <2> QED BY <1>0, <1>5, <1>7, <2>2 DEF LoadN
<1>8. ASSUME NEW i \in Nat, NEW n \in {1, 2}, StoreWords(i, n)
      PROVE  Clean'
  <2> DEFINE after == ArrayStackPop(opstack, n)
  <2>1. Reported(after, unset) /\ opstack.log \subseteq after.log
    BY <1>0, PopReports
  <2>2. CASE opstack' = after /\ UNCHANGED <<caller, unset>>
    BY <2>1, <2>2, StackOnly
  <2>3. CASE unset' = TRUE /\ caller' = caller
    BY <2>3 DEF Clean, CleanResult, Reported
  <2> QED BY <1>8, <2>2, <2>3 DEF StoreWords
<1>9. CASE Store
  <2>1. op \in 54 .. 58
    BY <1>9 DEF Store, Dispatch
  <2> QED BY <1>0, <1>8, <1>9, <2>1 DEF Store
<1>10. CASE StoreN
  <2>1. op \in 59 .. 78
    BY <1>10 DEF StoreN, Dispatch
  <2>2. (op - 59) % 4 \in Nat /\ ((op - 59) \div 4) + 1 \in 1 .. 5
    BY <2>1
  <2> QED BY <1>0, <1>8, <1>10, <2>2 DEF StoreN
<1>11. CASE StackInstruction
  <2> DEFINE Good(s) == Reported(s, unset) /\ opstack.log \subseteq s.log
  <2>1. op \in 87 .. 95
    BY <1>11 DEF StackInstruction, Dispatch
  <2>2. \A n \in Nat : Good(ArrayStackPop(opstack, n))
    BY <1>0, PopReports
  <2>3. \A n, k \in Nat : Good(DupN(opstack, n)) /\ Good(DupX(opstack, n, k)) /\ Good(SWAP(opstack))
    BY <1>0, StackInstructionReports
  <2> HIDE DEF Good
  <2>4. /\ Good(POP(opstack)) /\ Good(POP2(opstack)) /\ Good(DUP(opstack)) /\ Good(DUP_X1(opstack))
        /\ Good(DUP_X2(opstack)) /\ Good(DUP2(opstack)) /\ Good(DUP2_X1(opstack))
        /\ Good(DUP2_X2(opstack)) /\ Good(SWAP(opstack))
    BY <2>2, <2>3 DEF POP, POP2, DUP, DUP_X1, DUP_X2, DUP2, DUP2_X1, DUP2_X2
  <2>5. Good(opstack')
    BY <1>11, <2>1, <2>4 DEF StackInstruction
  <2> QED BY <1>11, <2>5, StackOnly DEF StackInstruction, Good
<1>12. CASE Arithmetic
  <2> DEFINE n == Width[((op - 96) % 4) + 1]
  <2>1. ((op - 96) % 4) + 1 \in 1 .. 5
    BY <1>12 DEF Arithmetic, Dispatch
  <2>2. n \in Nat /\ opstack' = Binary(opstack, n) /\ UNCHANGED <<caller, unset>>
    BY <1>0, <1>12, <2>1 DEF Arithmetic
  <2> HIDE DEF n
  <2> QED BY <1>0, <2>2, BinaryReports, StackOnly
<1>13. CASE ReturnValue
  <2> DEFINE n == Width[op - 189]
  <2>1. op - 189 \in 1 .. 5
    BY <1>13 DEF ReturnValue, Dispatch
  <2>2. n \in Nat /\ unset' = unset
    BY <1>0, <1>13, <2>1 DEF ReturnValue
  <2>3. \/ /\ opstack' = ArrayStackPop(opstack, n)
           /\ caller' = ArrayStackPush(caller, Popped(opstack, n))
        \/ UNCHANGED <<opstack, caller>>
    BY <1>13 DEF ReturnValue
  <2> HIDE DEF n
  <2>4. CASE /\ opstack' = ArrayStackPop(opstack, n)
             /\ caller' = ArrayStackPush(caller, Popped(opstack, n))
    <3> DEFINE words == Popped(opstack, n)
    <3>1. /\ Reported(opstack', unset) /\ opstack.log \subseteq opstack'.log
          /\ Dirty(words) => "underflow" \in opstack'.log \/ unset
      BY <1>0, <2>2, <2>4, PopReports
    <3>2. words \in Seq(Word)
      BY <1>0, <2>2, PoppedType
    <3>3. Dirty(caller'.data) => Dirty(caller.data) \/ Dirty(words)
      <4> HIDE DEF words
      <4>1. Dirty(ArrayStackPush(caller, words).data) => Dirty(caller.data) \/ Dirty(words)
        BY <1>0, <3>2, PushAdds
      <4> QED BY <2>4, <4>1 DEF words
    <3> QED BY <2>2, <3>1, <3>3 DEF Clean, CleanResult, Dirty
  <2>5. CASE UNCHANGED <<opstack, caller>>
    BY <1>1, <2>2, <2>5
  <2> QED BY <2>3, <2>4, <2>5
<1> QED
  BY <1>1, <1>3, <1>4, <1>6, <1>7, <1>9, <1>10, <1>11, <1>12, <1>13
     DEF Step, FallOffTheEnd, Break, NoOperation, OutsideTable, frame

\* A new frame is empty, and its log goes on.
LEMMA CallClean ==
  ASSUME Clean, Call
  PROVE  Clean'
<1>1. CASE UNCHANGED frame
  BY <1>1 DEF frame, Clean, CleanResult, Reported, Dirty
<1>2. CASE /\ opstack' = CreateArrayStack(MaxStack, opstack.log) /\ unset' = unset
           /\ caller' \in {caller, CreateArrayStack(CallerStack, caller.log)}
  <2>1. opstack'.data = <<>> /\ opstack'.log = opstack.log
        /\ (caller' = caller \/ caller'.data = <<>>)
    BY <1>2 DEF CreateArrayStack
  <2> QED BY <1>2, <2>1 DEF Clean, CleanResult, Reported, Dirty
<1> QED BY <1>1, <1>2 DEF Call

\* Left-over memory reaches the caller's stack only if an underflow was reported
\* or a local was read, or a store made, astray, over any number of calls.
THEOREM ResultIsClean == Spec => []CleanResult
<1> DEFINE Typed == CodeOK /\ FrameOK
<1>1. Init => Typed /\ Clean
  <2> SUFFICES ASSUME Init PROVE Typed /\ Clean
    OBVIOUS
  <2>1. CodeOK
    BY InitIInv DEF IInv
  <2>2. FrameOK
    BY InterpreterAssumption, CreateType DEF Init, FrameOK, Word
  <2>3. opstack.data = <<>> /\ caller.data = <<>>
    BY DEF Init, CreateArrayStack
  <2> QED BY <2>1, <2>2, <2>3 DEF Clean, CleanResult, Reported, Dirty
<1>2. IInv /\ IInv' /\ Typed /\ Clean /\ [Next]_vars => Typed' /\ Clean'
  <2> SUFFICES ASSUME IInv, IInv', Typed, Clean, [Next]_vars PROVE Typed' /\ Clean'
    OBVIOUS
  <2>1. CASE UNCHANGED vars
    BY <2>1 DEF vars, frame, FrameOK, IInv, Clean, CleanResult, Reported, Dirty
  <2>2. CASE Next
    BY <2>2, StepFrame, CallFrame, StepClean, CallClean DEF Next, IInv
  <2> QED BY <2>1, <2>2
<1>3. Clean => CleanResult
  BY DEF Clean
<1> QED
  BY <1>1, <1>2, <1>3, Invariant, PTL DEF Spec

=============================================================================
