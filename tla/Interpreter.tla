----------------------------- MODULE Interpreter ----------------------------
(***************************************************************************)
(* ThreadCurrentExecute: the frame of one method, and the loop that        *)
(* dispatches its opcodes.  An embedder calls it again and again for the   *)
(* same method, with a frame of its own as the caller (ctx) or without.    *)
(*                                                                         *)
(* The loop does not advance pc: "( *pc)++" increments the opcode in       *)
(* memory.  Only the handlers that read operands move pc, and they read    *)
(* from the opcode itself on.                                              *)
(*                                                                         *)
(* Values are abstracted to whether somebody set them (see ArrayStack);    *)
(* opcodes are their numbers, because the code counts through them.        *)
(***************************************************************************)
EXTENDS ArrayStack, Integers, FiniteSets

CONSTANTS
  Codes,          \* the bytes that may lie where a code attribute is looked for
  MaxStack,       \* max_stack and max_locals, in words
  MaxLocals,
  CallerStack,    \* capacity of the operand stack of the embedder's frame
  AddressWords    \* sizeof(VirtualAddress) in words: 2, or 1 on 32-bit targets

Byte == 0 .. 255

ASSUME InterpreterAssumption ==
  /\ \A c \in Codes :
       IsFiniteSet(DOMAIN c) /\ c \in [0 .. Cardinality(DOMAIN c) - 1 -> Byte]
  /\ MaxStack \in Nat /\ MaxLocals \in Nat /\ CallerStack \in Nat
  /\ AddressWords \in {1, 2}

VARIABLES
  code,       \* the bytes at code.code
  loaded,     \* what they were when the present call began
  pc,         \* offset of pc from code.code
  opstack,    \* frame.opstack; its log outlives the frame
  locals,     \* frame.localvars
  prev,       \* whether the frame has a caller (ctx # NULL)
  caller,     \* ctx->opstack
  unset,      \* a local that holds no value was loaded, or a store went astray
  status      \* "idle", "running", or "lost": the call crashed, or what it does
              \* from here on is undefined

frame == <<pc, opstack, locals, prev, caller, unset>>
vars == <<code, loaded, frame, status>>

CodeLength == Cardinality(DOMAIN code)

-----------------------------------------------------------------------------
(***************************************************************************)
(* The call.  GetCodeAttribute is handed the code attribute where it       *)
(* expects the Method, and follows the 8 bytes it finds at code_attr_off:  *)
(* the call crashes, or runs whatever bytes lie there.                     *)
(***************************************************************************)
Call ==
  /\ status = "idle"
  /\ \/ status' = "lost" /\ UNCHANGED <<code, loaded, frame>>
     \/ /\ status' = "running"
        /\ loaded' = code /\ pc' = 0
        /\ opstack' = CreateArrayStack(MaxStack, opstack.log)
        /\ locals' = [i \in 0 .. MaxLocals - 1 |-> GARBAGE]
        /\ prev' \in BOOLEAN
        /\ caller' \in {caller, CreateArrayStack(CallerStack, caller.log)}
        /\ UNCHANGED <<code, unset>>

\* The loop's condition fails: the method ends without a return.
FallOffTheEnd ==
  /\ status = "running" /\ pc >= CodeLength
  /\ status' = "idle"
  /\ UNCHANGED <<code, loaded, frame>>

\* Mutant: the opcode is left as it is.
IncrementNothing(c) == c

\* The opcode is counted up before its handler runs.
Increment(c) == [c EXCEPT ![pc] = (@ + 1) % 256]

\* Dispatch of an opcode in ops, whose handler moves pc by n.
Dispatch(ops, n) ==
  /\ status = "running" /\ pc < CodeLength /\ code[pc] \in ops
  /\ code' = Increment(code)
  /\ pc' = pc + n
  /\ UNCHANGED <<loaded, prev>>

Continue == UNCHANGED status
Lose == status' = "lost"

Values(n) == [i \in 1 .. n |-> "value"]
Locals(i, n) == [k \in 1 .. n |-> IF i + k - 1 < MaxLocals THEN locals[i + k - 1] ELSE GARBAGE]

\* int, long, float, double, address: the order of types in every group.
Width == <<1, 2, 1, 2, AddressWords>>

-----------------------------------------------------------------------------
(***************************************************************************)
(* The handlers, one action for each kind.                                 *)
(***************************************************************************)

\* ICONST_M1 to DCONST_1.
PushConstant ==
  /\ Dispatch(2 .. 15, 0)
  /\ opstack' = ArrayStackPush(opstack,
                  Values(IF code[pc] \in {9, 10, 14, 15} THEN 2 ELSE 1))
  /\ Continue /\ UNCHANGED <<locals, caller, unset>>

\* Mutant: BIPUSH reads two bytes as well.
PushImmediateShort ==
  /\ Dispatch({16, 17}, 2)
  /\ opstack' = ArrayStackPush(opstack, Values(1))
  /\ Continue /\ UNCHANGED <<locals, caller, unset>>

\* BIPUSH reads one byte, SIPUSH two, the second maybe past the end.
PushImmediate ==
  /\ Dispatch({16, 17}, code[pc] - 15)
  /\ opstack' = ArrayStackPush(opstack, Values(1))
  /\ Continue /\ UNCHANGED <<locals, caller, unset>>

\* Words of the C stack behind the locals are read as they are.
LoadWords(i, n) ==
  /\ opstack' = ArrayStackPush(opstack, Locals(i, n))
  /\ unset' = (unset \/ \E k \in 1 .. n : Locals(i, n)[k] = GARBAGE)
  /\ Continue /\ UNCHANGED <<locals, caller>>

\* ILOAD to ALOAD: the index they read is the opcode, counted up.
Load == Dispatch(21 .. 25, 1) /\ LoadWords(code[pc] + 1, Width[code[pc] - 20])

\* ILOAD_0 to ALOAD_3.
LoadN ==
  Dispatch(26 .. 45, 0) /\ LoadWords((code[pc] - 26) % 4, Width[((code[pc] - 26) \div 4) + 1])

\* A store behind the locals overwrites the C stack: the frame, or operands.
StoreWords(i, n) ==
  LET words == Popped(opstack, n)
      after == ArrayStackPop(opstack, n)
  IN /\ locals' = [j \in DOMAIN locals |-> IF j \in i .. i + n - 1 THEN words[j - i + 1]
                                                                  ELSE locals[j]]
     /\ \/ i + n <= MaxLocals /\ opstack' = after /\ Continue /\ UNCHANGED unset
        \/ /\ i + n > MaxLocals /\ unset' = TRUE
           /\ \/ opstack' = after /\ Lose
              \/ opstack' = [after EXCEPT !.data = Garbage(Len(@))] /\ Continue
     /\ UNCHANGED caller

\* ISTORE to ASTORE, with an index as in Load.
Store == Dispatch(54 .. 58, 1) /\ StoreWords(code[pc] + 1, Width[code[pc] - 53])

\* ISTORE_0 to ASTORE_3.
StoreN ==
  Dispatch(59 .. 78, 0) /\ StoreWords((code[pc] - 59) % 4, Width[((code[pc] - 59) \div 4) + 1])

\* POP to SWAP.
StackInstruction ==
  /\ Dispatch(87 .. 95, 0)
  /\ opstack' = <<POP(opstack), POP2(opstack), DUP(opstack), DUP_X1(opstack), DUP_X2(opstack),
                  DUP2(opstack), DUP2_X1(opstack), DUP2_X2(opstack), SWAP(opstack)>>[code[pc] - 86]
  /\ Continue /\ UNCHANGED <<locals, caller, unset>>

\* IADD to FREM.  The integer divisions may trap: their divisor is zero, or the
\* quotient does not fit.
Arithmetic ==
  /\ Dispatch(96 .. 114, 0)
  /\ opstack' = Binary(opstack, Width[((code[pc] - 96) % 4) + 1])
  /\ Continue \/ (code[pc] \in {108, 109, 112, 113} /\ Lose)
  /\ UNCHANGED <<locals, caller, unset>>

(***************************************************************************)
(* The table lists the field, object and array instructions before GOTO to *)
(* RETURN, where the JVM's numbering has them after: from 167 on an opcode *)
(* runs another instruction's handler, and the loop breaks on the numbers  *)
(* of the JVM's returns, whose entries are INVOKESPECIAL to NEWARRAY.      *)
(***************************************************************************)

\* IRETURN to ARETURN: the frame goes on.
ReturnValue ==
  /\ Dispatch(190 .. 194, 0)
  /\ LET n == Width[code[pc] - 189]
     IN IF prev THEN /\ opstack' = ArrayStackPop(opstack, n)
                     /\ caller' = ArrayStackPush(caller, Popped(opstack, n))
                ELSE UNCHANGED <<opstack, caller>>
  /\ Continue /\ UNCHANGED <<locals, unset>>

\* The opcodes on which the loop breaks; their handlers are empty.
Break ==
  /\ Dispatch(172 .. 177, 0)
  /\ status' = "idle"
  /\ UNCHANGED <<opstack, locals, caller, unset>>

\* The empty handlers.  NOP, ACONST_NULL, LDC to LDC2_W, and RETURN.
RETURN == 195
Constants == {0, 1, 18, 19, 20}
ArrayInstructions == (46 .. 53) \cup (79 .. 86)
\* DREM to IINC.
BitInstructions == 115 .. 132
Conversions == 133 .. 152
\* IFEQ to IF_ACMPNE, GOTO to LOOKUPSWITCH, IFNULL to JSR_W.
Branches == (153 .. 166) \cup (185 .. 189) \cup (198 .. 201)
\* GETSTATIC to MONITOREXIT, WIDE, MULTIANEWARRAY, BREAKPOINT to IMPDEP2.
ObjectInstructions == (167 .. 171) \cup (178 .. 184) \cup {196, 197} \cup (202 .. 204)

\* 254 and 255 are dispatched to empty handlers without the table.
NoOperation ==
  /\ Dispatch(Constants \cup ArrayInstructions \cup BitInstructions \cup Conversions
                \cup Branches \cup ObjectInstructions \cup {RETURN, 254, 255}, 0)
  /\ Continue /\ UNCHANGED <<opstack, locals, caller, unset>>

\* Mutant: opcodes without a handler are passed over.
PassOver == Continue

\* A call through whatever follows the 205 entries of the table.
Wild == Lose

OutsideTable ==
  Dispatch(205 .. 253, 0) /\ Wild /\ UNCHANGED <<opstack, locals, caller, unset>>

-----------------------------------------------------------------------------
Init ==
  /\ code \in Codes /\ loaded = code /\ pc = 0
  /\ opstack = CreateArrayStack(MaxStack, {})
  /\ locals = [i \in 0 .. MaxLocals - 1 |-> GARBAGE]
  /\ prev = FALSE
  /\ caller = CreateArrayStack(CallerStack, {})
  /\ unset = FALSE
  /\ status = "idle"

Step ==
  \/ FallOffTheEnd
  \/ PushConstant \/ PushImmediate \/ Load \/ LoadN \/ Store \/ StoreN
  \/ StackInstruction \/ Arithmetic \/ ReturnValue \/ Break
  \/ NoOperation \/ OutsideTable

Next == Call \/ Step

\* The loop runs on once it is entered; nobody has to call it.
Spec == Init /\ [][Next]_vars /\ WF_vars(Step)

-----------------------------------------------------------------------------
(***************************************************************************)
(* Properties.                                                             *)
(***************************************************************************)
Word == {"value", GARBAGE}

Stack(s, capacity) ==
  /\ s \in [data : Seq(Word), capacity : {capacity}, log : SUBSET {"overflow", "underflow"}]
  /\ Len(s.data) <= capacity

\* The type invariant; the operand stacks stay within their capacities.
TypeOK ==
  /\ DOMAIN loaded = DOMAIN code
  /\ \A i \in DOMAIN code : code[i] \in Byte /\ loaded[i] \in Byte
  /\ pc \in 0 .. CodeLength + 1
  /\ Stack(opstack, MaxStack) /\ Stack(caller, CallerStack)
  /\ locals \in [0 .. MaxLocals - 1 -> Word]
  /\ prev \in BOOLEAN /\ unset \in BOOLEAN
  /\ status \in {"idle", "running", "lost"}

\* Every call ends: it returns, or it crashes.  The loop has no other bound
\* than the opcodes it counts up (ThreadCurrentExecute).
Terminates == status = "running" ~> status # "running"

\* How often the byte b can still be dispatched: 254 and 255 wrap round to the
\* start of the table, 253 is outside it.
Left(b) == (253 - b) % 256

\* Why it ends, and why no method can be called for ever: a dispatch that is
\* survived uses up one byte, and touches no other (the increment, the guards
\* around the table, and the table's end).
UsesUpBytes ==
  [][status = "running" /\ code' # code /\ status' # "lost" =>
       \E i \in DOMAIN code : /\ Left(code'[i]) < Left(code[i])
                              /\ \A j \in DOMAIN code \ {i} : code'[j] = code[j]]_vars

\* What BIPUSH, SIPUSH, the loads and the stores leave in the place of their
\* opcode.
Spent == {17, 18} \cup (22 .. 26) \cup (55 .. 59)

\* What a call has done to the code so far: ahead of pc nothing; behind pc every
\* byte was counted up to an instruction with an operand, except the one that
\* SIPUSH jumps over (the loop and all handlers together).
Footprint ==
  status = "running" =>
    \A i \in DOMAIN code :
      /\ i > pc => code[i] = loaded[i]
      /\ i < pc => \/ code[i] \in Spent
                   \/ i > 0 /\ code[i - 1] = 18 /\ code[i] = loaded[i]

\* Left-over memory reaches the caller's stack only if an underflow was reported
\* or a local was loaded that no store had set: a method that is neither short
\* of operands nor careless with locals passes on what it computed (loads,
\* stores, stack instructions, returns, and a new frame for each call).
CleanResult ==
  (\E i \in DOMAIN caller.data : caller.data[i] = GARBAGE) =>
     "underflow" \in opstack.log \/ unset

(***************************************************************************)
(* What the documentation says and the code does not do.                   *)
(***************************************************************************)

\* ThreadCurrentExecute "starts interpreting bytecode from the method": what it
\* dispatches are the bytes of the code as the call found it (the increment in
\* the loop).
DispatchesBytecode == status = "running" /\ pc < CodeLength => code[pc] = loaded[pc]

=============================================================================
