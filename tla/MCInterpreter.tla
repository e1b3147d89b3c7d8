---------------------------- MODULE MCInterpreter ---------------------------
(***************************************************************************)
(* Instances of Interpreter for TLC: every method of two opcodes, one of   *)
(* each kind of handler and the ends of its range; and every method of     *)
(* three of those whose effect depends on the room for stack and locals.   *)
(***************************************************************************)
EXTENDS Interpreter

Kinds == {0, 2, 9, 16, 17, 18, 21, 26, 54, 59, 89, 96, 108, 153, 172, 177, 178, 190, 193, 254}

Pairs == [0 .. 1 -> Kinds]

StackKinds == {16, 17, 21, 54, 58, 177, 191}
Triples == [0 .. 2 -> StackKinds]

Methods == Pairs \cup Triples
=============================================================================
