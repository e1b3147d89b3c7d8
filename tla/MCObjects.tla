------------------------------ MODULE MCObjects ------------------------------
(***************************************************************************)
(* Instances of Objects for TLC.                                           *)
(***************************************************************************)
EXTENDS Objects

AllSizes == 0 .. SizeMod - 1

Class(name, super, fields) == [read |-> TRUE, name |-> name, super |-> super, fields |-> fields]

\* A chain of three classes, of 4, 20 and 32 bytes; one whose super class is
\* missing; one without a name.
Chain == << Class("A", NoName, <<"I">>), Class("B", "A", <<"J", "L">>),
            Class("C", "B", <<"?", "I", "J">>), Class("D", "X", <<"J">>),
            Class(NoName, "B", <<"D">>) >>

\* A circle of two and one of one, a class that leads into a circle, one before
\* its super class, one without a super class.
Circles == << Class("A", "B", <<"J">>), Class("B", "A", <<"J">>), Class("C", "C", <<"Z">>),
              Class("D", "A", <<>>), Class("E", "F", <<"J">>), Class("F", NoName, <<"J", "[">>) >>

\* Two classes of one name, the second of which inherits from the first.
Twins == << Class("B", "A", <<"S">>), Class("A", NoName, <<"J", "J", "J">>),
            Class("A", "A", <<"J">>) >>

\* A rejected class file, which hides the ones behind it.
Gap == << Class("A", NoName, <<"L", "L">>), Class("B", "A", <<"F", "D">>), Rejected,
          Class("C", "B", <<"B">>), Class("D", "C", <<"J">>) >>

Tables == {Chain, Circles, Twins, Gap}
=============================================================================
