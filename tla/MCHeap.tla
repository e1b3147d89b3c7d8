------------------------------- MODULE MCHeap -------------------------------
(***************************************************************************)
(* Instances of Heap for TLC.  "Small": a two-byte header makes holes,     *)
(* exact fits, too-large fits and wrapped sizes all reachable with a few   *)
(* requests.                                                               *)
(***************************************************************************)
EXTENDS Heap

SmallRequests == {0, 1, 3, 8}
=============================================================================
