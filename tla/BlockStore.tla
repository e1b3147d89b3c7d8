----------------------------- MODULE BlockStore -----------------------------
(***************************************************************************)
(* What a heap promises its clients: it hands out blocks that lie inside   *)
(* its memory and never overlap, each preceded by HeaderSize bytes of its  *)
(* own, keeps them where they are until they are released, and may refuse. *)
(***************************************************************************)
EXTENDS Integers

CONSTANTS HeaderSize, First, Limit, Requests

VARIABLE blocks   \* address -> size of every block that is out

Room(a, s) ==
  /\ First <= a /\ a + HeaderSize + s <= Limit
  /\ \A b \in DOMAIN blocks :
       \/ b + HeaderSize + blocks[b] <= a
       \/ a + HeaderSize + s <= b

Init == blocks = [a \in {} |-> 0]

Allocate(a, s) ==
  /\ Room(a, s)
  /\ blocks' = [b \in DOMAIN blocks \cup {a} |-> IF b = a THEN s ELSE blocks[b]]

Release(a) ==
  /\ a \in DOMAIN blocks
  /\ blocks' = [b \in DOMAIN blocks \ {a} |-> blocks[b]]

\* The memory goes away, with every block.
Close == blocks' = [a \in {} |-> 0]

Next ==
  \/ \E a \in First .. Limit, s \in Requests \ {0} : Allocate(a, s)
  \/ \E a \in DOMAIN blocks : Release(a)
  \/ Close

Spec == Init /\ [][Next]_blocks

=============================================================================
