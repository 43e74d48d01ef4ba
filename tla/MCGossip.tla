------------------------------ MODULE MCGossip ------------------------------
(* Small instances of Gossip for TLC. *)
EXTENDS Gossip, TLC

CONSTANTS a, b, c

\* a is the first node and has no seed; the others greet a.
StarSeeds == [n \in Node |-> IF n = a THEN {} ELSE {a}]

AnyJoin == {j \in Node \X Node : j[1] # j[2]}

=============================================================================
