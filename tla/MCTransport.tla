---------------------------- MODULE MCTransport -----------------------------
(* Instances of AsyncTransport for TLC: one request is larger.             *)
EXTENDS AsyncTransport

CONSTANTS a, b, c

MCWeight == [id \in Ids |-> IF id = a THEN 2 ELSE 1]
Symmetry == Permutations(Ids \ {a})
=============================================================================
