-------------------------- MODULE MCWeightTransfer --------------------------
(* Constants for TLC: every sequence of one to three weights of one to      *)
(* three units, with buckets of two, and a few longer ones.                 *)
EXTENDS WeightTransfer

CONSTANTS a, b

MCSizes == UNION {[1..k -> 1..3] : k \in 1..3} \cup {<<5, 5>>, <<1, 5, 1, 4>>}
=============================================================================
