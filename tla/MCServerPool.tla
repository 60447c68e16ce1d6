---------------------------- MODULE MCServerPool ----------------------------
(* Constants for TLC.  Validation request v<n> belongs to version n; the    *)
(* context leaves r1 more room than its budget and the others less.  The    *)
(* setups: the ALFWorld agent loop on engines that pause, where an abort    *)
(* before a load may raise, and a default agent loop on engines that do not *)
(* pause.                                                                   *)
EXTENDS ServerPool

CONSTANTS s1, s2, h1, r1, v0, v2

MCValidatedAt == (v0 :> 0) @@ (v2 :> 2)
MCSetups ==
  {[limited |-> TRUE, pausing |-> TRUE, erring |-> {<<s1, 1>>}],
   [limited |-> FALSE, pausing |-> FALSE, erring |-> {}]}
MCAhead == [r \in Requests |-> IF r = r1 THEN 2 ELSE 1]
MCRoom == [r \in Requests |-> IF r = r1 THEN 3 ELSE 1]
=============================================================================
