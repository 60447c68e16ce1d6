--------------------------- MODULE MCTeacherBatch ---------------------------
(* Constants for TLC: prompt p1 has two sessions and p2 one (as with the   *)
(* ReMax baselines, whose prompts have a single rollout).  Every batch has *)
(* them all, but in MCShrinking: there the batches after the first have a  *)
(* single session.                                                         *)
EXTENDS TeacherBatch, TLC

CONSTANTS p1, p2, r1, r2, r3

MCRollouts == {r1, r2, r3}
MCPromptOf == [r \in MCRollouts |-> IF r = r3 THEN p2 ELSE p1]
MCDispatched == [s \in 1 .. MaxStep |-> MCRollouts]
MCShrinking == [s \in 1 .. MaxStep |-> IF s = 1 THEN MCRollouts ELSE {r1}]
\* The two sessions of p1 are alike, in every batch that has both.
MCSymmetric == Permutations({r1, r2})
MCMaxConcurrency == [critique |-> 1, scoring |-> 1]
=============================================================================
