---------------------------- MODULE MCReplayBuffer ----------------------------
(* Constants for TLC: prompt p1 has two sessions and p2 one; training      *)
(* batches have steps of their own, validation batches share one.          *)
EXTENDS ReplayBuffer

CONSTANTS p1, p2, r1, r2, r3

MCRollouts == {r1, r2, r3}
MCPromptOf == [r \in MCRollouts |-> IF r = r3 THEN p2 ELSE p1]

MCTrainSteps == [b \in 1 .. Batches |-> b]
MCValSteps   == [b \in 1 .. Batches |-> 0]
===============================================================================
