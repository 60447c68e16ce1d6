----------------------------- MODULE BatchPhase -----------------------------
(***************************************************************************)
(* What GlobalTeacherBatchPhaseCoordinator promises the trajectories of a  *)
(* batch: a batch opens, for all its members at once, only when the last   *)
(* of them has come to the barrier; a batch that breaks never opens, and   *)
(* its members leave with an error.  A member may fail, hence end, at any  *)
(* time except while it stands at the barrier.                             *)
(***************************************************************************)
CONSTANTS
  Batch,     \* the training steps
  Member,    \* the trajectories
  BatchOf(_) \* the batch of a trajectory

VARIABLES
  where,     \* per member: "out", "critique", "barrier", "released" or "ended"
  outcome    \* per batch: "pending", "opened" or "broken"

phaseVars == <<where, outcome>>

Members(b) == { m \in Member : BatchOf(m) = b }

PhaseInit ==
  /\ where = [m \in Member |-> "out"]
  /\ outcome = [b \in Batch |-> "pending"]

(* All the members of a batch are dispatched together. *)
Start(b) ==
  /\ outcome[b] = "pending"
  /\ \A m \in Members(b) : where[m] = "out"
  /\ where' = [m \in Member |-> IF m \in Members(b) THEN "critique" ELSE where[m]]
  /\ UNCHANGED outcome

Reach(m) ==
  /\ where[m] = "critique"
  /\ outcome[BatchOf(m)] = "pending"
  /\ where' = [where EXCEPT ![m] = "barrier"]
  /\ UNCHANGED outcome

(* m comes last: the batch opens for all. *)
Open(m) ==
  /\ where[m] = "critique"
  /\ outcome[BatchOf(m)] = "pending"
  /\ \A n \in Members(BatchOf(m)) \ {m} : where[n] = "barrier"
  /\ where' = [n \in Member |-> IF n \in Members(BatchOf(m)) THEN "released" ELSE where[n]]
  /\ outcome' = [outcome EXCEPT ![BatchOf(m)] = "opened"]

(* Who stands at the barrier of a batch that breaks ends there. *)
Break(b) ==
  /\ outcome[b] = "pending"
  /\ outcome' = [outcome EXCEPT ![b] = "broken"]
  /\ where' = [m \in Member |-> IF BatchOf(m) = b /\ where[m] = "barrier" THEN "ended"
                                ELSE where[m]]

End(m) ==
  /\ where[m] \in {"critique", "released"}
  /\ where' = [where EXCEPT ![m] = "ended"]
  /\ UNCHANGED outcome

PhaseNext ==
  \/ \E b \in Batch : Start(b) \/ Break(b)
  \/ \E m \in Member : Reach(m) \/ Open(m) \/ End(m)

PhaseSpec == PhaseInit /\ [][PhaseNext]_phaseVars
=============================================================================
