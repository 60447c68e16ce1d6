---------------------------- MODULE TeacherBatch ----------------------------
(***************************************************************************)
(* The critique-first teacher phase of one ALFWorld OPD training step:     *)
(*                                                                         *)
(*   - the trainer, which opens a batch at the coordinator, dispatches the *)
(*     prompts and waits until none of them is running;                    *)
(*   - one task per prompt (_run_prompt), which gathers the prompt's       *)
(*     sessions and reports "finished" or, after aborting the batch,       *)
(*     "failure";                                                          *)
(*   - one task per session (trajectory): rollout, teacher critique under  *)
(*     a critique slot, the batch barrier, teacher scoring under scoring   *)
(*     slots, the put of its samples;                                      *)
(*   - two GlobalCritiqueConcurrencyLimiter actors (critique and scoring)  *)
(*     and the GlobalTeacherBatchPhaseCoordinator actor.                   *)
(*                                                                         *)
(* Every actor runs its handlers on one event loop, so a handler is atomic *)
(* up to its awaits; that is the grain of the actions below.  A request to *)
(* a server or to the environment is a state of its session that ends, in  *)
(* success or in an exception, in a later step.                            *)
(***************************************************************************)
EXTENDS Naturals, FiniteSets

CONSTANTS
  Prompts,         \* the prompts of a training step (uids are fresh per step)
  Rollouts,        \* the sessions of a step: rollout.n or __rollout_n__ per prompt
  PromptOf,        \* the prompt each of them belongs to
  Dispatched,      \* step -> those of the rollouts its batch has
  MaxStep,         \* bound: the training steps explored
  MaxErrorStep,    \* bound: the largest 1-based error step a critique names
  MaxConcurrency   \* slots of each limiter

Limiter == {"critique", "scoring"}

ASSUME ConstantsOK ==
  /\ IsFiniteSet(Rollouts)
  /\ PromptOf \in [Rollouts -> Prompts]
  /\ MaxStep \in Nat \ {0}
  /\ Dispatched \in [1 .. MaxStep -> SUBSET Rollouts \ {{}}]
  /\ MaxErrorStep \in Nat \ {0}
  /\ MaxConcurrency \in [Limiter -> Nat \ {0}]

Steps == 1 .. MaxStep

(* A session is a rollout of a step: its trajectory key "uid:session_id"   *)
(* is its own, because a uid is made fresh for every step.                 *)
Session == { t \in Steps \X Rollouts : t[2] \in Dispatched[t[1]] }
StepOf(t) == t[1]
SessionsOf(s) == { t \in Session : StepOf(t) = s }
PromptsOf(s) == { PromptOf[r] : r \in Dispatched[s] }
SessionsOfPrompt(s, p) == { t \in SessionsOf(s) : PromptOf[t[2]] = p }

VARIABLES
  step,       \* trainer.global_steps
  trainer,    \* "train" between steps, "gen" while ReplayBuffer.sample waits
  status,     \* per step and prompt, the progress of _run_prompt
  pc,         \* per session, where its task stands
  requests,   \* per session, teacher scoring requests it still has to send
  verdict,    \* per session, what arrive_and_wait returned to it
  permits,    \* per limiter, the value of its asyncio.Semaphore
  inflight,   \* per limiter, _inflight
  expected,   \* per step, batch["expected"]; 0 when the batch does not exist
  arrived,    \* per step, batch["arrived_keys"]
  event,      \* per step, batch["event"].is_set()
  aborted     \* per step, batch["abort_reason"] is not None

sessionVars == <<pc, requests, verdict>>
limiterVars == <<permits, inflight>>
batchVars   == <<expected, arrived, event, aborted>>
trainerVars == <<step, trainer, status>>
vars == <<trainerVars, sessionVars, limiterVars, batchVars>>

(* The session states around a limiter slot. *)
Wanting   == [critique |-> "critique_wait",    scoring |-> "scoring_wait"]
Granted   == [critique |-> "critique_granted", scoring |-> "scoring_granted"]
Using     == [critique |-> "critique_busy",    scoring |-> "scoring_busy"]
Succeeded == [critique |-> "critique_ok",      scoring |-> "scoring_ok"]
Errored   == [critique |-> "critique_error",   scoring |-> "scoring_error"]

Holding(l) == {Granted[l], Using[l], Succeeded[l], Errored[l]}
Counted(l) == {Using[l], Succeeded[l], Errored[l]}

CritiquePhase == {"rollout", "critique_wait", "arriving", "waiting"} \cup Holding("critique")
ScoringPhase  == {"scoring_wait"} \cup Holding("scoring")
Ended         == {"done", "failed"}
SessionState  == {"absent", "put"} \cup CritiquePhase \cup ScoringPhase \cup Ended

-----------------------------------------------------------------------------
Init ==
  /\ step = 0
  /\ trainer = "train"
  /\ status = [s \in Steps |-> [p \in Prompts |-> "absent"]]
  /\ pc = [t \in Session |-> "absent"]
  /\ requests = [t \in Session |-> 0]
  /\ verdict = [t \in Session |-> "none"]
  /\ permits = MaxConcurrency
  /\ inflight = [l \in Limiter |-> 0]
  /\ expected = [s \in Steps |-> 0]
  /\ arrived = [s \in Steps |-> {}]
  /\ event = [s \in Steps |-> FALSE]
  /\ aborted = [s \in Steps |-> FALSE]

-----------------------------------------------------------------------------
(* The trainer. *)

(* Faulty variant: one trajectory per prompt is expected, whatever its rollouts. *)
ExpectedPrompts(s) == Cardinality(PromptsOf(s))

(* Number of trajectories the coordinator must wait for: one per rollout   *)
(* of every prompt of the step.                                            *)
ExpectedTrajectories(s) == Cardinality(SessionsOf(s))

(* PPOTrainer.step hands the batch to AgentLoopManagerTQ.generate_sequences *)
(* which opens it at the coordinator before it marks the prompts running   *)
(* and dispatches them; sample() is entered next.                          *)
GenerateSequences ==
  /\ trainer = "train"
  /\ step < MaxStep
  /\ LET s == step + 1 IN
       /\ step' = s
       /\ expected' = [expected EXCEPT ![s] = IF @ = 0 THEN ExpectedTrajectories(s) ELSE @]
       /\ status' = [status EXCEPT ![s] = [p \in Prompts |-> IF p \in PromptsOf(s) THEN "running"
                                                            ELSE @[p]]]
       /\ pc' = [t \in Session |-> IF StepOf(t) = s THEN "rollout" ELSE pc[t]]
  /\ trainer' = "gen"
  /\ UNCHANGED <<requests, verdict, limiterVars, arrived, event, aborted>>

(* ReplayBuffer.sample returns once no prompt of the step is running. *)
SampleReturns ==
  /\ trainer = "gen"
  /\ \A p \in PromptsOf(step) : status[step][p] \in {"finished", "failure"}
  /\ trainer' = "train"
  /\ UNCHANGED <<step, status, sessionVars, limiterVars, batchVars>>

-----------------------------------------------------------------------------
(* The two limiters. *)

SemaphoreAcquire(l, t) ==
  /\ pc[t] = Wanting[l]
  /\ permits[l] > 0
  /\ permits' = [permits EXCEPT ![l] = @ - 1]
  /\ pc' = [pc EXCEPT ![t] = Granted[l]]
  /\ UNCHANGED <<trainerVars, requests, verdict, inflight, batchVars>>

(* acquire() resumes after the semaphore let it through. *)
CountInflight(l, t) ==
  /\ pc[t] = Granted[l]
  /\ inflight' = [inflight EXCEPT ![l] = @ + 1]
  /\ pc' = [pc EXCEPT ![t] = Using[l]]
  /\ UNCHANGED <<trainerVars, requests, verdict, permits, batchVars>>

(* The teacher server answers the generate call, or the call raises; the   *)
(* finally clause releases the slot either way.                            *)
TeacherAnswers(l, t) ==
  /\ pc[t] = Using[l]
  /\ \E outcome \in {Succeeded[l], Errored[l]} : pc' = [pc EXCEPT ![t] = outcome]
  /\ UNCHANGED <<trainerVars, requests, verdict, limiterVars, batchVars>>

(* release(): it raises rather than go below zero, else frees the slot. *)
ReleaseRaises(l) == inflight[l] <= 0
ReleaseSlot(l) ==
  IF ReleaseRaises(l)
    THEN UNCHANGED limiterVars
    ELSE /\ inflight' = [inflight EXCEPT ![l] = @ - 1]
         /\ permits' = [permits EXCEPT ![l] = @ + 1]

-----------------------------------------------------------------------------
(* A session, from its environment rollout to the put of its samples. *)

(* The agent loop ends: a successful trajectory (not opd_eligible) is      *)
(* excluded and goes to the barrier; a failed one asks for a critique; an  *)
(* exception of the environment, the student server or the checks before   *)
(* the critique fails the session.                                         *)
RolloutEnds(t) ==
  /\ pc[t] = "rollout"
  /\ \E next \in {"arriving", "critique_wait", "failed"} : pc' = [pc EXCEPT ![t] = next]
  /\ UNCHANGED <<trainerVars, requests, verdict, limiterVars, batchVars>>

(* Faulty variant: the slot is returned only when the call succeeds (no finally). *)
CritiqueReturnsNoFinally(t) ==
  /\ \/ /\ pc[t] = Succeeded["critique"]
        /\ \E k \in 0 .. MaxErrorStep : requests' = [requests EXCEPT ![t] = 2 * k]
        /\ pc' = [pc EXCEPT ![t] = "arriving"]
        /\ ReleaseSlot("critique")
     \/ /\ pc[t] = Errored["critique"]
        /\ pc' = [pc EXCEPT ![t] = "failed"]
        /\ UNCHANGED <<requests, limiterVars>>
  /\ UNCHANGED <<trainerVars, verdict, batchVars>>

(* The critique slot is returned before the critique is parsed.  A critique *)
(* that fails to parse or has too low a confidence leaves no request; one  *)
(* that names error step k leaves k step samples, each scored with and     *)
(* without the privileged prompt.                                          *)
CritiqueReturns(t) ==
  /\ pc[t] \in {Succeeded["critique"], Errored["critique"]}
  /\ \/ /\ pc[t] = Succeeded["critique"] /\ ~ReleaseRaises("critique")
        /\ \E k \in 0 .. MaxErrorStep : requests' = [requests EXCEPT ![t] = 2 * k]
        /\ pc' = [pc EXCEPT ![t] = "arriving"]
     \/ /\ pc[t] = Errored["critique"] \/ ReleaseRaises("critique")
        /\ pc' = [pc EXCEPT ![t] = "failed"]
        /\ UNCHANGED requests
  /\ ReleaseSlot("critique")
  /\ UNCHANGED <<trainerVars, verdict, batchVars>>

(* Where a session goes when arrive_and_wait returns, and when it raises. *)
AfterBarrier(t) == IF requests[t] > 0 THEN "scoring_wait" ELSE "put"

(* Setting a batch's event resumes all its waiters, before the actor's loop *)
(* takes another call: those of `who` get the batch's verdict.             *)
Resume(who, raising) ==
  /\ pc' = [t \in Session |-> IF t \notin who THEN pc[t]
                              ELSE IF raising THEN "failed" ELSE AfterBarrier(t)]
  /\ verdict' = [t \in Session |-> IF t \notin who THEN verdict[t]
                                   ELSE IF raising THEN "aborted" ELSE "released"]

(* Faulty variant: setting the event wakes a single waiter. *)
OneWaiter(s) ==
  LET all == { t \in SessionsOf(s) : pc[t] = "waiting" }
  IN  IF all = {} THEN {} ELSE {CHOOSE t \in all : TRUE}

Waiters(s) == { t \in SessionsOf(s) : pc[t] = "waiting" }

(* Faulty variant: the abort reason is not looked at after the wait. *)
ArriveIgnoringAbort(t) ==
  LET s     == StepOf(t)
      keys  == arrived[s] \cup {t}
      count == Cardinality(keys)
  IN
  /\ pc[t] = "arriving"
  /\ arrived' = [arrived EXCEPT ![s] = keys]
  /\ event'   = [event EXCEPT ![s] = @ \/ count >= expected[s]]
  /\ IF event'[s]
       THEN Resume(Waiters(s) \cup {t}, FALSE)
       ELSE /\ pc' = [pc EXCEPT ![t] = "waiting"]
            /\ UNCHANGED verdict
  /\ UNCHANGED <<trainerVars, requests, limiterVars, expected, aborted>>

(* arrive_and_wait: record the key, then open or abort the batch when the  *)
(* count says so, else block.  The call never blocks on an event already   *)
(* set, and raises if the batch has been aborted.                          *)
ArriveAndWait(t) ==
  LET s     == StepOf(t)
      keys  == arrived[s] \cup {t}
      count == Cardinality(keys)
      over  == count > expected[s]
  IN
  /\ pc[t] = "arriving"
  /\ arrived' = [arrived EXCEPT ![s] = keys]
  /\ aborted' = [aborted EXCEPT ![s] = @ \/ over]
  /\ event'   = [event EXCEPT ![s] = @ \/ count >= expected[s]]
  /\ IF event'[s]
       THEN Resume(Waiters(s) \cup {t}, aborted'[s])
       ELSE /\ pc' = [pc EXCEPT ![t] = "waiting"]
            /\ UNCHANGED verdict
  /\ UNCHANGED <<trainerVars, requests, limiterVars, expected>>

(* Faulty variant: one scoring request too many. *)
ScoringReturnsOnceMore(t) ==
  /\ pc[t] \in {Succeeded["scoring"], Errored["scoring"]}
  /\ requests' = [requests EXCEPT ![t] = @ - 1]
  /\ pc' = [pc EXCEPT ![t] = IF requests[t] > 0 THEN "scoring_wait" ELSE "put"]
  /\ ReleaseSlot("scoring")
  /\ UNCHANGED <<trainerVars, verdict, batchVars>>

(* One scoring request returns its slot; the session sends its next one,   *)
(* or goes on to put its samples.                                          *)
ScoringReturns(t) ==
  /\ pc[t] \in {Succeeded["scoring"], Errored["scoring"]}
  /\ \/ /\ pc[t] = Succeeded["scoring"] /\ ~ReleaseRaises("scoring")
        /\ requests' = [requests EXCEPT ![t] = @ - 1]
        /\ pc' = [pc EXCEPT ![t] = IF requests[t] > 1 THEN "scoring_wait" ELSE "put"]
     \/ /\ pc[t] = Errored["scoring"] \/ ReleaseRaises("scoring")
        /\ pc' = [pc EXCEPT ![t] = "failed"]
        /\ UNCHANGED requests
  /\ ReleaseSlot("scoring")
  /\ UNCHANGED <<trainerVars, verdict, batchVars>>

(* The session builds its step samples and puts them; either may raise,    *)
(* after the barrier has released the batch.                               *)
PutSamples(t) ==
  /\ pc[t] = "put"
  /\ \E outcome \in Ended : pc' = [pc EXCEPT ![t] = outcome]
  /\ UNCHANGED <<trainerVars, requests, verdict, limiterVars, batchVars>>

-----------------------------------------------------------------------------
(* The prompt task. *)

(* Faulty variant: gather(return_exceptions=True), its result not inspected. *)
PromptFinishesAnyway(s, p) ==
  /\ status[s][p] = "running"
  /\ \A t \in SessionsOfPrompt(s, p) : pc[t] \in Ended
  /\ status' = [status EXCEPT ![s][p] = "finished"]
  /\ UNCHANGED <<step, trainer, sessionVars, limiterVars, batchVars>>

(* gather() returned: every session put its samples. *)
PromptFinishes(s, p) ==
  /\ status[s][p] = "running"
  /\ \A t \in SessionsOfPrompt(s, p) : pc[t] = "done"
  /\ status' = [status EXCEPT ![s][p] = "finished"]
  /\ UNCHANGED <<step, trainer, sessionVars, limiterVars, batchVars>>

(* Faulty variants: the event is set without a reason; the batch is not aborted. *)
PromptAbortsNoReason(s, p) ==
  /\ status[s][p] = "running"
  /\ \E t \in SessionsOfPrompt(s, p) : pc[t] = "failed"
  /\ event' = [event EXCEPT ![s] = TRUE]
  /\ Resume(Waiters(s), FALSE)
  /\ status' = [status EXCEPT ![s][p] = "aborting"]
  /\ UNCHANGED <<step, trainer, requests, limiterVars, expected, arrived, aborted>>

PromptGivesUp(s, p) ==
  /\ status[s][p] = "running"
  /\ \E t \in SessionsOfPrompt(s, p) : pc[t] = "failed"
  /\ status' = [status EXCEPT ![s][p] = "aborting"]
  /\ UNCHANGED <<step, trainer, sessionVars, limiterVars, batchVars>>

(* gather() raised with the first failed session; the others run on.  The  *)
(* except clause aborts the batch at the coordinator, whose waiters raise. *)
PromptAborts(s, p) ==
  /\ status[s][p] = "running"
  /\ \E t \in SessionsOfPrompt(s, p) : pc[t] = "failed"
  /\ aborted' = [aborted EXCEPT ![s] = TRUE]
  /\ event' = [event EXCEPT ![s] = TRUE]
  /\ Resume(Waiters(s), TRUE)
  /\ status' = [status EXCEPT ![s][p] = "aborting"]
  /\ UNCHANGED <<step, trainer, requests, limiterVars, expected, arrived>>

(* ... and the "failure" status is put. *)
PromptFails(s, p) ==
  /\ status[s][p] = "aborting"
  /\ status' = [status EXCEPT ![s][p] = "failure"]
  /\ UNCHANGED <<step, trainer, sessionVars, limiterVars, batchVars>>

-----------------------------------------------------------------------------
SessionStep(t) ==
  \/ RolloutEnds(t)
  \/ \E l \in Limiter : SemaphoreAcquire(l, t) \/ CountInflight(l, t) \/ TeacherAnswers(l, t)
  \/ CritiqueReturns(t)
  \/ ArriveAndWait(t)
  \/ ScoringReturns(t)
  \/ PutSamples(t)

PromptStep(s, p) == PromptFinishes(s, p) \/ PromptAborts(s, p) \/ PromptFails(s, p)

(* Training is over and every task has ended. *)
Terminated ==
  /\ step = MaxStep /\ trainer = "train"
  /\ \A t \in Session : pc[t] \in Ended
  /\ UNCHANGED vars

Next ==
  \/ GenerateSequences
  \/ SampleReturns
  \/ \E t \in Session : SessionStep(t)
  \/ \E s \in Steps, p \in Prompts : PromptStep(s, p)
  \/ Terminated

Spec == Init /\ [][Next]_vars

(* The event loops run what is ready, and every server call ends: weak     *)
(* fairness of each task.  asyncio.Semaphore wakes its waiters in order,   *)
(* so nobody is overtaken for ever: strong fairness of its acquire.        *)
Fairness ==
  /\ WF_vars(GenerateSequences) /\ WF_vars(SampleReturns)
  /\ \A t \in Session : WF_vars(SessionStep(t))
  /\ \A t \in Session, l \in Limiter : SF_vars(SemaphoreAcquire(l, t))
  /\ \A s \in Steps, p \in Prompts : WF_vars(PromptStep(s, p))

FairSpec == Spec /\ Fairness

-----------------------------------------------------------------------------
(* Every variable has its type. *)
TypeOK ==
  /\ step \in 0 .. MaxStep
  /\ trainer \in {"train", "gen"}
  /\ status \in [Steps -> [Prompts -> {"absent", "running", "aborting", "finished", "failure"}]]
  /\ pc \in [Session -> SessionState]
  /\ requests \in [Session -> Nat]
  /\ verdict \in [Session -> {"none", "released", "aborted"}]
  /\ permits \in [Limiter -> Nat]
  /\ inflight \in [Limiter -> Nat]
  /\ expected \in [Steps -> Nat]
  /\ arrived \in [Steps -> SUBSET Session]
  /\ event \in [Steps -> BOOLEAN]
  /\ aborted \in [Steps -> BOOLEAN]

(* Critique first: while any session of a batch wants, holds or uses a     *)
(* scoring slot, no session of the same batch is still rolling out, waits  *)
(* for or holds a critique slot, or stands at the barrier -- whatever      *)
(* fails and whichever batch is aborted meanwhile.                         *)
CritiqueFirst ==
  \A t, u \in Session :
    StepOf(t) = StepOf(u) /\ pc[t] \in ScoringPhase => pc[u] \notin CritiquePhase

(* A batch is all or nothing up to the barrier: when one of its sessions   *)
(* failed without having been released, none of them was ever released.    *)
BatchAllOrNothing ==
  \A t, u \in Session :
    /\ StepOf(t) = StepOf(u)
    /\ pc[t] = "failed" /\ verdict[t] # "released"
    => verdict[u] # "released"

Sessions(states) == { t \in Session : pc[t] \in states }

(* A limiter's counters agree with the sessions that hold its slots, on    *)
(* every path, exceptions included: no slot leaks and none is freed twice, *)
(* so release never raises and at most MaxConcurrency calls are in flight. *)
SlotAccounting ==
  \A l \in Limiter :
    /\ inflight[l] = Cardinality(Sessions(Counted(l)))
    /\ permits[l] + Cardinality(Sessions(Holding(l))) = MaxConcurrency[l]

(* Nobody stays behind at a barrier that has opened or been aborted. *)
NoStrandedWaiter ==
  \A t \in Session : pc[t] = "waiting" => ~event[StepOf(t)]

(* A prompt reports "finished" only when all its sessions put their        *)
(* samples, and its batch has then been released, never aborted before.    *)
FinishedPromptIsComplete ==
  \A s \in Steps, p \in Prompts :
    status[s][p] = "finished" =>
      \A t \in SessionsOfPrompt(s, p) : pc[t] = "done" /\ verdict[t] = "released"

(* The trainer is never left waiting: every dispatched batch ends with all *)
(* its prompts finished or failed, whatever raises in any session.         *)
BatchEnds == (trainer = "gen") ~> (trainer = "train")

(* Every session that started ends; none hangs at the barrier or for a     *)
(* slot, and none is held back by sessions a failed batch left running.    *)
SessionsEnd == \A t \in Session : (pc[t] = "rollout") ~> (pc[t] \in Ended)

(* The barrier as its users see it.  A session is at the barrier while it  *)
(* waits there, released from then until it ends; a batch has opened when  *)
(* a session of it was released, and an abort that comes later (a scoring  *)
(* request failed) does not undo that.                                     *)
PhaseOf(t) ==
  CASE pc[t] = "absent"  -> "out"
    [] pc[t] = "waiting" -> "barrier"
    [] pc[t] \in Ended   -> "ended"
    [] pc[t] \in CritiquePhase \ {"waiting"} -> "critique"
    [] OTHER -> "released"

OutcomeOf(s) ==
  IF \E t \in SessionsOf(s) : verdict[t] = "released" THEN "opened"
  ELSE IF event[s] THEN "broken" ELSE "pending"

Phase == INSTANCE BatchPhase WITH
  Batch <- Steps, Member <- Session, BatchOf <- StepOf,
  where <- [t \in Session |-> PhaseOf(t)],
  outcome <- [s \in Steps |-> OutcomeOf(s)]

(* The tasks, the limiters and the coordinator together implement the      *)
(* barrier BatchPhase describes, step by step.                             *)
BarrierRefinement == Phase!PhaseSpec

(* sample() "waits until all prompts of this global steps have finished":  *)
(* once the trainer has gone on, no session of a past step is at work.     *)
StepsDoNotOverlap ==
  \A t \in Session :
    pc[t] \notin Ended \cup {"absent"} => trainer = "gen" /\ StepOf(t) = step
=============================================================================
