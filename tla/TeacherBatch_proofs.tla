------------------------- MODULE TeacherBatch_proofs -------------------------
(***************************************************************************)
(* TLAPS proofs about TeacherBatch, for every number of prompts, rollouts, *)
(* steps and slots.                                                        *)
(***************************************************************************)
EXTENDS TeacherBatch, FiniteSetTheorems, TLAPS

(* States of a session that has not called arrive_and_wait yet. *)
BeforeBarrier == CritiquePhase \ {"waiting"}
AfterRelease  == ScoringPhase \cup {"put", "done"}

(* A batch exists once its step has begun, and expects all its sessions.   *)
StepsInOrder ==
  /\ \A s \in Steps :
       IF s <= step THEN expected[s] = ExpectedTrajectories(s)
       ELSE expected[s] = 0 /\ status[s] = [p \in Prompts |-> "absent"]
  /\ \A t \in Session : StepOf(t) > step => pc[t] = "absent"

(* arrived[s] holds sessions of s that have called arrive_and_wait, and    *)
(* each of them waits for the batch's verdict or got it.                   *)
ArrivedOK ==
  \A s \in Steps : \A t \in arrived[s] :
    /\ t \in SessionsOf(s)
    /\ pc[t] \notin BeforeBarrier \cup {"absent"}
    /\ pc[t] = "waiting" \/ verdict[t] # "none"

(* An event that was not set by an abort was set by the last arrival. *)
EventOK == \A s \in Steps : event[s] /\ ~aborted[s] => arrived[s] = SessionsOf(s)

(* What a verdict says of the batch. *)
VerdictOK ==
  \A t \in Session :
    /\ verdict[t] = "released" => event[StepOf(t)] /\ arrived[StepOf(t)] = SessionsOf(StepOf(t))
    /\ verdict[t] = "aborted"  => /\ aborted[StepOf(t)]
                                  /\ \A u \in SessionsOf(StepOf(t)) : verdict[u] # "released"

(* Only a released session goes past the barrier, with requests to send    *)
(* while it is in the scoring phase.                                       *)
ReleasedOK ==
  \A t \in Session :
    /\ pc[t] \in AfterRelease => verdict[t] = "released"
    /\ pc[t] \in ScoringPhase => requests[t] > 0

IInv ==
  /\ TypeOK
  /\ StepsInOrder
  /\ ArrivedOK
  /\ NoStrandedWaiter
  /\ EventOK
  /\ VerdictOK
  /\ ReleasedOK

-----------------------------------------------------------------------------
(* The sets of session states, spelled out. *)
LEMMA StateSets ==
  /\ BeforeBarrier = {"rollout", "critique_wait", "critique_granted", "critique_busy",
                      "critique_ok", "critique_error", "arriving"}
  /\ ScoringPhase = {"scoring_wait", "scoring_granted", "scoring_busy", "scoring_ok",
                     "scoring_error"}
  /\ AfterRelease = ScoringPhase \cup {"put", "done"}
  /\ CritiquePhase = BeforeBarrier \cup {"waiting"}
  /\ SessionState = {"absent", "failed", "waiting"} \cup BeforeBarrier \cup AfterRelease
  /\ Limiter = {"critique", "scoring"}
BY DEF BeforeBarrier, AfterRelease, CritiquePhase, ScoringPhase, SessionState, Ended, Limiter,
       Holding, Granted, Using, Succeeded, Errored

(* A session belongs to one step, and a step has finitely many sessions. *)
LEMMA SessionFacts ==
  /\ \A t \in Session : StepOf(t) \in Steps /\ t \in SessionsOf(StepOf(t))
  /\ \A s \in Steps : \A t \in SessionsOf(s) : t \in Session /\ StepOf(t) = s
  /\ \A s \in Steps : IsFiniteSet(SessionsOf(s)) /\ ExpectedTrajectories(s) \in Nat
<1>1. \A t \in Session : StepOf(t) \in Steps
  BY DEF Session, StepOf
<1>2. IsFiniteSet(Session)
  <2>1. IsFiniteSet(Steps)
    BY ConstantsOK, FS_Interval DEF Steps
  <2>2. QED
    BY <2>1, ConstantsOK, FS_Product, FS_Subset DEF Session
<1>3. \A s \in Steps : IsFiniteSet(SessionsOf(s)) /\ Cardinality(SessionsOf(s)) \in Nat
  <2>1. SUFFICES ASSUME NEW s \in Steps
                 PROVE  IsFiniteSet(SessionsOf(s)) /\ Cardinality(SessionsOf(s)) \in Nat
    OBVIOUS
  <2>2. SessionsOf(s) \subseteq Session
    BY DEF SessionsOf
  <2>3. QED
    BY <1>2, <2>2, FS_Subset, FS_CardinalityType
<1>4. QED
  BY <1>1, <1>3 DEF SessionsOf, ExpectedTrajectories

(* A move of one session that stays on its side of the barrier, or fails,  *)
(* keeps everything but the types.                                         *)
LEMMA LocalMove ==
  ASSUME IInv, TypeOK', NEW t \in Session, NEW next,
         pc' = [pc EXCEPT ![t] = next],
         UNCHANGED <<trainerVars, verdict, batchVars>>,
         \/ pc[t] \in BeforeBarrier /\ next \in BeforeBarrier \cup {"failed"}
         \/ pc[t] \in AfterRelease /\ next \in AfterRelease \cup {"failed"},
         \A u \in Session \ {t} : requests'[u] = requests[u],
         next \in ScoringPhase => requests'[t] > 0
  PROVE  IInv'
<1>1. UNCHANGED <<step, status, verdict, expected, arrived, event, aborted>>
  BY DEF trainerVars, batchVars
<1>2. \A u \in Session : pc'[u] = IF u = t THEN next ELSE pc[u]
  BY DEF IInv, TypeOK
<1>3. StepsInOrder'
  BY <1>1, <1>2, StateSets, SessionFacts DEF IInv, StepsInOrder, ExpectedTrajectories
<1>4. ArrivedOK'
  BY <1>1, <1>2, StateSets, SessionFacts DEF IInv, ArrivedOK
<1>5. NoStrandedWaiter'
  BY <1>1, <1>2, StateSets DEF IInv, NoStrandedWaiter
<1>6. EventOK' /\ VerdictOK'
  BY <1>1 DEF IInv, EventOK, VerdictOK
<1>7. ReleasedOK'
  BY <1>1, <1>2, StateSets DEF IInv, ReleasedOK
<1>8. QED
  BY <1>3, <1>4, <1>5, <1>6, <1>7 DEF IInv

-----------------------------------------------------------------------------
(* The types are kept: a semaphore or a counter is only taken down while   *)
(* it is positive, and a session in the scoring phase has a request left.  *)
LEMMA TypeStep ==
  ASSUME IInv, [Next]_vars
  PROVE  TypeOK'
<1> USE DEF TypeOK
<1>0. TypeOK /\ ReleasedOK
  BY DEF IInv
<1>1. CASE GenerateSequences
  <2>1. step + 1 \in Steps
    BY <1>0, <1>1, ConstantsOK DEF GenerateSequences, Steps
  <2>2. ExpectedTrajectories(step + 1) \in Nat
    BY <2>1, SessionFacts
  <2>3. status' \in [Steps -> [Prompts -> {"absent", "running", "aborting", "finished", "failure"}]]
    BY <1>0, <1>1, <2>1 DEF GenerateSequences
  <2>4. expected' \in [Steps -> Nat]
    BY <1>0, <1>1, <2>1, <2>2 DEF GenerateSequences
  <2>5. step' \in 0 .. MaxStep
    BY <1>1, <2>1, ConstantsOK DEF GenerateSequences, Steps
  <2>6. pc' \in [Session -> SessionState]
    BY <1>0, <1>1, StateSets DEF GenerateSequences
  <2>7. QED
    BY <1>0, <1>1, <2>3, <2>4, <2>5, <2>6 DEF GenerateSequences, limiterVars
<1>2. CASE SampleReturns
  BY <1>0, <1>2 DEF SampleReturns, sessionVars, limiterVars, batchVars
<1>3. ASSUME NEW t \in Session, RolloutEnds(t) PROVE TypeOK'
  BY <1>0, <1>3, StateSets DEF RolloutEnds, trainerVars, limiterVars, batchVars
<1>4. ASSUME NEW l \in Limiter, NEW t \in Session, SemaphoreAcquire(l, t) PROVE TypeOK'
  <2>1. permits[l] - 1 \in Nat
    BY <1>0, <1>4 DEF SemaphoreAcquire
  <2>2. Granted[l] \in SessionState
    BY <1>4, StateSets DEF Granted, Limiter
  <2>3. QED
    BY <1>0, <1>4, <2>1, <2>2 DEF SemaphoreAcquire, trainerVars, batchVars
<1>5. ASSUME NEW l \in Limiter, NEW t \in Session, CountInflight(l, t) PROVE TypeOK'
  <2>1. Using[l] \in SessionState
    BY <1>5, StateSets DEF Using, Limiter
  <2>2. QED
    BY <1>0, <1>5, <2>1 DEF CountInflight, trainerVars, batchVars
<1>6. ASSUME NEW l \in Limiter, NEW t \in Session, TeacherAnswers(l, t) PROVE TypeOK'
  <2>1. Succeeded[l] \in SessionState /\ Errored[l] \in SessionState
    BY <1>6, StateSets DEF Succeeded, Errored, Limiter
  <2>2. QED
    BY <1>0, <1>6, <2>1 DEF TeacherAnswers, trainerVars, limiterVars, batchVars
<1>7. ASSUME NEW l \in Limiter, ReleaseSlot(l)
      PROVE  permits' \in [Limiter -> Nat] /\ inflight' \in [Limiter -> Nat]
  <2>1. CASE ReleaseRaises(l)
    BY <1>0, <1>7, <2>1 DEF ReleaseSlot, limiterVars
  <2>2. CASE ~ReleaseRaises(l)
    <3>1. inflight[l] \in Nat /\ permits[l] \in Nat
      BY <1>0
    <3>2. inflight[l] - 1 \in Nat /\ permits[l] + 1 \in Nat
      BY <2>2, <3>1 DEF ReleaseRaises
    <3>3. QED
      BY <1>0, <1>7, <2>2, <3>2 DEF ReleaseSlot
  <2>3. QED
    BY <2>1, <2>2
<1>8. ASSUME NEW t \in Session, CritiqueReturns(t) PROVE TypeOK'
  <2>1. permits' \in [Limiter -> Nat] /\ inflight' \in [Limiter -> Nat]
    BY <1>7, <1>8 DEF CritiqueReturns, Limiter
  <2>2. requests' \in [Session -> Nat]
    <3>1. CASE requests' = requests
      BY <1>0, <3>1
    <3>2. CASE \E k \in 0 .. MaxErrorStep : requests' = [requests EXCEPT ![t] = 2 * k]
      BY <1>0, <3>2, ConstantsOK
    <3>3. QED
      BY <1>8, <3>1, <3>2 DEF CritiqueReturns
  <2>3. pc' \in [Session -> SessionState]
    BY <1>0, <1>8, StateSets DEF CritiqueReturns
  <2>4. QED
    BY <1>0, <1>8, <2>1, <2>2, <2>3 DEF CritiqueReturns, trainerVars, batchVars
<1>9. ASSUME NEW who, NEW raising \in BOOLEAN, Resume(who, raising)
      PROVE  /\ pc' \in [Session -> SessionState]
             /\ verdict' \in [Session -> {"none", "released", "aborted"}]
  BY <1>0, <1>9, StateSets DEF Resume, AfterBarrier
<1>10. ASSUME NEW t \in Session, ArriveAndWait(t) PROVE TypeOK'
  <2>1. StepOf(t) \in Steps
    BY SessionFacts
  <2>2. /\ arrived' \in [Steps -> SUBSET Session]
        /\ aborted' \in [Steps -> BOOLEAN]
        /\ event' \in [Steps -> BOOLEAN]
    BY <1>0, <1>10, <2>1 DEF ArriveAndWait
  <2>3. /\ pc' \in [Session -> SessionState]
        /\ verdict' \in [Session -> {"none", "released", "aborted"}]
    <3>1. CASE event'[StepOf(t)]
      <4>1. aborted'[StepOf(t)] \in BOOLEAN
        BY <2>1, <2>2
      <4>2. Resume(Waiters(StepOf(t)) \cup {t}, aborted'[StepOf(t)])
        BY <1>10, <3>1 DEF ArriveAndWait
      <4>3. QED
        BY <1>9, <4>1, <4>2
    <3>2. CASE ~event'[StepOf(t)]
      BY <1>0, <1>10, <3>2, StateSets DEF ArriveAndWait
    <3>3. QED
      BY <3>1, <3>2
  <2>4. QED
    BY <1>0, <1>10, <2>2, <2>3 DEF ArriveAndWait, trainerVars, limiterVars
<1>11. ASSUME NEW t \in Session, ScoringReturns(t) PROVE TypeOK'
  <2>1. permits' \in [Limiter -> Nat] /\ inflight' \in [Limiter -> Nat]
    BY <1>7, <1>11 DEF ScoringReturns, Limiter
  <2>2. requests[t] \in Nat /\ requests[t] > 0
    BY <1>0, <1>11, StateSets DEF ScoringReturns, ReleasedOK, Succeeded, Errored
  <2>3. requests' \in [Session -> Nat]
    BY <1>0, <1>11, <2>2 DEF ScoringReturns
  <2>4. pc' \in [Session -> SessionState]
    BY <1>0, <1>11, StateSets DEF ScoringReturns
  <2>5. QED
    BY <1>0, <1>11, <2>1, <2>3, <2>4 DEF ScoringReturns, trainerVars, batchVars
<1>12. ASSUME NEW t \in Session, PutSamples(t) PROVE TypeOK'
  <2>1. PICK outcome \in Ended : pc' = [pc EXCEPT ![t] = outcome]
    BY <1>12 DEF PutSamples
  <2>2. pc' \in [Session -> SessionState]
    BY <1>0, <2>1, StateSets DEF Ended
  <2>3. QED
    BY <1>0, <1>12, <2>2 DEF PutSamples, trainerVars, limiterVars, batchVars
<1>13. ASSUME NEW s \in Steps, NEW p \in Prompts, PromptFinishes(s, p) PROVE TypeOK'
  BY <1>0, <1>13 DEF PromptFinishes, sessionVars, limiterVars, batchVars
<1>14. ASSUME NEW s \in Steps, NEW p \in Prompts, PromptAborts(s, p) PROVE TypeOK'
  <2>1. /\ pc' \in [Session -> SessionState]
        /\ verdict' \in [Session -> {"none", "released", "aborted"}]
    BY <1>9, <1>14 DEF PromptAborts
  <2>2. QED
    BY <1>0, <1>14, <2>1 DEF PromptAborts, limiterVars
<1>15. ASSUME NEW s \in Steps, NEW p \in Prompts, PromptFails(s, p) PROVE TypeOK'
  BY <1>0, <1>15 DEF PromptFails, sessionVars, limiterVars, batchVars
<1>16. CASE UNCHANGED vars
  BY <1>0, <1>16 DEF vars, trainerVars, sessionVars, limiterVars, batchVars
<1>17. QED
  BY <1>1, <1>2, <1>3, <1>4, <1>5, <1>6, <1>8, <1>10, <1>11, <1>12, <1>13, <1>14, <1>15, <1>16
     DEF Next, SessionStep, PromptStep, Terminated

-----------------------------------------------------------------------------
(* The inductive invariant holds at the start ... *)
LEMMA InvInit == Init => IInv
<1>1. SUFFICES ASSUME Init PROVE IInv
  OBVIOUS
<1>2. MaxConcurrency \in [Limiter -> Nat]
  BY ConstantsOK
<1>3. TypeOK
  BY <1>1, <1>2, ConstantsOK, StateSets DEF Init, TypeOK
<1>4. StepsInOrder
  BY <1>1 DEF Init, StepsInOrder, Steps
<1>5. ArrivedOK /\ NoStrandedWaiter /\ EventOK
  BY <1>1, SessionFacts DEF Init, ArrivedOK, NoStrandedWaiter, EventOK
<1>6. VerdictOK /\ ReleasedOK
  BY <1>1, StateSets DEF Init, VerdictOK, ReleasedOK
<1>7. QED
  BY <1>3, <1>4, <1>5, <1>6 DEF IInv

(* ... is kept when the trainer opens a batch ... *)
LEMMA InvGenerate ==
  ASSUME IInv, TypeOK', GenerateSequences
  PROVE  IInv'
<1> DEFINE s == step + 1
<1>1. /\ s \in Steps /\ step' = s
      /\ UNCHANGED <<verdict, requests, arrived, event, aborted>>
  BY ConstantsOK DEF GenerateSequences, IInv, TypeOK, Steps
<1>2. expected[s] = 0 /\ \A u \in SessionsOf(s) : pc[u] = "absent"
  <2>1. ~(s <= step) /\ s > step
    BY DEF IInv, TypeOK
  <2>2. QED
    BY <1>1, <2>1, SessionFacts DEF IInv, StepsInOrder
<1>3. \A u \in Session : pc'[u] = IF StepOf(u) = s THEN "rollout" ELSE pc[u]
  BY DEF GenerateSequences
<1>4. \A z \in Steps : expected'[z] = IF z = s THEN ExpectedTrajectories(s) ELSE expected[z]
  BY <1>1, <1>2 DEF GenerateSequences, IInv, TypeOK
<1>5. \A z \in Steps \ {s} : status'[z] = status[z]
  BY <1>1 DEF GenerateSequences, IInv, TypeOK
<1>6. arrived[s] = {}
  BY <1>1, <1>2, SessionFacts DEF IInv, ArrivedOK
<1>7. StepsInOrder'
  <2>1. \A z \in Steps : z <= s => z = s \/ z <= step
    BY DEF IInv, TypeOK, Steps
  <2>2. \A z \in Steps : ~(z <= s) => ~(z <= step) /\ z # s
    BY DEF IInv, TypeOK, Steps
  <2>3. \A z \in Steps : z > s => z > step /\ z # s
    BY DEF IInv, TypeOK, Steps
  <2>4. QED
    BY <1>1, <1>3, <1>4, <1>5, <2>1, <2>2, <2>3, SessionFacts
       DEF IInv, StepsInOrder, ExpectedTrajectories
<1>8. ArrivedOK'
  BY <1>1, <1>3, <1>6, SessionFacts DEF IInv, ArrivedOK
<1>9. NoStrandedWaiter'
  BY <1>1, <1>3 DEF IInv, NoStrandedWaiter
<1>10. EventOK' /\ VerdictOK'
  BY <1>1 DEF IInv, EventOK, VerdictOK
<1>11. ReleasedOK'
  BY <1>1, <1>3, StateSets DEF IInv, ReleasedOK
<1>12. QED
  BY <1>7, <1>8, <1>9, <1>10, <1>11 DEF IInv

(* A released session's batch has nobody before or at the barrier. *)
LEMMA ReleasedBatch ==
  ASSUME IInv, NEW t \in Session, NEW u \in Session, StepOf(t) = StepOf(u),
         verdict[t] = "released"
  PROVE  pc[u] \notin BeforeBarrier \cup {"absent", "waiting"}
<1>1. event[StepOf(t)] /\ arrived[StepOf(t)] = SessionsOf(StepOf(t))
  BY DEF IInv, VerdictOK
<1>2. u \in arrived[StepOf(u)] /\ StepOf(u) \in Steps
  BY <1>1, SessionFacts
<1>3. QED
  BY <1>1, <1>2 DEF IInv, ArrivedOK, NoStrandedWaiter

(* What arrive_and_wait amounts to in a state that satisfies IInv: t joins *)
(* the keys of step s, which are then `keys`; the batch is never aborted   *)
(* for too many arrivals; t and the sessions that wait get one verdict.    *)
ArriveEffect(t, s, keys) ==
  /\ s = StepOf(t) /\ t \in SessionsOf(s) /\ pc[t] = "arriving"
  /\ keys = arrived[s] \cup {t} /\ keys \subseteq SessionsOf(s)
  /\ UNCHANGED <<step, status, expected, requests>>
  /\ \A z \in Steps : arrived'[z] = IF z = s THEN keys ELSE arrived[z]
  /\ \A z \in Steps : aborted'[z] = aborted[z]
  /\ \A z \in Steps : z # s => event'[z] = event[z]
  /\ event[s] => event'[s]
  /\ event'[s] => event[s] \/ keys = SessionsOf(s)
  /\ event'[s] /\ ~aborted'[s] => keys = SessionsOf(s)
  /\ \A u \in SessionsOf(s) : verdict[u] # "released"
  /\ \A u \in Session : StepOf(u) # s => pc'[u] = pc[u] /\ verdict'[u] = verdict[u]
  /\ \A u \in SessionsOf(s) :
       IF u # t /\ pc[u] # "waiting" THEN pc'[u] = pc[u] /\ verdict'[u] = verdict[u]
       ELSE \/ /\ event'[s] /\ aborted'[s]
               /\ pc'[u] = "failed" /\ verdict'[u] = "aborted"
            \/ /\ event'[s] /\ ~aborted'[s]
               /\ pc'[u] = AfterBarrier(u) /\ verdict'[u] = "released"
            \/ /\ ~event'[s]
               /\ pc'[u] = "waiting" /\ verdict'[u] = verdict[u]

LEMMA ArriveFacts ==
  ASSUME IInv, TypeOK', NEW t \in Session, ArriveAndWait(t)
  PROVE  \E s \in Steps, keys \in SUBSET Session : ArriveEffect(t, s, keys)
<1> DEFINE s == StepOf(t)
           keys == arrived[s] \cup {t}
<1>1. /\ s \in Steps /\ t \in SessionsOf(s) /\ pc[t] = "arriving"
      /\ UNCHANGED <<step, status, expected, requests>>
  BY SessionFacts DEF ArriveAndWait, trainerVars
<1>2. /\ \A z \in Steps : arrived'[z] = IF z = s THEN keys ELSE arrived[z]
      /\ \A z \in Steps : aborted'[z] = IF z = s THEN aborted[s] \/ Cardinality(keys) > expected[s]
                                        ELSE aborted[z]
      /\ \A z \in Steps : event'[z] = IF z = s THEN event[s] \/ Cardinality(keys) >= expected[s]
                                      ELSE event[z]
  BY <1>1 DEF ArriveAndWait, IInv, TypeOK
<1>3. keys \subseteq SessionsOf(s)
  BY <1>1 DEF IInv, ArrivedOK
<1>4. expected[s] = Cardinality(SessionsOf(s))
  <2>1. ~(s > step)
    BY <1>1 DEF IInv, StepsInOrder
  <2>2. s <= step
    BY <1>1, <2>1 DEF IInv, TypeOK, Steps
  <2>3. QED
    BY <1>1, <2>2 DEF IInv, StepsInOrder, ExpectedTrajectories
<1>5. /\ Cardinality(keys) \in Nat /\ Cardinality(keys) <= expected[s]
      /\ Cardinality(keys) = expected[s] => keys = SessionsOf(s)
  BY <1>1, <1>3, <1>4, SessionFacts, FS_Subset, FS_CardinalityType
<1>6. Cardinality(keys) >= expected[s] => keys = SessionsOf(s)
  <2>1. expected[s] \in Nat
    BY <1>1, <1>4, SessionFacts, FS_CardinalityType
  <2>2. QED
    BY <1>5, <2>1
<1>7. ~(Cardinality(keys) > expected[s])
  <2>1. expected[s] \in Nat
    BY <1>1, <1>4, SessionFacts, FS_CardinalityType
  <2>2. QED
    BY <1>5, <2>1
<1>8. /\ \A z \in Steps : aborted'[z] = aborted[z]
      /\ event'[s] /\ ~aborted'[s] => keys = SessionsOf(s)
  <2>1. event[s] /\ ~aborted[s] => keys = SessionsOf(s)
    BY <1>1, <1>3 DEF IInv, EventOK
  <2>2. aborted'[s] = aborted[s]
    BY <1>1, <1>2, <1>7 DEF IInv, TypeOK
  <2>3. QED
    BY <1>1, <1>2, <1>6, <2>1, <2>2
<1>9. \A u \in SessionsOf(s) : verdict[u] # "released"
  BY <1>1, ReleasedBatch, SessionFacts, StateSets
<1>10. \/ /\ event'[s] /\ Resume(Waiters(s) \cup {t}, aborted'[s])
       \/ /\ ~event'[s] /\ pc' = [pc EXCEPT ![t] = "waiting"] /\ verdict' = verdict
  BY DEF ArriveAndWait
<1>11. ASSUME NEW u \in Session, StepOf(u) # s
       PROVE  pc'[u] = pc[u] /\ verdict'[u] = verdict[u]
  <2>1. u \notin Waiters(s) \cup {t}
    BY <1>1, <1>11, SessionFacts DEF Waiters
  <2>2. QED
    BY <1>10, <2>1 DEF Resume, IInv, TypeOK
<1>12. ASSUME NEW u \in SessionsOf(s), u # t, pc[u] # "waiting"
       PROVE  pc'[u] = pc[u] /\ verdict'[u] = verdict[u]
  BY <1>1, <1>10, <1>12, SessionFacts DEF Resume, Waiters, IInv, TypeOK
<1>13. ASSUME NEW u \in SessionsOf(s), u = t \/ pc[u] = "waiting"
       PROVE  \/ /\ event'[s] /\ aborted'[s]
                 /\ pc'[u] = "failed" /\ verdict'[u] = "aborted"
              \/ /\ event'[s] /\ ~aborted'[s]
                 /\ pc'[u] = AfterBarrier(u) /\ verdict'[u] = "released"
              \/ /\ ~event'[s]
                 /\ pc'[u] = "waiting" /\ verdict'[u] = verdict[u]
  BY <1>1, <1>10, <1>13, SessionFacts DEF Resume, Waiters, IInv, TypeOK
<1>14. event'[s] => event[s] \/ keys = SessionsOf(s)
  BY <1>1, <1>2, <1>6
<1>15. \A u \in SessionsOf(s) :
         IF u # t /\ pc[u] # "waiting" THEN pc'[u] = pc[u] /\ verdict'[u] = verdict[u]
         ELSE \/ /\ event'[s] /\ aborted'[s]
                 /\ pc'[u] = "failed" /\ verdict'[u] = "aborted"
              \/ /\ event'[s] /\ ~aborted'[s]
                 /\ pc'[u] = AfterBarrier(u) /\ verdict'[u] = "released"
              \/ /\ ~event'[s]
                 /\ pc'[u] = "waiting" /\ verdict'[u] = verdict[u]
  BY <1>12, <1>13
<1>16. /\ \A z \in Steps : z # s => event'[z] = event[z]
       /\ event[s] => event'[s]
  BY <1>1, <1>2
<1>17. ArriveEffect(t, s, keys)
  BY <1>1, <1>2, <1>3, <1>8, <1>9, <1>11, <1>14, <1>15, <1>16 DEF ArriveEffect
<1>18. keys \subseteq Session
  BY <1>1, <1>3, SessionFacts
<1>19. QED
  BY <1>1, <1>17, <1>18

(* ... when a session arrives at the barrier ... *)
LEMMA InvArrive ==
  ASSUME IInv, TypeOK', NEW t \in Session, ArriveAndWait(t)
  PROVE  IInv'
<1>0. PICK s \in Steps, keys \in SUBSET Session : ArriveEffect(t, s, keys)
  BY ArriveFacts
<1>1. /\ s = StepOf(t) /\ t \in SessionsOf(s) /\ pc[t] = "arriving"
      /\ UNCHANGED <<step, status, expected, requests>>
  BY <1>0 DEF ArriveEffect
<1>2. /\ \A z \in Steps : arrived'[z] = IF z = s THEN keys ELSE arrived[z]
      /\ \A z \in Steps : z # s => event'[z] = event[z]
  BY <1>0 DEF ArriveEffect
<1>3. keys \subseteq SessionsOf(s) /\ keys = arrived[s] \cup {t}
  BY <1>0 DEF ArriveEffect
<1>4. /\ \A z \in Steps : aborted'[z] = aborted[z]
      /\ event'[s] /\ ~aborted'[s] => keys = SessionsOf(s)
  BY <1>0 DEF ArriveEffect
<1>5. \A u \in SessionsOf(s) : verdict[u] # "released"
  BY <1>0 DEF ArriveEffect
<1>6. \A u \in Session : StepOf(u) # s => pc'[u] = pc[u] /\ verdict'[u] = verdict[u]
  BY <1>0 DEF ArriveEffect
<1>7. ASSUME NEW u \in SessionsOf(s), u # t, pc[u] # "waiting"
       PROVE  pc'[u] = pc[u] /\ verdict'[u] = verdict[u]
  BY <1>0, <1>7 DEF ArriveEffect
<1>8. ASSUME NEW u \in SessionsOf(s), u = t \/ pc[u] = "waiting"
       PROVE  \/ /\ event'[s] /\ aborted'[s]
                 /\ pc'[u] = "failed" /\ verdict'[u] = "aborted"
              \/ /\ event'[s] /\ ~aborted'[s]
                 /\ pc'[u] = AfterBarrier(u) /\ verdict'[u] = "released"
              \/ /\ ~event'[s]
                 /\ pc'[u] = "waiting" /\ verdict'[u] = verdict[u]
  BY <1>0, <1>8 DEF ArriveEffect
<1>9. \A u \in Session : AfterBarrier(u) \in {"scoring_wait", "put"}
  BY DEF AfterBarrier
<1>10. StepsInOrder'
  <2>1. \A u \in Session : StepOf(u) > step => StepOf(u) # s
    BY <1>1 DEF IInv, StepsInOrder
  <2>2. QED
    BY <1>1, <1>6, <2>1 DEF IInv, StepsInOrder, ExpectedTrajectories
<1>11. ArrivedOK'
  <2>1. ASSUME NEW z \in Steps, z # s, NEW u \in arrived'[z]
        PROVE  /\ u \in SessionsOf(z)
               /\ pc'[u] \notin BeforeBarrier \cup {"absent"}
               /\ pc'[u] = "waiting" \/ verdict'[u] # "none"
    BY <1>2, <1>6, <2>1, SessionFacts DEF IInv, ArrivedOK
  <2>2. ASSUME NEW u \in keys
        PROVE  /\ u \in SessionsOf(s)
               /\ pc'[u] \notin BeforeBarrier \cup {"absent"}
               /\ pc'[u] = "waiting" \/ verdict'[u] # "none"
    <3>1. u \in SessionsOf(s) /\ u \in Session
      BY <1>1, <1>3, SessionFacts
    <3>2. CASE u = t \/ pc[u] = "waiting"
      BY <1>8, <1>9, <3>1, <3>2, StateSets
    <3>3. CASE u # t /\ pc[u] # "waiting"
      BY <1>1, <1>3, <1>7, <3>1, <3>3 DEF IInv, ArrivedOK
    <3>4. QED
      BY <3>1, <3>2, <3>3
  <2>3. QED
    BY <1>1, <1>2, <2>1, <2>2 DEF ArrivedOK
<1>12. NoStrandedWaiter'
  <2>1. ASSUME NEW u \in Session, pc'[u] = "waiting" PROVE ~event'[StepOf(u)]
    <3>1. CASE StepOf(u) # s
      BY <1>2, <1>6, <2>1, <3>1, SessionFacts DEF IInv, NoStrandedWaiter
    <3>2. CASE StepOf(u) = s
      BY <1>7, <1>8, <1>9, <2>1, <3>2, SessionFacts
    <3>3. QED
      BY <3>1, <3>2
  <2>2. QED
    BY <2>1 DEF NoStrandedWaiter
<1>13. EventOK'
  <2>1. \A z \in Steps \ {s} : event'[z] = event[z] /\ aborted'[z] = aborted[z] /\ arrived'[z] = arrived[z]
    BY <1>2, <1>4
  <2>2. event'[s] /\ ~aborted'[s] => arrived'[s] = SessionsOf(s)
    BY <1>1, <1>2, <1>4
  <2>3. QED
    BY <2>1, <2>2 DEF IInv, EventOK
<1>14. VerdictOK'
  <2>1. ASSUME NEW u \in Session, verdict'[u] = "released"
        PROVE  event'[StepOf(u)] /\ arrived'[StepOf(u)] = SessionsOf(StepOf(u))
    <3>1. CASE StepOf(u) # s
      BY <1>2, <1>6, <2>1, <3>1, SessionFacts DEF IInv, VerdictOK
    <3>2. CASE StepOf(u) = s
      BY <1>1, <1>2, <1>4, <1>5, <1>7, <1>8, <2>1, <3>2, SessionFacts
    <3>3. QED
      BY <3>1, <3>2
  <2>2. ASSUME NEW u \in Session, verdict'[u] = "aborted"
        PROVE  aborted'[StepOf(u)] /\ \A w \in SessionsOf(StepOf(u)) : verdict'[w] # "released"
    <3>1. CASE StepOf(u) # s
      BY <1>2, <1>4, <1>6, <2>2, <3>1, SessionFacts DEF IInv, VerdictOK
    <3>2. CASE StepOf(u) = s
      <4>1. aborted'[s]
        BY <1>1, <1>4, <1>7, <1>8, <2>2, <3>2, SessionFacts DEF IInv, VerdictOK
      <4>2. QED
        BY <1>5, <1>7, <1>8, <3>2, <4>1
    <3>3. QED
      BY <3>1, <3>2
  <2>3. QED
    BY <2>1, <2>2 DEF VerdictOK
<1>15. ReleasedOK'
  <2>1. ASSUME NEW u \in Session
        PROVE  /\ pc'[u] \in AfterRelease => verdict'[u] = "released"
               /\ pc'[u] \in ScoringPhase => requests'[u] > 0
    <3>1. CASE pc'[u] = pc[u] /\ verdict'[u] = verdict[u]
      BY <1>1, <3>1 DEF IInv, ReleasedOK
    <3>2. CASE pc'[u] = AfterBarrier(u) /\ verdict'[u] = "released"
      BY <1>1, <3>2, StateSets DEF AfterBarrier
    <3>3. CASE pc'[u] \in {"failed", "waiting"}
      BY <3>3, StateSets
    <3>4. QED
      BY <1>6, <1>7, <1>8, <3>1, <3>2, <3>3, SessionFacts
  <2>2. QED
    BY <2>1 DEF ReleasedOK
<1>16. QED
  BY <1>10, <1>11, <1>12, <1>13, <1>14, <1>15 DEF IInv

(* ... when a failed prompt aborts its batch, ... *)
LEMMA InvAbort ==
  ASSUME IInv, TypeOK', NEW s \in Steps, NEW p \in Prompts, PromptAborts(s, p)
  PROVE  IInv'
<1>1. /\ UNCHANGED <<step, requests, expected, arrived>>
      /\ aborted' = [aborted EXCEPT ![s] = TRUE]
      /\ event' = [event EXCEPT ![s] = TRUE]
      /\ status' = [status EXCEPT ![s][p] = "aborting"]
      /\ status[s][p] = "running"
  BY DEF PromptAborts
<1>2. \A u \in Session :
        IF u \in Waiters(s) THEN pc'[u] = "failed" /\ verdict'[u] = "aborted"
                            ELSE pc'[u] = pc[u] /\ verdict'[u] = verdict[u]
  BY DEF PromptAborts, Resume
<1>3. \A u \in Waiters(s) : u \in SessionsOf(s) /\ pc[u] = "waiting"
  BY DEF Waiters
<1>4. /\ \A z \in Steps : aborted'[z] = IF z = s THEN TRUE ELSE aborted[z]
      /\ \A z \in Steps : event'[z] = IF z = s THEN TRUE ELSE event[z]
      /\ \A z \in Steps \ {s} : status'[z] = status[z]
  BY <1>1 DEF IInv, TypeOK
<1>5. s <= step
  BY <1>1 DEF IInv, StepsInOrder
<1>6. StepsInOrder'
  <2>1. \A u \in Session : pc[u] = "absent" => pc'[u] = "absent"
    BY <1>2, <1>3
  <2>2. QED
    BY <1>1, <1>4, <1>5, <2>1 DEF IInv, StepsInOrder, ExpectedTrajectories
<1>7. ArrivedOK'
  <2>1. \A z \in Steps : \A u \in arrived[z] : u \in Session
    BY SessionFacts DEF IInv, ArrivedOK
  <2>2. QED
    BY <1>1, <1>2, <2>1, StateSets DEF IInv, ArrivedOK
<1>8. NoStrandedWaiter'
  BY <1>2, <1>4, SessionFacts DEF IInv, NoStrandedWaiter, Waiters
<1>9. EventOK'
  BY <1>1, <1>4 DEF IInv, EventOK
<1>10. VerdictOK'
  <2>1. \A u \in Session : verdict'[u] = "released" => verdict[u] = "released"
    BY <1>2
  <2>2. \A u \in Waiters(s) : u \in Session /\ StepOf(u) = s
    BY <1>3, SessionFacts
  <2>3. \A u \in Waiters(s) : \A w \in SessionsOf(s) : verdict[w] # "released"
    BY <1>3, <2>2, ReleasedBatch, SessionFacts
  <2>4. \A u \in Session : verdict'[u] = "released" =>
                              /\ event'[StepOf(u)]
                              /\ arrived'[StepOf(u)] = SessionsOf(StepOf(u))
    BY <1>1, <1>4, <2>1, SessionFacts DEF IInv, VerdictOK
  <2>5. ASSUME NEW u \in Session, verdict'[u] = "aborted"
        PROVE  aborted'[StepOf(u)] /\ \A w \in SessionsOf(StepOf(u)) : verdict'[w] # "released"
    <3>1. CASE u \in Waiters(s)
      BY <1>4, <2>1, <2>2, <2>3, <3>1, SessionFacts
    <3>2. CASE u \notin Waiters(s)
      BY <1>2, <1>4, <2>1, <2>5, <3>2, SessionFacts DEF IInv, VerdictOK
    <3>3. QED
      BY <3>1, <3>2
  <2>6. QED
    BY <2>4, <2>5 DEF VerdictOK
<1>11. ReleasedOK'
  BY <1>1, <1>2, StateSets DEF IInv, ReleasedOK
<1>12. QED
  BY <1>6, <1>7, <1>8, <1>9, <1>10, <1>11 DEF IInv

(* ... when only the trainer or the status of a running prompt moves ...   *)
LEMMA InvStatus ==
  ASSUME IInv, TypeOK', UNCHANGED <<step, sessionVars, batchVars>>,
         \/ status' = status
         \/ \E s \in Steps, p \in Prompts, new \in {"finished", "failure"} :
              status[s][p] # "absent" /\ status' = [status EXCEPT ![s][p] = new]
  PROVE  IInv'
<1>1. UNCHANGED <<step, pc, requests, verdict, expected, arrived, event, aborted>>
  BY DEF sessionVars, batchVars
<1>2. \A z \in Steps : ~(z <= step) => status'[z] = status[z]
  BY DEF IInv, TypeOK, StepsInOrder
<1>3. StepsInOrder'
  BY <1>1, <1>2 DEF IInv, StepsInOrder, ExpectedTrajectories
<1>4. ArrivedOK' /\ NoStrandedWaiter' /\ EventOK'
  BY <1>1 DEF IInv, ArrivedOK, NoStrandedWaiter, EventOK
<1>5. VerdictOK' /\ ReleasedOK'
  BY <1>1 DEF IInv, VerdictOK, ReleasedOK
<1>6. QED
  BY <1>3, <1>4, <1>5 DEF IInv

(* ... and so by every step. *)
LEMMA InvStep == IInv /\ [Next]_vars => IInv'
<1>1. SUFFICES ASSUME IInv, [Next]_vars PROVE IInv'
  OBVIOUS
<1>2. TypeOK'
  BY <1>1, TypeStep
<1>3. CASE GenerateSequences
  BY <1>1, <1>2, <1>3, InvGenerate
<1>4. CASE SampleReturns
  BY <1>1, <1>2, <1>4, InvStatus DEF SampleReturns
<1>5. ASSUME NEW t \in Session, RolloutEnds(t) PROVE IInv'
  <2>1. PICK next \in {"arriving", "critique_wait", "failed"} : pc' = [pc EXCEPT ![t] = next]
    BY <1>5 DEF RolloutEnds
  <2>2. UNCHANGED <<trainerVars, verdict, batchVars, requests>> /\ pc[t] = "rollout"
    BY <1>5 DEF RolloutEnds
  <2>3. next \in BeforeBarrier \cup {"failed"} /\ next \notin ScoringPhase
    BY StateSets
  <2>4. QED
    BY <1>1, <1>2, <2>1, <2>2, <2>3, LocalMove, StateSets
<1>6. ASSUME NEW l \in Limiter, NEW t \in Session,
             \/ SemaphoreAcquire(l, t) \/ CountInflight(l, t) \/ TeacherAnswers(l, t)
      PROVE  IInv'
  <2>1. PICK next \in Holding(l) : pc' = [pc EXCEPT ![t] = next]
    BY <1>6 DEF SemaphoreAcquire, CountInflight, TeacherAnswers, Holding
  <2>2. /\ UNCHANGED <<trainerVars, verdict, batchVars, requests>>
        /\ pc[t] \in {Wanting[l]} \cup Holding(l)
    BY <1>6 DEF SemaphoreAcquire, CountInflight, TeacherAnswers, Holding
  <2>3. CASE l = "critique"
    <3>1. {Wanting[l]} \cup Holding(l) \subseteq BeforeBarrier \ ScoringPhase
      BY <2>3, StateSets DEF Holding, Wanting, Granted, Using, Succeeded, Errored
    <3>2. QED
      BY <1>1, <1>2, <2>1, <2>2, <3>1, LocalMove
  <2>4. CASE l = "scoring"
    <3>1. {Wanting[l]} \cup Holding(l) \subseteq ScoringPhase \cap AfterRelease
      BY <2>4, StateSets DEF Holding, Wanting, Granted, Using, Succeeded, Errored
    <3>2. requests'[t] > 0
      BY <1>1, <2>2, <3>1 DEF IInv, ReleasedOK
    <3>3. QED
      BY <1>1, <1>2, <2>1, <2>2, <3>1, <3>2, LocalMove
  <2>5. QED
    BY <2>3, <2>4 DEF Limiter
<1>7. ASSUME NEW t \in Session, CritiqueReturns(t) PROVE IInv'
  <2>1. PICK next \in {"arriving", "failed"} : pc' = [pc EXCEPT ![t] = next]
    BY <1>7 DEF CritiqueReturns
  <2>2. UNCHANGED <<trainerVars, verdict, batchVars>> /\ pc[t] \in BeforeBarrier
    BY <1>7, StateSets DEF CritiqueReturns, Succeeded, Errored
  <2>3. \A u \in Session \ {t} : requests'[u] = requests[u]
    BY <1>1, <1>7 DEF CritiqueReturns, IInv, TypeOK
  <2>4. QED
    BY <1>1, <1>2, <2>1, <2>2, <2>3, LocalMove, StateSets
<1>8. ASSUME NEW t \in Session, ArriveAndWait(t) PROVE IInv'
  BY <1>1, <1>2, <1>8, InvArrive
<1>9. ASSUME NEW t \in Session, ScoringReturns(t) PROVE IInv'
  <2>1. PICK next \in {"scoring_wait", "put", "failed"} :
          /\ pc' = [pc EXCEPT ![t] = next]
          /\ next = "scoring_wait" => requests' = [requests EXCEPT ![t] = @ - 1] /\ requests[t] > 1
    BY <1>9 DEF ScoringReturns
  <2>2. UNCHANGED <<trainerVars, verdict, batchVars>> /\ pc[t] \in AfterRelease
    BY <1>9, StateSets DEF ScoringReturns, Succeeded, Errored
  <2>3. \A u \in Session \ {t} : requests'[u] = requests[u]
    BY <1>1, <1>9 DEF ScoringReturns, IInv, TypeOK
  <2>4. next \in ScoringPhase => requests'[t] > 0
    <3>1. next \in ScoringPhase => next = "scoring_wait"
      BY StateSets
    <3>2. requests[t] > 1 => requests[t] - 1 > 0
      BY <1>1 DEF IInv, TypeOK
    <3>3. QED
      BY <1>1, <2>1, <3>1, <3>2 DEF IInv, TypeOK
  <2>5. QED
    BY <1>1, <1>2, <2>1, <2>2, <2>3, <2>4, LocalMove, StateSets
<1>10. ASSUME NEW t \in Session, PutSamples(t) PROVE IInv'
  <2>1. PICK next \in {"done", "failed"} : pc' = [pc EXCEPT ![t] = next]
    BY <1>10 DEF PutSamples, Ended
  <2>3. pc[t] \in AfterRelease /\ UNCHANGED <<trainerVars, verdict, batchVars, requests>>
    BY <1>10, StateSets DEF PutSamples
  <2>2. QED
    BY <1>1, <1>2, <2>1, <2>3, LocalMove, StateSets
<1>11. ASSUME NEW s \in Steps, NEW p \in Prompts, PromptFinishes(s, p) PROVE IInv'
  BY <1>1, <1>2, <1>11, InvStatus DEF PromptFinishes
<1>12. ASSUME NEW s \in Steps, NEW p \in Prompts, PromptAborts(s, p) PROVE IInv'
  BY <1>1, <1>2, <1>12, InvAbort
<1>13. ASSUME NEW s \in Steps, NEW p \in Prompts, PromptFails(s, p) PROVE IInv'
  BY <1>1, <1>2, <1>13, InvStatus DEF PromptFails
<1>14. CASE UNCHANGED vars
  BY <1>1, <1>2, <1>14, InvStatus DEF vars, trainerVars
<1>15. QED
  BY <1>1, <1>3, <1>4, <1>5, <1>6, <1>7, <1>8, <1>9, <1>10, <1>11, <1>12, <1>13, <1>14
     DEF Next, SessionStep, PromptStep, Terminated

-----------------------------------------------------------------------------
(* IInv is an invariant: what holds in every reachable state of the tasks, *)
(* the limiters and the coordinator follows from it.                       *)
THEOREM Invariance == Spec => []IInv
<1>1. QED
  BY InvInit, InvStep, PTL DEF Spec

(* Every variable keeps its type: in particular no limiter's semaphore or  *)
(* counter goes below zero.                                                *)
THEOREM TypeCorrect == Spec => []TypeOK
<1>1. IInv => TypeOK
  BY DEF IInv
<1>2. QED
  BY <1>1, Invariance, PTL

(* Critique first (the promise of GlobalTeacherBatchPhaseCoordinator and   *)
(* of _compute_teacher_logprobs), for any prompts, rollouts and slots.     *)
THEOREM CritiqueBeforeScoring == Spec => []CritiqueFirst
<1>1. IInv => CritiqueFirst
  <2>1. SUFFICES ASSUME IInv, NEW t \in Session, NEW u \in Session,
                        StepOf(t) = StepOf(u), pc[t] \in ScoringPhase
                 PROVE  pc[u] \notin CritiquePhase
    BY DEF CritiqueFirst
  <2>2. verdict[t] = "released"
    BY <2>1, StateSets DEF IInv, ReleasedOK
  <2>3. QED
    BY <2>1, <2>2, ReleasedBatch, StateSets
<1>2. QED
  BY <1>1, Invariance, PTL

(* All or nothing (_run_prompt aborts the batch of a failed session): no   *)
(* session of a batch is released when one failed before the barrier.      *)
THEOREM AllOrNothing == Spec => []BatchAllOrNothing
<1>1. IInv => BatchAllOrNothing
  <2>1. SUFFICES ASSUME IInv, NEW t \in Session, NEW u \in Session,
                        StepOf(t) = StepOf(u), pc[t] = "failed", verdict[t] # "released",
                        verdict[u] = "released"
                 PROVE  FALSE
    BY DEF BatchAllOrNothing
  <2>2. t \in arrived[StepOf(t)] /\ StepOf(t) \in Steps /\ u \in SessionsOf(StepOf(t))
    BY <2>1, SessionFacts DEF IInv, VerdictOK
  <2>3. verdict[t] = "aborted"
    BY <2>1, <2>2 DEF IInv, ArrivedOK, TypeOK
  <2>4. QED
    BY <2>1, <2>2, <2>3 DEF IInv, VerdictOK
<1>2. QED
  BY <1>1, Invariance, PTL

(* The event of arrive_and_wait strands nobody. *)
THEOREM NobodyStranded == Spec => []NoStrandedWaiter
<1>1. IInv => NoStrandedWaiter
  BY DEF IInv
<1>2. QED
  BY <1>1, Invariance, PTL

-----------------------------------------------------------------------------
(* A session that put its samples stays as it is. *)
LEMMA DoneIsFinal ==
  ASSUME IInv, [Next]_vars, NEW t \in Session, pc[t] = "done"
  PROVE  pc'[t] = "done"
<1>1. CASE GenerateSequences
  <2>1. ~(StepOf(t) > step) /\ StepOf(t) \in Steps
    BY SessionFacts DEF IInv, StepsInOrder
  <2>2. StepOf(t) # step + 1
    BY <2>1 DEF IInv, TypeOK, Steps
  <2>3. QED
    BY <1>1, <2>2 DEF GenerateSequences
<1>2. ASSUME NEW u \in Session, SessionStep(u), u # t PROVE pc'[t] = "done"
  <2>1. ASSUME ArriveAndWait(u) PROVE pc'[t] = "done"
    BY <1>2, <2>1 DEF ArriveAndWait, Resume, Waiters, IInv, TypeOK
  <2>2. ASSUME NEW l \in Limiter,
               SemaphoreAcquire(l, u) \/ CountInflight(l, u) \/ TeacherAnswers(l, u)
        PROVE  pc'[t] = "done"
    BY <1>2, <2>2 DEF SemaphoreAcquire, CountInflight, TeacherAnswers, IInv, TypeOK
  <2>3. ASSUME RolloutEnds(u) \/ CritiqueReturns(u) \/ ScoringReturns(u) \/ PutSamples(u)
        PROVE  pc'[t] = "done"
    BY <1>2, <2>3 DEF RolloutEnds, CritiqueReturns, ScoringReturns, PutSamples, IInv, TypeOK
  <2>4. QED
    BY <1>2, <2>1, <2>2, <2>3 DEF SessionStep
<1>3. ASSUME SessionStep(t) PROVE FALSE
  BY <1>3 DEF SessionStep, RolloutEnds, SemaphoreAcquire, CountInflight, TeacherAnswers,
     CritiqueReturns, ArriveAndWait, ScoringReturns, PutSamples, Limiter,
     Wanting, Granted, Using, Succeeded, Errored
<1>4. ASSUME NEW s \in Steps, NEW p \in Prompts, PromptStep(s, p) PROVE pc'[t] = "done"
  BY <1>4 DEF PromptStep, PromptFinishes, PromptAborts, PromptFails, Resume, Waiters, sessionVars
<1>5. CASE SampleReturns \/ UNCHANGED vars
  BY <1>5 DEF SampleReturns, vars, sessionVars
<1>6. QED
  BY <1>1, <1>2, <1>3, <1>4, <1>5 DEF Next, Terminated

(* "finished" means complete (_run_prompt puts it after its gather): all   *)
(* sessions of the prompt were released and put their samples.             *)
THEOREM FinishedIsComplete == Spec => []FinishedPromptIsComplete
<1>1. Init => FinishedPromptIsComplete
  BY DEF Init, FinishedPromptIsComplete
<1>2. IInv /\ IInv' /\ FinishedPromptIsComplete /\ [Next]_vars => FinishedPromptIsComplete'
  <2>1. SUFFICES ASSUME IInv, IInv', FinishedPromptIsComplete, [Next]_vars,
                        NEW s \in Steps, NEW p \in Prompts, status'[s][p] = "finished",
                        NEW t \in SessionsOfPrompt(s, p)
                 PROVE  pc'[t] = "done" /\ verdict'[t] = "released"
    BY DEF FinishedPromptIsComplete, SessionsOfPrompt
  <2>2. t \in Session
    BY <2>1 DEF SessionsOfPrompt, SessionsOf
  <2>3. ASSUME status[s][p] = "finished" PROVE pc'[t] = "done"
    BY <2>1, <2>2, <2>3, DoneIsFinal DEF FinishedPromptIsComplete
  <2>4. ASSUME status[s][p] # "finished" PROVE pc'[t] = "done"
    <3>1. UNCHANGED status \/ GenerateSequences
            \/ \E z \in Steps, q \in Prompts : PromptStep(z, q)
      <4>1. ASSUME NEW u \in Session, SessionStep(u) PROVE UNCHANGED status
        BY <4>1 DEF SessionStep, trainerVars, RolloutEnds, SemaphoreAcquire, CountInflight,
           TeacherAnswers, CritiqueReturns, ArriveAndWait, ScoringReturns, PutSamples
      <4>2. CASE SampleReturns \/ UNCHANGED vars
        BY <4>2 DEF SampleReturns, vars, trainerVars
      <4>3. QED
        BY <2>1, <4>1, <4>2 DEF Next, Terminated
    <3>2. ~GenerateSequences
      <4>1. SUFFICES ASSUME GenerateSequences PROVE FALSE
        OBVIOUS
      <4>2. status'[s][p] = status[s][p] \/ status'[s][p] = "running"
        BY <2>1, <4>1 DEF GenerateSequences, IInv, TypeOK
      <4>3. QED
        BY <2>1, <2>4, <4>2
    <3>3. PICK z \in Steps, q \in Prompts : PromptStep(z, q)
      BY <2>1, <2>4, <3>1, <3>2
    <3>4. PICK new \in {"finished", "aborting", "failure"} :
            /\ status' = [status EXCEPT ![z][q] = new]
            /\ new = "finished" => PromptFinishes(z, q)
      BY <3>3 DEF PromptStep, PromptFinishes, PromptAborts, PromptFails
    <3>5. /\ status'[z] = [status[z] EXCEPT ![q] = new]
          /\ z # s => status'[s] = status[s]
      BY <2>1, <3>4 DEF IInv, TypeOK
    <3>6. z = s /\ q = p /\ new = "finished"
      <4>1. z = s
        BY <2>1, <2>4, <3>5
      <4>2. status[s] \in [Prompts -> {"absent", "running", "aborting", "finished", "failure"}]
        BY <2>1 DEF IInv, TypeOK
      <4>3. status'[s] = [status[s] EXCEPT ![q] = new]
        BY <3>5, <4>1
      <4>4. q = p
        BY <2>1, <2>4, <4>2, <4>3
      <4>5. QED
        BY <2>1, <4>1, <4>2, <4>3, <4>4
    <3>7. pc[t] = "done"
      BY <2>1, <3>4, <3>6 DEF PromptFinishes
    <3>8. QED
      BY <2>1, <2>2, <3>7, DoneIsFinal
  <2>5. pc'[t] = "done"
    BY <2>3, <2>4
  <2>6. "done" \in AfterRelease
    BY StateSets
  <2>7. QED
    BY <2>1, <2>2, <2>5, <2>6 DEF IInv, ReleasedOK
<1>3. QED
  BY <1>1, <1>2, Invariance, PTL DEF Spec

-----------------------------------------------------------------------------
(* The states around a slot, spelled out per limiter. *)
LEMMA SlotStates ==
  /\ Counted("critique") = {"critique_busy", "critique_ok", "critique_error"}
  /\ Counted("scoring") = {"scoring_busy", "scoring_ok", "scoring_error"}
  /\ \A l \in Limiter : /\ Holding(l) = Counted(l) \cup {Granted[l]}
                        /\ Granted[l] \notin Counted(l) /\ Wanting[l] \notin Holding(l)
                        /\ Using[l] \in Counted(l)
                        /\ Succeeded[l] \in Counted(l) /\ Errored[l] \in Counted(l)
  /\ Granted["critique"] = "critique_granted" /\ Granted["scoring"] = "scoring_granted"
  /\ Wanting["critique"] = "critique_wait" /\ Wanting["scoring"] = "scoring_wait"
BY DEF Counted, Holding, Limiter, Wanting, Granted, Using, Succeeded, Errored

(* How the number of sessions in given states changes when one moves. *)
SessionsNext(states) == { u \in Session : pc'[u] \in states }

LEMMA Recount ==
  ASSUME TypeOK, NEW states, NEW t \in Session, NEW next, pc' = [pc EXCEPT ![t] = next]
  PROVE  /\ Cardinality(Sessions(states)) \in Nat
         /\ pc[t] \in states => Cardinality(Sessions(states)) > 0
         /\ Cardinality(SessionsNext(states)) =
              Cardinality(Sessions(states))
                + (IF next \in states THEN 1 ELSE 0) - (IF pc[t] \in states THEN 1 ELSE 0)
<1> DEFINE S == Sessions(states)
           N == SessionsNext(states)
           Rest == S \ {t}
<1>1. IsFiniteSet(S)
  <2>1. IsFiniteSet(Steps)
    BY ConstantsOK, FS_Interval DEF Steps
  <2>2. IsFiniteSet(Session)
    BY <2>1, ConstantsOK, FS_Product, FS_Subset DEF Session
  <2>3. S \subseteq Session
    BY DEF Sessions
  <2>4. QED
    BY <2>2, <2>3, FS_Subset
<1>2. /\ Cardinality(S) \in Nat /\ IsFiniteSet(Rest) /\ Cardinality(Rest) \in Nat
      /\ Cardinality(Rest) = IF t \in S THEN Cardinality(S) - 1 ELSE Cardinality(S)
  BY <1>1, FS_CardinalityType, FS_RemoveElement
<1>3. t \in S <=> pc[t] \in states
  BY DEF Sessions
<1>4. /\ next \in states => N = Rest \cup {t}
      /\ next \notin states => N = Rest
  BY DEF Sessions, SessionsNext, TypeOK
<1>5. Cardinality(Rest \cup {t}) = Cardinality(Rest) + 1
  BY <1>2, FS_AddElement
<1>6. /\ next \in states => Cardinality(N) = Cardinality(Rest) + 1
      /\ next \notin states => Cardinality(N) = Cardinality(Rest)
  BY <1>4, <1>5
<1>7. QED
  <2> HIDE DEF S, N, Rest
  <2>1. /\ Cardinality(S) \in Nat
        /\ pc[t] \in states => Cardinality(S) > 0
        /\ Cardinality(N) = Cardinality(S) + (IF next \in states THEN 1 ELSE 0)
                                           - (IF pc[t] \in states THEN 1 ELSE 0)
    BY <1>2, <1>3, <1>6
  <2>2. QED
    BY <2>1 DEF S, N

(* The accounts of the next state. *)
LEMMA AccountingNext ==
  ASSUME \A l \in Limiter :
           /\ inflight'[l] = Cardinality(SessionsNext(Counted(l)))
           /\ permits'[l] + Cardinality(SessionsNext(Holding(l))) = MaxConcurrency[l]
  PROVE  SlotAccounting'
<1>1. \A l : /\ Sessions(Counted(l))' = SessionsNext(Counted(l))
             /\ Sessions(Holding(l))' = SessionsNext(Holding(l))
  BY DEF Sessions, SessionsNext, Counted, Holding
<1>2. QED
  BY <1>1 DEF SlotAccounting

(* A step that moves no session into or out of a limiter's states, and     *)
(* leaves the limiters alone, keeps the accounts.                          *)
LEMMA NoSlotMoves ==
  ASSUME SlotAccounting, UNCHANGED limiterVars,
         \A l \in Limiter : \A u \in Session :
           /\ pc'[u] \in Counted(l) <=> pc[u] \in Counted(l)
           /\ pc'[u] \in Holding(l) <=> pc[u] \in Holding(l)
  PROVE  SlotAccounting'
<1>1. ASSUME NEW l \in Limiter
      PROVE  /\ SessionsNext(Counted(l)) = Sessions(Counted(l))
             /\ SessionsNext(Holding(l)) = Sessions(Holding(l))
  BY DEF Sessions, SessionsNext
<1>2. QED
  BY <1>1, AccountingNext DEF SlotAccounting, limiterVars

(* Releasing the slot a session holds: never refused, and booked. *)
LEMMA ReleaseBooked ==
  ASSUME TypeOK, SlotAccounting, NEW l \in Limiter, NEW t \in Session, NEW next,
         pc[t] \in Counted(l), pc' = [pc EXCEPT ![t] = next],
         \A k \in Limiter : next \notin Holding(k),
         ReleaseSlot(l)
  PROVE  SlotAccounting'
<1>1. inflight[l] > 0
  BY Recount DEF SlotAccounting
<1>2. /\ inflight' = [inflight EXCEPT ![l] = @ - 1]
      /\ permits' = [permits EXCEPT ![l] = @ + 1]
  BY <1>1 DEF ReleaseSlot, ReleaseRaises, TypeOK
<1>3. ASSUME NEW k \in Limiter
      PROVE  /\ inflight'[k] = Cardinality(SessionsNext(Counted(k)))
             /\ permits'[k] + Cardinality(SessionsNext(Holding(k))) = MaxConcurrency[k]
  <2>1. /\ inflight[k] \in Nat /\ permits[k] \in Nat
        /\ inflight[k] = Cardinality(Sessions(Counted(k)))
        /\ permits[k] + Cardinality(Sessions(Holding(k))) = MaxConcurrency[k]
    BY DEF SlotAccounting, TypeOK
  <2>2. /\ next \notin Holding(k) /\ next \notin Counted(k)
        /\ pc[t] \in Counted(k) <=> k = l
        /\ pc[t] \in Holding(k) <=> k = l
    BY SlotStates DEF Limiter
  <2>3. /\ inflight'[k] = IF k = l THEN inflight[k] - 1 ELSE inflight[k]
        /\ permits'[k] = IF k = l THEN permits[k] + 1 ELSE permits[k]
    BY <1>2 DEF TypeOK
  <2>4. /\ Cardinality(Sessions(Counted(k))) \in Nat /\ Cardinality(Sessions(Holding(k))) \in Nat
        /\ Cardinality(SessionsNext(Counted(k))) =
             Cardinality(Sessions(Counted(k)))
               + (IF next \in Counted(k) THEN 1 ELSE 0) - (IF pc[t] \in Counted(k) THEN 1 ELSE 0)
        /\ Cardinality(SessionsNext(Holding(k))) =
             Cardinality(Sessions(Holding(k)))
               + (IF next \in Holding(k) THEN 1 ELSE 0) - (IF pc[t] \in Holding(k) THEN 1 ELSE 0)
    BY Recount
  <2>5. /\ Cardinality(SessionsNext(Counted(k))) =
             Cardinality(Sessions(Counted(k))) - (IF k = l THEN 1 ELSE 0)
        /\ Cardinality(SessionsNext(Holding(k))) =
             Cardinality(Sessions(Holding(k))) - (IF k = l THEN 1 ELSE 0)
    BY <2>2, <2>4
  <2>6. MaxConcurrency[k] \in Nat
    BY ConstantsOK
  <2>7. QED
    BY <2>1, <2>3, <2>4, <2>5, <2>6
<1>4. QED
  BY <1>3, AccountingNext

(* Taking a slot: the permit goes first, the count follows. *)
LEMMA AcquireBooked ==
  ASSUME TypeOK, SlotAccounting, NEW l \in Limiter, NEW t \in Session,
         SemaphoreAcquire(l, t) \/ CountInflight(l, t)
  PROVE  SlotAccounting'
<1>1. PICK next \in {Granted[l], Using[l]} :
        /\ pc' = [pc EXCEPT ![t] = next]
        /\ \/ /\ next = Granted[l] /\ pc[t] = Wanting[l] /\ permits[l] > 0
              /\ permits' = [permits EXCEPT ![l] = @ - 1] /\ inflight' = inflight
           \/ /\ next = Using[l] /\ pc[t] = Granted[l]
              /\ inflight' = [inflight EXCEPT ![l] = @ + 1] /\ permits' = permits
  BY DEF SemaphoreAcquire, CountInflight
<1>2. ASSUME NEW k \in Limiter
      PROVE  /\ inflight'[k] = Cardinality(SessionsNext(Counted(k)))
             /\ permits'[k] + Cardinality(SessionsNext(Holding(k))) = MaxConcurrency[k]
  <2>1. /\ inflight[k] \in Nat /\ permits[k] \in Nat /\ MaxConcurrency[k] \in Nat
        /\ inflight[k] = Cardinality(Sessions(Counted(k)))
        /\ permits[k] + Cardinality(Sessions(Holding(k))) = MaxConcurrency[k]
    BY ConstantsOK DEF SlotAccounting, TypeOK
  <2>2. /\ Cardinality(Sessions(Counted(k))) \in Nat /\ Cardinality(Sessions(Holding(k))) \in Nat
        /\ Cardinality(SessionsNext(Counted(k))) =
             Cardinality(Sessions(Counted(k)))
               + (IF next \in Counted(k) THEN 1 ELSE 0) - (IF pc[t] \in Counted(k) THEN 1 ELSE 0)
        /\ Cardinality(SessionsNext(Holding(k))) =
             Cardinality(Sessions(Holding(k)))
               + (IF next \in Holding(k) THEN 1 ELSE 0) - (IF pc[t] \in Holding(k) THEN 1 ELSE 0)
    BY <1>1, Recount
  <2>3. CASE next = Granted[l] /\ pc[t] = Wanting[l]
    <3>1. /\ next \notin Counted(k) /\ pc[t] \notin Counted(k) /\ pc[t] \notin Holding(k)
          /\ next \in Holding(k) <=> k = l
      BY <2>3, SlotStates DEF Limiter
    <3>2. Granted[l] # Using[l]
      BY SlotStates
    <3>3. /\ inflight'[k] = inflight[k]
          /\ permits'[k] = IF k = l THEN permits[k] - 1 ELSE permits[k]
      BY <1>1, <2>3, <3>2 DEF TypeOK
    <3>4. QED
      BY <2>1, <2>2, <3>1, <3>3
  <2>4. CASE next = Using[l] /\ pc[t] = Granted[l]
    <3>1. /\ pc[t] \notin Counted(k) /\ (next \in Counted(k) <=> k = l)
          /\ next \in Holding(k) <=> k = l
          /\ pc[t] \in Holding(k) <=> k = l
      BY <2>4, SlotStates DEF Limiter, Using
    <3>2. Granted[l] # Using[l]
      BY SlotStates
    <3>3. /\ inflight'[k] = IF k = l THEN inflight[k] + 1 ELSE inflight[k]
          /\ permits'[k] = permits[k]
      BY <1>1, <2>4, <3>2 DEF TypeOK
    <3>4. QED
      BY <2>1, <2>2, <3>1, <3>3
  <2>5. QED
    BY <1>1, <2>3, <2>4
<1>3. QED
  BY <1>2, AccountingNext

-----------------------------------------------------------------------------
LEMMA AccountingInit == Init => SlotAccounting
<1> SUFFICES ASSUME Init, NEW l \in Limiter
             PROVE  /\ inflight[l] = Cardinality(Sessions(Counted(l)))
                    /\ permits[l] + Cardinality(Sessions(Holding(l))) = MaxConcurrency[l]
  BY DEF SlotAccounting
<1>1. Sessions(Counted(l)) = {} /\ Sessions(Holding(l)) = {}
  BY DEF Init, Sessions, Counted, Holding, Limiter, Granted, Using, Succeeded, Errored
<1>2. permits[l] = MaxConcurrency[l] /\ inflight[l] = 0 /\ MaxConcurrency[l] \in Nat
  BY ConstantsOK DEF Init
<1>3. QED
  BY <1>1, <1>2, FS_EmptySet

(* States in which a session has nothing to do with a slot. *)
NoSlot == {"absent", "rollout", "arriving", "waiting", "put", "done", "failed",
           "critique_wait", "scoring_wait"}

LEMMA NoSlotFacts ==
  /\ \A l \in Limiter : \A state \in NoSlot : state \notin Holding(l) /\ state \notin Counted(l)
  /\ \A t \in Session : AfterBarrier(t) \in NoSlot
BY DEF NoSlot, Counted, Holding, Limiter, Granted, Using, Succeeded, Errored, AfterBarrier

(* Sessions that do not move, or move between states without a slot. *)
LEMMA OutsideMoves ==
  ASSUME SlotAccounting, UNCHANGED limiterVars,
         \A u \in Session : pc'[u] = pc[u] \/ (pc[u] \in NoSlot /\ pc'[u] \in NoSlot)
  PROVE  SlotAccounting'
BY NoSlotFacts, NoSlotMoves

(* One case per action: those of the limiters are booked above, the others *)
(* move no session into or out of a limiter's states.                      *)
LEMMA AccountingStep ==
  ASSUME IInv, SlotAccounting, [Next]_vars
  PROVE  SlotAccounting'
<1>0. TypeOK
  BY DEF IInv
<1>1. CASE GenerateSequences
  <2>1. \A u \in Session : pc'[u] = pc[u] \/ (pc[u] = "absent" /\ pc'[u] = "rollout")
    BY <1>0, <1>1, SessionFacts DEF GenerateSequences, IInv, StepsInOrder, TypeOK, Steps
  <2>2. UNCHANGED limiterVars
    BY <1>1 DEF GenerateSequences
  <2>3. QED
    BY <2>1, <2>2, OutsideMoves DEF NoSlot
<1>2. CASE SampleReturns
  BY <1>2, OutsideMoves DEF SampleReturns, sessionVars
<1>3. ASSUME NEW t \in Session, SessionStep(t)
      PROVE  SlotAccounting'
  <2>1. CASE RolloutEnds(t)
    <3>1. \A u \in Session : pc'[u] = pc[u] \/ (pc[u] \in NoSlot /\ pc'[u] \in NoSlot)
      BY <1>0, <2>1 DEF RolloutEnds, TypeOK, NoSlot
    <3>2. QED
      BY <2>1, <3>1, OutsideMoves DEF RolloutEnds
  <2>2. ASSUME NEW l \in Limiter, TeacherAnswers(l, t)
        PROVE  SlotAccounting'
    <3>1. PICK outcome \in {Succeeded[l], Errored[l]} : pc' = [pc EXCEPT ![t] = outcome]
      BY <2>2 DEF TeacherAnswers
    <3>2. \A k \in Limiter : /\ outcome \in Counted(k) <=> Using[l] \in Counted(k)
                             /\ outcome \in Holding(k) <=> Using[l] \in Holding(k)
      BY <3>1 DEF Counted, Holding, Limiter, Granted, Using, Succeeded, Errored
    <3>3. \A u \in Session : pc'[u] = IF u = t THEN outcome ELSE pc[u]
      BY <1>0, <3>1 DEF TypeOK
    <3>4. pc[t] = Using[l] /\ UNCHANGED limiterVars
      BY <2>2 DEF TeacherAnswers
    <3>5. QED
      BY <3>2, <3>3, <3>4, NoSlotMoves
  <2>3. ASSUME NEW l \in Limiter, SemaphoreAcquire(l, t) \/ CountInflight(l, t)
        PROVE  SlotAccounting'
    BY <1>0, <2>3, AcquireBooked
  <2>4. CASE CritiqueReturns(t)
    <3>1. PICK next \in {"arriving", "failed"} : pc' = [pc EXCEPT ![t] = next]
      BY <2>4 DEF CritiqueReturns
    <3>2. pc[t] \in Counted("critique") /\ ReleaseSlot("critique")
      BY <2>4, SlotStates DEF CritiqueReturns, Succeeded, Errored
    <3>3. \A k \in Limiter : next \notin Holding(k)
      BY <3>1, NoSlotFacts DEF NoSlot
    <3>4. QED
      BY <1>0, <3>1, <3>2, <3>3, ReleaseBooked DEF Limiter
  <2>5. CASE ScoringReturns(t)
    <3>1. PICK next \in {"scoring_wait", "put", "failed"} : pc' = [pc EXCEPT ![t] = next]
      BY <2>5 DEF ScoringReturns
    <3>2. pc[t] \in Counted("scoring") /\ ReleaseSlot("scoring")
      BY <2>5, SlotStates DEF ScoringReturns, Succeeded, Errored
    <3>3. \A k \in Limiter : next \notin Holding(k)
      BY <3>1, NoSlotFacts DEF NoSlot
    <3>4. QED
      BY <1>0, <3>1, <3>2, <3>3, ReleaseBooked DEF Limiter
  <2>6. CASE ArriveAndWait(t)
    <3>1. \A u \in Session :
            \/ pc'[u] = pc[u]
            \/ /\ pc[u] \in {"arriving", "waiting"}
               /\ pc'[u] \in {"waiting", "failed", AfterBarrier(u)}
      BY <1>0, <2>6 DEF ArriveAndWait, Resume, Waiters, TypeOK
    <3>2. UNCHANGED limiterVars
      BY <2>6 DEF ArriveAndWait
    <3>3. QED
      BY <3>1, <3>2, NoSlotFacts, OutsideMoves DEF NoSlot
  <2>7. CASE PutSamples(t)
    <3>1. \A u \in Session : pc'[u] = pc[u] \/ (pc[u] = "put" /\ pc'[u] \in {"done", "failed"})
      BY <1>0, <2>7 DEF PutSamples, TypeOK, Ended
    <3>2. QED
      BY <2>7, <3>1, OutsideMoves DEF PutSamples, NoSlot
  <2>8. QED
    BY <1>3, <2>1, <2>2, <2>3, <2>4, <2>5, <2>6, <2>7 DEF SessionStep
<1>4. ASSUME NEW s \in Steps, NEW p \in Prompts, PromptStep(s, p)
      PROVE  SlotAccounting'
  <2>1. CASE PromptAborts(s, p)
    <3>1. \A u \in Session : pc'[u] = pc[u] \/ (pc[u] = "waiting" /\ pc'[u] = "failed")
      BY <2>1 DEF PromptAborts, Resume, Waiters
    <3>2. UNCHANGED limiterVars
      BY <2>1 DEF PromptAborts
    <3>3. QED
      BY <3>1, <3>2, OutsideMoves DEF NoSlot
  <2>2. CASE PromptFinishes(s, p) \/ PromptFails(s, p)
    BY <2>2, OutsideMoves DEF PromptFinishes, PromptFails, sessionVars
  <2>3. QED
    BY <1>4, <2>1, <2>2 DEF PromptStep
<1>5. CASE Terminated \/ UNCHANGED vars
  BY <1>5, OutsideMoves DEF Terminated, vars, sessionVars
<1>6. QED
  BY <1>1, <1>2, <1>3, <1>4, <1>5 DEF Next

(* The counters of both limiters agree with the sessions that hold their   *)
(* slots, whatever raises and whichever batch is aborted: no slot leaks,   *)
(* none is freed twice.                                                    *)
THEOREM SlotsAccounted == Spec => []SlotAccounting
<1>1. Init => SlotAccounting
  BY AccountingInit
<1>2. IInv /\ SlotAccounting /\ [Next]_vars => SlotAccounting'
  BY AccountingStep
<1>3. QED
  BY <1>1, <1>2, Invariance, PTL DEF Spec
=============================================================================
