---------------------- MODULE TeacherRefinement_proofs ----------------------
(***************************************************************************)
(* TLAPS proof that TeacherBatch implements BatchPhase: the tasks, the     *)
(* limiters and the coordinator take, seen through PhaseOf and OutcomeOf,  *)
(* a step of the barrier or none at all.                                   *)
(***************************************************************************)
EXTENDS TeacherBatch_proofs

(* Only a batch that was opened at the coordinator has its event set, and  *)
(* an aborted batch has.                                                   *)
EventSet ==
  \A s \in Steps : /\ aborted[s] => event[s]
                   /\ event[s] => s <= step

RInv == IInv /\ EventSet

-----------------------------------------------------------------------------
(* The mapping of a session and of a batch, spelled out. *)
LEMMA PhaseIs ==
  \A t \in Session :
    /\ pc[t] = "absent" => PhaseOf(t) = "out"
    /\ pc[t] = "waiting" => PhaseOf(t) = "barrier"
    /\ pc[t] \in {"done", "failed"} => PhaseOf(t) = "ended"
    /\ pc[t] \in BeforeBarrier => PhaseOf(t) = "critique"
    /\ pc[t] \in AfterRelease \ {"done"} => PhaseOf(t) = "released"
<1>1. Ended = {"done", "failed"}
  BY DEF Ended
<1>2. QED
  BY <1>1, StateSets DEF PhaseOf

LEMMA OutcomeIs ==
  ASSUME IInv, NEW s \in Steps
  PROVE  /\ ~event[s] => OutcomeOf(s) = "pending"
         /\ OutcomeOf(s) = "pending" => ~event[s]
BY SessionFacts DEF OutcomeOf, IInv, VerdictOK

LEMMA MembersAre == \A s : Phase!Members(s) = SessionsOf(s)
BY DEF Phase!Members, SessionsOf

(* What keeps a session's state keeps its place; what keeps the verdicts   *)
(* and the events keeps the outcomes.                                      *)
LEMMA PhaseKept ==
  \A t \in Session : pc'[t] = pc[t] => PhaseOf(t)' = PhaseOf(t)
BY DEF PhaseOf

LEMMA OutcomeKept ==
  ASSUME NEW s \in Steps, event'[s] = event[s],
         \A u \in SessionsOf(s) : verdict'[u] = "released" <=> verdict[u] = "released"
  PROVE  OutcomeOf(s)' = OutcomeOf(s)
<1>1. \A u : (u \in SessionsOf(s))' <=> u \in SessionsOf(s)
  BY DEF SessionsOf
<1>2. QED
  BY <1>1 DEF OutcomeOf

LEMMA PhaseIsNext ==
  \A t \in Session :
    /\ pc'[t] = "absent" => PhaseOf(t)' = "out"
    /\ pc'[t] = "waiting" => PhaseOf(t)' = "barrier"
    /\ pc'[t] \in {"done", "failed"} => PhaseOf(t)' = "ended"
    /\ pc'[t] \in BeforeBarrier => PhaseOf(t)' = "critique"
    /\ pc'[t] \in AfterRelease \ {"done"} => PhaseOf(t)' = "released"
<1>1. Ended = {"done", "failed"}
  BY DEF Ended
<1>2. QED
  BY <1>1, StateSets DEF PhaseOf

-----------------------------------------------------------------------------
(* A step that keeps every place and outcome is a stutter of the barrier. *)
LEMMA Stutter ==
  ASSUME \A t \in Session : PhaseOf(t)' = PhaseOf(t),
         \A s \in Steps : OutcomeOf(s)' = OutcomeOf(s)
  PROVE  [Phase!PhaseNext]_(Phase!phaseVars)
<1>1. UNCHANGED Phase!phaseVars
  BY DEF Phase!phaseVars
<1>2. QED
  BY <1>1

(* A session on its own: it moves on one side of the barrier, or ends. *)
LEMMA LocalStep ==
  ASSUME TypeOK, NEW t \in Session, NEW next, pc' = [pc EXCEPT ![t] = next],
         UNCHANGED <<verdict, event>>,
         \/ pc[t] \in BeforeBarrier /\ next \in BeforeBarrier \cup {"failed"}
         \/ pc[t] \in AfterRelease \ {"done"} /\ next \in AfterRelease \cup {"failed"}
  PROVE  [Phase!PhaseNext]_(Phase!phaseVars)
<1>1. \A u \in Session : pc'[u] = IF u = t THEN next ELSE pc[u]
  BY DEF TypeOK
<1>2. \A s \in Steps : OutcomeOf(s)' = OutcomeOf(s)
  BY OutcomeKept
<1>3. \A u \in Session \ {t} : PhaseOf(u)' = PhaseOf(u)
  BY <1>1, PhaseKept
<1>4. CASE PhaseOf(t)' = PhaseOf(t)
  BY <1>2, <1>3, <1>4, Stutter
<1>5. CASE next \in {"done", "failed"}
  <2>1. PhaseOf(t) \in {"critique", "released"} /\ PhaseOf(t)' = "ended"
    BY <1>1, <1>5, PhaseIs, PhaseIsNext
  <2>2. Phase!End(t)
    BY <1>2, <1>3, <2>1 DEF Phase!End
  <2>3. QED
    BY <2>2 DEF Phase!PhaseNext
<1>6. CASE next \notin {"done", "failed"}
  <2>1. PhaseOf(t)' = PhaseOf(t)
    <3>1. CASE pc[t] \in BeforeBarrier
      BY <1>1, <1>6, <3>1, PhaseIs, PhaseIsNext, StateSets
    <3>2. CASE pc[t] \in AfterRelease \ {"done"}
      BY <1>1, <1>6, <3>2, PhaseIs, PhaseIsNext, StateSets
    <3>3. QED
      BY <3>1, <3>2
  <2>2. QED
    BY <2>1, <1>4
<1>7. QED
  BY <1>5, <1>6

(* The trainer opens a batch and dispatches its sessions. *)
LEMMA GenerateStarts ==
  ASSUME RInv, GenerateSequences
  PROVE  [Phase!PhaseNext]_(Phase!phaseVars)
<1> DEFINE s == step + 1
<1>1. s \in Steps /\ ~(s <= step) /\ s > step /\ UNCHANGED <<verdict, event>>
  BY ConstantsOK DEF RInv, IInv, TypeOK, GenerateSequences, Steps
<1>2. /\ \A z \in Steps : OutcomeOf(z)' = OutcomeOf(z)
      /\ OutcomeOf(s) = "pending"
  <2>1. ~event[s]
    BY <1>1 DEF RInv, EventSet
  <2>2. QED
    BY <1>1, <2>1, OutcomeKept, OutcomeIs DEF RInv
<1>3. \A u \in Session : pc'[u] = IF StepOf(u) = s THEN "rollout" ELSE pc[u]
  BY DEF GenerateSequences
<1>4. \A u \in SessionsOf(s) : PhaseOf(u) = "out"
  <2>1. \A u \in SessionsOf(s) : pc[u] = "absent"
    BY <1>1, SessionFacts DEF RInv, IInv, StepsInOrder
  <2>2. QED
    BY <1>1, <2>1, PhaseIs, SessionFacts
<1>5. \A u \in Session : PhaseOf(u)' = IF u \in SessionsOf(s) THEN "critique" ELSE PhaseOf(u)
  <2>1. \A u \in Session : u \in SessionsOf(s) <=> StepOf(u) = s
    BY DEF SessionsOf
  <2>2. QED
    BY <1>3, <2>1, PhaseKept, PhaseIsNext, StateSets
<1>6. Phase!Start(s)
  <2>1. Phase!Members(s) = SessionsOf(s) /\ SessionsOf(s) \subseteq Session
    BY MembersAre DEF SessionsOf
  <2> HIDE DEF s
  <2>2. QED
    BY <1>1, <1>2, <1>4, <1>5, <2>1 DEF Phase!Start
<1>7. QED
  BY <1>1, <1>6 DEF Phase!PhaseNext

(* A session at the barrier: it waits, it opens the batch for all, or it   *)
(* comes too late, to a batch that is broken.                              *)
LEMMA ArrivePasses ==
  ASSUME RInv, TypeOK', NEW t \in Session, ArriveAndWait(t)
  PROVE  [Phase!PhaseNext]_(Phase!phaseVars)
<1>1. PICK s \in Steps, keys \in SUBSET Session : ArriveEffect(t, s, keys)
  BY ArriveFacts DEF RInv
<1>2. /\ s = StepOf(t) /\ t \in SessionsOf(s) /\ pc[t] = "arriving" /\ aborted'[s] = aborted[s]
      /\ \A z \in Steps : z # s => event'[z] = event[z]
      /\ \A u \in SessionsOf(s) : verdict[u] # "released"
      /\ \A u \in Session : StepOf(u) # s => pc'[u] = pc[u] /\ verdict'[u] = verdict[u]
      /\ Phase!Members(s) = SessionsOf(s)
  BY <1>1, MembersAre DEF ArriveEffect
<1>3. PhaseOf(t) = "critique"
  BY <1>2, PhaseIs, StateSets
<1>4. \A u \in Session : StepOf(u) # s => PhaseOf(u)' = PhaseOf(u)
  BY <1>2, PhaseKept
<1>5. \A z \in Steps : z # s => OutcomeOf(z)' = OutcomeOf(z)
  BY <1>2, OutcomeKept, SessionFacts
<1>6. CASE ~event'[s]
  <2>1. ~event[s]
    BY <1>1, <1>6 DEF ArriveEffect
  <2>2. \A u \in SessionsOf(s) : /\ u # t => pc'[u] = pc[u]
                                 /\ verdict'[u] = verdict[u]
                                 /\ pc'[t] = "waiting"
    BY <1>1, <1>2, <1>6 DEF ArriveEffect
  <2>3. /\ \A u \in Session : u # t => PhaseOf(u)' = PhaseOf(u)
        /\ PhaseOf(t)' = "barrier"
    BY <1>2, <1>4, <2>2, PhaseKept, PhaseIsNext, SessionFacts
  <2>4. OutcomeOf(s) = "pending" /\ \A z \in Steps : OutcomeOf(z)' = OutcomeOf(z)
    <3>1. OutcomeOf(s)' = OutcomeOf(s)
      <4>1. event'[s] = event[s]
        BY <1>1, <1>6, <2>1 DEF RInv, IInv, TypeOK
      <4>2. QED
        BY <2>2, <4>1, OutcomeKept
    <3>2. QED
      BY <1>5, <2>1, <3>1, OutcomeIs DEF RInv
  <2>5. Phase!Reach(t)
    BY <1>2, <1>3, <2>3, <2>4 DEF Phase!Reach
  <2>6. QED
    BY <2>5 DEF Phase!PhaseNext
<1>7. CASE event[s]
  <2>1. event'[s]
    BY <1>1, <1>7 DEF ArriveEffect
  <2>2. aborted[s]
    <3>1. SUFFICES ASSUME ~aborted[s] PROVE FALSE
      OBVIOUS
    <3>2. t \in arrived[s]
      BY <1>2, <1>7, <3>1 DEF RInv, IInv, EventOK
    <3>3. QED
      BY <1>2, <3>2, StateSets DEF RInv, IInv, ArrivedOK
  <2>3. \A u \in SessionsOf(s) : pc[u] # "waiting"
    BY <1>7, SessionFacts DEF RInv, IInv, NoStrandedWaiter
  <2>4. \A u \in SessionsOf(s) : u # t => pc'[u] = pc[u] /\ verdict'[u] = verdict[u]
    BY <1>1, <2>3 DEF ArriveEffect
  <2>5. pc'[t] = "failed" /\ verdict'[t] = "aborted"
    BY <1>1, <1>2, <2>1, <2>2 DEF ArriveEffect
  <2>6. \A u \in Session : u # t => PhaseOf(u)' = PhaseOf(u)
    BY <1>4, <2>4, PhaseKept, SessionFacts
  <2>7. PhaseOf(t)' = "ended"
    BY <2>5, PhaseIsNext
  <2>8. \A z \in Steps : OutcomeOf(z)' = OutcomeOf(z)
    <3>1. \A u \in SessionsOf(s) : verdict'[u] = "released" <=> verdict[u] = "released"
      BY <1>2, <2>4, <2>5
    <3>2. event'[s] = event[s]
      BY <1>1, <1>7, <2>1 DEF RInv, IInv, TypeOK
    <3>3. OutcomeOf(s)' = OutcomeOf(s)
      BY <3>1, <3>2, OutcomeKept
    <3>4. QED
      BY <1>5, <3>3
  <2>9. Phase!End(t)
    BY <1>3, <2>6, <2>7, <2>8 DEF Phase!End
  <2>10. QED
    BY <2>9 DEF Phase!PhaseNext
<1>8. CASE event'[s] /\ ~event[s]
  <2>1. ~aborted[s] /\ keys = SessionsOf(s)
    BY <1>1, <1>8 DEF ArriveEffect, RInv, EventSet
  <2>2. \A u \in SessionsOf(s) : u # t => pc[u] = "waiting"
    <3>1. SUFFICES ASSUME NEW u \in SessionsOf(s), u # t, pc[u] # "waiting" PROVE FALSE
      OBVIOUS
    <3>2. u \in arrived[s] /\ u \in Session /\ StepOf(u) = s
      BY <1>1, <2>1, <3>1, SessionFacts DEF ArriveEffect
    <3>3. verdict[u] \in {"released", "aborted"}
      BY <3>1, <3>2 DEF RInv, IInv, ArrivedOK, TypeOK
    <3>4. QED
      BY <1>8, <2>1, <3>2, <3>3 DEF RInv, IInv, VerdictOK
  <2>3. \A u \in SessionsOf(s) : pc'[u] = AfterBarrier(u) /\ verdict'[u] = "released"
    BY <1>1, <1>2, <1>8, <2>1, <2>2 DEF ArriveEffect
  <2>4. \A u \in SessionsOf(s) : PhaseOf(u)' = "released"
    <3>1. \A u \in SessionsOf(s) : pc'[u] \in {"scoring_wait", "put"}
      BY <2>3 DEF AfterBarrier
    <3>2. QED
      BY <3>1, PhaseIsNext, SessionFacts, StateSets
  <2>5. \A u \in SessionsOf(s) : u # t => PhaseOf(u) = "barrier"
    BY <2>2, PhaseIs, SessionFacts
  <2>6. OutcomeOf(s) = "pending"
    BY <1>8, OutcomeIs DEF RInv
  <2>7. OutcomeOf(s)' = "opened"
    <3>1. \A u : (u \in SessionsOf(s))' <=> u \in SessionsOf(s)
      BY DEF SessionsOf
    <3>2. QED
      BY <1>2, <2>3, <3>1 DEF OutcomeOf
  <2>8. \A u \in Session : u \in SessionsOf(s) <=> StepOf(u) = s
    BY DEF SessionsOf
  <2>9. Phase!Open(t)
    <3>1. \A u \in Session : PhaseOf(u)' = IF u \in SessionsOf(s) THEN "released" ELSE PhaseOf(u)
      BY <1>4, <2>4, <2>8
    <3>2. \A z \in Steps : OutcomeOf(z)' = IF z = s THEN "opened" ELSE OutcomeOf(z)
      BY <1>5, <2>7
    <3>3. \A u \in SessionsOf(s) \ {t} : u \in Session /\ PhaseOf(u) = "barrier"
      BY <2>5 DEF SessionsOf
    <3>4. QED
      BY <1>2, <1>3, <2>6, <3>1, <3>2, <3>3 DEF Phase!Open
  <2>10. QED
    BY <2>9 DEF Phase!PhaseNext
<1>9. QED
  BY <1>6, <1>7, <1>8

(* A failed prompt breaks its batch, unless it has opened or is broken. *)
LEMMA AbortBreaks ==
  ASSUME RInv, NEW s \in Steps, NEW p \in Prompts, PromptAborts(s, p)
  PROVE  [Phase!PhaseNext]_(Phase!phaseVars)
<1>1. /\ \A z \in Steps : event'[z] = IF z = s THEN TRUE ELSE event[z]
      /\ \A u \in Session :
           IF u \in Waiters(s) THEN pc'[u] = "failed" /\ verdict'[u] = "aborted"
                               ELSE pc'[u] = pc[u] /\ verdict'[u] = verdict[u]
  BY DEF PromptAborts, Resume, RInv, IInv, TypeOK
<1>2. \A u \in Session : u \in Waiters(s) <=> StepOf(u) = s /\ PhaseOf(u) = "barrier"
  <2>1. \A u \in Session : PhaseOf(u) = "barrier" <=> pc[u] = "waiting"
    BY PhaseIs, StateSets DEF RInv, IInv, TypeOK
  <2>2. QED
    BY <2>1 DEF Waiters, SessionsOf
<1>3. \A u \in Session : PhaseOf(u)' = IF StepOf(u) = s /\ PhaseOf(u) = "barrier" THEN "ended"
                                       ELSE PhaseOf(u)
  BY <1>1, <1>2, PhaseKept, PhaseIsNext
<1>4. \A z \in Steps : z # s => OutcomeOf(z)' = OutcomeOf(z)
  <2>1. ASSUME NEW z \in Steps, z # s PROVE OutcomeOf(z)' = OutcomeOf(z)
    <3>1. \A u \in SessionsOf(z) : u \in Session /\ u \notin Waiters(s)
      BY <1>2, <2>1, SessionFacts
    <3>2. QED
      BY <1>1, <2>1, <3>1, OutcomeKept
  <2>2. QED
    BY <2>1
<1>5. CASE event[s]
  <2>1. \A u \in Session : u \notin Waiters(s)
    BY <1>5 DEF RInv, IInv, NoStrandedWaiter, Waiters, SessionsOf
  <2>2. OutcomeOf(s)' = OutcomeOf(s)
    <3>1. event'[s] = event[s]
      BY <1>1, <1>5 DEF RInv, IInv, TypeOK
    <3>2. QED
      BY <1>1, <2>1, <3>1, OutcomeKept, SessionFacts
  <2>3. QED
    BY <1>1, <1>4, <2>1, <2>2, PhaseKept, Stutter
<1>6. CASE ~event[s]
  <2>1. OutcomeOf(s) = "pending"
    BY <1>6, OutcomeIs DEF RInv
  <2>2. \A u \in SessionsOf(s) : verdict'[u] # "released"
    BY <1>1, <1>6, SessionFacts DEF RInv, IInv, VerdictOK
  <2>3. OutcomeOf(s)' = "broken"
    <3>1. \A u : (u \in SessionsOf(s))' <=> u \in SessionsOf(s)
      BY DEF SessionsOf
    <3>2. event'[s]
      BY <1>1
    <3>3. QED
      BY <2>2, <3>1, <3>2 DEF OutcomeOf
  <2>4. Phase!Break(s)
    BY <1>3, <1>4, <2>1, <2>3 DEF Phase!Break
  <2>5. QED
    BY <2>4 DEF Phase!PhaseNext
<1>7. QED
  BY <1>5, <1>6

-----------------------------------------------------------------------------
(* The strengthened invariant. *)
LEMMA EventSetStep ==
  ASSUME RInv, TypeOK', [Next]_vars
  PROVE  EventSet'
<1>1. CASE GenerateSequences
  <2>1. UNCHANGED <<event, aborted>> /\ step' = step + 1
    BY <1>1 DEF GenerateSequences
  <2>2. \A s \in Steps : s <= step => s <= step + 1
    BY DEF RInv, IInv, TypeOK, Steps
  <2>3. QED
    BY <2>1, <2>2 DEF RInv, EventSet
<1>2. ASSUME NEW t \in Session, ArriveAndWait(t) PROVE EventSet'
  <2>1. PICK s \in Steps, keys \in SUBSET Session : ArriveEffect(t, s, keys)
    BY <1>2, ArriveFacts DEF RInv
  <2>2. s <= step
    <3>1. StepOf(t) = s /\ pc[t] = "arriving"
      BY <2>1 DEF ArriveEffect
    <3>2. ~(s > step)
      BY <3>1 DEF RInv, IInv, StepsInOrder
    <3>3. QED
      BY <3>2 DEF RInv, IInv, TypeOK, Steps
  <2>3. QED
    BY <2>1, <2>2 DEF ArriveEffect, RInv, EventSet
<1>3. ASSUME NEW s \in Steps, NEW p \in Prompts, PromptAborts(s, p) PROVE EventSet'
  <2>1. s <= step
    BY <1>3 DEF PromptAborts, RInv, IInv, StepsInOrder
  <2>2. QED
    BY <1>3, <2>1 DEF PromptAborts, RInv, EventSet, IInv, TypeOK
<1>4. CASE UNCHANGED <<step, event, aborted>>
  BY <1>4 DEF RInv, EventSet
<1>5. ASSUME NEW t \in Session, SessionStep(t), ~ArriveAndWait(t)
      PROVE  UNCHANGED <<step, event, aborted>>
  BY <1>5 DEF SessionStep, trainerVars, batchVars, RolloutEnds, SemaphoreAcquire, CountInflight,
     TeacherAnswers, CritiqueReturns, ScoringReturns, PutSamples
<1>6. CASE SampleReturns \/ UNCHANGED vars \/ Terminated
  BY <1>4, <1>6 DEF SampleReturns, Terminated, vars, trainerVars, batchVars
<1>7. ASSUME NEW s \in Steps, NEW p \in Prompts, PromptStep(s, p), ~PromptAborts(s, p)
      PROVE  UNCHANGED <<step, event, aborted>>
  BY <1>7 DEF PromptStep, PromptFinishes, PromptFails, batchVars
<1>8. QED
  BY <1>1, <1>2, <1>3, <1>4, <1>5, <1>6, <1>7 DEF Next

LEMMA RInvInductive ==
  /\ Init => RInv
  /\ RInv /\ [Next]_vars => RInv'
<1>1. Init => EventSet
  BY DEF Init, EventSet
<1>2. RInv /\ [Next]_vars => EventSet'
  BY TypeStep, EventSetStep DEF RInv
<1>3. QED
  BY <1>1, <1>2, InvInit, InvStep DEF RInv

-----------------------------------------------------------------------------
(* The initial states of the tasks are those of the barrier ... *)
LEMMA PhaseStarts == Init => Phase!PhaseInit
<1>1. SUFFICES ASSUME Init PROVE Phase!PhaseInit
  OBVIOUS
<1>2. \A t \in Session : PhaseOf(t) = "out"
  BY <1>1, PhaseIs DEF Init
<1>3. \A s \in Steps : OutcomeOf(s) = "pending"
  BY <1>1, OutcomeIs, InvInit DEF Init
<1>4. QED
  BY <1>2, <1>3 DEF Phase!PhaseInit

(* ... and every step is one of the barrier's, or a stutter. *)
LEMMA PhaseSteps ==
  ASSUME RInv, [Next]_vars
  PROVE  [Phase!PhaseNext]_(Phase!phaseVars)
<1>0. TypeOK /\ TypeOK'
  BY TypeStep DEF RInv, IInv
<1>1. CASE GenerateSequences
  BY <1>1, GenerateStarts
<1>2. CASE UNCHANGED <<pc, verdict, event>>
  BY <1>2, PhaseKept, OutcomeKept, Stutter
<1>3. CASE SampleReturns \/ UNCHANGED vars \/ Terminated
  BY <1>2, <1>3 DEF SampleReturns, Terminated, vars, sessionVars, batchVars
<1>4. ASSUME NEW t \in Session, SessionStep(t)
      PROVE  [Phase!PhaseNext]_(Phase!phaseVars)
  <2>1. CASE ArriveAndWait(t)
    BY <1>0, <2>1, ArrivePasses
  <2>2. CASE RolloutEnds(t)
    <3>1. PICK next \in {"arriving", "critique_wait", "failed"} : pc' = [pc EXCEPT ![t] = next]
      BY <2>2 DEF RolloutEnds
    <3>2. pc[t] \in BeforeBarrier /\ UNCHANGED <<verdict, event>>
      BY <2>2, StateSets DEF RolloutEnds, batchVars
    <3>3. next \in BeforeBarrier \cup {"failed"}
      BY StateSets
    <3>4. QED
      BY <1>0, <3>1, <3>2, <3>3, LocalStep
  <2>3. ASSUME NEW l \in Limiter,
               SemaphoreAcquire(l, t) \/ CountInflight(l, t) \/ TeacherAnswers(l, t)
        PROVE  [Phase!PhaseNext]_(Phase!phaseVars)
    <3>1. PICK next \in Holding(l) : pc' = [pc EXCEPT ![t] = next]
      BY <2>3 DEF SemaphoreAcquire, CountInflight, TeacherAnswers, Holding
    <3>2. pc[t] \in {Wanting[l]} \cup Holding(l) /\ UNCHANGED <<verdict, event>>
      BY <2>3 DEF SemaphoreAcquire, CountInflight, TeacherAnswers, Holding, batchVars
    <3>3. \/ {Wanting[l]} \cup Holding(l) \subseteq BeforeBarrier
          \/ {Wanting[l]} \cup Holding(l) \subseteq AfterRelease \ {"done"}
      BY StateSets DEF Limiter, Holding, Wanting, Granted, Using, Succeeded, Errored
    <3>4. QED
      BY <1>0, <3>1, <3>2, <3>3, LocalStep
  <2>4. CASE CritiqueReturns(t)
    <3>1. PICK next \in {"arriving", "failed"} : pc' = [pc EXCEPT ![t] = next]
      BY <2>4 DEF CritiqueReturns
    <3>2. pc[t] \in BeforeBarrier /\ UNCHANGED <<verdict, event>>
      BY <2>4, StateSets DEF CritiqueReturns, Succeeded, Errored, batchVars
    <3>3. next \in BeforeBarrier \cup {"failed"}
      BY StateSets
    <3>4. QED
      BY <1>0, <3>1, <3>2, <3>3, LocalStep
  <2>5. CASE ScoringReturns(t)
    <3>1. PICK next \in {"scoring_wait", "put", "failed"} : pc' = [pc EXCEPT ![t] = next]
      BY <2>5 DEF ScoringReturns
    <3>2. pc[t] \in AfterRelease \ {"done"} /\ UNCHANGED <<verdict, event>>
      BY <2>5, StateSets DEF ScoringReturns, Succeeded, Errored, batchVars
    <3>3. next \in AfterRelease \cup {"failed"}
      BY StateSets
    <3>4. QED
      BY <1>0, <3>1, <3>2, <3>3, LocalStep
  <2>6. CASE PutSamples(t)
    <3>1. PICK next \in {"done", "failed"} : pc' = [pc EXCEPT ![t] = next]
      BY <2>6 DEF PutSamples, Ended
    <3>2. pc[t] \in AfterRelease \ {"done"} /\ UNCHANGED <<verdict, event>>
      BY <2>6, StateSets DEF PutSamples, batchVars
    <3>3. next \in AfterRelease \cup {"failed"}
      BY StateSets
    <3>4. QED
      BY <1>0, <3>1, <3>2, <3>3, LocalStep
  <2>7. QED
    BY <1>4, <2>1, <2>2, <2>3, <2>4, <2>5, <2>6 DEF SessionStep
<1>5. ASSUME NEW s \in Steps, NEW p \in Prompts, PromptStep(s, p)
      PROVE  [Phase!PhaseNext]_(Phase!phaseVars)
  <2>1. CASE PromptAborts(s, p)
    BY <2>1, AbortBreaks
  <2>2. CASE PromptFinishes(s, p) \/ PromptFails(s, p)
    BY <1>2, <2>2 DEF PromptFinishes, PromptFails, sessionVars, batchVars
  <2>3. QED
    BY <1>5, <2>1, <2>2 DEF PromptStep
<1>6. QED
  BY <1>1, <1>3, <1>4, <1>5 DEF Next

(* GlobalTeacherBatchPhaseCoordinator and the tasks that call it implement *)
(* the barrier of BatchPhase, whatever fails: a batch opens for all its    *)
(* members at once and only when the last has come, a broken one never.    *)
THEOREM BarrierImplemented == Spec => BarrierRefinement
<1>1. RInv /\ [Next]_vars => [Phase!PhaseNext]_(Phase!phaseVars)
  BY PhaseSteps
<1>2. QED
  BY <1>1, RInvInductive, PhaseStarts, PTL DEF Spec, BarrierRefinement, Phase!PhaseSpec
=============================================================================
