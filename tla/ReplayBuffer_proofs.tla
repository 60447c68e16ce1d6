------------------------- MODULE ReplayBuffer_proofs -------------------------
(***************************************************************************)
(* TLAPS proofs about ReplayBuffer, for any prompts, rollouts and number   *)
(* of batches, and, where a theorem says nothing else, for any assignment  *)
(* of steps to batches: training and validation.                           *)
(***************************************************************************)
EXTENDS ReplayBuffer, TLAPS

(* A batch has been marked and none of its keys cleared. *)
InHand == trainer \in {"marked", "sampling", "using"}

(* Sessions are started by the dispatch of their batch. *)
SessionsOK ==
  /\ trainer # "idle" => batch # 0
  /\ \A k \in Key :
       k[1] > batch \/ (k[1] = batch /\ trainer = "marked") => session[k] = "absent"

(* Keys, wherever they are seen, have been put by their sessions. *)
KeysOK ==
  \A k \in stored \cup samples \cup seen.keys \cup taken \cup cleared : session[k] = "put"

(* A status is put once, for a marked prompt, "finished" after all its     *)
(* sessions; the buffer and the snapshot have it, or not yet.              *)
TagsOK ==
  \A u \in Uid :
    /\ uidTag[u] # "none" => u[1] <= batch
    /\ uidTag[u] = "finished" => \A k \in KeysOf(u) : session[k] = "put"
    /\ seen.uids[u] # "none" => seen.uids[u] = uidTag[u]
    /\ u[1] <= batch => u \in stepKnown /\ status[u] # "none"
    /\ u[1] > batch => status[u] = "none"
    /\ status[u] \in {"finished", "failure"} => status[u] = uidTag[u]

(* Of the batch in hand everything put is stored, and who has seen that a  *)
(* prompt finished has seen its keys.                                      *)
BatchOK ==
  InHand =>
    /\ \A k \in Key : k[1] = batch /\ session[k] = "put" => k \in stored
    /\ \A u \in Uid : u[1] = batch =>
         /\ seen.uids[u] = "finished" => KeysOf(u) \subseteq seen.keys
         /\ status[u] = "finished" => KeysOf(u) \subseteq samples

IInv ==
  /\ TypeOK
  /\ SessionsOK
  /\ KeysOK
  /\ TagsOK
  /\ BatchOK
  /\ SampledBatchIsWhole

-----------------------------------------------------------------------------
LEMMA UidsAndKeys ==
  /\ \A u \in Uid : u[1] \in 1 .. Batches /\ KeysOf(u) \subseteq Key
  /\ \A k \in Key : k[1] \in 1 .. Batches
  /\ \A u \in Uid : \A k \in KeysOf(u) : k[1] = u[1]
BY DEF Uid, Key, KeysOf

(* Every prompt of a batch has a session. *)
LEMMA PromptsHaveSessions == \A u \in Uid : KeysOf(u) # {}
<1>1. SUFFICES ASSUME NEW u \in Uid
               PROVE  KeysOf(u) # {}
  OBVIOUS
<1>2. u[1] \in 1 .. Batches /\ u[2] \in Prompts
  BY DEF Uid
<1>3. PICK r \in Rollouts : PromptOf[r] = u[2]
  BY <1>2, ReplayOK
<1>4. <<u[1], r>> \in KeysOf(u)
  BY <1>2, <1>3 DEF KeysOf, Key
<1>5. QED
  BY <1>4

LEMMA InitIInv == Init => IInv
<1> SUFFICES ASSUME Init
             PROVE  IInv
  OBVIOUS
<1>1. \A u \in Uid : u[1] > 0
  BY UidsAndKeys, ReplayOK
<1>2. /\ batch = 0 /\ trainer = "idle" /\ taken = {} /\ cleared = {}
      /\ session = [k \in Key |-> "absent"]
      /\ uidTag = [u \in Uid |-> "none"] /\ stored = {}
      /\ status = [u \in Uid |-> "none"] /\ stepKnown = {} /\ samples = {}
      /\ poll = "waiting"
  BY DEF Init, Nothing
<1>3. seen = [uids |-> [u \in Uid |-> "none"], keys |-> {}]
  BY DEF Init, Nothing
<1>4. TypeOK
  <2>1. 0 \in 0 .. Batches
    BY ReplayOK
  <2>2. seen \in [uids : [Uid -> UidStatus], keys : SUBSET Key]
    BY <1>3 DEF UidStatus
  <2>3. QED
    BY <1>2, <2>1, <2>2 DEF TypeOK, UidStatus
<1>5. SessionsOK /\ KeysOK
  BY <1>2, <1>3 DEF SessionsOK, KeysOK
<1>6. BatchOK /\ SampledBatchIsWhole
  BY <1>2 DEF BatchOK, InHand, SampledBatchIsWhole
<1>7. TagsOK
  BY <1>1, <1>2, <1>3, UidsAndKeys DEF TagsOK
<1>8. QED
  BY <1>4, <1>5, <1>6, <1>7 DEF IInv

-----------------------------------------------------------------------------
(* One lemma per action. *)
LEMMA SessionEndsInv ==
  ASSUME IInv, NEW k \in Key, SessionEnds(k)
  PROVE  IInv'
<1> USE DEF IInv
<1>1. UNCHANGED <<trainerVars, uidTag, bufferVars, pollVars>> /\ session[k] = "running"
  BY DEF SessionEnds
<1> USE <1>1 DEF trainerVars, bufferVars, pollVars
<1>2. /\ \A j \in Key : j # k => session'[j] = session[j]
      /\ session'[k] \in {"put", "failed"}
      /\ session' \in [Key -> {"absent", "running", "put", "failed"}]
      /\ stored' = IF session'[k] = "put" THEN stored \cup {k} ELSE stored
  BY DEF SessionEnds, TypeOK
<1>3. TypeOK'
  BY <1>2 DEF TypeOK
<1>4. SessionsOK'
  BY <1>2 DEF SessionsOK
<1>5. KeysOK'
  BY <1>2 DEF KeysOK, TypeOK
<1>6. TagsOK'
  BY <1>2, UidsAndKeys DEF TagsOK
<1>7. BatchOK'
  BY <1>2 DEF BatchOK, InHand
<1>8. SampledBatchIsWhole'
  BY DEF SampledBatchIsWhole
<1>9. QED
  BY <1>3, <1>4, <1>5, <1>6, <1>7, <1>8

LEMMA PromptEndsInv ==
  ASSUME IInv, NEW u \in Uid, PromptEnds(u)
  PROVE  IInv'
<1> USE DEF IInv
<1>1. /\ UNCHANGED <<trainerVars, session, stored, bufferVars, pollVars>>
      /\ u[1] <= batch /\ uidTag[u] = "none"
  BY DEF PromptEnds, Running
<1> USE <1>1 DEF trainerVars, bufferVars, pollVars
<1>2. /\ \A v \in Uid : v # u => uidTag'[v] = uidTag[v]
      /\ uidTag' \in [Uid -> UidStatus]
      /\ uidTag'[u] = "finished" => \A k \in KeysOf(u) : session[k] = "put"
  BY DEF PromptEnds, TypeOK, UidStatus
<1>3. TypeOK'
  BY <1>2 DEF TypeOK
<1>4. SessionsOK' /\ KeysOK' /\ BatchOK'
  BY DEF SessionsOK, KeysOK, BatchOK, InHand
<1>5. TagsOK'
  BY <1>2 DEF TagsOK
<1>6. SampledBatchIsWhole'
  BY <1>2 DEF SampledBatchIsWhole
<1>7. QED
  BY <1>3, <1>4, <1>5, <1>6

LEMMA PollListsInv ==
  ASSUME IInv, PollLists
  PROVE  IInv'
<1> USE DEF IInv
<1>1. /\ UNCHANGED <<trainerVars, session, queueVars, bufferVars>>
      /\ poll' = "listed" /\ seen' = [uids |-> uidTag, keys |-> stored]
  BY DEF PollLists
<1> USE <1>1 DEF trainerVars, queueVars, bufferVars
<1>2. TypeOK'
  BY DEF TypeOK
<1>3. SessionsOK' /\ SampledBatchIsWhole'
  BY DEF SessionsOK, SampledBatchIsWhole
<1>4. KeysOK'
  BY DEF KeysOK
<1>5. TagsOK'
  BY DEF TagsOK
<1>6. BatchOK'
  BY UidsAndKeys DEF BatchOK, InHand, TagsOK
<1>7. QED
  BY <1>2, <1>3, <1>4, <1>5, <1>6

LEMMA PollAddsInv ==
  ASSUME IInv, PollAdds
  PROVE  IInv'
<1> USE DEF IInv
<1>1. /\ UNCHANGED <<trainerVars, session, queueVars, stepKnown>>
      /\ samples' = samples \cup seen.keys
      /\ poll' = "waiting" /\ seen' = [uids |-> [u \in Uid |-> "none"], keys |-> {}]
  BY DEF PollAdds, Nothing
<1> USE <1>1 DEF trainerVars, queueVars
<1>2. status' = [u \in Uid |-> IF seen.uids[u] = "none" THEN status[u] ELSE seen.uids[u]]
  BY DEF PollAdds
<1>3. TypeOK'
  BY <1>2 DEF TypeOK, UidStatus
<1>4. SessionsOK' /\ SampledBatchIsWhole'
  BY DEF SessionsOK, SampledBatchIsWhole
<1>5. KeysOK'
  BY DEF KeysOK
<1>6. TagsOK'
  <2>1. \A u \in Uid : seen'.uids[u] = "none"
    OBVIOUS
  <2>2. \A u \in Uid : u[1] > batch => seen.uids[u] = "none"
    BY UidsAndKeys, ReplayOK DEF TagsOK, TypeOK
  <2>3. QED
    BY <1>2, <2>1, <2>2 DEF TagsOK
<1>7. BatchOK'
  BY <1>2 DEF BatchOK, InHand
<1>8. QED
  BY <1>3, <1>4, <1>5, <1>6, <1>7

LEMMA MarkInv ==
  ASSUME IInv, Mark
  PROVE  IInv'
<1> USE DEF IInv
<1>1. /\ UNCHANGED <<taken, cleared, session, queueVars, samples, pollVars>>
      /\ trainer = "idle" /\ trainer' = "marked"
      /\ batch < Batches /\ batch' = batch + 1
      /\ status' = [u \in Uid |-> IF u[1] = batch + 1 THEN "running" ELSE status[u]]
      /\ stepKnown' = stepKnown \cup { u \in Uid : u[1] = batch + 1 }
  BY DEF Mark
<1> USE <1>1 DEF queueVars, pollVars
<1>2. batch \in Nat /\ Batches \in Nat /\ batch' \in 0 .. Batches
  BY ReplayOK DEF TypeOK
<1>3. \A k \in Key : k[1] \in Nat /\ (k[1] >= batch + 1 => session[k] = "absent")
  BY <1>2, UidsAndKeys DEF SessionsOK
<1>4. \A u \in Uid :
        /\ u[1] \in Nat
        /\ u[1] >= batch + 1 =>
             uidTag[u] = "none" /\ status[u] = "none" /\ seen.uids[u] = "none"
  BY <1>2, UidsAndKeys DEF TagsOK
<1>5. TypeOK'
  BY <1>2 DEF TypeOK
<1>6. SessionsOK'
  BY <1>2, <1>3 DEF SessionsOK
<1>7. KeysOK' /\ SampledBatchIsWhole'
  BY DEF KeysOK, SampledBatchIsWhole
<1>8. TagsOK'
  BY <1>2, <1>4 DEF TagsOK
<1>9. BatchOK'
  BY <1>2, <1>3, <1>4 DEF BatchOK, InHand
<1>10. QED
  BY <1>5, <1>6, <1>7, <1>8, <1>9

LEMMA DispatchInv ==
  ASSUME IInv, Dispatch
  PROVE  IInv'
<1> USE DEF IInv
<1>1. /\ UNCHANGED <<batch, taken, cleared, queueVars, bufferVars, pollVars>>
      /\ trainer = "marked" /\ trainer' = "sampling"
      /\ session' = [k \in Key |-> IF k[1] = batch THEN "running" ELSE session[k]]
  BY DEF Dispatch
<1> USE <1>1 DEF queueVars, bufferVars, pollVars
<1>2. \A k \in Key : k[1] = batch => session[k] = "absent"
  BY DEF SessionsOK
<1>3. \A k \in Key : session[k] = "put" <=> session'[k] = "put"
  BY <1>2
<1>4. TypeOK'
  BY DEF TypeOK
<1>5. SessionsOK'
  BY UidsAndKeys DEF SessionsOK, TypeOK
<1>6. KeysOK'
  BY <1>3 DEF KeysOK, TypeOK
<1>7. TagsOK'
  BY <1>3, UidsAndKeys DEF TagsOK
<1>8. BatchOK' /\ SampledBatchIsWhole'
  BY <1>3 DEF BatchOK, InHand, SampledBatchIsWhole
<1>9. QED
  BY <1>4, <1>5, <1>6, <1>7, <1>8

LEMMA SampleInv ==
  ASSUME IInv, Sample
  PROVE  IInv'
<1> USE DEF IInv
<1>1. /\ UNCHANGED <<batch, cleared, session, queueVars, bufferVars, pollVars>>
      /\ trainer = "sampling" /\ trainer' = "using"
      /\ \A u \in Uid : OfThisStep(u[1]) => status[u] # "running"
      /\ taken' = { k \in samples : OfThisStep(k[1]) }
  BY DEF Sample
<1> USE <1>1 DEF queueVars, bufferVars, pollVars
<1>2. TypeOK'
  BY DEF TypeOK
<1>3. SessionsOK' /\ KeysOK' /\ TagsOK' /\ BatchOK'
  BY DEF SessionsOK, KeysOK, TagsOK, BatchOK, InHand
<1>4. SampledBatchIsWhole'
  <2>1. SUFFICES ASSUME NEW u \in Uid, u[1] = batch
                 PROVE  /\ uidTag[u] # "none"
                        /\ uidTag[u] = "finished" => KeysOf(u) \subseteq taken'
    BY DEF SampledBatchIsWhole
  <2>2. batch \in Nat /\ OfThisStep(u[1])
    BY <2>1, ReplayOK DEF TypeOK, OfThisStep
  <2>3. status[u] \in {"finished", "failure"} /\ status[u] = uidTag[u]
    BY <2>1, <2>2 DEF TagsOK, TypeOK, UidStatus
  <2>4. status[u] = "finished" => KeysOf(u) \subseteq samples
    BY <2>1 DEF BatchOK, InHand
  <2>5. \A k \in KeysOf(u) : OfThisStep(k[1])
    BY <2>1, <2>2, UidsAndKeys DEF OfThisStep
  <2>6. QED
    BY <2>3, <2>4, <2>5
<1>5. QED
  BY <1>2, <1>3, <1>4

LEMMA ClearInv ==
  ASSUME IInv, Clear
  PROVE  IInv'
<1> USE DEF IInv
<1>1. /\ UNCHANGED <<batch, taken, session, uidTag, bufferVars, pollVars>>
      /\ trainer = "using" /\ trainer' = "cleared"
      /\ stored' = stored \ taken /\ cleared' = cleared \cup taken
  BY DEF Clear
<1> USE <1>1 DEF bufferVars, pollVars
<1>2. QED
  BY DEF TypeOK, SessionsOK, KeysOK, TagsOK, BatchOK, InHand, SampledBatchIsWhole

LEMMA RemoveInv ==
  ASSUME IInv, Remove
  PROVE  IInv'
<1> USE DEF IInv
<1>1. /\ UNCHANGED <<batch, cleared, session, queueVars, status, stepKnown, pollVars>>
      /\ trainer = "cleared" /\ trainer' = "idle"
      /\ samples' = samples \ taken /\ taken' = {}
  BY DEF Remove
<1> USE <1>1 DEF queueVars, pollVars
<1>2. QED
  BY DEF TypeOK, SessionsOK, KeysOK, TagsOK, BatchOK, InHand, SampledBatchIsWhole

-----------------------------------------------------------------------------
(* IInv holds in every reachable state. *)
THEOREM Invariance == Spec => []IInv
<1>1. IInv /\ [Next]_vars => IInv'
  <2>1. SUFFICES ASSUME IInv, [Next]_vars
                 PROVE  IInv'
    OBVIOUS
  <2>2. CASE Mark
    BY <2>1, <2>2, MarkInv
  <2>3. CASE Dispatch
    BY <2>1, <2>3, DispatchInv
  <2>4. CASE Sample
    BY <2>1, <2>4, SampleInv
  <2>5. CASE Clear
    BY <2>1, <2>5, ClearInv
  <2>6. CASE Remove
    BY <2>1, <2>6, RemoveInv
  <2>7. CASE PollLists
    BY <2>1, <2>7, PollListsInv
  <2>8. CASE PollAdds
    BY <2>1, <2>8, PollAddsInv
  <2>9. CASE \E k \in Key : SessionEnds(k)
    BY <2>1, <2>9, SessionEndsInv
  <2>10. CASE \E u \in Uid : PromptEnds(u)
    BY <2>1, <2>10, PromptEndsInv
  <2>11. CASE UNCHANGED vars
    BY <2>1, <2>11 DEF IInv, TypeOK, SessionsOK, KeysOK, TagsOK, BatchOK, InHand,
       SampledBatchIsWhole, vars, trainerVars, queueVars, bufferVars, pollVars
  <2>12. QED
    BY <2>1, <2>2, <2>3, <2>4, <2>5, <2>6, <2>7, <2>8, <2>9, <2>10, <2>11
       DEF Next, Trainer, Poll
<1>2. QED
  BY <1>1, InitIInv, PTL DEF Spec

(* Every variable of the buffer, the queue and the poll thread has its     *)
(* type.                                                                   *)
THEOREM TypeCorrect == Spec => []TypeOK
<1>1. IInv => TypeOK
  BY DEF IInv
<1>2. QED
  BY <1>1, Invariance, PTL

(* sample() never returns a batch early, in training or in validation: no  *)
(* prompt of it runs, and those that finished have all their outputs in it.*)
THEOREM WholeBatches == Spec => []SampledBatchIsWhole
<1>1. IInv => SampledBatchIsWhole
  BY DEF IInv
<1>2. QED
  BY <1>1, Invariance, PTL

(* Every tag that sample() looks at has its global_steps. *)
THEOREM TagsHaveSteps == Spec => []EveryTagHasStep
<1>1. IInv => EveryTagHasStep
  <2>1. SUFFICES ASSUME IInv, NEW u \in Uid, status[u] # "none"
                 PROVE  u \in stepKnown
    BY DEF EveryTagHasStep
  <2>2. u[1] \in Nat /\ batch \in Nat
    BY <2>1, UidsAndKeys, ReplayOK DEF IInv, TypeOK
  <2>3. u[1] <= batch
    BY <2>1, <2>2 DEF IInv, TagsOK
  <2>4. QED
    BY <2>1, <2>3 DEF IInv, TagsOK
<1>2. QED
  BY <1>1, Invariance, PTL

-----------------------------------------------------------------------------
(* Training: batches have steps of their own. *)
StepsDiffer ==
  \A b, c \in 1 .. Batches : GlobalStep[b] = GlobalStep[c] => b = c

(* What was cleared is of earlier batches than the one in hand. *)
ClearedIsOld ==
  /\ \A k \in cleared : k[1] <= batch
  /\ InHand => \A k \in cleared : k[1] # batch

LiveInv == IInv /\ SampledBatchIsLive /\ ClearedIsOld

LEMMA LiveStep ==
  ASSUME StepsDiffer, LiveInv, IInv', Next
  PROVE  SampledBatchIsLive' /\ ClearedIsOld'
<1> USE DEF LiveInv, IInv
<1>1. batch \in Nat /\ cleared \subseteq Key /\ taken \subseteq Key
  BY ReplayOK DEF TypeOK
<1>2. \A k \in Key : k[1] \in Nat
  BY UidsAndKeys
<1>3. CASE Mark
  BY <1>1, <1>2, <1>3 DEF Mark, SampledBatchIsLive, ClearedIsOld, InHand
<1>4. CASE Dispatch
  BY <1>4 DEF Dispatch, SampledBatchIsLive, ClearedIsOld, InHand
<1>5. CASE Sample
  <2>1. batch \in 1 .. Batches
    BY <1>1, <1>5, ReplayOK DEF Sample, SessionsOK, TypeOK
  <2>2. \A k \in taken' : k \in samples /\ k \in Key /\ GlobalStep[k[1]] = GlobalStep[batch]
    BY <1>5 DEF Sample, OfThisStep, TypeOK
  <2>3. \A k \in taken' : k[1] = batch
    BY <2>1, <2>2, UidsAndKeys, StepsDiffer DEF StepsDiffer
  <2>4. \A k \in taken' : k \in stored
    BY <1>5, <2>2, <2>3 DEF Sample, KeysOK, BatchOK, InHand
  <2>5. UNCHANGED <<batch, stored, cleared>> /\ InHand /\ InHand'
    BY <1>5 DEF Sample, queueVars, InHand
  <2>6. QED
    BY <2>3, <2>4, <2>5 DEF SampledBatchIsLive, ClearedIsOld
<1>6. CASE Clear
  BY <1>1, <1>6 DEF Clear, SampledBatchIsLive, ClearedIsOld, InHand
<1>7. CASE Remove
  BY <1>7 DEF Remove, SampledBatchIsLive, ClearedIsOld, InHand
<1>8. CASE Poll \/ \E u \in Uid : PromptEnds(u)
  BY <1>8 DEF Poll, PollLists, PollAdds, PromptEnds, SampledBatchIsLive, ClearedIsOld, InHand,
     trainerVars, queueVars
<1>9. CASE \E k \in Key : SessionEnds(k)
  BY <1>9 DEF SessionEnds, SampledBatchIsLive, ClearedIsOld, InHand, trainerVars
<1>10. QED
  BY <1>3, <1>4, <1>5, <1>6, <1>7, <1>8, <1>9 DEF Next, Trainer

(* When batches have steps of their own, as in training, a sampled batch   *)
(* holds keys of its own prompts only, and all of them are in the queue.   *)
THEOREM LiveBatches ==
  ASSUME StepsDiffer
  PROVE  Spec => [](SampledBatchIsLive /\ CleanedUpForGood)
<1>1. Init => SampledBatchIsLive /\ ClearedIsOld
  BY DEF Init, SampledBatchIsLive, ClearedIsOld
<1>2. IInv /\ IInv' /\ SampledBatchIsLive /\ ClearedIsOld /\ [Next]_vars
        => SampledBatchIsLive' /\ ClearedIsOld'
  <2>1. CASE Next
    BY <2>1, LiveStep, StepsDiffer DEF LiveInv
  <2>2. CASE UNCHANGED vars
    BY <2>2 DEF SampledBatchIsLive, ClearedIsOld, InHand, vars, trainerVars, queueVars
  <2>3. QED
    BY <2>1, <2>2
<1>3. SampledBatchIsLive /\ ClearedIsOld => CleanedUpForGood
  BY DEF SampledBatchIsLive, ClearedIsOld, CleanedUpForGood, InHand
<1>4. QED
  BY <1>1, <1>2, <1>3, Invariance, PTL DEF Spec
=============================================================================
