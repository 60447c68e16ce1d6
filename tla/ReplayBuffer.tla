----------------------------- MODULE ReplayBuffer -----------------------------
(***************************************************************************)
(* How the synchronous trainer learns that its batch is there: prompt and  *)
(* session tasks put tagged keys into the transfer queue, a poll thread    *)
(* copies the queue's metadata into the ReplayBuffer, and the trainer      *)
(* samples the buffer, then clears what it used from the queue and removes *)
(* it from the buffer.  Batches are numbered in the order they are         *)
(* dispatched: training batches each have a step of their own, all the     *)
(* validation batches of a step share it.                                  *)
(*                                                                         *)
(* The transfer queue is a library: what is modelled of it is the metadata *)
(* kv_list returns, changed by put and clear, each in one step.            *)
(***************************************************************************)
EXTENDS Naturals

CONSTANTS
  Batches,      \* bound: the batches explored
  GlobalStep,   \* per batch, the global_steps it is tagged with
  Prompts,      \* prompts of a batch (a uid is a prompt of a batch)
  Rollouts,     \* sessions of a batch, each with one output
  PromptOf      \* the prompt each of them belongs to

ASSUME ReplayOK ==
  /\ Batches \in Nat \ {0}
  /\ GlobalStep \in [1 .. Batches -> Nat]
  /\ PromptOf \in [Rollouts -> Prompts]
  /\ \A p \in Prompts : \E r \in Rollouts : PromptOf[r] = p

Uid == (1 .. Batches) \X Prompts
Key == (1 .. Batches) \X Rollouts
KeysOf(u) == { k \in Key : k[1] = u[1] /\ PromptOf[k[2]] = u[2] }

VARIABLES
  batch,     \* batches dispatched so far
  trainer,   \* "idle", "marked", "sampling", "using" or "cleared"
  taken,     \* keys of the batch sample() returned
  cleared,   \* history: keys cleared from the queue
  session,   \* per key, the session that is to put it
  uidTag,    \* queue: the status put under a uid, "none" before
  stored,    \* queue: the keys put with status "success"
  status,    \* buffer: the status under a uid
  stepKnown, \* buffer: uids whose tags have global_steps
  samples,   \* buffer: the "success" keys
  poll,      \* the poll thread: "waiting", or "listed" with a snapshot
  seen       \* that snapshot

trainerVars == <<batch, trainer, taken, cleared>>
queueVars   == <<uidTag, stored>>
bufferVars  == <<status, stepKnown, samples>>
pollVars    == <<poll, seen>>
vars == <<trainerVars, session, queueVars, bufferVars, pollVars>>

Nothing == [uids |-> [u \in Uid |-> "none"], keys |-> {}]

Init ==
  /\ batch = 0 /\ trainer = "idle" /\ taken = {} /\ cleared = {}
  /\ session = [k \in Key |-> "absent"]
  /\ uidTag = Nothing.uids /\ stored = {}
  /\ status = Nothing.uids /\ stepKnown = {} /\ samples = {}
  /\ poll = "waiting" /\ seen = Nothing

-----------------------------------------------------------------------------
(* The prompt and session tasks. *)

SessionEnds(k) ==
  /\ session[k] = "running"
  /\ \/ session' = [session EXCEPT ![k] = "put"] /\ stored' = stored \cup {k}
     \/ session' = [session EXCEPT ![k] = "failed"] /\ UNCHANGED stored
  /\ UNCHANGED <<trainerVars, uidTag, bufferVars, pollVars>>

Running(u) == u[1] <= batch /\ uidTag[u] = "none"

(* Faulty variant: the sessions are started but not awaited. *)
PromptEndsUnawaited(u) ==
  /\ Running(u)
  /\ \A k \in KeysOf(u) : session[k] # "absent"
  /\ uidTag' = [uidTag EXCEPT ![u] = "finished"]
  /\ UNCHANGED <<trainerVars, session, stored, bufferVars, pollVars>>

(* gather() returns when all sessions have put, or raises with the first   *)
(* that failed; the others run on.                                         *)
PromptEnds(u) ==
  /\ Running(u)
  /\ \/ /\ \A k \in KeysOf(u) : session[k] = "put"
        /\ uidTag' = [uidTag EXCEPT ![u] = "finished"]
     \/ /\ \E k \in KeysOf(u) : session[k] = "failed"
        /\ uidTag' = [uidTag EXCEPT ![u] = "failure"]
  /\ UNCHANGED <<trainerVars, session, stored, bufferVars, pollVars>>

-----------------------------------------------------------------------------
(* The poll thread: a snapshot of the queue's metadata, merged into the    *)
(* buffer later, under the buffer's lock.                                  *)
PollLists ==
  /\ poll = "waiting"
  /\ seen' = [uids |-> uidTag, keys |-> stored]
  /\ poll' = "listed"
  /\ UNCHANGED <<trainerVars, session, queueVars, bufferVars>>

(* Faulty variant: known keys keep their tags. *)
PollAddsUnknown ==
  /\ poll = "listed"
  /\ status' = [u \in Uid |-> IF status[u] = "none" THEN seen.uids[u] ELSE status[u]]
  /\ samples' = samples \cup seen.keys
  /\ poll' = "waiting"
  /\ seen' = Nothing
  /\ UNCHANGED <<trainerVars, session, queueVars, stepKnown>>

PollAdds ==
  /\ poll = "listed"
  /\ status' = [u \in Uid |-> IF seen.uids[u] = "none" THEN status[u] ELSE seen.uids[u]]
  /\ samples' = samples \cup seen.keys
  /\ poll' = "waiting"
  /\ seen' = Nothing
  /\ UNCHANGED <<trainerVars, session, queueVars, stepKnown>>

-----------------------------------------------------------------------------
(* The trainer. *)

(* Faulty variant: the prompts are not marked. *)
MarkForgets ==
  /\ trainer = "idle"
  /\ batch < Batches
  /\ batch' = batch + 1
  /\ trainer' = "marked"
  /\ UNCHANGED <<taken, cleared, session, queueVars, bufferVars, pollVars>>

(* Faulty variant: the prompts are marked with a status sample() ignores. *)
MarkPending ==
  /\ trainer = "idle"
  /\ batch < Batches
  /\ batch' = batch + 1
  /\ LET new == { u \in Uid : u[1] = batch' } IN
       /\ status' = [u \in Uid |-> IF u \in new THEN "pending" ELSE status[u]]
       /\ stepKnown' = stepKnown \cup new
  /\ trainer' = "marked"
  /\ UNCHANGED <<taken, cleared, session, queueVars, samples, pollVars>>

(* generate_sequences marks the prompts running in the buffer ... *)
Mark ==
  /\ trainer = "idle"
  /\ batch < Batches
  /\ batch' = batch + 1
  /\ LET new == { u \in Uid : u[1] = batch' } IN
       /\ status' = [u \in Uid |-> IF u \in new THEN "running" ELSE status[u]]
       /\ stepKnown' = stepKnown \cup new
  /\ trainer' = "marked"
  /\ UNCHANGED <<taken, cleared, session, queueVars, samples, pollVars>>

(* ... and then starts their tasks. *)
Dispatch ==
  /\ trainer = "marked"
  /\ session' = [k \in Key |-> IF k[1] = batch THEN "running" ELSE session[k]]
  /\ trainer' = "sampling"
  /\ UNCHANGED <<batch, taken, cleared, queueVars, bufferVars, pollVars>>

(* Faulty variant: the steps of the keys are not compared. *)
OfThisStepAny(b) == b <= batch

OfThisStep(b) == GlobalStep[b] = GlobalStep[batch]

(* sample(): it waits while any prompt of the step is running; whatever    *)
(* the buffer then has of the step is the batch.                           *)
Sample ==
  /\ trainer = "sampling"
  /\ \A u \in Uid : OfThisStep(u[1]) => status[u] # "running"
  /\ taken' = { k \in samples : OfThisStep(k[1]) }
  /\ trainer' = "using"
  /\ UNCHANGED <<batch, cleared, session, queueVars, bufferVars, pollVars>>

(* When the batch has been used, its keys are cleared from the queue, then *)
(* removed from the buffer.                                                *)
Clear ==
  /\ trainer = "using"
  /\ stored' = stored \ taken
  /\ cleared' = cleared \cup taken
  /\ trainer' = "cleared"
  /\ UNCHANGED <<batch, taken, session, uidTag, bufferVars, pollVars>>

Remove ==
  /\ trainer = "cleared"
  /\ samples' = samples \ taken
  /\ taken' = {}
  /\ trainer' = "idle"
  /\ UNCHANGED <<batch, cleared, session, queueVars, status, stepKnown, pollVars>>

-----------------------------------------------------------------------------
Trainer == Mark \/ Dispatch \/ Sample \/ Clear \/ Remove
Poll == PollLists \/ PollAdds

Next ==
  \/ Trainer
  \/ Poll
  \/ \E k \in Key : SessionEnds(k)
  \/ \E u \in Uid : PromptEnds(u)

Spec == Init /\ [][Next]_vars

(* The trainer and the poll thread run, every session ends, and a prompt   *)
(* task is resumed when its gather() is done.                              *)
Fairness ==
  /\ WF_vars(Trainer) /\ WF_vars(Poll)
  /\ \A k \in Key : WF_vars(SessionEnds(k))
  /\ \A u \in Uid : WF_vars(PromptEnds(u))

FairSpec == Spec /\ Fairness

-----------------------------------------------------------------------------
UidStatus == {"none", "finished", "failure"}

(* Every variable has its type. *)
TypeOK ==
  /\ batch \in 0 .. Batches
  /\ trainer \in {"idle", "marked", "sampling", "using", "cleared"}
  /\ taken \subseteq Key /\ cleared \subseteq Key
  /\ session \in [Key -> {"absent", "running", "put", "failed"}]
  /\ uidTag \in [Uid -> UidStatus] /\ stored \subseteq Key
  /\ status \in [Uid -> UidStatus \cup {"running"}]
  /\ stepKnown \subseteq Uid /\ samples \subseteq Key
  /\ poll \in {"waiting", "listed"}
  /\ seen \in [uids : [Uid -> UidStatus], keys : SUBSET Key]

(* A batch is never sampled early: no prompt of it is running any more,    *)
(* and a prompt that finished has all its outputs in it, although status   *)
(* and outputs reach the buffer by polls of a queue that goes on changing. *)
SampledBatchIsWhole ==
  trainer = "using" =>
    \A u \in Uid : u[1] = batch =>
      /\ uidTag[u] # "none"
      /\ uidTag[u] = "finished" => KeysOf(u) \subseteq taken

(* What the trainer reads is there: a sampled batch has keys of its own    *)
(* prompts only, all of them still in the queue, although a poll may bring *)
(* back keys that were cleared in the meantime.                            *)
SampledBatchIsLive ==
  trainer = "using" => \A k \in taken : k[1] = batch /\ k \in stored

(* sample() finds global_steps in every tag it looks at: a poll that meets *)
(* a uid the trainer has not marked would enter a tag without it.          *)
EveryTagHasStep == \A u \in Uid : status[u] # "none" => u \in stepKnown

(* The trainer gets every batch, whatever fails and whenever polls come.   *)
SamplingEnds == (trainer = "sampling") ~> (trainer = "using")

(* "cleanup transfer queue and replay buffer" is the last step of a        *)
(* validation batch: what was cleaned up is not sampled again.             *)
CleanedUpForGood == trainer = "using" => taken \cap cleared = {}
=============================================================================
