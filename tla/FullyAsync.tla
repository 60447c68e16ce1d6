------------------------------ MODULE FullyAsync ------------------------------
(***************************************************************************)
(* Fully asynchronous training: the FullyAsyncTrainer actor on top of the  *)
(* rollouter and the message queue.  The trainer collects Required samples *)
(* per training step, updates the rollout weights every Trigger steps and  *)
(* then calls the rollouter's reset_staleness; it stops at the end mark,   *)
(* with a last weight update and a last checkpoint.                        *)
(***************************************************************************)
EXTENDS AsyncRollouter

CONSTANTS
  Required,      \* required_samples: samples of one training step
  Trigger,       \* trigger_parameter_sync_step
  SaveFreq,      \* trainer.save_freq, 0 for never
  TestFreq,      \* trainer.test_freq
  LongTraining   \* TRUE: a training step outlasts the rollouter's bookkeeping

(* staleness_threshold is not negative. *)
ASSUME TrainerOK ==
  /\ Required \in Nat \ {0} /\ Trigger \in Nat \ {0}
  /\ MaxRequired >= Required * Trigger
  /\ SaveFreq \in Nat /\ TestFreq \in Nat \ {0}
  /\ LongTraining \in BOOLEAN

VARIABLES
  trainer,         \* where fit stands
  ending,          \* the end mark was received
  got,             \* samples collected for the training step
  local,           \* local_trigger_step
  version,         \* current_param_version
  lastCkpt,        \* last_ckpt_version
  consumed,        \* history: the samples the trainer received
  base,            \* history: samples received or dropped at the last update
  steps, saved     \* history: training steps done, and in the last checkpoint

trainerVars  == <<trainer, ending, got, local, version, lastCkpt>>
historyVars  == <<consumed, base, steps, saved>>
vars == <<rollouterVars, queueVars, trainerVars, historyVars>>

Init ==
  /\ RollouterInit
  /\ QueueInit
  /\ trainer = "collect" /\ ending = FALSE
  /\ got = 0 /\ local = 1 /\ version = 0 /\ lastCkpt = 0
  /\ consumed = {} /\ base = 0 /\ steps = 0 /\ saved = 0

-----------------------------------------------------------------------------
(* _get_samples_from_queue: one sample, or the end mark, at a time.  What  *)
(* was collected before the end mark is not trained on.                    *)
ReceiveSample ==
  /\ trainer = "collect"
  /\ \E x \in Sample :
       /\ GetSample(x)
       /\ consumed' = consumed \cup {x}
  /\ got' = got + 1
  /\ trainer' = IF got' = Required THEN "train" ELSE "collect"
  /\ UNCHANGED <<rollouterVars, ending, local, version, lastCkpt, base, steps, saved>>

(* fit leaves its loop; it updates the weights once more unless the last   *)
(* version was validated, and only if _fit_update_weights does not return  *)
(* at once because a synchronisation period is under way.                  *)
UpdatesAtEnd == (version % TestFreq # 0 \/ local > 1) /\ local = 1

ReceiveEnd ==
  /\ trainer = "collect"
  /\ GetSample(EndMark)
  /\ ending' = TRUE
  /\ trainer' = IF UpdatesAtEnd THEN "sync" ELSE "save"
  /\ UNCHANGED <<rollouterVars, got, local, version, lastCkpt, historyVars>>

(* The rollouter has no bookkeeping left: every task that has sent its     *)
(* sample was reaped and its processor is blocked, or has ended.           *)
Settled ==
  /\ \A i \in Sample : task[i] # "sent"
  /\ \/ proc = "drain" /\ ~resumeEvent /\ DoneActive = {}
     \/ proc \in {"limitWait", "finalWait"} /\ DoneActive = {}
     \/ proc = "stopped"

(* Faulty variant: local_trigger_step is not set back. *)
TrainNoReset ==
  /\ trainer = "train"
  /\ LongTraining => Settled
  /\ local' = local + 1
  /\ version' = IF local < Trigger THEN version ELSE version + 1
  /\ steps' = steps + 1
  /\ got' = 0
  /\ trainer' = IF local' = 1 THEN "sync" ELSE "save"
  /\ UNCHANGED <<rollouterVars, queueVars, ending, lastCkpt, consumed, base, saved>>

(* fit_step from compute_reward to _fit_update_local_step. *)
Train ==
  /\ trainer = "train"
  /\ LongTraining => Settled
  /\ IF local < Trigger
       THEN local' = local + 1 /\ UNCHANGED version
       ELSE local' = 1 /\ version' = version + 1
  /\ steps' = steps + 1
  /\ got' = 0
  /\ trainer' = IF local' = 1 THEN "sync" ELSE "save"
  /\ UNCHANGED <<rollouterVars, queueVars, ending, lastCkpt, consumed, base, saved>>

(* _fit_update_weights: the weights go to the replicas, then the trainer   *)
(* calls reset_staleness and waits for its reply.                          *)
UpdateWeights ==
  /\ trainer = "sync"
  /\ reset = "idle"
  /\ reset' = "called"
  /\ base' = Cardinality(consumed \cup (dropped \ {EndMark}))
  /\ trainer' = "resetting"
  /\ UNCHANGED <<feedVars, processorVars, task, pauseVars, counted, monitor, running, queueVars,
                 ending, got, local, version, lastCkpt, consumed, steps, saved>>

StalenessReset ==
  /\ trainer = "resetting"
  /\ reset = "idle"
  /\ trainer' = "save"
  /\ UNCHANGED <<rollouterVars, queueVars, ending, got, local, version, lastCkpt, historyVars>>

(* Whether _fit_save_checkpoint saves: never a version twice. *)
Saves == /\ version # lastCkpt
         /\ SaveFreq > 0 /\ (ending \/ version % SaveFreq = 0)

SaveCheckpoint ==
  /\ trainer = "save"
  /\ IF Saves THEN lastCkpt' = version /\ saved' = steps
              ELSE UNCHANGED <<lastCkpt, saved>>
  /\ trainer' = IF ending THEN "stopped" ELSE "collect"
  /\ UNCHANGED <<rollouterVars, queueVars, ending, got, local, version, consumed, base, steps>>

-----------------------------------------------------------------------------
Trainer == ReceiveSample \/ ReceiveEnd \/ Train \/ UpdateWeights \/ StalenessReset \/ SaveCheckpoint

TaskStep(i) == Deliver(i) \/ TaskEnds(i) \/ TaskRaises(i)

Rollouter == Feed \/ Processor \/ (\E i \in Sample : TaskStep(i)) \/ ResetStaleness \/ Monitor

Terminated ==
  /\ trainer = "stopped" /\ proc = "stopped" /\ monitor = "stopped"
  /\ \A i \in Sample : task[i] \notin {"running", "sent"}
  /\ UNCHANGED vars

Next ==
  \/ Trainer
  \/ Rollouter /\ UNCHANGED <<trainerVars, historyVars>>
  \/ Terminated

Spec == Init /\ [][Next]_vars

OfRollouter(A) == A /\ UNCHANGED <<trainerVars, historyVars>>

(* Coroutines that can run do run, and every generation ends.  asyncio.Lock *)
(* serves its waiters in order, so none of them starves: strong fairness    *)
(* of what is done with the lock.                                           *)
Fairness ==
  /\ WF_vars(Trainer)
  /\ WF_vars(OfRollouter(Feed))
  /\ SF_vars(OfRollouter(Processor))
  /\ \A i \in Sample : WF_vars(OfRollouter(TaskStep(i)))
  /\ SF_vars(OfRollouter(ResetStaleness))
  /\ SF_vars(OfRollouter(Monitor))

FairSpec == Spec /\ Fairness

-----------------------------------------------------------------------------
(* Every variable has its type. *)
TypeOK ==
  /\ RollouterTypeOK
  /\ trainer \in {"collect", "train", "sync", "resetting", "save", "stopped"}
  /\ ending \in BOOLEAN
  /\ got \in 0 .. Required
  /\ local \in 1 .. Trigger
  /\ version \in Nat /\ lastCkpt \in 0 .. version
  /\ consumed \subseteq Sample /\ base \in 0 .. Total
  /\ steps \in Nat /\ saved \in 0 .. steps

SamplesTaken == IF taken = LastFed THEN Total ELSE taken

(* The staleness budget: between two weight updates the rollouter takes    *)
(* at most MaxRequired samples, those outstanding at the update included,  *)
(* and one more that the count of reset_staleness can miss -- the sample   *)
(* in the processor's hand while the handler counts.  (The formula of the  *)
(* README of this policy leaves that one out.)                             *)
StalenessBudget == SamplesTaken - base <= MaxRequired + 1

Running == { i \in Sample : task[i] = "running" }
Queued  == { queue[k] : k \in DOMAIN queue } \ {EndMark}
Held    == { i \in Sample : i = taken /\ task[i] = "none" }
Lost    == { i \in Sample : task[i] = "failed" }

(* No sample is trained on twice or vanishes: what was taken is in hand,   *)
(* running, queued, received, dropped or failed, and in one place only.    *)
EverySampleOnce ==
  /\ Len(queue) = Cardinality({ queue[k] : k \in DOMAIN queue })
  /\ LET places == <<Held, Running, Queued, consumed, dropped \ {EndMark}, Lost>>
     IN  /\ 1 .. SamplesTaken \subseteq UNION { places[k] : k \in DOMAIN places }
         /\ \A j, k \in DOMAIN places : j # k => places[j] \cap places[k] = {}

(* At most MaxConcurrent samples are being generated. *)
ConcurrencyBound == Cardinality(Running) <= MaxConcurrent

(* The end mark comes after every sample, unless a generation has failed:  *)
(* when it has been put, no sample is still to come.                       *)
EndIsComplete ==
  (EndMark \in { queue[k] : k \in DOMAIN queue } \/ ending) /\ Lost = {}
    => Sample \subseteq Queued \cup consumed \cup dropped

(* Samples of the tasks a failed processor leaves behind come after the    *)
(* end mark; they never push it out of the queue, so the trainer gets it.  *)
EndMarkSurvives == EndMark \notin dropped

(* `_resume_event` "signals that the rollouter is currently running        *)
(* (paused == False)", whoever changes either.                             *)
ResumeEventMeansRunning == resumeEvent = ~paused

(* Training ends, whatever generation fails. *)
TrainingEnds == <>(trainer = "stopped")

(* And so does the rollouter, its monitor included. *)
RollouterEnds == <>[](proc = "stopped" /\ monitor = "stopped")

(* "It's the last training step" is one of the conditions to save: a run   *)
(* that saves checkpoints ends with its last training step saved.          *)
LastStepIsSaved == trainer = "stopped" /\ SaveFreq > 0 => saved = steps
=============================================================================
