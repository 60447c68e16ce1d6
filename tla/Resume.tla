------------------------------- MODULE Resume -------------------------------
(***************************************************************************)
(* Checkpoints, crashes and resumption of both trainers:                   *)
(*                                                                         *)
(*   "sync"    PPOTrainer of main_ppo_sync.py, with the ALFWorld pool: one *)
(*             batch of the dataloader and one reset of every environment  *)
(*             worker per training step; the version is global_steps;      *)
(*   "async"   FullyAsyncTrainer and FullyAsyncRollouter: samples are fed  *)
(*             ahead of training, Trigger steps make one version.          *)
(*                                                                         *)
(* The disk survives a crash: per version a folder with actor, critic and  *)
(* data.pt, and the tracker file that names the version to resume from.    *)
(* What a checkpoint manager remembers of the folders it wrote does not.   *)
(* A file that is being written is torn, and stays so if the crash comes.  *)
(*                                                                         *)
(* Weights are their lineage: the sequence of the dataloader positions     *)
(* they were trained on.  Training covers one pass of the dataloader.      *)
(***************************************************************************)
EXTENDS Integers, Sequences, FiniteSets

CONSTANTS
  Modes,        \* the trainers to explore, of {"sync", "async"}
  Keeps,        \* values of max_actor_ckpt_to_keep; 0 stands for None
  Workers,      \* the ALFWorld workers of one group
  Games,        \* number of games in their pool
  Total,        \* total_training_steps, total_rollout_steps
  Trigger,      \* trigger_parameter_sync_step
  SaveFreq,     \* trainer.save_freq
  Ahead,        \* bound: samples fed and not trained
  MaxVersion,   \* bound: versions
  MaxCrash,     \* bound: crashes
  MaxRaise      \* bound: sessions of a life that raise at their reset

ASSUME ConstantsOK ==
  /\ Modes \subseteq {"sync", "async"}
  /\ Keeps \subseteq Nat
  /\ {Games, Total, Trigger, SaveFreq, Ahead} \subseteq Nat \ {0}
  /\ {MaxVersion, MaxCrash, MaxRaise} \subseteq Nat

VARIABLES
  mode, keep,   \* the settings of the run
  shards,       \* per part and version, global_step_<version>/<part>
  data,         \* per version, global_step_<version>/data.pt
  tracker,      \* latest_checkpointed_iteration.txt
  pc,           \* what the trainer is doing
  stage,        \* of a file being saved: "open", "write", "register"
  weights,      \* lineage of the actor and critic in memory
  version,      \* sync: finished global_steps; async: current_param_version
  localStep,    \* local_trigger_step
  globalSteps,  \* async trainer's global_steps, as its next step reports it
  lastCkpt,     \* last_ckpt_version; for sync the last version saved or loaded
  saved,        \* per part, previous_saved_paths of its checkpoint manager
  position,     \* position of the train dataloader
  pipeline,     \* samples fed by the rollouter and not trained yet
  rollSteps,    \* rollouter's global_steps
  feeding,      \* _feed_samples has not broken off
  cursor,       \* per worker, its reset_count and its game iterator
  sessions,     \* sessions, <<step, worker>>, still to reset their environment
  raised,       \* sessions that raised, per step
  troubled,     \* history: workers with a raised or late reset since the load
  crashes       \* history

trainerVars == <<weights, version, localStep, globalSteps, lastCkpt, saved>>
feedVars == <<position, pipeline, rollSteps, feeding>>
envVars == <<cursor, sessions, raised, troubled>>
disk == <<shards, data, tracker>>
vars == <<mode, keep, disk, pc, stage, trainerVars, feedVars,
          envVars, crashes>>

Parts == {"actor", "critic"}
File(kind, content) == [kind |-> kind, of |-> content]
Absent == File("absent", 0)
NoShards == File("absent", <<>>)
Version == 0 .. MaxVersion

-----------------------------------------------------------------------------
(* The games of an environment worker.  TextWorld's batch environment      *)
(* (external) walks one shuffled order of the pool after the other; a      *)
(* place in this walk is the cycle and the offset in its order.            *)

(* _make_textworld_iterator: the walk rebuilt at a reset count. *)
IteratorAt(count) == [cycle |-> count \div Games, offset |-> count % Games]

(* One reset of the environment takes the game at the place and goes on. *)
Advance(place) ==
  IF place.offset + 1 < Games THEN [place EXCEPT !.offset = @ + 1]
  ELSE [cycle |-> place.cycle + 1, offset |-> 0]

CursorAt(count) == [count |-> count, place |-> IteratorAt(count)]

-----------------------------------------------------------------------------
Init ==
  /\ mode \in Modes
  /\ keep \in Keeps
  /\ shards = [p \in Parts |-> [v \in Version |-> NoShards]]
  /\ data = [v \in Version |-> Absent]
  /\ tracker = Absent
  /\ pc = "idle" /\ stage = "open"
  /\ weights = <<>> /\ version = 0 /\ localStep = 1 /\ globalSteps = 1
  /\ lastCkpt = 0
  /\ saved = [p \in Parts |-> <<>>]
  /\ position = 0 /\ pipeline = {} /\ rollSteps = 1
  /\ feeding = (mode = "async")
  /\ cursor = [w \in Workers |-> CursorAt(0)]
  /\ sessions = {} /\ raised = {} /\ troubled = {}
  /\ crashes = 0

Running == pc \notin {"down", "stuck", "ended"}

-----------------------------------------------------------------------------
(* The synchronous trainer's step: a batch is read, its sessions reset     *)
(* their workers, and the step trains when every prompt ended, which a     *)
(* failed prompt does with its first session that raises.                  *)

Step == version + 1

BeginStep ==
  /\ mode = "sync" /\ pc = "idle" /\ version < Total
  /\ pc' = "rollout"
  /\ position' = position + 1
  /\ sessions' = sessions \cup { <<Step, w>> : w \in Workers }
  /\ UNCHANGED <<mode, keep, disk, stage, trainerVars, pipeline,
                 rollSteps, feeding, cursor, raised, troubled, crashes>>

ResetEnv(s) ==
  /\ s \in sessions /\ Running
  /\ sessions' = sessions \ {s}
  /\ cursor' = [cursor EXCEPT ![s[2]] =
                  [count |-> @.count + 1, place |-> Advance(@.place)]]
  /\ UNCHANGED <<mode, keep, disk, pc, stage, trainerVars, feedVars,
                 raised, troubled, crashes>>

(* get_worker or the environment's own reset raises: the count stays, the  *)
(* game may have been taken from the iterator or not.                      *)
ResetRaises(s) ==
  /\ s \in sessions /\ Running
  /\ Cardinality(raised) < MaxRaise
  /\ sessions' = sessions \ {s}
  /\ raised' = raised \cup {s}
  /\ troubled' = troubled \cup {s[2]}
  /\ \E place \in {cursor[s[2]].place, Advance(cursor[s[2]].place)} :
       cursor' = [cursor EXCEPT ![s[2]].place = place]
  /\ UNCHANGED <<mode, keep, disk, pc, stage, trainerVars, feedVars,
                 crashes>>

Pending(step) == { s \in sessions : s[1] = step }

FinishStep ==
  /\ mode = "sync" /\ pc = "rollout" /\ Step \in Version
  /\ \/ Pending(Step) = {}
     \/ \E s \in raised : s[1] = Step
  /\ weights' = Append(weights, position)
  /\ version' = Step
  /\ troubled' = troubled \cup { s[2] : s \in Pending(Step) }
  /\ pc' = IF Step = Total \/ Step % SaveFreq = 0 THEN "actor" ELSE "idle"
  /\ UNCHANGED <<mode, keep, disk, stage, localStep, globalSteps,
                 lastCkpt, saved, feedVars, cursor, sessions, raised, crashes>>

-----------------------------------------------------------------------------
(* The asynchronous trainer and rollouter. *)

(* _feed_samples puts a sample before it compares its counter. *)
Feed ==
  /\ mode = "async" /\ Running /\ feeding
  /\ Cardinality(pipeline) < Ahead
  /\ position' = position + 1
  /\ pipeline' = pipeline \cup {position + 1}
  /\ feeding' = (rollSteps < Total)
  /\ rollSteps' = IF rollSteps < Total THEN rollSteps + 1 ELSE rollSteps
  /\ UNCHANGED <<mode, keep, disk, pc, stage, trainerVars, envVars,
                 crashes>>

(* The condition of _fit_save_checkpoint. *)
SaveIsDue(v, force, esi) ==
  v # lastCkpt /\ (force \/ v % SaveFreq = 0 \/ esi)

(* Faulty variant: a version takes one step more. *)
TrainOneMore(sample, esi) ==
  LET closes == localStep > Trigger
      v == IF closes THEN version + 1 ELSE version
  IN
  /\ mode = "async" /\ pc = "idle"
  /\ sample \in pipeline /\ v \in Version
  /\ pipeline' = pipeline \ {sample}
  /\ weights' = Append(weights, sample)
  /\ version' = v
  /\ localStep' = IF closes THEN 1 ELSE localStep + 1
  /\ globalSteps' = globalSteps + 1
  /\ pc' = IF SaveIsDue(v, FALSE, esi) THEN "actor" ELSE "idle"
  /\ UNCHANGED <<mode, keep, disk, stage, lastCkpt, saved, position,
                 rollSteps, feeding, envVars, crashes>>

(* fit_step: a sample in any order, the local step, the save when it is    *)
(* due or the capacity block is about to expire.                           *)
Train(sample, esi) ==
  LET closes == localStep = Trigger
      v == IF closes THEN version + 1 ELSE version
  IN
  /\ mode = "async" /\ pc = "idle"
  /\ sample \in pipeline /\ v \in Version
  /\ pipeline' = pipeline \ {sample}
  /\ weights' = Append(weights, sample)
  /\ version' = v
  /\ localStep' = IF closes THEN 1 ELSE localStep + 1
  /\ globalSteps' = globalSteps + 1
  /\ pc' = IF SaveIsDue(v, FALSE, esi) THEN "actor" ELSE "idle"
  /\ UNCHANGED <<mode, keep, disk, stage, lastCkpt, saved, position,
                 rollSteps, feeding, envVars, crashes>>

(* The end of fit: the async trainer forces a last save. *)
Finish ==
  /\ pc = "idle"
  /\ IF mode = "sync" THEN version >= Total ELSE pipeline = {} /\ ~feeding
  /\ pc' = IF mode = "async" /\ SaveIsDue(version, TRUE, FALSE)
           THEN "actor" ELSE "ended"
  /\ UNCHANGED <<mode, keep, disk, stage, trainerVars, feedVars,
                 envVars, crashes>>

-----------------------------------------------------------------------------
(* Saving: actor, critic, data.pt, tracker, each opened and then written. *)

Last(s, n) == SubSeq(s, Len(s) - n + 1, Len(s))
Dropped(s, n) == { s[i] : i \in 1 .. Len(s) - n }

(* Faulty variant: one path too many is removed before a save. *)
RoomForTwo(paths) == IF keep > 1 /\ Len(paths) >= keep THEN keep - 2
                     ELSE Len(paths)

(* ensure_checkpoint_capacity: what stays when a new path comes. *)
RoomForNew(paths) == IF keep > 1 /\ Len(paths) >= keep THEN keep - 1
                     ELSE Len(paths)

(* register_checkpoint: what stays once it has come. *)
KeptOf(paths) == IF keep > 0 /\ Len(paths) > keep THEN keep ELSE Len(paths)

Without(files, gone) ==
  [v \in Version |-> IF v \in gone THEN NoShards ELSE files[v]]

(* The manager of a part makes room and starts to write its shards. *)
OpenPart(p) ==
  LET n == RoomForNew(saved[p]) IN
  /\ pc = p /\ stage = "open"
  /\ saved' = [saved EXCEPT ![p] = Last(@, n)]
  /\ shards' = [shards EXCEPT ![p] =
                  [Without(@, Dropped(saved[p], n))
                     EXCEPT ![version] = File("torn", weights)]]
  /\ stage' = "write"
  /\ UNCHANGED <<mode, keep, data, tracker, pc, weights, version, localStep,
                 globalSteps, lastCkpt, feedVars, envVars, crashes>>

WritePart(p) ==
  /\ pc = p /\ stage = "write"
  /\ shards' = [shards EXCEPT ![p][version] = File("whole", weights)]
  /\ stage' = "register"
  /\ UNCHANGED <<mode, keep, data, tracker, pc, trainerVars, feedVars, envVars,
                 crashes>>

RegisterPart(p) ==
  LET paths == Append(saved[p], version)
      n == KeptOf(paths)
  IN
  /\ pc = p /\ stage = "register"
  /\ saved' = [saved EXCEPT ![p] = Last(paths, n)]
  /\ shards' = [shards EXCEPT ![p] = Without(@, Dropped(paths, n))]
  /\ stage' = "open"
  /\ pc' = IF p = "actor" THEN "critic" ELSE "data"
  /\ UNCHANGED <<mode, keep, data, tracker, weights, version, localStep,
                 globalSteps, lastCkpt, feedVars, envVars, crashes>>

(* data.pt holds the dataloader's position now: in the async mode the      *)
(* rollouter is asked for it, and it has gone on feeding.                  *)
SaveData ==
  /\ pc = "data"
  /\ \/ /\ stage = "open" /\ stage' = "write"
        /\ data' = [data EXCEPT ![version] = File("torn", position)]
        /\ pc' = pc
     \/ /\ stage = "write" /\ stage' = "open"
        /\ data' = [data EXCEPT ![version].kind = "whole"]
        /\ pc' = "tracker"
  /\ UNCHANGED <<mode, keep, shards, tracker, trainerVars, feedVars, envVars,
                 crashes>>

(* open(..., "w") truncates the tracker before the number is written. *)
SaveTracker ==
  /\ pc = "tracker"
  /\ \/ /\ stage = "open" /\ stage' = "write"
        /\ tracker' = File("torn", tracker.of)
        /\ UNCHANGED <<pc, lastCkpt>>
     \/ /\ stage = "write" /\ stage' = "open"
        /\ tracker' = File("whole", version)
        /\ pc' = "idle"
        /\ lastCkpt' = version
  /\ UNCHANGED <<mode, keep, shards, data, weights, version, localStep,
                 globalSteps, saved, feedVars, envVars, crashes>>

-----------------------------------------------------------------------------
(* Crash and restart. *)

(* Everything but the disk goes; the values below are those of a process   *)
(* that has just started.                                                  *)
Crash ==
  /\ Running /\ crashes < MaxCrash
  /\ crashes' = crashes + 1
  /\ pc' = "down" /\ stage' = "open"
  /\ weights' = <<>> /\ version' = 0 /\ localStep' = 1 /\ globalSteps' = 1
  /\ lastCkpt' = 0
  /\ saved' = [p \in Parts |-> <<>>]
  /\ position' = 0 /\ pipeline' = {} /\ rollSteps' = 1
  /\ feeding' = (mode = "async")
  /\ cursor' = [w \in Workers |-> CursorAt(0)]
  /\ sessions' = {} /\ raised' = {} /\ troubled' = {}
  /\ UNCHANGED <<mode, keep, disk>>

(* find_latest_ckpt_path returns None. *)
FromScratch ==
  /\ pc = "down" /\ tracker.kind = "absent"
  /\ pc' = "idle"
  /\ UNCHANGED <<mode, keep, disk, stage, trainerVars, feedVars,
                 envVars, crashes>>

Loadable(v) == \A p \in Parts : shards[p][v].kind = "whole"

(* Faulty variants: the workers are set to the step that comes; the        *)
(* dataloader starts again.                                                *)
CursorsAhead ==
  LET v == tracker.of IN
  /\ pc = "down" /\ tracker.kind = "whole" /\ Loadable(v)
  /\ pc' = "idle"
  /\ weights' = shards["actor"][v].of
  /\ version' = v /\ lastCkpt' = v
  /\ globalSteps' = v * Trigger + 2
  /\ position' = data[v].of
  /\ rollSteps' = v * Trigger + 1
  /\ cursor' = [w \in Workers |-> CursorAt(v + 1)]
  /\ UNCHANGED <<mode, keep, disk, stage, localStep, saved, pipeline,
                 feeding, sessions, raised, troubled, crashes>>

DataAnew ==
  LET v == tracker.of IN
  /\ pc = "down" /\ tracker.kind = "whole" /\ Loadable(v)
  /\ pc' = "idle"
  /\ weights' = shards["actor"][v].of
  /\ version' = v /\ lastCkpt' = v
  /\ globalSteps' = v * Trigger + 2
  /\ rollSteps' = v * Trigger + 1
  /\ cursor' = [w \in Workers |-> CursorAt(v)]
  /\ UNCHANGED <<mode, keep, disk, stage, localStep, saved, position,
                 pipeline, feeding, sessions, raised, troubled, crashes>>

(* load_checkpoint of the trainers and the rollouter, then the pool's      *)
(* cursors; the env state file always holds the step, as does its default. *)
(* fit adds one to the async trainer's global_steps before its first step. *)
LoadCheckpoint ==
  LET v == tracker.of IN
  /\ pc = "down" /\ tracker.kind = "whole" /\ Loadable(v)
  /\ pc' = "idle"
  /\ weights' = shards["actor"][v].of
  /\ version' = v /\ lastCkpt' = v
  /\ globalSteps' = v * Trigger + 2
  /\ position' = data[v].of
  /\ rollSteps' = v * Trigger + 1
  /\ cursor' = [w \in Workers |-> CursorAt(v)]
  /\ UNCHANGED <<mode, keep, disk, stage, localStep, saved, pipeline,
                 feeding, sessions, raised, troubled, crashes>>

(* int('') of a torn tracker, or torch.load of a missing shard, raises. *)
LoadRaises ==
  /\ pc = "down" /\ tracker.kind # "absent"
  /\ ~(tracker.kind = "whole" /\ Loadable(tracker.of))
  /\ pc' = "stuck"
  /\ UNCHANGED <<mode, keep, disk, stage, trainerVars, feedVars,
                 envVars, crashes>>

-----------------------------------------------------------------------------
Over == pc \in {"ended", "stuck"} /\ UNCHANGED vars

Next ==
  \/ BeginStep
  \/ \E s \in sessions : ResetEnv(s) \/ ResetRaises(s)
  \/ FinishStep
  \/ Feed
  \/ \E sample \in pipeline, esi \in BOOLEAN : Train(sample, esi)
  \/ Finish
  \/ \E p \in Parts : OpenPart(p) \/ WritePart(p) \/ RegisterPart(p)
  \/ SaveData \/ SaveTracker
  \/ Crash \/ FromScratch \/ LoadCheckpoint \/ LoadRaises
  \/ Over

Spec == Init /\ [][Next]_vars

-----------------------------------------------------------------------------
(* Properties. *)

Samples == Nat \ {0}
FileOf(S) == [kind : {"absent", "torn", "whole"}, of : S]

DiskTypes ==
  /\ shards \in [Parts -> [Version -> FileOf(Seq(Nat))]]
  /\ data \in [Version -> FileOf(Nat)]
  /\ tracker \in FileOf(Version)

TrainerTypes ==
  /\ mode \in Modes /\ keep \in Keeps
  /\ pc \in {"idle", "rollout", "data", "tracker", "down", "stuck", "ended"}
            \cup Parts
  /\ stage \in {"open", "write", "register"}
  /\ weights \in Seq(Nat)
  /\ version \in Version /\ lastCkpt \in Version
  /\ localStep \in 1 .. Trigger /\ globalSteps \in Samples

PathTypes ==
  /\ saved \in [Parts -> Seq(Version)]
  /\ \A p \in Parts : keep > 0 => Len(saved[p]) <= keep

FeedTypes ==
  /\ position \in Nat /\ rollSteps \in Samples
  /\ pipeline \subseteq Samples
  /\ feeding \in BOOLEAN

EnvTypes ==
  /\ cursor \in [Workers -> [count : Nat,
                             place : [cycle : Nat, offset : 0 .. Games - 1]]]
  /\ sessions \subseteq Samples \X Workers
  /\ raised \subseteq Samples \X Workers
  /\ troubled \subseteq Workers

(* Every variable has its type; a manager that keeps a number of paths     *)
(* never remembers more of them than that.                                 *)
TypeOK ==
  /\ DiskTypes /\ TrainerTypes /\ PathTypes /\ FeedTypes /\ EnvTypes
  /\ crashes \in 0 .. MaxCrash

(* The checkpoint the tracker names has its actor, its critic, of the same *)
(* training steps, and its dataloader position, at every moment a crash    *)
(* can come: before, while and after a newer one is written and an older   *)
(* one removed.  Between steps it is the last one saved.  Only a torn      *)
(* tracker file stops a restart.                                           *)
TrackedIsWhole ==
  /\ tracker.kind = "whole" =>
       /\ Loadable(tracker.of)
       /\ shards["actor"][tracker.of] = shards["critic"][tracker.of]
       /\ data[tracker.of].kind = "whole"
  /\ pc = "idle" /\ lastCkpt > 0 => tracker = File("whole", lastCkpt)
  /\ pc = "stuck" => tracker.kind = "torn"

(* However often it crashes, a synchronous training trains on every batch  *)
(* of the dataloader once and in order, and each worker of a group plays   *)
(* the game of the step: _save_alfworld_env_state may store global_steps   *)
(* for all of them.  It may not for a worker one of whose resets raised or *)
(* came after its step: that one is behind until the next resumption.      *)
SyncResumesExactly ==
  mode = "sync" /\ pc \notin {"down", "stuck"} =>
    /\ weights = [i \in 1 .. version |-> i]
    /\ position = IF pc = "rollout" THEN Step ELSE version
    /\ \A w \in Workers \ troubled :
         cursor[w] = CursorAt(IF pc = "rollout" /\ <<Step, w>> \notin sessions
                              THEN Step ELSE version)

Trained == { weights[i] : i \in 1 .. Len(weights) }

(* An asynchronous training never trains twice on a sample; it skips only  *)
(* what was in flight when the checkpoint it resumed from was saved; and   *)
(* its step counter and its lineage part by the one that fit adds after a  *)
(* load and by the steps of versions saved before they were complete.      *)
AsyncDriftIsBounded ==
  mode = "async" /\ pc \notin {"down", "stuck"} =>
    /\ Cardinality(Trained) = Len(weights)
    /\ Trained \cap pipeline = {}
    /\ Cardinality((1 .. position) \ (Trained \cup pipeline))
         <= crashes * Ahead
    /\ Len(weights) + 1 - globalSteps \in -1 .. crashes * (Trigger - 1)
    /\ crashes = 0 => globalSteps = Len(weights) + 1
=============================================================================
