# A verification project for the critique-OPD training system

The repository (`src/verl-v0.8.0`) is a fork of verl 0.8.0: reinforcement
learning and on-policy distillation (OPD) of language-model agents. What the
fork adds is a *critique-first* teacher phase for ALFWorld trajectories; what it
inherits is a set of Ray actors, asyncio tasks and threads that keep rollout,
teacher and training apart. These modules describe how those parts
coordinate: who waits for whom, what a failure leaves behind, and which data the
trainer may look at when. Tensors, prompts and losses are not their subject.

Paths below are relative to `src/verl-v0.8.0/verl/` unless they begin with `src/`.

## 1. The system

### Components, their state and their operations

| component | state | operations | modelled in |
|---|---|---|---|
| Teacher batch phase coordinator (`workers/rollout/llm_server.py`, `GlobalTeacherBatchPhaseCoordinator`) | per batch: expected count, arrived keys, an `asyncio.Event`, abort reason | `begin_batch`, `arrive_and_wait`, `abort_batch` | `TeacherBatch`, promise in `BatchPhase` |
| Concurrency limiters (same file, `GlobalCritiqueConcurrencyLimiter`) | `asyncio.Semaphore`, `_inflight` | `acquire`, `release` | `TeacherBatch` |
| ALFWorld OPD session (`experimental/agent_loop/agent_loop.py`, `experimental/teacher_loop/teacher_manager.py`) | where the task stands, requests left | rollout, critique, barrier, scoring, put | `TeacherBatch` |
| Prompt task (`trainer/main_ppo_sync.py`, `_run_prompt`) | running / finished / failure | gather, abort of the batch, put of the status | `TeacherBatch`, `ReplayBuffer` |
| Replay buffer and its poll thread (`trainer/main_ppo_sync.py`, `ReplayBuffer`) | `partitions` (key -> tag) under a lock | `add`, `remove`, `sample`, the poll | `ReplayBuffer` |
| Synchronous trainer (`trainer/main_ppo_sync.py`, `PPOTrainer`) | `global_steps`, the batch in hand | `step`, `_validate`, clean-up | `TeacherBatch`, `ReplayBuffer` |
| Message queue (`experimental/fully_async_policy/message_queue.py`) | bounded deque, counters | `put_sample`, `get_sample`, `get_statistics`, `get_queue_size` | `MessageQueue` |
| Fully asynchronous rollouter (`fully_async_rollouter.py`) | pending queue, `active_tasks`, `staleness_samples`, `paused`, `_resume_event`, `lock`, `running` | `_feed_samples`, `_processor_worker`, `_process_single_sample_streaming`, `reset_staleness`, `_async_monitor_loop` | `AsyncRollouter` |
| Fully asynchronous trainer (`fully_async_trainer.py`) | `local_trigger_step`, `current_param_version`, `last_ckpt_version` | collect, train, `_fit_update_weights`, save | `FullyAsync` |
| Request load balancer (`workers/rollout/llm_server.py`, `GlobalRequestLoadBalancer`) | in-flight counter per server, LRU cache of routes | `acquire_server`, `release_server`, `add_servers`, `remove_servers` | `ServerPool` |
| Client of the servers (`fully_async_rollouter.py`, `FullyAsyncLLMServerClient`) | tokens so far, budget left, lowest and highest version | `generate`: acquire, call, release, merge, start over | `ServerPool` |
| Inference server (`workers/rollout/vllm_rollout/vllm_async_server.py`) | engine paused / asleep, weights, `global_steps` | `generate`, `abort_all_requests`, `resume_generation`, `sleep`, `set_global_steps` | `ServerPool` |
| Checkpoint engine manager (`checkpoint_engine/base.py`), trainer-side validation (`fully_async_trainer.py`) | replicas | `update_weights`, `_trainer_side_validate` | `ServerPool` |
| Weight transfer (`checkpoint_engine/nccl_checkpoint_engine.py`, `vllm_rollout/bucketed_weight_transfer.py`) | two buckets per process, one shared bucket, the broadcast under way, copies queued on a stream | `send_weights`, `receive_weights`, `merge_weight_chunks`, `async_send_weights` | `WeightTransfer` |
| Checkpoint and resume (both trainers, the rollouter, `utils/checkpoint/`, `alfworld_agent_loop.py`) | folders, tracker, remembered paths, step counters, dataloader position, reset cursors | save, rotate, load | `Resume` |

The remaining components (engines, kernels, inference servers, single
controller, data sets, tools) are listed in `PROJECT.json` with the reason they
are not modelled.

### How they interact

*Synchronous trainer with critique OPD.* `PPOTrainer.step` has
`AgentLoopManagerTQ.generate_sequences` open a batch at the coordinator (one
expected arrival per rollout), mark the prompts running in the `ReplayBuffer`
and dispatch them to agent-loop workers. A worker has one task per prompt, which
gathers one task per session. A session rolls out against the environment, asks
the teacher for a critique under a critique slot, goes to the batch barrier,
scores its step samples under scoring slots, and puts its output into the
transfer queue under a tagged key. The prompt task puts `finished`, or aborts
the batch at the coordinator and puts `failure`. Meanwhile a thread polls the
transfer queue's metadata into the `ReplayBuffer`; `sample()` returns once no
prompt of the step is `running` there.

*Fully asynchronous policy.* The rollouter feeds samples into a pending queue;
its processor submits each as a task while the staleness and concurrency budgets
allow; a task puts its sample into the message queue; the trainer collects
`required_samples`, trains, and every `trigger_parameter_sync_step` steps synchronises
the weights and calls `reset_staleness`, which resumes the rollouter. When every
sample has been processed, or a task has raised, a `None` marks the end of the
stream.

### What is hard here, and what would be correct

- **The barrier.** Sessions fail at any await; a prompt aborts while others are
  in `arrive_and_wait`; sessions of a failed step are never cancelled and run
  into the next one. Correct: no session scores while a sibling may still
  want the critique teacher; a batch is released as a whole or not at all; nobody
  hangs; every slot comes back.
- **The poll thread.** Snapshot and merge are two steps, and the queue changes
  in between. Correct: a batch is never sampled early, holds only live keys of its
  own, and is always sampled.
- **The rollouter.** Five coroutines share `paused`, `_resume_event`,
  `staleness_samples` and `active_tasks`, partly under one lock and partly not;
  decisions use queue statistics that are stale when they arrive. Correct: the
  staleness budget holds, no sample is lost or doubled, the end mark comes last
  and is not dropped, nobody sleeps for ever.
- **Requests across weight updates.** A request is cut, continued on another
  server, under other weights, with the rest of its budget; hybrid servers join
  and leave the pool and give their memory back while calls are under way. Correct: no
  token comes from half-loaded weights, the versions a request reports
  bracket those it was sampled from, the budget holds, a validation sees one version.
- **The transfer.** Double buffers, a thread and asynchronous copies on both sides.
  Correct: no buffer is overwritten while it is read, and every worker loads
  every weight once, whole.
- **Crashes.** A checkpoint has several parts that are written one after the
  other, while old ones are removed. Correct: what the tracker names is whole
  whenever the crash comes; what is trained twice or skipped is known.
- **Counters at their limits**: a full queue drops its oldest entry, a limiter's
  `release` raises at zero, an arrival beyond `expected` aborts the batch.

`PROJECT.json`, `hazards`, lists each of these at its line with the properties
that would notice it going wrong.

## 2. The modules and the code

### TeacherBatch, BatchPhase, MCTeacherBatch

One action per stretch of a handler between two awaits: every actor and every
worker has one event loop, so nothing else of it runs in between.

- `GenerateSequences` is `begin_batch`, the `running` marks and the dispatch;
  `SampleReturns` is the end of `ReplayBuffer.sample` as the trainer sees it
  (`ReplayBuffer` has the details).
- `SemaphoreAcquire` and `CountInflight` are the two halves of the limiter's
  `acquire` (the second runs when the semaphore's waiter is resumed);
  `ReleaseSlot` is `release`, with the check that raises.
- `RolloutEnds`, `TeacherAnswers`, `CritiqueReturns`, `ArriveAndWait`, `ScoringReturns`,
  `PutSamples` are a session's awaits, each with its exceptional outcome: building
  and putting the samples can raise after the barrier's release, and fails the prompt then.
  `ArriveAndWait` also moves every waiter when it sets the event: the coordinator's
  loop runs them before it takes another call.
- `PromptFinishes`, `PromptAborts`, `PromptFails` are `_run_prompt`. `gather` has no
  `return_exceptions`, so the first failed session is enough, and the others run on.

`BatchPhase` is what users of the coordinator rely on: a member is out, in
its critique, at the barrier, released or ended; a batch opens for all at once, when
the last arrives, or breaks for ever. `TeacherBatch` implements it under the
mapping `PhaseOf`, `OutcomeOf` (`BarrierRefinement`).

Abstracted: what a critique says (only how many scoring requests it leaves:
two per step sample, none for an unusable critique or a successful trajectory),
prompts, log-probabilities, the environment. The sessions a step has are a constant
(`Dispatched`), and the number of expected trajectories is theirs: that the code
counts the same from the batch is read off it, and what a wrong count would do is
shown by the mutant of `CritiqueFirst`.

### MessageQueue, AsyncRollouter, FullyAsync

`MessageQueue` has the actor's two state-changing methods, under its own lock
and hence atomic. `AsyncRollouter` extends it with the rollouter's coroutines:
`proc`, `monitor` and `reset` say at which await each stands, and `lock` is held
exactly across the awaits the code holds it across. `CheckPause`, `StatisticsTaken`, `DecidePause`
are the three moments of `_should_pause_generation`: the question, the
answer in the queue actor, and the comparison. `FullyAsync` composes the
rollouter with the trainer and carries two history variables, `consumed` and
`base`, for the properties.

The samples are numbered in feeding order and `Total + 1` is the `None` that
ends the feed. A generation may raise if it is in `Faulty`.

`LongTraining` says whether a training step lasts longer than the rollouter's
bookkeeping (tasks that are done are reaped, and the processor is at rest, before
the step ends). On hardware it takes minutes against microseconds, but no code
enforces it, so the safety run leaves it `FALSE`. It matters for
liveness: `reset_staleness` adds `len(active_tasks)` and the queue size, and a task
whose sample is queued but which has not been reaped counts twice; if that
brings the count to `max_required_samples` after the last reset that will come,
the processor pauses for good. With `LongTraining = TRUE` TLC finds no such
behaviour.

### ReplayBuffer, MCReplayBuffer

The poll thread's `kv_list` (`PollLists`) and its `add` (`PollAdds`) are two
steps, and so are the trainer's `kv_clear` (`Clear`) and `remove` (`Remove`), the
marks (`Mark`) and the dispatch (`Dispatch`). Batches are numbered;
`GlobalStep` gives each its step, so one module serves training
(steps distinct) and validation (all batches of a validation share one). The
transfer queue is a library: what it holds is its tags, changed in one step by a put
or a clear.

### ServerPool, MCServerPool

The load balancer, a client and the servers as actors: one action per call that
arrives. `rq[r].pc` says where a request is: on its way to a server, in the
engine, or on its way back with an answer of which kind. `Merge` is the rest of an
iteration of `FullyAsyncLLMServerClient.generate`: merge, labels, budget, stop
reason. The release it sends is an action of its own (`Release`), because nobody waits
for it. A token *is* the version of the weights it was sampled from, so
what a request was sampled from can be compared with what it reports.

Installations differ in three things, which a behaviour fixes in its first state (`setup`):

- `limited`: whether the agent loop sets `max_tokens`. If it does (the ALFWorld loop), the
  client carries the rest of that budget into a resumed call and stops when it is used up.
  If it does not (the single-turn and tool loops), the client neither counts nor
  stops, and the server sets the limit of each call from its prompt, which includes the
  tokens of the calls before: the lesser of `response_length` (`Response`) and what
  `prompt_length + response_length` leaves (`Ahead`). The server clamps either to what
  fits the context (`Room`). `CallLimit` and `Merge` have both cases.
- `pausing`: from vLLM 0.12 on `abort_all_requests` pauses the engine; before, which
  `setup.py:52` allows, it aborts the requests, leaves the engine open, and
  `resume_generation` does nothing.
- `erring`: at which server and version an abort may raise. `abort_all_requests` swallows
  the exception: the engine may be left open, with any of its requests still in it, and the
  trainer goes on.

Two history variables follow the last two. `loose` are the servers whose last abort left them
open or not empty, until they are resumed, and `exposed` the requests that have been in the engine of
one. Such a request may get tokens from half-loaded weights, and two properties are
about the others (`Shielded`); in an installation that pauses and where no abort raises, all
are (`NobodyExposed`). `Sleep` does not wait for requests: the drain before it is
of data-parallel engines, so a request an abort left there meets a released engine.

The trainer's `phase.at` is the await it stands at, and `phase.left` the servers
that the gather there has not reached; `Sync` and `Validate` are the sequences of
calls of `CheckpointEngineManager.update_weights` and `_trainer_side_validate`. A server loads
its weights in two steps (`BeginLoad`, `EndLoad`; in between they are `Mixed`) and
is told the version in a third.

Assumptions, all about what lies outside the code: calls of one worker to one actor
arrive in order (Ray); aborted requests have been answered when `abort_all_requests`
returns without an exception; an engine whose memory is released answers a call with an error; a
training step lasts longer than the delivery of a call. `free_cache_engine` is on.
Two things the model shows that are worth knowing and that its properties
allow for: a training request routed to a hybrid server after that was aborted and
before it is removed from the pool waits at the paused engine, runs into a released
engine when it is resumed, and fails; and a release that arrives after its server was
removed and added again takes one from the new counter, so hybrid servers may be
undercounted (never overcounted).

### WeightTransfer, MCWeightTransfer

One action per stretch of a coroutine between two awaits, of a thread, and of a
CUDA stream. Copies are queued (`queue`) and happen later (`SenderCopy`, `RankCopy`), so a
`synchronize` that is missing or late shows. Memory is counted in units and a
unit remembers its weight and place. `Broadcast` completes for all ranks at once;
the metadata goes ahead of it on a queue per rank. The generator
`split_weight_chunks` is a cursor, `snd.name` and `snd.at`; `NextChunk` is what it yields
there. The direct hand-over of a large
weight waits for the copies queued before it, as the event in torch's IPC handle does.

### Resume, MCResume

Both trainers around the same disk. `OpenPart`, `WritePart`, `RegisterPart`, `SaveData` and `SaveTracker` are
the steps of a save, and a file that is being written is torn; `Crash` may come
between any two and forgets everything but the disk; `LoadCheckpoint`,
`FromScratch` and `LoadRaises` are the outcomes of the restart. Weights are
their lineage, the sequence of dataloader positions trained on, so that "trained
twice" and "skipped" can be said. The games an ALFWorld worker plays follow a
cursor that is not saved but recomputed from the step.

## 3. The runs

| run | question | bounds |
|---|---|---|
| `teacher_batch` | safety of the teacher phase | 2 steps, 2 prompts (two sessions and one), 1 slot per limiter, at most 2 scoring requests per session; symmetry of the two sessions of a prompt |
| `teacher_batch_live` | nobody hangs, in the next batch either; implements `BatchPhase` | the same, but the second step has one session only |
| `fully_async` | safety of the asynchronous pipeline | 6 samples, sync every step, budget and queue of 2, concurrency 2, sample 2 may raise |
| `fully_async_live` | training and rollouter end | 4 samples, sync every 2 steps, budget 3, `LongTraining` |
| `replay_buffer` | a sampled batch is whole, live, and is reached | 2 training batches of 2 prompts and 3 sessions |
| `server_pool` | a request across synchronisations and validations | 2 standalone and 1 hybrid server, a training request, validation requests at versions 0 and 2, 2 versions after the first, `test_freq` 2, budget and response length 2, cache of 2 routes; two installations: limited and pausing, with one abort that may raise, and unlimited and not pausing |
| `weight_transfer` | the transfer delivers, without races, and ends | 2 ranks, buckets of 2 units, every sequence of 1 to 3 weights of 1 to 3 units, and two with weights of 4 and 5 |
| `resume` | what survives a crash | both trainers, 2 crashes, 6 steps or samples, 2 steps a version, 2 samples ahead, 2 games and 2 workers, keeping 2, 3 or all checkpoints |
| `steps_overlap`, `last_step_saved`, `cleaned_up_for_good`, `atomic_resume` | statements of the repository the code does not keep | see section 5 |

Why the bounds are enough to meet the interesting cases. Two steps let sessions a
failed batch left behind compete with the next one for the only slot, in the safety run with
three new sessions; in the liveness run, where every state costs more, with one, which has to get its
slots behind up to two leftovers; two
prompts, one of them with two sessions, let a prompt fail while its own and another's
sessions are at each stage; one slot makes every limiter wait. In
`fully_async` six samples over a budget of two force repeated pauses and resumes,
the queue gets full and drops, and the failing sample can fail while others are
running, queued or in hand; the queue statistics are stale in every possible way. Two batches
are what a stale poll needs. In
`server_pool` a request with three tokens of room and a budget of two can be cut
before its first token, between the two and on either server; two synchronisations
let it be cut twice; the hybrid server is added and removed twice, so
releases meet its next life; three requests overflow the cache. The abort that may raise is that
of a standalone server before a load, which is where a request can be left in an engine
whose weights change; since it need not raise, the first installation includes the one in which
none does. Without `max_tokens` the request's limit is set anew after each cut, with two tokens
`Ahead`. The proofs cover every other combination. In
`weight_transfer` a weight can be smaller than, as large as and larger than a bucket,
end in the middle of one and be followed by another that starts there, and need three
chunks. In `resume` the second crash can hit the restart's own first save,
and with two checkpoints kept the oldest is removed while the tracker names the
next; two games make the cursor wrap. The symmetry set of `teacher_batch` is sound: `PromptOf` and `Dispatched` do not tell its two
sessions apart, and the run has no liveness property. The constants that only bound exploration are
`MaxStep`, `MaxErrorStep`, `Total`, `Batches`, `Ahead`, and those whose names begin
with `Max`; the others are the program's parameters.

`fully_async` sets `CHECK_DEADLOCK FALSE` because with `LongTraining = FALSE`
the pipeline can stop, as described above, and `server_pool` and
`weight_transfer` because they end: after the last version, and after the transfer. The runs of `TeacherBatch` and
`fully_async_live`, and `resume`, check deadlock, with an explicit `Terminated` step for the
normal end; in `replay_buffer` the poll thread never stops.

Each property has a mutant: a faulty variant of one definition, kept beside it
and named as such, under which the property fails.

### What the properties say

- `CritiqueFirst`, `BatchAllOrNothing`, `NoStrandedWaiter`, `SlotAccounting`,
  `FinishedPromptIsComplete`: the barrier and the limiters, over sessions of all steps.
- `BatchEnds`, `SessionsEnd`: liveness of the same; `BarrierRefinement`: the
  abstract barrier is implemented.
- `StalenessBudget` (with the one sample `reset_staleness` can miss),
  `ConcurrencyBound`, `EverySampleOnce`, `EndIsComplete`, `EndMarkSurvives`,
  `ResumeEventMeansRunning`: the asynchronous pipeline; `TrainingEnds` and `RollouterEnds`
  its liveness, a generation that fails included.
- `SampledBatchIsWhole`, `SampledBatchIsLive`, `EveryTagHasStep`, `SamplingEnds`: the
  replay buffer.
- `TokensFromWholeWeights`, `LabelsBracketTokens`, `BudgetSurvivesResumption`,
  `ValidationIsOfOneVersion`: what a request was sampled from, what it reports and
  how long it gets. The first two are about requests that were never in an engine an
  abort left open or not empty, the others about all. With `max_tokens` the answers of a request get
  no longer than that, together; without it, than `prompt_length + response_length`
  leaves after the prompt. `CountersFollowRequests`, `WithdrawnGetsNothing`: the load
  balancer. `AllEnd`: nobody is left at a paused server.
- `LoadedIsSent`, `NoDataRace`, `AssertionsHold`, `TransferEnds`: the transfer; the
  third is the program's own assertions.
- `TrackedIsWhole`: atomic resumption; `SyncResumesExactly`: nothing is
  repeated or skipped, and the workers' games are those of the step, except for a
  worker one of whose resets raised or came late; `AsyncDriftIsBounded`: what the
  asynchronous trainer skips and by how much its counters drift.

## 4. Fairness

- Weak fairness of every task and coroutine: the event loop runs what is ready.
  Server calls and generations end, in success or in an exception: the clients
  bound them by retries and the servers by `max_tokens`.
- Strong fairness of what waits for an `asyncio.Semaphore` or an `asyncio.Lock`:
  both wake their waiters first come, first served, so a waiter is overtaken
  only finitely often.
- Weak fairness of the poll thread, which loops on a timer, and of the monitor.
- `ServerPool`: the trainer's coroutine, the clients and the engines are scheduled,
  and calls are delivered. `WeightTransfer`: something that can move, moves; no part
  can move for ever without the others.
- None for a failure: that a session or a generation raises is never assumed.

## 5. Where the repository's words and its code differ

1. `steps_overlap`. `ReplayBuffer.sample` "wait[s] until all prompts of this
   global steps have finished"; `_run_prompt` reports `failure` at the first session
   that raises, so the trainer goes on while the prompt's other sessions still
   generate, hold teacher slots and put samples of the past step.
   `SlotAccounting`, `SessionsEnd` and `SampledBatchIsLive` show what survives this.
2. `last_step_saved`. "It's the last training step" is listed as a reason
   to save a checkpoint; with `trigger_parameter_sync_step > 1` training steps after
   the last synchronisation are in none.
3. `cleaned_up_for_good`. Validation cleans up each batch "transfer queue and
   replay buffer"; a poll that listed the keys before that puts them back, and
   the next validation batch, which has the same `global_steps`, contains keys that
   are gone. For training batches, whose steps differ, `SampledBatchIsLive` holds.
4. `atomic_resume`. The tracker is written last "for atomic resume", and
   `ensure_checkpoint_capacity` says that with one checkpoint kept the existing one stays
   "until the new save completes". `register_checkpoint` removes the old
   actor when the new *actor* is saved; critic, `data.pt` and tracker come later. A
   crash in between leaves a tracker that names a removed checkpoint, and
   `torch.load` raises at every restart. `TrackedIsWhole` holds, and is proved, when
   two or more are kept.

Smaller ones, visible in the models and without a run of their own. The README of the
asynchronous policy (lines 136-138) bounds the samples generated between two
updates; `reset_staleness` counts neither the sample the processor holds nor its
increment, so one more is possible, and `StalenessBudget` shows that it is never more
than one. The note that the pool "resets every train worker exactly once per
global step" (`main_ppo_sync.py:1000`) does not hold for a worker whose reset raised or
came after its step (`troubled` in `Resume`). With `partial_rollout` off the same
README says ongoing tasks are waited for, but `update_weights` always aborts, and the
client then returns the truncated answer. On resumption the asynchronous trainer's
`global_steps` is one ahead of a run that was not interrupted (`AsyncDriftIsBounded`).
`update_weights` aborts the requests before it loads, but with a vLLM older than 0.12 the
engine stays open, and an exception in `abort_all_requests` is logged and forgotten
(`vllm_async_server.py:805-807`): requests that run meanwhile are sampled from half-loaded weights
and labelled with the old or the new version; the properties of `ServerPool` leave them out
by name (`exposed`). Where the agent loop sets no `max_tokens`, the server caps a
call by `response_length` "to ensure tensor alignment" (`vllm_async_server.py:493-494`); a resumed call
gets that length again, so an answer cut once can be longer than `response_length`, and is
bounded by `prompt_length + response_length` only.

## 6. The proofs

### The teacher phase

`TeacherBatch_proofs` proves, for any finite set of rollouts, any prompts,
slots, number of steps and error steps (`ConstantsOK` is all it assumes):

| theorem | property |
|---|---|
| `TypeCorrect` | `TypeOK`; in particular no counter leaves `Nat` |
| `CritiqueBeforeScoring` | `CritiqueFirst` |
| `AllOrNothing` | `BatchAllOrNothing` |
| `NobodyStranded` | `NoStrandedWaiter` |
| `FinishedIsComplete` | `FinishedPromptIsComplete` |
| `SlotsAccounted` | `SlotAccounting` |

They rest on one inductive invariant, `IInv` (theorem `Invariance`). None of
the properties is inductive alone. `CritiqueFirst` says nothing of how a session got
past the barrier; the missing link is that the arrived keys are exactly
the sessions that have reached the barrier (`ArrivedOK`) and that the event of an
unaborted batch is set only when all of them have (`EventOK`, `ReleasedOK`): a
released session then means that `arrived` is the whole batch, by comparing
cardinalities (the one place where finiteness is needed). `StepsInOrder`
says that `expected` is set for the steps dispatched and no others, and
`VerdictOK` ties a session's state to what `arrive_and_wait` returned to it.

`SlotsAccounted` is separate, because it is about cardinalities: a lemma
(`Recount`) says how the number of sessions in a set of states changes when one
session moves, and two more (`AcquireBooked`, `ReleaseBooked`) put it together with the
counters of one limiter; steps that move many sessions at once (the barrier)
move none that holds a slot.

`TeacherRefinement_proofs` proves `BarrierImplemented`: `Spec => BarrierRefinement`, the
step simulation of the abstract barrier (`PhaseOf` and `OutcomeOf` say where a session and a
batch are in it). `GenerateSequences` is `Start`; an arrival is `Reach`, or `Open` when it is
the last, or `End` when the batch is already broken; `PromptAborts` is `Break`, or a
stutter when the batch has opened or is broken; a failure and the last put are `End`;
everything else, the limiters' traffic above all, stutters. The one fact that the
invariant of `TeacherBatch_proofs` lacks is `EventSet`: an aborted batch has its event
set, and an event that is set belongs to a step that has begun. With it a late arrival
at an open but unaborted batch is excluded: all keys would have arrived before.

### Crashes and resumption

`Resume_proofs` proves, for any bounds, any number of crashes and any set of workers:

| theorem | property | assumes |
|---|---|---|
| `TypeCorrect` | `TypeOK` | |
| `TrackedCorrect` | `TrackedIsWhole` | `1 \notin Keeps` |
| `SyncCorrect` | `SyncResumesExactly` | |
| `DriftCorrect` | `AsyncDriftIsBounded` | |

The assumption of the second is what `atomic_resume` shows to be necessary.
`TrackedIsWhole` is not inductive: it does not say why the removal of old
folders spares the tracked one. The invariant adds that in a live process the
tracker names `last_ckpt_version` (`TrackerOK`), that what is being saved is newer than
that (`VersionsOK`), that the paths a checkpoint manager remembers are in ascending
order and none is above the tracked version until the part being saved is registered, and
that it has made room before it writes (`PathsOK`): so what it drops is older than the tracked one. `WrittenOK` says
that the parts of this save that are written are whole and equal to the weights in
memory. `SyncCorrect` adds that every file of version `v` holds the lineage
`1 .. v`, or the position `v` (`FilesOK`), that a pending session of an undisturbed worker belongs
to the present step (`SessionsOK`), and one lemma of arithmetic: advancing
the cursor of count `c` gives the cursor of `c + 1` (`NextCursor`).

`DriftCorrect` compares a resumed training with one that never crashed, so its
invariant counts crashes. What is in memory, in the file being saved and in the files the
tracker names is each related to the number of crashes before it: every crash adds
at most `Ahead` skipped samples and `Trigger - 1` steps of drift, and none twice.
It holds for every set of `Keeps`, that of `atomic_resume` included: an actor's files are
either what they were when written or gone, and when they are gone no training resumes.

### The replay buffer

`ReplayBuffer_proofs` proves, for any prompts, rollouts and number of batches:

| theorem | property | assumes |
|---|---|---|
| `TypeCorrect` | `TypeOK` | |
| `WholeBatches` | `SampledBatchIsWhole` | |
| `TagsHaveSteps` | `EveryTagHasStep` | |
| `LiveBatches` | `SampledBatchIsLive` and `CleanedUpForGood` | `StepsDiffer` |

The first three hold for any assignment of steps to batches, validation included. `StepsDiffer`
says that batches have steps of their own, as in training; the run of
the validation batches shows that `CleanedUpForGood` fails without it. That a batch
is whole is a fact about three copies of the metadata, taken at
different times: the invariant says that the buffer and the poll thread's snapshot have a
status only if the queue has it (`TagsOK`), that while a batch is in hand everything
its sessions have put is still stored, and that whoever has seen that a prompt
finished has seen the keys of all its sessions (`BatchOK`): the snapshot takes both
in one step, and sessions put before their prompt reports.

### The asynchronous pipeline

`FullyAsync_proofs` proves every safety invariant of the run `fully_async`, for
any number of samples, any staleness budget, any concurrency within it, any size of the pending
queue, any set of samples whose generation raises, and either value of `LongTraining`:

| theorem | property |
|---|---|
| `TypeCorrect` | `TypeOK` |
| `ResumeEvent` | `ResumeEventMeansRunning` |
| `Concurrency` | `ConcurrencyBound` |
| `SamplesOnce` | `EverySampleOnce` |
| `EndComplete` | `EndIsComplete` |
| `EndMarkKept` | `EndMarkSurvives` |
| `Budget` | `StalenessBudget` |

They assume `RollouterOK` and `TrainerOK`, in particular what
`set_max_required_samples` sets up (`CutToBudget`): the queue holds exactly `MaxRequired`
samples and the concurrency is at most that. Both are used.

- `EndMarkKept`: behind an end mark in the queue there is room for all that still
  runs (`EndOK`). This is inductive because the processor ends with fewer than
  `MaxConcurrent` samples running (`ActiveBound`: a task was reaped, or none is active),
  and a put moves one sample from running to queued.
- `SamplesOnce`: a sample is in the queue or has left it exactly when its task says
  that the put is done, and no two entries of the queue are equal (`PlacesOK`).
- `Budget` is the deepest. The rollouter compares a counter, `staleness`, which an
  update replaces by a sum whose terms are read at two moments, while samples are taken,
  delivered and dropped in between. `BudgetOK` bounds what the trainer has not
  had since the update by that counter plus one, at each stage of the reset. When
  the reset begins, a counting lemma (`Pipeline`) says that while the processor
  lives, the samples taken are at most those active, queued, gone by the update, and the one in
  hand; the last is what the sum misses. A sample that the queue drops between the
  update and the count is in neither term, but then the queue was full and stays so until the
  trainer, which is waiting for the reset, reads it: the count alone reaches the budget.

`PutPlaces` and `GetPlaces` carry what `put_sample` and `get_sample` do to the queue's
members, and `QuietStep` the many steps that touch neither samples nor counts.

### Servers, balancer and synchronisation

`ServerPool_proofs` proves every safety property of the run `server_pool`, for any sets of
standalone and hybrid servers, any finite set of requests, any number of versions, and any
budget, lengths, cache size and `test_freq`, with and without `partial_rollout` and
`max_tokens`, with engines that pause and engines that do not, and with aborts that raise anywhere:

| theorem | property |
|---|---|
| `PoolTypes` | `TypeOK` |
| `Counters` | `CountersFollowRequests` |
| `NobodyExposed` | in an installation that pauses and where no abort raises, `Shielded = Requests` |
| `WholeWeights` | `TokensFromWholeWeights` |
| `Labelled` | `LabelsBracketTokens` |
| `BudgetKept` | `BudgetSurvivesResumption` |
| `OneVersion` | `ValidationIsOfOneVersion` |
| `Withdrawn` | `WithdrawnGetsNothing` (an action property) |

`PoolAssumption` is all they assume; that the requests are finitely many is used where the
counters are compared with cardinalities. None of the properties says anything of the
trainer, and all of them depend on it. The invariant therefore has two halves.

- *The phase determines the engines.* `PhaseOK` says which servers are in the pool and that
  nothing but the first synchronisation happens at version 0 before training starts.
  `InterruptedOK` gives, for each phase and each server it has or has not reached, whether the engine is
  interrupted: paused, or `loose` since an abort that did not pause or empty it. `LoadedOK` says what
  weights it has and which version it was told. Two facts
  carry the rest: an engine being loaded is interrupted, or is a hybrid one outside the pool; and an
  engine that is not interrupted has the version `Served`, which is one less than the
  trainer's while the engines are still being aborted.
- *The engine determines the tokens.* `CallsOK`: what runs and was never exposed, runs in an engine that is awake and
  not interrupted, and is on no hybrid server while the pool is narrow.
  `TokensOK`: the tokens of the call under way are all of one version, the one its answer is labelled
  with, since a synchronisation aborts the call before any weight changes; so the
  smallest label is below all tokens and the last label above them. The induction needs
  that `low` is `None` only while no earlier call brought tokens. `ValidationOK`:
  a validation request is under way in the phase `validating` of its version only, where
  nothing is interrupted, so it is never exposed. `LengthsOK` is about all requests: one that may go on has
  fewer tokens than its `Allowance`, whoever sets the limit of its next call; `CallLimitIs` says that this limit
  ends there. `ExposureOK` is `NobodyExposed`.

`LabelsBracketTokens` was first stated of every finished request. The proof attempt
showed the case in which the code labels a request with nothing to label: with
`partial_rollout` off, a request aborted before its first token returns no tokens and
`None` for both steps. The property says so now.

The order of phases (`After`) is taken from a concatenation of tuples; `PlanIs`, `NextInPlan` and
`AfterIs` work out once what it is, and the other proofs cite them.

### The weight transfer

`WeightTransfer_proofs` proves every safety property of the run `weight_transfer`, for
any finite sequences of weights of any sizes, any bucket size and any set of ranks
(`TransferAssumption`: there is a rank, and bucket and weights are not empty):

| theorem | property |
|---|---|
| `TransferTypes` | `TypeOK` |
| `NoRace` | `NoDataRace` |
| `Asserted` | `AssertionsHold` |
| `LoadedSent` | `LoadedIsSent` |

None of them is inductive: what a worker has loaded depends on what the trainer
cut, two buffers, a broadcast and a merging before. The invariant follows the pieces
along the way, and has three parts.

- *Nothing is lost or out of order.* The pieces of all weights are one stream, and a
  place in it is a pair, weight and offset. `Run` says that the pieces of a bucket follow one
  another up to a given place. Each stage begins where the one before it ends:
  the bucket being filled ends at the generator's cursor (`BucketOK`), the one being broadcast where
  that one begins (`CastOK`), the one received where that begins (`Following`), and so on to
  the place the merging waits for (`Wanted`, `StreamOK`). Only `Broadcast` moves the seam
  between trainer and ranks (`CastStart`), so a step of one side leaves the other's part alone.
  From there on weights are whole, and numbered by what is loaded, being
  loaded, packed and in hand (`WeightsOK`). At the end every seam has reached the end of the stream, so
  all weights are loaded.
- *The contents are right, or will be.* A piece that the metadata name is in
  its place in the buffer, or a copy that brings it there is still queued (`FillOK`,
  `ContentsOK`), and pieces do not overlap (`Disjoint`), so that no copy destroys what another
  brought. Wherever the code synchronizes, the queue is empty and the first case is left.
- *The two buffers are apart.* What is filled or received into is one, what is broadcast or read is
  the other (`CastOK`, `BuffersOK`); the trainer's queued copies go into the first, a rank's come out
  of the second: `NoRace` follows.

Each action of a rank has a lemma about the values it changes (`TakeBucketRank`, `LoadRank` and so on), free
of primes, and a short one that applies it to the state (`InvTakeBucket`, `InvLoad`);
`TrainerStep`, `RankStep` and `ReceiverStep` say what is left of the invariant to show for a step of
one process. So that the proof can speak of it, the generator of the trainer is modelled as a cursor,
without recursion over the sizes.

### Only model-checked

Liveness: `BatchEnds`, `SessionsEnd`, `TrainingEnds`, `RollouterEnds`, `SamplingEnds`, `AllEnd` and
`TransferEnds` need fairness and `ENABLED`, which are outside the prover's reach. Every safety property of
the passing runs is proved.

## 7. What is not modelled

- In `TeacherBatch`: the second coordinator-less path (no teacher configured),
  cancellation of a worker process, the failure of an actor.
- In `ReplayBuffer`: `sample` by `batch_size` (no caller), `close`, the padding
  keys of `upsample_batch_to_divisible_size`, the early clear of the ReMax
  baselines.
- In `FullyAsync`: the lock the monitor takes to read `running` (`MonitorStops`), `shutdown` and `clear_queue` at the end, a negative or zero
  `test_freq`. Validation and hybrid replicas are in `ServerPool`, ESI saves and resumption
  in `Resume`; the three are not composed with the queue, whose interleavings they do
  not touch: `reset_staleness` comes after the weights are in place.
- In `ServerPool`: validation by the rollouter itself (no hybrid servers), the SGLang
  and TensorRT-LLM servers, the failure of a server. What comes of the tokens of exposed requests
  is not said.
- In `WeightTransfer`: set-up and tear-down of sockets and shared memory, the NIXL,
  Mooncake and HCCL engines, LoRA and quantised weights, views of mixed element types. Large weights go
  by the direct hand-over: with `use_shm` the code asserts that there are none
  (`bucketed_weight_transfer.py:137-140`).
- In `Resume`: HDFS copies, asynchronous Megatron saves, `resume_mode` `disable` and
  `resume_path`, several epochs, `del_local_ckpt_after_load`, two ranks of one part. One
  `keep` stands for the actor's and the critic's settings. A definition that gathers what several
  files do (`Init`, `Crash`, `LoadCheckpoint`) is mapped to the one that does most of it.
- Most of the repository by lines, and why. The engines, kernels and model code
  (FSDP, Megatron, attention, `utils/`) compute on tensors: their correctness is
  numerical. `core_algos.py`, the reward functions and the data sets are pure
  sequential code over data the properties here do not tell apart, and unit tests
  reach it. `ray_trainer.py`, `one_step_off_policy` and `separation` repeat the
  loops modelled here with fewer interleavings. `protocol.py` and
  `single_controller` shape and dispatch tensors: one step of the caller.
  What keeps state between actors, tasks, threads or lives of a process, and can be
  ordered wrongly, is what the modules cover.

## 8. What could follow

- `ServerPool` with two training requests on two workers, when more than the few
  minutes of the present runs can be spent; the rollouter-side validation.
- Refinement of `FullyAsync` to a bounded buffer that may drop its oldest entry.
- A specification of the transfer as a whole (weights go in, the same come out), which
  `WeightTransfer` would implement; `LoadedIsSent` says it as an invariant.
