--------------------------- MODULE AsyncRollouter ---------------------------
(***************************************************************************)
(* The FullyAsyncRollouter actor: the coroutines that feed samples, submit *)
(* them as tasks, monitor the pauses and answer the trainer's              *)
(* reset_staleness, interleaved at their awaits on one event loop.         *)
(*                                                                         *)
(* Samples are numbered in the order _feed_samples puts them; number       *)
(* Total + 1 stands for the None it puts last.  pending_queue holds        *)
(* taken + 1 .. fed.                                                       *)
(***************************************************************************)
EXTENDS MessageQueue, FiniteSets

CONSTANTS
  Total,           \* total_rollout_steps
  PendingSize,     \* maxsize of pending_queue
  MaxRequired,     \* max_required_samples
  MaxConcurrent,   \* max_concurrent_samples
  Faulty           \* the samples whose generation may raise

(* set_max_required_samples cuts the queue and the concurrency to the      *)
(* staleness budget.                                                       *)
CutToBudget == MaxConcurrent \in 1 .. MaxRequired /\ MaxQueueSize = MaxRequired

ASSUME RollouterOK ==
  /\ Total \in Nat \ {0} /\ PendingSize \in Nat \ {0}
  /\ MaxRequired \in Nat \ {0}
  /\ CutToBudget
  /\ Faulty \subseteq 1 .. Total

Sample == 1 .. Total
LastFed == Total + 1

VARIABLES
  fed, taken,      \* samples put into, and taken from, pending_queue
  proc,            \* where _processor_worker stands
  sawFull,         \* its last queue statistics showed a full queue
  task,            \* per sample, its _process_single_sample_streaming task
  activeTasks,     \* self.active_tasks
  reaped,          \* the done tasks asyncio.wait returned to the drain loop
  staleness,       \* self.staleness_samples
  paused,          \* self.paused
  resumeEvent,     \* self._resume_event.is_set()
  lock,            \* who holds self.lock across an await: "free", "proc", "reset"
  reset,           \* where the handler of reset_staleness stands
  counted,         \* what that handler has added up so far
  monitor,         \* where _async_monitor_loop stands
  running          \* self.running

processorVars == <<proc, sawFull, activeTasks, reaped, staleness>>
pauseVars     == <<paused, resumeEvent, lock>>
resetVars     == <<reset, counted>>
feedVars      == <<fed, taken>>
rollouterVars == <<feedVars, processorVars, task, pauseVars, resetVars, monitor, running>>

Completed == { i \in Sample : task[i] \in {"done", "failed"} }
DoneActive == activeTasks \cap Completed

RollouterInit ==
  /\ fed = 0 /\ taken = 0
  /\ proc = "check" /\ sawFull = FALSE
  /\ task = [i \in Sample |-> "none"]
  /\ activeTasks = {} /\ reaped = {}
  /\ staleness = 0
  /\ paused = FALSE /\ resumeEvent = TRUE /\ lock = "free"
  /\ reset = "idle" /\ counted = 0
  /\ monitor = "sleep" /\ running = TRUE

-----------------------------------------------------------------------------
(* _feed_samples, cancelled when the processor has failed. *)
Feed ==
  /\ fed < LastFed
  /\ fed - taken < PendingSize
  /\ proc \notin {"ended", "closing", "stopped"}
  /\ fed' = fed + 1
  /\ UNCHANGED <<taken, processorVars, task, pauseVars, resetVars, monitor, running, queueVars>>

-----------------------------------------------------------------------------
(* _processor_worker. *)

Goto(pc) == proc' = pc

(* Top of the loop: a paused rollouter needs no statistics, the others ask *)
(* the queue, whose answer is taken when it is computed ...                *)
CheckPause ==
  /\ proc = "check"
  /\ Goto(IF paused THEN "pause" ELSE "asked")
  /\ UNCHANGED <<feedVars, sawFull, activeTasks, reaped, staleness, task, pauseVars,
                 resetVars, monitor, running, queueVars>>

StatisticsTaken ==
  /\ proc = "asked"
  /\ sawFull' = QueueFull
  /\ Goto("answered")
  /\ UNCHANGED <<feedVars, activeTasks, reaped, staleness, task, pauseVars,
                 resetVars, monitor, running, queueVars>>

(* Faulty variant: the budget is one sample too large. *)
ShouldPauseOffByOne(full) == full \/ staleness > MaxRequired

(* ... and compared, with the staleness of that time, when it is back. *)
ShouldPause(full) == full \/ staleness >= MaxRequired

DecidePause ==
  /\ proc = "answered"
  /\ Goto(IF ShouldPause(sawFull) THEN "pause" ELSE "get")
  /\ UNCHANGED <<feedVars, sawFull, activeTasks, reaped, staleness, task, pauseVars,
                 resetVars, monitor, running, queueVars>>

Pause ==
  /\ proc = "pause"
  /\ lock = "free"
  /\ paused' = TRUE
  /\ resumeEvent' = FALSE
  /\ Goto("drain")
  /\ UNCHANGED <<feedVars, sawFull, activeTasks, reaped, staleness, task, lock,
                 resetVars, monitor, running, queueVars>>

(* The drain loop, then the wait for the resume event: woken by the event  *)
(* or by finished tasks, which it removes once it has the lock.            *)
DrainWakes ==
  /\ proc = "drain"
  /\ resumeEvent \/ DoneActive # {}
  /\ reaped' = DoneActive
  /\ Goto(IF DoneActive = {} THEN "check" ELSE "reap")
  /\ UNCHANGED <<feedVars, sawFull, activeTasks, staleness, task, pauseVars,
                 resetVars, monitor, running, queueVars>>

(* Awaiting a task that raised ends the processor with its exception. *)
AfterReaping(done, next) ==
  IF \E i \in done : task[i] = "failed" THEN "ended" ELSE next

DrainReaps ==
  /\ proc = "reap"
  /\ lock = "free"
  /\ activeTasks' = activeTasks \ reaped
  /\ reaped' = {}
  /\ Goto(AfterReaping(reaped, IF resumeEvent THEN "check" ELSE "drain"))
  /\ UNCHANGED <<feedVars, sawFull, staleness, task, pauseVars,
                 resetVars, monitor, running, queueVars>>

(* The sample (or the None) in hand is counted before it is submitted, and *)
(* without the lock.                                                       *)
TakeSample ==
  /\ proc = "get"
  /\ taken < fed
  /\ taken' = taken + 1
  /\ staleness' = staleness + 1
  /\ Goto(IF taken' = LastFed THEN "final" ELSE "limit")
  /\ UNCHANGED <<fed, sawFull, activeTasks, reaped, task, pauseVars,
                 resetVars, monitor, running, queueVars>>

(* Faulty variants: one task too many; no wait for the last tasks. *)
MustWaitOffByOne == \/ proc = "limit" /\ Cardinality(activeTasks) > MaxConcurrent
                    \/ proc = "final" /\ activeTasks # {}

MustWaitButForLast == proc = "limit" /\ Cardinality(activeTasks) >= MaxConcurrent

(* Over the concurrency limit, and at the end while any task is active,    *)
(* the processor waits for a task with the lock held.                      *)
MustWait == \/ proc = "limit" /\ Cardinality(activeTasks) >= MaxConcurrent
            \/ proc = "final" /\ activeTasks # {}

WaitForTask ==
  /\ MustWait
  /\ lock = "free"
  /\ lock' = "proc"
  /\ Goto(IF proc = "limit" THEN "limitWait" ELSE "finalWait")
  /\ UNCHANGED <<feedVars, sawFull, activeTasks, reaped, staleness, task, paused, resumeEvent,
                 resetVars, monitor, running, queueVars>>

TaskReturns ==
  /\ proc \in {"limitWait", "finalWait"}
  /\ DoneActive # {}
  /\ activeTasks' = activeTasks \ DoneActive
  /\ lock' = "free"
  /\ Goto(AfterReaping(DoneActive, IF proc = "limitWait" THEN "limit" ELSE "final"))
  /\ UNCHANGED <<feedVars, sawFull, reaped, staleness, task, paused, resumeEvent,
                 resetVars, monitor, running, queueVars>>

Submit ==
  /\ proc = "limit" /\ ~MustWait
  /\ paused => resumeEvent
  /\ lock = "free"
  /\ task' = [task EXCEPT ![taken] = "running"]
  /\ activeTasks' = activeTasks \cup {taken}
  /\ Goto("check")
  /\ UNCHANGED <<feedVars, sawFull, reaped, staleness, pauseVars,
                 resetVars, monitor, running, queueVars>>

ProcessorReturns ==
  /\ proc = "final" /\ ~MustWait
  /\ Goto("ended")
  /\ UNCHANGED <<feedVars, sawFull, activeTasks, reaped, staleness, task, pauseVars,
                 resetVars, monitor, running, queueVars>>

-----------------------------------------------------------------------------
(* Faulty variants: no end mark after a failure; running is not cleared. *)
PutEndOnSuccess ==
  /\ proc = "ended"
  /\ IF taken = LastFed THEN PutSample(EndMark) ELSE UNCHANGED queueVars
  /\ Goto("closing")
  /\ UNCHANGED <<feedVars, sawFull, activeTasks, reaped, staleness, task, pauseVars,
                 resetVars, monitor, running>>

StopRunningForgets ==
  /\ proc = "closing"
  /\ lock = "free"
  /\ Goto("stopped")
  /\ UNCHANGED <<feedVars, sawFull, activeTasks, reaped, staleness, task, pauseVars,
                 resetVars, monitor, running, queueVars>>

(* The finally clause of _streaming_generation_main. *)
PutEnd ==
  /\ proc = "ended"
  /\ PutSample(EndMark)
  /\ Goto("closing")
  /\ UNCHANGED <<feedVars, sawFull, activeTasks, reaped, staleness, task, pauseVars,
                 resetVars, monitor, running>>

StopRunning ==
  /\ proc = "closing"
  /\ lock = "free"
  /\ running' = FALSE
  /\ Goto("stopped")
  /\ UNCHANGED <<feedVars, sawFull, activeTasks, reaped, staleness, task, pauseVars,
                 resetVars, monitor, queueVars>>

-----------------------------------------------------------------------------
(* Faulty variant: the put is retried although the queue took the sample. *)
DeliverRetried(i) ==
  /\ task[i] = "running"
  /\ \E next \in {"running", "sent"} : task' = [task EXCEPT ![i] = next]
  /\ PutSample(i)
  /\ UNCHANGED <<feedVars, processorVars, pauseVars, resetVars, monitor, running>>

(* A sample's task: its generation ends and the queue takes the sample;    *)
(* the task finishes when the reply is back.                               *)
Deliver(i) ==
  /\ task[i] = "running"
  /\ task' = [task EXCEPT ![i] = "sent"]
  /\ PutSample(i)
  /\ UNCHANGED <<feedVars, processorVars, pauseVars, resetVars, monitor, running>>

TaskEnds(i) ==
  /\ task[i] = "sent"
  /\ task' = [task EXCEPT ![i] = "done"]
  /\ UNCHANGED <<feedVars, processorVars, pauseVars, resetVars, monitor, running, queueVars>>

TaskRaises(i) ==
  /\ i \in Faulty
  /\ task[i] = "running"
  /\ task' = [task EXCEPT ![i] = "failed"]
  /\ UNCHANGED <<feedVars, processorVars, pauseVars, resetVars, monitor, running, queueVars>>

-----------------------------------------------------------------------------
(* Faulty variant: the event is not set. *)
ResetBeginsNoWake ==
  /\ reset = "called"
  /\ lock = "free"
  /\ lock' = "reset"
  /\ paused' = FALSE
  /\ counted' = Cardinality(activeTasks)
  /\ reset' = "counting"
  /\ UNCHANGED <<feedVars, processorVars, task, resumeEvent, monitor, running, queueVars>>

(* reset_staleness holds the lock from the resume to the new count, and    *)
(* awaits the queue's size in between.                                     *)
ResetBegins ==
  /\ reset = "called"
  /\ lock = "free"
  /\ lock' = "reset"
  /\ paused' = FALSE
  /\ resumeEvent' = TRUE
  /\ counted' = Cardinality(activeTasks)
  /\ reset' = "counting"
  /\ UNCHANGED <<feedVars, processorVars, task, monitor, running, queueVars>>

ResetCounts ==
  /\ reset = "counting"
  /\ counted' = counted + Len(queue)
  /\ reset' = "counted"
  /\ UNCHANGED <<feedVars, processorVars, task, pauseVars, monitor, running, queueVars>>

ResetEnds ==
  /\ reset = "counted"
  /\ staleness' = counted
  /\ lock' = "free"
  /\ reset' = "idle"
  /\ counted' = 0
  /\ UNCHANGED <<feedVars, proc, sawFull, activeTasks, reaped, task, paused, resumeEvent,
                 monitor, running, queueVars>>

-----------------------------------------------------------------------------
(* _async_monitor_loop: it wakes every check_interval (a check of running  *)
(* precedes the sleep, so one more look may follow the end), asks the      *)
(* queue, and resumes a paused rollouter that has no reason to pause left. *)
NextLook == IF running THEN "sleep" ELSE "stopped"

MonitorAsks ==
  /\ monitor = "sleep"
  /\ paused /\ ~QueueFull
  /\ monitor' = "answered"
  /\ UNCHANGED <<feedVars, processorVars, task, pauseVars, resetVars, running, queueVars>>

MonitorDecides ==
  /\ monitor = "answered"
  /\ monitor' = IF ShouldPause(FALSE) THEN NextLook ELSE "resume"
  /\ UNCHANGED <<feedVars, processorVars, task, pauseVars, resetVars, running, queueVars>>

MonitorResumes ==
  /\ monitor = "resume"
  /\ lock = "free"
  /\ paused' = FALSE
  /\ resumeEvent' = TRUE
  /\ monitor' = NextLook
  /\ UNCHANGED <<feedVars, processorVars, task, lock, resetVars, running, queueVars>>

MonitorStops ==
  /\ monitor = "sleep"
  /\ ~running
  /\ monitor' = "stopped"
  /\ UNCHANGED <<feedVars, processorVars, task, pauseVars, resetVars, running, queueVars>>

-----------------------------------------------------------------------------
Processor ==
  \/ CheckPause \/ StatisticsTaken \/ DecidePause \/ Pause \/ DrainWakes \/ DrainReaps
  \/ TakeSample \/ WaitForTask \/ TaskReturns \/ Submit \/ ProcessorReturns
  \/ PutEnd \/ StopRunning

ResetStaleness == ResetBegins \/ ResetCounts \/ ResetEnds

Monitor == MonitorAsks \/ MonitorDecides \/ MonitorResumes \/ MonitorStops

RollouterTypeOK ==
  /\ queue \in Seq(Sample \cup {EndMark}) /\ Len(queue) <= MaxQueueSize
  /\ dropped \subseteq Sample \cup {EndMark}
  /\ fed \in 0 .. LastFed /\ taken \in 0 .. fed
  /\ proc \in {"check", "asked", "answered", "pause", "drain", "reap", "get", "limit",
               "limitWait", "final", "finalWait", "ended", "closing", "stopped"}
  /\ sawFull \in BOOLEAN
  /\ task \in [Sample -> {"none", "running", "sent", "done", "failed"}]
  /\ activeTasks \subseteq Sample /\ reaped \subseteq activeTasks
  /\ staleness \in Nat /\ counted \in Nat
  /\ paused \in BOOLEAN /\ resumeEvent \in BOOLEAN /\ running \in BOOLEAN
  /\ lock \in {"free", "proc", "reset"}
  /\ reset \in {"idle", "called", "counting", "counted"}
  /\ monitor \in {"sleep", "answered", "resume", "stopped"}
=============================================================================
