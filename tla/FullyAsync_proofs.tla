-------------------------- MODULE FullyAsync_proofs --------------------------
(***************************************************************************)
(* TLAPS proofs about FullyAsync: the rollouter's coroutines, the message  *)
(* queue and the trainer, for any number of samples, any staleness budget, *)
(* any concurrency within it and any set of samples whose generation       *)
(* fails.                                                                  *)
(***************************************************************************)
EXTENDS FullyAsync, FiniteSetTheorems, TLAPS

(* The processor has neither returned nor failed. *)
Alive == proc \notin {"ended", "closing", "stopped"}

(* It has a sample in hand: taken, counted and not yet submitted. *)
HasSample == proc \in {"limit", "limitWait"}
InHand == IF HasSample THEN 1 ELSE 0

(* The samples that have left the pipeline, and those taken since the last *)
(* update of the weights or not gone by then.                              *)
Out == consumed \cup (dropped \ {EndMark})
Since == SamplesTaken - base

(* Where the processor stands goes with what it holds. *)
ProcessorOK ==
  /\ HasSample => taken \in Sample /\ task[taken] = "none"
  /\ proc \in {"final", "finalWait"} => taken = LastFed
  /\ lock = "proc" <=> proc \in {"limitWait", "finalWait"}
  /\ lock = "reset" <=> reset \in {"counting", "counted"}
  /\ reaped \subseteq Completed
  /\ proc # "reap" => reaped = {}

(* The trainer waits for its reset, and trains when it has its samples. *)
WaitsOK ==
  /\ trainer = "collect" \/ (trainer \in {"sync", "resetting", "save"} /\ ~ending)
       => got < Required
  /\ reset # "idle" => trainer = "resetting"

(* Samples are submitted in order; a task that runs is active, and one     *)
(* that failed is until the processor has met its exception.               *)
TasksOK ==
  \A i \in Sample :
    /\ i < taken => task[i] # "none"
    /\ i > taken => task[i] = "none"
    /\ i = taken /\ Alive /\ ~HasSample => task[i] # "none"
    /\ task[i] = "running" \/ (task[i] = "failed" /\ Alive) => i \in activeTasks

ActiveBound ==
  /\ Cardinality(activeTasks) <= MaxConcurrent
  /\ proc = "ended" => Cardinality(Running) < MaxConcurrent

(* A sample is in the queue or has left it when its task has put it, and   *)
(* is in one place.                                                        *)
PlacesOK ==
  /\ \A i \in Sample : i \in Queued \cup Out <=> task[i] \in {"sent", "done"}
  /\ \A i \in Sample :
       /\ i \in consumed => i \notin dropped
       /\ i \in Queued => i \notin Out
  /\ \A j, k \in 1 .. Len(queue) : queue[j] = queue[k] => j = k

(* The end mark comes when the processor has ended, which it does when all *)
(* samples have been put or one failed, and there is room behind it for    *)
(* those that still run.                                                   *)
EndOK ==
  /\ EndMark \notin dropped
  /\ ending \/ (\E k \in 1 .. Len(queue) : queue[k] = EndMark) => proc \in {"closing", "stopped"}
  /\ ~Alive => Lost # {} \/ \A i \in Sample : task[i] \in {"sent", "done"}
  /\ \A k \in 1 .. Len(queue) :
       queue[k] = EndMark => Len(queue) - k + Cardinality(Running) < MaxQueueSize

(* What reset_staleness counts falls short of the samples since the update *)
(* by no more than the one in hand, unless the budget is used up.          *)
BudgetOK ==
  /\ base <= Cardinality(Out)
  /\ StalenessBudget
  /\ proc = "get" => Since <= MaxRequired
  /\ Alive =>
       /\ Since <= staleness + 1
       /\ reset = "called" => QueueFull \/ base = Cardinality(Out)
       /\ reset = "counting" => QueueFull \/ Since <= counted + Len(queue) + InHand
       /\ reset = "counted" => counted >= MaxRequired \/ Since <= counted + InHand

PartsOK ==
  /\ ProcessorOK
  /\ WaitsOK
  /\ TasksOK
  /\ ActiveBound
  /\ PlacesOK
  /\ EndOK
  /\ BudgetOK

IInv == TypeOK /\ ResumeEventMeansRunning /\ PartsOK

-----------------------------------------------------------------------------
(* The constants, and the sets whose members are counted. *)
LEMMA Params ==
  /\ Total \in Nat /\ Total > 0 /\ LastFed = Total + 1
  /\ Sample = 1 .. Total /\ EndMark = 0
  /\ MaxRequired \in Nat /\ MaxRequired > 0 /\ MaxQueueSize = MaxRequired
  /\ MaxConcurrent \in Nat /\ 0 < MaxConcurrent /\ MaxConcurrent <= MaxRequired
  /\ Required \in Nat /\ Required > 0 /\ Trigger \in Nat /\ Trigger > 0
BY RollouterOK, TrainerOK, QueueSizeOK DEF CutToBudget, Sample, LastFed, EndMark

LEMMA FirstNumbers ==
  ASSUME NEW n \in Nat
  PROVE  IsFiniteSet(1 .. n) /\ Cardinality(1 .. n) = n
<1>1. 1 \in Int /\ n \in Int
  OBVIOUS
<1>2. IsFiniteSet(1 .. n) /\ Cardinality(1 .. n) = IF 1 > n THEN 0 ELSE n - 1 + 1
  BY <1>1, FS_Interval, Zenon
<1>3. QED
  BY <1>2

LEMMA SamplesFinite ==
  /\ IsFiniteSet(Sample) /\ Cardinality(Sample) = Total
  /\ \A S \in SUBSET Sample :
       IsFiniteSet(S) /\ Cardinality(S) \in Nat /\ Cardinality(S) <= Total
<1>1. IsFiniteSet(Sample) /\ Cardinality(Sample) = Total
  BY FirstNumbers, Params
<1>2. QED
  BY <1>1, FS_Subset, FS_CardinalityType

(* A set of samples with one taken out is smaller, with some taken out not *)
(* larger.                                                                 *)
LEMMA Fewer ==
  ASSUME NEW S \in SUBSET Sample, NEW T \in SUBSET S
  PROVE  /\ Cardinality(T) \in Nat /\ Cardinality(S) \in Nat
         /\ Cardinality(T) <= Cardinality(S)
         /\ \A x \in S \ T : Cardinality(T) < Cardinality(S)
<1>1. IsFiniteSet(S) /\ Cardinality(T) \in Nat /\ Cardinality(S) \in Nat
  BY SamplesFinite
<1>2. Cardinality(T) <= Cardinality(S)
  BY <1>1, FS_Subset
<1>3. ASSUME NEW x \in S \ T
      PROVE  Cardinality(T) < Cardinality(S)
  BY <1>1, FS_Subset, <1>3
<1>4. QED
  BY <1>1, <1>2, <1>3

(* What put_sample does to a full queue and to one with room. *)
LEMMA PutResult ==
  ASSUME TypeOK, NEW x \in Sample \cup {EndMark}, PutSample(x)
  PROVE  /\ queue' \in Seq(Sample \cup {EndMark}) /\ Len(queue') <= MaxQueueSize
         /\ queue'[Len(queue')] = x
         /\ QueueFull =>
              /\ Len(queue) = MaxQueueSize /\ Len(queue') = Len(queue) /\ Len(queue) > 0
              /\ \A k \in 1 .. Len(queue) - 1 : queue'[k] = queue[k + 1]
              /\ queue[1] \in Sample \cup {EndMark} /\ dropped' = dropped \cup {queue[1]}
         /\ ~QueueFull =>
              /\ Len(queue') = Len(queue) + 1
              /\ \A k \in 1 .. Len(queue) : queue'[k] = queue[k]
              /\ dropped' = dropped
<1>1. /\ queue \in Seq(Sample \cup {EndMark}) /\ Len(queue) <= MaxQueueSize
      /\ Len(queue) \in Nat /\ MaxQueueSize \in Nat /\ MaxQueueSize > 0
  BY Params DEF TypeOK, RollouterTypeOK
<1>2. CASE QueueFull
  <2>1. Len(queue) = MaxQueueSize /\ queue # <<>>
    BY <1>1, <1>2 DEF QueueFull
  <2>2. queue' = Append(Tail(queue), x) /\ dropped' = dropped \cup {Head(queue)}
    BY <1>2 DEF PutSample
  <2>3. /\ Tail(queue) \in Seq(Sample \cup {EndMark}) /\ Len(Tail(queue)) = Len(queue) - 1
        /\ \A k \in 1 .. Len(queue) - 1 : Tail(queue)[k] = queue[k + 1]
        /\ Head(queue) = queue[1] /\ queue[1] \in Sample \cup {EndMark}
    BY <1>1, <2>1
  <2>4. QED
    BY <1>1, <1>2, <2>1, <2>2, <2>3
<1>3. CASE ~QueueFull
  <2>1. queue' = Append(queue, x) /\ dropped' = dropped /\ Len(queue) < MaxQueueSize
    BY <1>1, <1>3 DEF PutSample, QueueFull
  <2>2. QED
    BY <1>1, <1>3, <2>1
<1>4. QED
  BY <1>2, <1>3

(* What get_sample does. *)
LEMMA GetResult ==
  ASSUME TypeOK, NEW x, GetSample(x)
  PROVE  /\ queue' \in Seq(Sample \cup {EndMark})
         /\ Len(queue) \in Nat /\ Len(queue) > 0 /\ Len(queue') = Len(queue) - 1
         /\ \A k \in 1 .. Len(queue) - 1 : queue'[k] = queue[k + 1]
         /\ x = queue[1] /\ dropped' = dropped
<1>1. queue \in Seq(Sample \cup {EndMark})
  BY DEF TypeOK, RollouterTypeOK
<1>2. queue # <<>> /\ x = Head(queue) /\ queue' = Tail(queue) /\ dropped' = dropped
  BY DEF GetSample
<1>3. QED
  BY <1>1, <1>2

-----------------------------------------------------------------------------
(* Types. *)
LEMMA OutIsSamples ==
  ASSUME TypeOK
  PROVE  Out \subseteq Sample /\ Cardinality(Out) \in 0 .. Total
BY SamplesFinite, Params DEF TypeOK, RollouterTypeOK, Out

LEMMA ProcessorType ==
  ASSUME IInv, Processor, UNCHANGED <<trainerVars, historyVars>>
  PROVE  TypeOK'
<1> USE DEF IInv, PartsOK, TypeOK, RollouterTypeOK, trainerVars, historyVars
<1>1. CASE CheckPause \/ StatisticsTaken \/ DecidePause \/ Pause \/ ProcessorReturns \/ StopRunning
  <2>1. /\ proc' \in {"asked", "answered", "pause", "get", "drain", "ended", "stopped"}
        /\ paused' \in BOOLEAN /\ resumeEvent' \in BOOLEAN /\ running' \in BOOLEAN
        /\ UNCHANGED <<feedVars, activeTasks, reaped, staleness, task, lock, resetVars, monitor,
                       queueVars>>
    BY <1>1 DEF CheckPause, StatisticsTaken, DecidePause, Pause, ProcessorReturns, StopRunning,
       Goto, pauseVars
  <2>2. sawFull' \in BOOLEAN
    <3>1. QueueFull \in BOOLEAN
      BY DEF QueueFull
    <3>2. sawFull' = QueueFull \/ sawFull' = sawFull
      BY <1>1 DEF CheckPause, StatisticsTaken, DecidePause, Pause, ProcessorReturns, StopRunning
    <3>3. QED
      BY <3>1, <3>2
  <2>3. QED
    BY <2>1, <2>2 DEF feedVars, resetVars, queueVars
<1>2. CASE DrainWakes
  BY <1>2 DEF DrainWakes, DoneActive, Goto, feedVars, pauseVars, resetVars, queueVars
<1>3. CASE DrainReaps
  BY <1>3 DEF DrainReaps, AfterReaping, Goto, feedVars, pauseVars, resetVars, queueVars
<1>4. CASE TakeSample
  <2>1. taken + 1 \in 0 .. fed /\ staleness + 1 \in Nat
    BY <1>4, Params DEF TakeSample
  <2>2. QED
    BY <1>4, <2>1 DEF TakeSample, Goto, pauseVars, resetVars, queueVars
<1>5. CASE WaitForTask \/ TaskReturns
  BY <1>5 DEF WaitForTask, TaskReturns, DoneActive, AfterReaping, ProcessorOK,
     Goto, feedVars, resetVars, queueVars
<1>6. CASE Submit
  <2>1. taken \in Sample
    BY <1>6 DEF Submit, ProcessorOK, HasSample
  <2>2. QED
    BY <1>6, <2>1 DEF Submit, Goto, feedVars, pauseVars, resetVars, queueVars
<1>7. CASE PutEnd
  <2>1. PutSample(EndMark)
    BY <1>7 DEF PutEnd
  <2>2. /\ queue' \in Seq(Sample \cup {EndMark}) /\ Len(queue') <= MaxQueueSize
        /\ dropped' \subseteq Sample \cup {EndMark}
    BY <2>1, PutResult
  <2>3. QED
    BY <1>7, <2>2 DEF PutEnd, Goto, feedVars, pauseVars, resetVars
<1>8. QED
  BY <1>1, <1>2, <1>3, <1>4, <1>5, <1>6, <1>7 DEF Processor

LEMMA RollouterType ==
  ASSUME IInv, Rollouter, UNCHANGED <<trainerVars, historyVars>>
  PROVE  TypeOK'
<1> USE DEF IInv, PartsOK, TypeOK, RollouterTypeOK, trainerVars, historyVars
<1>1. CASE Feed
  <2>1. fed + 1 \in 0 .. LastFed /\ taken \in 0 .. fed + 1
    BY <1>1, Params DEF Feed
  <2>2. QED
    BY <1>1, <2>1 DEF Feed, processorVars, pauseVars, resetVars, queueVars
<1>2. CASE Processor
  BY <1>2, ProcessorType
<1>3. ASSUME NEW i \in Sample, TaskEnds(i) \/ TaskRaises(i)
      PROVE  TypeOK'
  BY <1>3 DEF TaskEnds, TaskRaises, feedVars, processorVars, pauseVars, resetVars, queueVars
<1>4. ASSUME NEW i \in Sample, Deliver(i)
      PROVE  TypeOK'
  <2>1. PutSample(i)
    BY <1>4 DEF Deliver
  <2>2. /\ queue' \in Seq(Sample \cup {EndMark}) /\ Len(queue') <= MaxQueueSize
        /\ dropped' \subseteq Sample \cup {EndMark}
    BY <2>1, PutResult
  <2>3. QED
    BY <1>4, <2>2 DEF Deliver, feedVars, processorVars, pauseVars, resetVars
<1>5. CASE ResetStaleness
  <2>1. Cardinality(activeTasks) \in Nat /\ Len(queue) \in Nat
    BY SamplesFinite
  <2>2. /\ UNCHANGED <<feedVars, proc, sawFull, activeTasks, reaped, task, monitor, running, queueVars>>
        /\ staleness' \in Nat /\ counted' \in Nat
        /\ paused' \in BOOLEAN /\ resumeEvent' \in BOOLEAN
        /\ lock' \in {"free", "proc", "reset"}
        /\ reset' \in {"idle", "called", "counting", "counted"}
    <3>1. CASE ResetBegins
      BY <2>1, <3>1 DEF ResetBegins, processorVars
    <3>2. CASE ResetCounts
      BY <2>1, <3>2 DEF ResetCounts, processorVars, pauseVars
    <3>3. CASE ResetEnds
      BY <3>3 DEF ResetEnds
    <3>4. QED
      BY <1>5, <3>1, <3>2, <3>3 DEF ResetStaleness
  <2>3. QED
    BY <2>2 DEF feedVars, queueVars
<1>6. CASE Monitor
  <2>1. /\ UNCHANGED <<feedVars, processorVars, task, lock, resetVars, running, queueVars>>
        /\ monitor' \in {"sleep", "answered", "resume", "stopped"}
        /\ paused' \in BOOLEAN /\ resumeEvent' \in BOOLEAN
    BY <1>6 DEF Monitor, MonitorAsks, MonitorDecides, MonitorResumes, MonitorStops, NextLook,
       pauseVars
  <2>2. QED
    BY <2>1 DEF feedVars, processorVars, resetVars, queueVars
<1>7. QED
  BY <1>1, <1>2, <1>3, <1>4, <1>5, <1>6 DEF Rollouter, TaskStep

LEMMA TrainerType ==
  ASSUME IInv, Trainer
  PROVE  TypeOK'
<1> USE DEF IInv, PartsOK, TypeOK, RollouterTypeOK
<1>1. ASSUME NEW x, GetSample(x)
      PROVE  /\ queue' \in Seq(Sample \cup {EndMark}) /\ Len(queue') <= MaxQueueSize
             /\ dropped' \subseteq Sample \cup {EndMark}
  <2>1. Len(queue') <= MaxQueueSize
    BY <1>1, GetResult, Params
  <2>2. QED
    BY <1>1, <2>1, GetResult
<1>2. CASE ReceiveSample
  <2>1. got + 1 \in 0 .. Required
    BY <1>2, Params DEF ReceiveSample, WaitsOK
  <2>2. QED
    BY <1>1, <1>2, <2>1 DEF ReceiveSample, rollouterVars, feedVars, processorVars, pauseVars, resetVars
<1>3. CASE ReceiveEnd
  BY <1>1, <1>3 DEF ReceiveEnd, rollouterVars, feedVars, processorVars, pauseVars, resetVars,
     historyVars
<1>4. CASE Train
  <2>1. /\ local' \in 1 .. Trigger /\ version' \in Nat /\ lastCkpt \in 0 .. version'
        /\ steps' \in Nat /\ saved \in 0 .. steps' /\ got' \in 0 .. Required
        /\ trainer' \in {"sync", "save"}
    BY <1>4, Params DEF Train
  <2>2. QED
    BY <1>4, <2>1 DEF Train, rollouterVars, feedVars, processorVars, pauseVars, resetVars, queueVars
<1>5. CASE UpdateWeights
  <2>1. base' \in 0 .. Total
    BY <1>5, OutIsSamples DEF UpdateWeights, Out
  <2>2. QED
    BY <1>5, <2>1 DEF UpdateWeights, feedVars, processorVars, pauseVars, queueVars
<1>6. CASE StalenessReset
  BY <1>6 DEF StalenessReset, rollouterVars, feedVars, processorVars, pauseVars, resetVars,
     queueVars, historyVars
<1>7. CASE SaveCheckpoint
  BY <1>7 DEF SaveCheckpoint, rollouterVars, feedVars, processorVars, pauseVars, resetVars, queueVars
<1>8. QED
  BY <1>2, <1>3, <1>4, <1>5, <1>6, <1>7 DEF Trainer

-----------------------------------------------------------------------------
(* The steps that leave the samples, the counts and the lock alone.  The   *)
(* processor moves in its loop or not at all, or it has stopped.           *)
Loop == {"check", "asked", "answered", "pause", "drain", "reap", "get"}

LEMMA QuietStep ==
  ASSUME IInv,
         UNCHANGED <<taken, task, activeTasks, staleness, counted, reset, lock,
                     queueVars, trainerVars, historyVars>>,
         \/ proc' = proc
         \/ proc \in Loop /\ proc' \in Loop
         \/ proc = "closing" /\ proc' = "stopped",
         proc' = "get" => proc = "get" \/ Since <= MaxRequired,
         reaped' \subseteq Completed,
         proc' # "reap" => reaped' = {}
  PROVE  PartsOK'
<1> USE DEF IInv, PartsOK, Loop, queueVars, trainerVars, historyVars
<1>1. /\ Alive' = Alive /\ HasSample' = HasSample /\ InHand' = InHand
      /\ Completed' = Completed /\ Running' = Running /\ Lost' = Lost
      /\ Queued' = Queued /\ Out' = Out /\ Since' = Since /\ QueueFull' = QueueFull
  BY DEF Alive, HasSample, InHand, Completed, Running, Lost, Queued, Out, Since,
     SamplesTaken, QueueFull
<1>2. ProcessorOK' /\ WaitsOK'
  BY <1>1 DEF ProcessorOK, WaitsOK
<1>3. TasksOK' /\ ActiveBound' /\ PlacesOK'
  BY <1>1 DEF TasksOK, ActiveBound, PlacesOK
<1>4. EndOK'
  BY <1>1 DEF EndOK
<1>5. BudgetOK'
  BY <1>1 DEF BudgetOK, StalenessBudget, SamplesTaken
<1>6. QED
  BY <1>2, <1>3, <1>4, <1>5

LEMMA TakeSampleInv ==
  ASSUME IInv, TakeSample, UNCHANGED <<trainerVars, historyVars>>
  PROVE  PartsOK'
<1> USE DEF IInv, PartsOK
<1>1. /\ UNCHANGED <<fed, activeTasks, reaped, task, lock, reset, counted, queue, dropped,
                     trainer, ending, got, consumed, base>>
      /\ proc = "get" /\ taken' = taken + 1 /\ staleness' = staleness + 1
      /\ proc' = IF taken' = LastFed THEN "final" ELSE "limit"
  BY DEF TakeSample, Goto, pauseVars, resetVars, queueVars, trainerVars, historyVars
<1>2. /\ taken \in Nat /\ taken <= Total /\ base \in Nat /\ Total \in Nat
      /\ taken' = LastFed <=> taken = Total
      /\ taken' # LastFed => taken' \in Sample
      /\ staleness \in Nat /\ counted \in Nat /\ Len(queue) \in Nat /\ MaxRequired \in Nat
  BY <1>1, Params DEF TakeSample, TypeOK, RollouterTypeOK
<1> USE <1>1, <1>2
<1>3. /\ Completed' = Completed /\ Running' = Running /\ Lost' = Lost
      /\ Queued' = Queued /\ Out' = Out /\ QueueFull' = QueueFull
  BY DEF Completed, Running, Lost, Queued, Out, QueueFull
<1>4. Alive /\ Alive' /\ ~HasSample /\ (HasSample' <=> taken # Total)
  BY DEF Alive, HasSample
<1>5. ProcessorOK' /\ WaitsOK'
  BY <1>3, <1>4 DEF ProcessorOK, WaitsOK, HasSample, TasksOK
<1>6. TasksOK'
  BY <1>4, Params DEF TasksOK
<1>7. ActiveBound' /\ PlacesOK' /\ EndOK'
  BY <1>3, <1>4 DEF ActiveBound, PlacesOK, EndOK
<1>8. /\ Since \in Int /\ Since <= MaxRequired
      /\ Since' = IF taken = Total THEN Since ELSE Since + 1
      /\ InHand = 0 /\ InHand' = IF taken = Total THEN 0 ELSE 1
  BY <1>4, Params DEF BudgetOK, Since, SamplesTaken, InHand
<1>9. BudgetOK'
  BY <1>3, <1>4, <1>8 DEF BudgetOK, StalenessBudget, Since
<1>10. QED
  BY <1>5, <1>6, <1>7, <1>9

LEMMA WaitForTaskInv ==
  ASSUME IInv, WaitForTask, UNCHANGED <<trainerVars, historyVars>>
  PROVE  PartsOK'
<1> USE DEF IInv, PartsOK
<1>1. /\ UNCHANGED <<taken, activeTasks, reaped, staleness, task, reset, counted, queue, dropped,
                     trainer, ending, got, consumed, base>>
      /\ lock = "free" /\ lock' = "proc"
      /\ \/ proc = "limit" /\ proc' = "limitWait"
         \/ proc = "final" /\ proc' = "finalWait"
  BY DEF WaitForTask, MustWait, Goto, feedVars, resetVars, queueVars, trainerVars, historyVars
<1> USE <1>1
<1>2. /\ Completed' = Completed /\ Running' = Running /\ Lost' = Lost
      /\ Queued' = Queued /\ Out' = Out /\ Since' = Since /\ QueueFull' = QueueFull
      /\ Alive /\ Alive' /\ HasSample' = HasSample /\ InHand' = InHand
  BY DEF Alive, HasSample, InHand, Completed, Running, Lost, Queued, Out, Since,
     SamplesTaken, QueueFull
<1>3. ProcessorOK' /\ WaitsOK'
  BY <1>2 DEF ProcessorOK, WaitsOK
<1>4. TasksOK' /\ ActiveBound' /\ PlacesOK' /\ EndOK'
  BY <1>2 DEF TasksOK, ActiveBound, PlacesOK, EndOK
<1>5. BudgetOK'
  BY <1>2 DEF BudgetOK, StalenessBudget, SamplesTaken
<1>6. QED
  BY <1>3, <1>4, <1>5

(* The two steps that take finished tasks out of active_tasks. *)
LEMMA Reaping ==
  ASSUME IInv, NEW done \in SUBSET DoneActive,
         UNCHANGED <<taken, staleness, task, reset, counted, queueVars, trainerVars, historyVars>>,
         activeTasks' = activeTasks \ done,
         reaped' = {},
         \/ /\ proc' = "ended"
            /\ \E i \in done : task[i] = "failed"
         \/ /\ \A i \in done : task[i] # "failed"
            /\ \/ proc = "reap" /\ proc' \in {"check", "drain"}
               \/ proc = "limitWait" /\ proc' = "limit"
               \/ proc = "finalWait" /\ proc' = "final",
         proc \in {"reap", "limitWait", "finalWait"},
         lock' = IF lock = "proc" THEN "free" ELSE lock
  PROVE  PartsOK'
<1> USE DEF IInv, PartsOK, queueVars, trainerVars, historyVars
<1>1. /\ Completed' = Completed /\ Running' = Running /\ Lost' = Lost
      /\ Queued' = Queued /\ Out' = Out /\ Since' = Since /\ QueueFull' = QueueFull
      /\ Alive /\ (Alive' <=> proc' # "ended")
      /\ Alive' => HasSample' = HasSample /\ InHand' = InHand
  BY DEF Alive, HasSample, InHand, Completed, Running, Lost, Queued, Out, Since,
     SamplesTaken, QueueFull
<1>2. done \subseteq activeTasks /\ activeTasks \subseteq Sample /\ Running \subseteq activeTasks
      /\ done \cap Running = {}
  BY DEF TypeOK, RollouterTypeOK, DoneActive, Completed, TasksOK, Running
<1>3. ProcessorOK' /\ WaitsOK'
  BY <1>1 DEF ProcessorOK, WaitsOK, HasSample
<1>4. TasksOK'
  BY <1>1, <1>2 DEF TasksOK, DoneActive, Completed
<1>5. ActiveBound'
  <2>1. /\ Cardinality(activeTasks') \in Nat /\ Cardinality(activeTasks) \in Nat
        /\ Cardinality(activeTasks') <= Cardinality(activeTasks)
    BY <1>2, Fewer
  <2>2. \A x \in done : x \in activeTasks \ Running
    BY <1>2
  <2>3. done # {} => /\ Cardinality(Running) \in Nat
                     /\ Cardinality(Running) < Cardinality(activeTasks)
    BY <1>2, <2>2, Fewer
  <2>4. QED
    BY <1>1, <2>1, <2>3, Params DEF ActiveBound
<1>6. PlacesOK'
  BY <1>1 DEF PlacesOK
<1>7. EndOK'
  BY <1>1, <1>2 DEF EndOK, Lost
<1>8. BudgetOK'
  BY <1>1 DEF BudgetOK, StalenessBudget, SamplesTaken
<1>9. QED
  BY <1>3, <1>4, <1>5, <1>6, <1>7, <1>8

LEMMA SubmitInv ==
  ASSUME IInv, Submit, UNCHANGED <<trainerVars, historyVars>>
  PROVE  PartsOK'
<1> USE DEF IInv, PartsOK
<1>1. /\ UNCHANGED <<taken, reaped, staleness, lock, reset, counted, queue, dropped,
                     trainer, ending, got, consumed, base>>
      /\ proc = "limit" /\ proc' = "check" /\ lock = "free"
      /\ task' = [task EXCEPT ![taken] = "running"]
      /\ activeTasks' = activeTasks \cup {taken}
      /\ ~(Cardinality(activeTasks) >= MaxConcurrent)
  BY DEF Submit, MustWait, Goto, feedVars, pauseVars, resetVars, queueVars, trainerVars, historyVars
<1> USE <1>1
<1>2. /\ taken \in Sample /\ task[taken] = "none"
      /\ task \in [Sample -> {"none", "running", "sent", "done", "failed"}]
      /\ task'[taken] = "running" /\ \A i \in Sample \ {taken} : task'[i] = task[i]
  BY DEF ProcessorOK, HasSample, TypeOK, RollouterTypeOK
<1>3. /\ Queued' = Queued /\ Out' = Out /\ Since' = Since /\ QueueFull' = QueueFull
      /\ Alive /\ Alive' /\ ~HasSample' /\ Completed' = Completed
  BY <1>2 DEF Alive, HasSample, Queued, Out, Since, SamplesTaken, QueueFull, Completed
<1>4. ProcessorOK' /\ WaitsOK'
  BY <1>3 DEF ProcessorOK, WaitsOK
<1>5. TasksOK'
  BY <1>2, <1>3, Params DEF TasksOK, HasSample
<1>6. ActiveBound'
  <2>1. activeTasks \subseteq Sample /\ IsFiniteSet(activeTasks)
    BY SamplesFinite DEF TypeOK, RollouterTypeOK
  <2>2. Cardinality(activeTasks) \in Nat
    BY <2>1, SamplesFinite
  <2>3. \/ Cardinality(activeTasks \cup {taken}) = Cardinality(activeTasks)
        \/ Cardinality(activeTasks \cup {taken}) = Cardinality(activeTasks) + 1
    BY <2>1, FS_AddElement, Zenon
  <2>4. QED
    BY <2>2, <2>3, Params DEF ActiveBound
<1>7. PlacesOK' /\ EndOK'
  BY <1>2, <1>3 DEF PlacesOK, EndOK
<1>8. BudgetOK'
  BY <1>3 DEF BudgetOK, StalenessBudget, SamplesTaken, ProcessorOK
<1>9. QED
  BY <1>4, <1>5, <1>6, <1>7, <1>8

LEMMA ProcessorReturnsInv ==
  ASSUME IInv, ProcessorReturns, UNCHANGED <<trainerVars, historyVars>>
  PROVE  PartsOK'
<1> USE DEF IInv, PartsOK
<1>1. /\ UNCHANGED <<taken, activeTasks, reaped, staleness, task, lock, reset, counted,
                     queue, dropped, trainer, ending, got, consumed, base>>
      /\ proc = "final" /\ proc' = "ended" /\ activeTasks = {}
  BY DEF ProcessorReturns, MustWait, Goto, feedVars, pauseVars, resetVars, queueVars,
     trainerVars, historyVars
<1> USE <1>1
<1>2. /\ Completed' = Completed /\ Running' = Running /\ Lost' = Lost
      /\ Queued' = Queued /\ Out' = Out /\ Since' = Since
      /\ Alive /\ ~Alive' /\ ~HasSample'
  BY DEF Alive, HasSample, Completed, Running, Lost, Queued, Out, Since, SamplesTaken
<1>3. ProcessorOK' /\ WaitsOK'
  BY <1>2 DEF ProcessorOK, WaitsOK
<1>4. TasksOK' /\ PlacesOK'
  BY <1>2 DEF TasksOK, PlacesOK
<1>5. Running = {}
  BY DEF TasksOK, Running
<1>6. ActiveBound'
  BY <1>2, <1>5, FS_EmptySet, Params DEF ActiveBound
<1>7. EndOK'
  <2>1. \A i \in Sample : i < taken
    BY Params DEF ProcessorOK
  <2>2. \A i \in Sample : task[i] \in {"sent", "done"}
    BY <1>2, <2>1 DEF TasksOK, TypeOK, RollouterTypeOK
  <2>3. QED
    BY <1>2, <2>2 DEF EndOK
<1>8. BudgetOK'
  BY <1>2 DEF BudgetOK, StalenessBudget, SamplesTaken
<1>9. QED
  BY <1>3, <1>4, <1>6, <1>7, <1>8

-----------------------------------------------------------------------------
(* What a put does to the places of the samples, when the queue does not   *)
(* hold x yet and does not lose the end mark.                              *)
LEMMA PutPlaces ==
  ASSUME TypeOK, PlacesOK, NEW x \in Sample \cup {EndMark}, PutSample(x),
         \A k \in 1 .. Len(queue) : queue[k] # x,
         x \notin Out,
         QueueFull => queue[1] # EndMark,
         EndMark \notin dropped,
         consumed' = consumed
  PROVE  /\ \A j, k \in 1 .. Len(queue') : queue'[j] = queue'[k] => j = k
         /\ \A i \in Sample : i \in Queued' \cup Out' <=> i \in Queued \cup Out \/ i = x
         /\ \A i \in Sample : /\ i \in consumed => i \notin dropped'
                              /\ i \in Queued' => i \notin Out'
         /\ Out \subseteq Out' /\ Out' \subseteq Sample
         /\ Cardinality(Out) \in Nat /\ Cardinality(Out') \in Nat
         /\ Cardinality(Out) <= Cardinality(Out')
         /\ QueueFull => QueueFull'
         /\ ~QueueFull => Out' = Out
         /\ EndMark \notin dropped'
<1> DEFINE n == Len(queue)
<1>1. /\ queue \in Seq(Sample \cup {EndMark}) /\ n \in Nat /\ DOMAIN queue = 1 .. n
      /\ EndMark \notin Sample /\ dropped \subseteq Sample \cup {EndMark} /\ consumed \subseteq Sample
  BY Params DEF TypeOK, RollouterTypeOK
<1>2. /\ queue' \in Seq(Sample \cup {EndMark}) /\ Len(queue') \in Nat
      /\ DOMAIN queue' = 1 .. Len(queue') /\ queue'[Len(queue')] = x
  BY PutResult
<1>3. \A i \in Sample : /\ i \in Queued <=> \E k \in 1 .. n : queue[k] = i
                        /\ i \in Queued' <=> \E k \in 1 .. Len(queue') : queue'[k] = i
  BY <1>1, <1>2 DEF Queued
<1>4. CASE QueueFull
  <2>1. /\ n = MaxQueueSize /\ Len(queue') = n /\ n > 0 /\ QueueFull'
        /\ \A k \in 1 .. n - 1 : queue'[k] = queue[k + 1]
        /\ queue[1] \in Sample /\ dropped' = dropped \cup {queue[1]}
    BY <1>4, PutResult DEF QueueFull
  <2>2. \A j, k \in 1 .. n : queue'[j] = queue'[k] => j = k
    <3>1. SUFFICES ASSUME NEW j \in 1 .. n, NEW k \in 1 .. n, j < k, queue'[j] = queue'[k]
                   PROVE  FALSE
      BY <1>1
    <3>2. queue'[j] = queue[j + 1] /\ j + 1 \in 1 .. n
      BY <1>1, <2>1, <3>1
    <3>3. CASE k = n
      BY <1>2, <2>1, <3>1, <3>2, <3>3
    <3>4. CASE k # n
      <4>1. queue'[k] = queue[k + 1] /\ k + 1 \in 1 .. n
        BY <1>1, <2>1, <3>4
      <4>2. j + 1 = k + 1
        BY <3>1, <3>2, <4>1 DEF PlacesOK
      <4>3. QED
        BY <3>1, <4>2
    <3>5. QED
      BY <3>3, <3>4
  <2>3. \A i \in Sample : i \in Queued' <=> i = x \/ (i \in Queued /\ i # queue[1])
    <3>1. SUFFICES ASSUME NEW i \in Sample
                   PROVE  i \in Queued' <=> i = x \/ (i \in Queued /\ i # queue[1])
      OBVIOUS
    <3>2. ASSUME i \in Queued'
          PROVE  i = x \/ (i \in Queued /\ i # queue[1])
      <4>1. PICK k \in 1 .. n : queue'[k] = i
        BY <1>3, <2>1, <3>1, <3>2
      <4>2. CASE k = n
        BY <1>2, <2>1, <4>1, <4>2
      <4>3. CASE k # n
        <5>1. queue[k + 1] = i /\ k + 1 \in 1 .. n
          BY <1>1, <2>1, <4>1, <4>3
        <5>2. i # queue[1]
          BY <1>1, <2>1, <5>1 DEF PlacesOK
        <5>3. QED
          BY <1>3, <3>1, <5>1, <5>2
      <4>4. QED
        BY <4>2, <4>3
    <3>3. ASSUME i = x
          PROVE  i \in Queued'
      BY <1>2, <1>3, <2>1, <3>1, <3>3
    <3>4. ASSUME i \in Queued, i # queue[1]
          PROVE  i \in Queued'
      <4>1. PICK k \in 1 .. n : queue[k] = i
        BY <1>3, <3>1, <3>4
      <4>2. k - 1 \in 1 .. n - 1 /\ k - 1 + 1 = k
        BY <1>1, <3>4, <4>1
      <4>3. queue'[k - 1] = i /\ k - 1 \in 1 .. n
        BY <1>1, <2>1, <4>1, <4>2
      <4>4. QED
        BY <1>3, <2>1, <3>1, <4>3
    <3>5. QED
      BY <3>2, <3>3, <3>4
  <2>4. Out' = Out \cup {queue[1]} /\ queue[1] \in Queued
    BY <1>1, <1>3, <2>1 DEF Out
  <2>5. Out \subseteq Sample /\ Out' \subseteq Sample
    BY <1>1, <2>1, <2>4 DEF Out
  <2>6. /\ Cardinality(Out) \in Nat /\ Cardinality(Out') \in Nat
        /\ Cardinality(Out) <= Cardinality(Out')
    BY <2>4, <2>5, Fewer
  <2>7. x # queue[1]
    BY <1>1, <2>1
  <2>8. \A i \in Sample : /\ i \in consumed => i \notin dropped'
                          /\ i \in Queued' => i \notin Out'
    BY <2>1, <2>3, <2>4, <2>7 DEF PlacesOK, Out
  <2>9. QED
    BY <1>1, <1>4, <2>1, <2>2, <2>3, <2>4, <2>5, <2>6, <2>8
<1>5. CASE ~QueueFull
  <2>1. /\ Len(queue') = n + 1 /\ dropped' = dropped
        /\ \A k \in 1 .. n : queue'[k] = queue[k]
    BY <1>5, PutResult
  <2>2. \A j, k \in 1 .. n + 1 : queue'[j] = queue'[k] => j = k
    BY <1>1, <1>2, <2>1 DEF PlacesOK
  <2>3. \A i \in Sample : i \in Queued' <=> i = x \/ i \in Queued
    BY <1>1, <1>2, <1>3, <2>1
  <2>4. Out' = Out /\ Out \subseteq Sample
    BY <1>1, <2>1 DEF Out
  <2>5. Cardinality(Out) \in Nat
    BY <2>4, Fewer
  <2>6. \A i \in Sample : /\ i \in consumed => i \notin dropped'
                          /\ i \in Queued' => i \notin Out'
    BY <2>1, <2>3, <2>4 DEF PlacesOK
  <2>7. QED
    BY <1>5, <2>1, <2>2, <2>3, <2>4, <2>5, <2>6
<1>6. QED
  BY <1>4, <1>5

LEMMA PutEndInv ==
  ASSUME IInv, PutEnd, UNCHANGED <<trainerVars, historyVars>>
  PROVE  PartsOK'
<1> USE DEF IInv, PartsOK
<1>1. /\ UNCHANGED <<taken, activeTasks, reaped, staleness, task, lock, reset, counted,
                     trainer, ending, got, consumed, base>>
      /\ proc = "ended" /\ proc' = "closing" /\ PutSample(EndMark)
  BY DEF PutEnd, Goto, feedVars, pauseVars, resetVars, trainerVars, historyVars
<1> USE <1>1
<1>2. /\ \A k \in 1 .. Len(queue) : queue[k] # EndMark
      /\ EndMark \notin Out /\ EndMark \notin dropped /\ EndMark \notin Sample
      /\ QueueFull => queue[1] # EndMark
  <2>1. \A k \in 1 .. Len(queue) : queue[k] # EndMark
    BY DEF EndOK
  <2>2. QueueFull => 1 \in 1 .. Len(queue)
    BY PutResult
  <2>3. QED
    BY <2>1, <2>2, OutIsSamples, Params DEF EndOK
<1>3. /\ \A j, k \in 1 .. Len(queue') : queue'[j] = queue'[k] => j = k
      /\ \A i \in Sample : i \in Queued' \cup Out' <=> i \in Queued \cup Out
      /\ \A i \in Sample : /\ i \in consumed => i \notin dropped'
                           /\ i \in Queued' => i \notin Out'
      /\ Cardinality(Out) \in Nat /\ Cardinality(Out') \in Nat
      /\ Cardinality(Out) <= Cardinality(Out')
      /\ EndMark \notin dropped'
  BY <1>2, PutPlaces
<1>4. /\ Completed' = Completed /\ Running' = Running /\ Lost' = Lost
      /\ Since' = Since /\ ~Alive /\ ~Alive' /\ ~HasSample'
  BY DEF Alive, HasSample, Completed, Running, Lost, Since, SamplesTaken
<1>5. ProcessorOK' /\ WaitsOK' /\ TasksOK' /\ ActiveBound'
  BY <1>4 DEF ProcessorOK, WaitsOK, TasksOK, ActiveBound
<1>6. PlacesOK'
  BY <1>3 DEF PlacesOK
<1>7. EndOK'
  <2>1. Len(queue') \in Nat /\ Len(queue') > 0 /\ queue'[Len(queue')] = EndMark
    BY PutResult DEF TypeOK, RollouterTypeOK
  <2>2. ASSUME NEW k \in 1 .. Len(queue'), queue'[k] = EndMark
        PROVE  Len(queue') - k + Cardinality(Running') < MaxQueueSize
    <3>1. k = Len(queue')
      BY <1>3, <2>1, <2>2
    <3>2. Cardinality(Running) \in Nat
      BY SamplesFinite DEF Running
    <3>3. Cardinality(Running) < MaxConcurrent
      BY DEF ActiveBound
    <3>4. QED
      BY <1>4, <2>1, <3>1, <3>2, <3>3, Params
  <2>3. QED
    BY <1>3, <1>4, <2>2 DEF EndOK
<1>8. BudgetOK'
  BY <1>3, <1>4 DEF BudgetOK, StalenessBudget, SamplesTaken, TypeOK
<1>9. QED
  BY <1>5, <1>6, <1>7, <1>8

LEMMA DeliverInv ==
  ASSUME IInv, NEW i \in Sample, Deliver(i), UNCHANGED <<trainerVars, historyVars>>
  PROVE  PartsOK'
<1> USE DEF IInv, PartsOK
<1>1. /\ UNCHANGED <<taken, proc, activeTasks, reaped, staleness, lock, reset, counted,
                     trainer, ending, got, consumed, base>>
      /\ task[i] = "running" /\ task' = [task EXCEPT ![i] = "sent"] /\ PutSample(i)
  BY DEF Deliver, feedVars, processorVars, pauseVars, resetVars, trainerVars, historyVars
<1> USE <1>1
<1>2. task'[i] = "sent" /\ \A j \in Sample \ {i} : task'[j] = task[j]
  BY DEF TypeOK, RollouterTypeOK
<1>3. /\ Completed' = Completed /\ Running' = Running \ {i} /\ i \in Running /\ Lost' = Lost
      /\ Since' = Since /\ Alive' = Alive /\ HasSample' = HasSample /\ InHand' = InHand
  BY <1>2 DEF Alive, HasSample, InHand, Completed, Running, Lost, Since, SamplesTaken
<1>4. /\ Cardinality(Running) \in Nat /\ Cardinality(Running') \in Nat
      /\ Cardinality(Running') < Cardinality(Running)
  <2>1. Running \in SUBSET Sample /\ Running' \in SUBSET Running
    BY <1>3 DEF Running
  <2>2. QED
    BY <1>3, <2>1, Fewer
<1>5. /\ Len(queue) \in Nat /\ Len(queue') \in Nat
      /\ MaxQueueSize \in Nat /\ MaxQueueSize = MaxRequired /\ i # EndMark
  BY PutResult, Params DEF TypeOK, RollouterTypeOK
<1>6. i \notin Queued /\ i \notin Out
  BY DEF PlacesOK
<1>7. /\ \A k \in 1 .. Len(queue) : queue[k] # i
      /\ QueueFull => queue[1] # EndMark
  <2>1. \A k \in 1 .. Len(queue) : queue[k] # i
    BY <1>5, <1>6 DEF Queued, TypeOK, RollouterTypeOK
  <2>2. ASSUME QueueFull, queue[1] = EndMark
        PROVE  FALSE
    <3>1. Len(queue) = MaxQueueSize /\ 1 \in 1 .. Len(queue)
      BY <2>2, PutResult
    <3>2. Len(queue) - 1 + Cardinality(Running) < MaxQueueSize
      BY <2>2, <3>1 DEF EndOK
    <3>3. QED
      BY <1>4, <1>5, <3>1, <3>2
  <2>3. QED
    BY <2>1, <2>2
<1>8. /\ \A j, k \in 1 .. Len(queue') : queue'[j] = queue'[k] => j = k
      /\ \A j \in Sample : j \in Queued' \cup Out' <=> j \in Queued \cup Out \/ j = i
      /\ \A j \in Sample : /\ j \in consumed => j \notin dropped'
                           /\ j \in Queued' => j \notin Out'
      /\ Cardinality(Out) \in Nat /\ Cardinality(Out') \in Nat
      /\ Cardinality(Out) <= Cardinality(Out')
      /\ QueueFull => QueueFull'
      /\ ~QueueFull => Out' = Out
      /\ EndMark \notin dropped'
  <2>1. EndMark \notin dropped
    BY DEF EndOK
  <2>2. QED
    BY <1>6, <1>7, <2>1, PutPlaces
<1>9. ProcessorOK' /\ WaitsOK' /\ ActiveBound'
  BY <1>2, <1>3, <1>4, Params DEF ProcessorOK, WaitsOK, ActiveBound
<1>10. TasksOK'
  BY <1>2, <1>3 DEF TasksOK
<1>11. PlacesOK'
  BY <1>2, <1>8 DEF PlacesOK
<1>12. ASSUME NEW k \in 1 .. Len(queue'), queue'[k] = EndMark
       PROVE  \E j \in 1 .. Len(queue) :
                queue[j] = EndMark /\ Len(queue') - k <= Len(queue) - j + 1
  <2>1. k # Len(queue')
    BY <1>5, <1>12, PutResult
  <2>2. CASE QueueFull
    <3>1. k + 1 \in 1 .. Len(queue) /\ queue[k + 1] = EndMark /\ Len(queue') = Len(queue)
      BY <1>5, <1>12, <2>1, <2>2, PutResult
    <3>2. Len(queue') - k <= Len(queue) - (k + 1) + 1
      BY <1>5, <3>1
    <3>3. QED
      BY <3>1, <3>2
  <2>3. CASE ~QueueFull
    <3>1. k \in 1 .. Len(queue) /\ queue[k] = EndMark /\ Len(queue') = Len(queue) + 1
      BY <1>5, <1>12, <2>1, <2>3, PutResult
    <3>2. Len(queue') - k <= Len(queue) - k + 1
      BY <1>5, <3>1
    <3>3. QED
      BY <3>1, <3>2
  <2>4. QED
    BY <2>2, <2>3
<1>13. EndOK'
  <2>1. ASSUME NEW k \in 1 .. Len(queue'), queue'[k] = EndMark
        PROVE  Len(queue') - k + Cardinality(Running') < MaxQueueSize
    <3>1. PICK j \in 1 .. Len(queue) :
            queue[j] = EndMark /\ Len(queue') - k <= Len(queue) - j + 1
      BY <1>12, <2>1
    <3>2. Len(queue) - j + Cardinality(Running) < MaxQueueSize
      BY <3>1 DEF EndOK
    <3>3. QED
      BY <1>4, <1>5, <3>1, <3>2
  <2>2. ending \/ (\E k \in 1 .. Len(queue') : queue'[k] = EndMark) => proc \in {"closing", "stopped"}
    BY <1>12 DEF EndOK
  <2>3. ~Alive => Lost # {} \/ \A j \in Sample : task'[j] \in {"sent", "done"}
    BY <1>2 DEF EndOK
  <2>4. QED
    BY <1>3, <1>8, <2>1, <2>2, <2>3 DEF EndOK
<1>14. BudgetOK'
  <2>1. Since \in Int /\ InHand \in Nat /\ counted \in Nat /\ staleness \in Nat /\ base \in Nat
    BY Params DEF TypeOK, RollouterTypeOK, Since, SamplesTaken, InHand
  <2>2. base <= Cardinality(Out')
    BY <1>8, <2>1 DEF BudgetOK
  <2>3. reset = "called" => QueueFull' \/ base = Cardinality(Out') \/ ~Alive
    BY <1>8 DEF BudgetOK
  <2>4. reset = "counting" => QueueFull' \/ Since <= counted + Len(queue') + InHand \/ ~Alive
    <3>1. CASE QueueFull
      BY <1>8, <3>1
    <3>2. CASE ~QueueFull
      <4>1. Len(queue') = Len(queue) + 1
        BY <3>2, PutResult
      <4>2. QED
        BY <1>5, <2>1, <3>2, <4>1 DEF BudgetOK
    <3>3. QED
      BY <3>1, <3>2
  <2>5. QED
    BY <1>3, <2>2, <2>3, <2>4 DEF BudgetOK, StalenessBudget, SamplesTaken
<1>15. QED
  BY <1>9, <1>10, <1>11, <1>13, <1>14

LEMMA TaskEndsInv ==
  ASSUME IInv, NEW i \in Sample, TaskEnds(i), UNCHANGED <<trainerVars, historyVars>>
  PROVE  PartsOK'
<1> USE DEF IInv, PartsOK
<1>1. /\ UNCHANGED <<taken, proc, activeTasks, reaped, staleness, lock, reset, counted,
                     queue, dropped, trainer, ending, got, consumed, base>>
      /\ task[i] = "sent" /\ task' = [task EXCEPT ![i] = "done"]
  BY DEF TaskEnds, feedVars, processorVars, pauseVars, resetVars, queueVars, trainerVars,
     historyVars
<1> USE <1>1
<1>2. task'[i] = "done" /\ \A j \in Sample \ {i} : task'[j] = task[j]
  BY DEF TypeOK, RollouterTypeOK
<1>3. /\ Completed \subseteq Completed' /\ Running' = Running /\ Lost' = Lost
      /\ Queued' = Queued /\ Out' = Out /\ Since' = Since /\ QueueFull' = QueueFull
      /\ Alive' = Alive /\ HasSample' = HasSample /\ InHand' = InHand
  BY <1>2 DEF Alive, HasSample, InHand, Completed, Running, Lost, Since, SamplesTaken,
     Queued, Out, QueueFull
<1>4. ProcessorOK' /\ WaitsOK'
  BY <1>2, <1>3 DEF ProcessorOK, WaitsOK
<1>5. TasksOK' /\ ActiveBound' /\ PlacesOK'
  BY <1>2, <1>3 DEF TasksOK, ActiveBound, PlacesOK
<1>6. EndOK'
  BY <1>2, <1>3 DEF EndOK
<1>7. BudgetOK'
  BY <1>3 DEF BudgetOK, StalenessBudget, SamplesTaken
<1>8. QED
  BY <1>4, <1>5, <1>6, <1>7

LEMMA TaskRaisesInv ==
  ASSUME IInv, NEW i \in Sample, TaskRaises(i), UNCHANGED <<trainerVars, historyVars>>
  PROVE  PartsOK'
<1> USE DEF IInv, PartsOK
<1>1. /\ UNCHANGED <<taken, proc, activeTasks, reaped, staleness, lock, reset, counted,
                     queue, dropped, trainer, ending, got, consumed, base>>
      /\ task[i] = "running" /\ task' = [task EXCEPT ![i] = "failed"]
  BY DEF TaskRaises, feedVars, processorVars, pauseVars, resetVars, queueVars, trainerVars,
     historyVars
<1> USE <1>1
<1>2. task'[i] = "failed" /\ \A j \in Sample \ {i} : task'[j] = task[j]
  BY DEF TypeOK, RollouterTypeOK
<1>3. /\ Completed \subseteq Completed' /\ Running' \subseteq Running /\ i \in Lost'
      /\ Queued' = Queued /\ Out' = Out /\ Since' = Since /\ QueueFull' = QueueFull
      /\ Alive' = Alive /\ HasSample' = HasSample /\ InHand' = InHand
  BY <1>2 DEF Alive, HasSample, InHand, Completed, Running, Lost, Since, SamplesTaken,
     Queued, Out, QueueFull
<1>4. /\ Cardinality(Running) \in Nat /\ Cardinality(Running') \in Nat
      /\ Cardinality(Running') <= Cardinality(Running)
  <2>1. Running \in SUBSET Sample /\ Running' \in SUBSET Running
    BY <1>3 DEF Running
  <2>2. QED
    BY <2>1, Fewer
<1>5. ProcessorOK' /\ WaitsOK'
  BY <1>2, <1>3 DEF ProcessorOK, WaitsOK
<1>6. TasksOK' /\ ActiveBound' /\ PlacesOK'
  BY <1>2, <1>3, <1>4, Params DEF TasksOK, ActiveBound, PlacesOK
<1>7. EndOK'
  <2>1. Len(queue) \in Nat /\ MaxQueueSize \in Nat
    BY Params DEF TypeOK, RollouterTypeOK
  <2>2. QED
    BY <1>3, <1>4, <2>1 DEF EndOK
<1>8. BudgetOK'
  BY <1>3 DEF BudgetOK, StalenessBudget, SamplesTaken
<1>9. QED
  BY <1>5, <1>6, <1>7, <1>8

-----------------------------------------------------------------------------
(* The members of the queue are as many as its entries. *)
LEMMA QueueCounted ==
  ASSUME TypeOK, PlacesOK
  PROVE  /\ IsFiniteSet({ queue[k] : k \in DOMAIN queue })
         /\ Cardinality({ queue[k] : k \in DOMAIN queue }) = Len(queue)
<1> DEFINE R == { queue[k] : k \in DOMAIN queue }
           f == [k \in 1 .. Len(queue) |-> queue[k]]
<1>1. Len(queue) \in Nat /\ DOMAIN queue = 1 .. Len(queue)
  BY DEF TypeOK, RollouterTypeOK
<1>2. f \in Bijection(1 .. Len(queue), R)
  BY <1>1 DEF PlacesOK, Bijection, Injection, IsInjective, Surjection
<1>3. IsFiniteSet(1 .. Len(queue)) /\ Cardinality(1 .. Len(queue)) = Len(queue)
  BY <1>1, FirstNumbers
<1>4. QED
  BY <1>2, <1>3, FS_Bijection DEF ExistsBijection

(* While the processor lives, all it has taken is in hand, active, queued  *)
(* or gone.                                                                *)
LEMMA Pipeline ==
  ASSUME IInv, Alive
  PROVE  SamplesTaken <= Cardinality(activeTasks) + Len(queue) + Cardinality(Out) + InHand
<1> USE DEF IInv, PartsOK
<1> DEFINE R == { queue[k] : k \in DOMAIN queue }
           H == IF HasSample THEN {taken} ELSE {}
<1>1. /\ SamplesTaken \in Nat /\ taken \in Nat /\ activeTasks \subseteq Sample
      /\ \A i \in 1 .. SamplesTaken : i \in Sample /\ i <= taken
  BY Params DEF TypeOK, RollouterTypeOK, SamplesTaken
<1>2. 1 .. SamplesTaken \subseteq (activeTasks \cup R) \cup (Out \cup H)
  <2>1. SUFFICES ASSUME NEW i \in 1 .. SamplesTaken, i \notin H
                 PROVE  i \in activeTasks \cup R \cup Out
    OBVIOUS
  <2>2. task[i] \in {"running", "sent", "done", "failed"}
    BY <1>1, <2>1 DEF TasksOK, TypeOK, RollouterTypeOK
  <2>3. task[i] \in {"running", "failed"} => i \in activeTasks
    BY <1>1 DEF TasksOK
  <2>4. task[i] \in {"sent", "done"} => i \in R \cup Out
    BY <1>1 DEF PlacesOK, Queued
  <2>5. QED
    BY <2>2, <2>3, <2>4
<1>3. /\ IsFiniteSet(activeTasks) /\ Cardinality(activeTasks) \in Nat
      /\ IsFiniteSet(Out) /\ Cardinality(Out) \in Nat
      /\ IsFiniteSet(R) /\ Cardinality(R) = Len(queue) /\ Len(queue) \in Nat
  BY <1>1, SamplesFinite, OutIsSamples, QueueCounted DEF TypeOK, RollouterTypeOK
<1>4. IsFiniteSet(H) /\ Cardinality(H) = InHand /\ InHand \in Nat
  BY FS_Singleton, FS_EmptySet DEF InHand
<1> HIDE DEF R, H
<1>5. \A S, T : IsFiniteSet(S) /\ IsFiniteSet(T) =>
        /\ IsFiniteSet(S \cup T) /\ Cardinality(S \cup T) \in Nat
        /\ Cardinality(S \cup T) <= Cardinality(S) + Cardinality(T)
  <2>1. SUFFICES ASSUME NEW S, NEW T, IsFiniteSet(S), IsFiniteSet(T)
                 PROVE  /\ IsFiniteSet(S \cup T) /\ Cardinality(S \cup T) \in Nat
                        /\ Cardinality(S \cup T) <= Cardinality(S) + Cardinality(T)
    OBVIOUS
  <2>2. IsFiniteSet(S \cup T) /\ IsFiniteSet(S \cap T)
    BY <2>1, FS_Union, FS_Intersection
  <2>3. /\ Cardinality(S) \in Nat /\ Cardinality(T) \in Nat
        /\ Cardinality(S \cup T) \in Nat /\ Cardinality(S \cap T) \in Nat
    BY <2>1, <2>2, FS_CardinalityType
  <2>4. Cardinality(S \cup T) = Cardinality(S) + Cardinality(T) - Cardinality(S \cap T)
    BY <2>1, FS_Union
  <2>5. QED
    BY <2>2, <2>3, <2>4
<1>6. /\ IsFiniteSet(activeTasks \cup R) /\ Cardinality(activeTasks \cup R) \in Nat
      /\ Cardinality(activeTasks \cup R) <= Cardinality(activeTasks) + Len(queue)
      /\ IsFiniteSet(Out \cup H) /\ Cardinality(Out \cup H) \in Nat
      /\ Cardinality(Out \cup H) <= Cardinality(Out) + InHand
  BY <1>3, <1>4, <1>5
<1> DEFINE all == (activeTasks \cup R) \cup (Out \cup H)
<1>7. /\ IsFiniteSet(all) /\ Cardinality(all) \in Nat
      /\ Cardinality(all) <= Cardinality(activeTasks \cup R) + Cardinality(Out \cup H)
  BY <1>5, <1>6
<1>8. Cardinality(1 .. SamplesTaken) = SamplesTaken
  BY <1>1, FirstNumbers
<1>9. Cardinality(1 .. SamplesTaken) <= Cardinality(all)
  <2>1. 1 .. SamplesTaken \in SUBSET all
    BY <1>2
  <2>2. QED
    BY <1>7, <2>1, FS_Subset, Zenon
<1>10. SamplesTaken <= Cardinality(all)
  BY <1>8, <1>9
<1> HIDE DEF all
<1>11. QED
  BY <1>1, <1>3, <1>4, <1>6, <1>7, <1>10

LEMMA ResetInv ==
  ASSUME IInv, ResetStaleness, UNCHANGED <<trainerVars, historyVars>>
  PROVE  PartsOK'
<1> USE DEF IInv, PartsOK
<1>1. /\ UNCHANGED <<taken, proc, activeTasks, reaped, task, queue, dropped,
                     trainer, ending, got, consumed, base>>
      /\ \/ /\ reset = "called" /\ reset' = "counting" /\ lock = "free" /\ lock' = "reset"
            /\ counted' = Cardinality(activeTasks) /\ staleness' = staleness
         \/ /\ reset = "counting" /\ reset' = "counted" /\ lock' = lock
            /\ counted' = counted + Len(queue) /\ staleness' = staleness
         \/ /\ reset = "counted" /\ reset' = "idle" /\ lock' = "free"
            /\ staleness' = counted
  BY DEF ResetStaleness, ResetBegins, ResetCounts, ResetEnds, feedVars, processorVars,
     pauseVars, queueVars, trainerVars, historyVars
<1>2. /\ Completed' = Completed /\ Running' = Running /\ Lost' = Lost
      /\ Queued' = Queued /\ Out' = Out /\ Since' = Since /\ QueueFull' = QueueFull
      /\ Alive' = Alive /\ HasSample' = HasSample /\ InHand' = InHand
  BY <1>1 DEF Alive, HasSample, InHand, Completed, Running, Lost, Since, SamplesTaken,
     Queued, Out, QueueFull
<1>3. ProcessorOK' /\ WaitsOK'
  BY <1>1, <1>2 DEF ProcessorOK, WaitsOK
<1>4. TasksOK' /\ ActiveBound' /\ PlacesOK' /\ EndOK'
  BY <1>1, <1>2 DEF TasksOK, ActiveBound, PlacesOK, EndOK
<1>5. /\ Since \in Int /\ InHand \in {0, 1} /\ counted \in Nat /\ staleness \in Nat
      /\ base \in Nat /\ SamplesTaken \in Nat /\ Len(queue) \in Nat
      /\ Cardinality(activeTasks) \in Nat /\ Cardinality(Out) \in Nat
      /\ MaxRequired \in Nat /\ MaxQueueSize = MaxRequired /\ Since = SamplesTaken - base
      /\ Since <= MaxRequired + 1 /\ (QueueFull <=> Len(queue) >= MaxRequired)
  BY SamplesFinite, OutIsSamples, Params DEF TypeOK, RollouterTypeOK, Since, SamplesTaken,
     InHand, BudgetOK, StalenessBudget, QueueFull
<1>6. Alive =>
        /\ Since <= staleness' + 1
        /\ reset' # "called"
        /\ reset' = "counting" => QueueFull \/ Since <= counted' + Len(queue) + InHand
        /\ reset' = "counted" => counted' >= MaxRequired \/ Since <= counted' + InHand
  <2>1. CASE reset = "called"
    BY <1>1, <1>5, <2>1, Pipeline DEF BudgetOK
  <2>2. CASE reset = "counting"
    BY <1>1, <1>5, <2>2 DEF BudgetOK
  <2>3. CASE reset = "counted"
    BY <1>1, <1>5, <2>3 DEF BudgetOK
  <2>4. QED
    BY <1>1, <2>1, <2>2, <2>3
<1>7. BudgetOK'
  BY <1>1, <1>2, <1>6 DEF BudgetOK, StalenessBudget, SamplesTaken
<1>8. QED
  BY <1>3, <1>4, <1>7

-----------------------------------------------------------------------------
(* What a get does to the places of the samples. *)
LEMMA GetPlaces ==
  ASSUME TypeOK, PlacesOK, NEW x, GetSample(x)
  PROVE  /\ \A j, k \in 1 .. Len(queue') : queue'[j] = queue'[k] => j = k
         /\ \A i \in Sample : i \in Queued' <=> i \in Queued /\ i # x
         /\ x \in Sample => x \in Queued
<1> DEFINE n == Len(queue)
<1>1. /\ queue \in Seq(Sample \cup {EndMark}) /\ DOMAIN queue = 1 .. n /\ EndMark \notin Sample
  BY Params DEF TypeOK, RollouterTypeOK
<1>2. /\ n \in Nat /\ n > 0 /\ Len(queue') = n - 1 /\ DOMAIN queue' = 1 .. n - 1
      /\ \A k \in 1 .. n - 1 : queue'[k] = queue[k + 1] /\ k + 1 \in 1 .. n
      /\ x = queue[1] /\ 1 \in 1 .. n
  BY GetResult
<1>3. \A i \in Sample : /\ i \in Queued <=> \E k \in 1 .. n : queue[k] = i
                        /\ i \in Queued' <=> \E k \in 1 .. n - 1 : queue'[k] = i
  BY <1>1, <1>2 DEF Queued
<1>4. \A j, k \in 1 .. n - 1 : queue'[j] = queue'[k] => j = k
  <2>1. SUFFICES ASSUME NEW j \in 1 .. n - 1, NEW k \in 1 .. n - 1, queue'[j] = queue'[k]
                 PROVE  j = k
    OBVIOUS
  <2>2. j + 1 = k + 1
    BY <1>2, <2>1 DEF PlacesOK
  <2>3. QED
    BY <2>2
<1>5. ASSUME NEW i \in Sample
      PROVE  i \in Queued' <=> i \in Queued /\ i # x
  <2>1. ASSUME i \in Queued'
        PROVE  i \in Queued /\ i # x
    <3>1. PICK k \in 1 .. n - 1 : queue'[k] = i
      BY <1>3, <2>1
    <3>2. queue[k + 1] = i /\ k + 1 \in 1 .. n /\ k + 1 # 1
      BY <1>2, <3>1
    <3>3. i # queue[1]
      BY <1>2, <3>2 DEF PlacesOK
    <3>4. QED
      BY <1>2, <1>3, <3>2, <3>3
  <2>2. ASSUME i \in Queued, i # x
        PROVE  i \in Queued'
    <3>1. PICK k \in 1 .. n : queue[k] = i
      BY <1>3, <2>2
    <3>2. k - 1 \in 1 .. n - 1 /\ k - 1 + 1 = k
      BY <1>2, <2>2, <3>1
    <3>3. queue'[k - 1] = i
      BY <1>2, <3>1, <3>2
    <3>4. QED
      BY <1>3, <3>2, <3>3
  <2>3. QED
    BY <2>1, <2>2
<1>6. x \in Sample => x \in Queued
  BY <1>2, <1>3
<1>7. QED
  BY <1>2, <1>4, <1>5, <1>6

LEMMA ReceiveSampleInv ==
  ASSUME IInv, ReceiveSample
  PROVE  PartsOK'
<1> USE DEF IInv, PartsOK
<1>1. PICK x \in Sample : GetSample(x) /\ consumed' = consumed \cup {x}
  BY DEF ReceiveSample
<1>2. /\ UNCHANGED <<taken, proc, activeTasks, reaped, staleness, task, lock, reset, counted,
                     dropped, ending, base>>
      /\ trainer = "collect" /\ got' = got + 1
      /\ trainer' = IF got' = Required THEN "train" ELSE "collect"
  BY DEF ReceiveSample, GetSample, rollouterVars, feedVars, processorVars, pauseVars, resetVars
<1> USE <1>1, <1>2
<1>3. /\ \A j, k \in 1 .. Len(queue') : queue'[j] = queue'[k] => j = k
      /\ \A i \in Sample : i \in Queued' <=> i \in Queued /\ i # x
      /\ x \in Queued
  BY GetPlaces
<1>4. /\ Completed' = Completed /\ Running' = Running /\ Lost' = Lost /\ Since' = Since
      /\ Alive' = Alive /\ HasSample' = HasSample /\ InHand' = InHand
      /\ Out' = Out \cup {x}
  BY DEF Alive, HasSample, InHand, Completed, Running, Lost, Since, SamplesTaken, Out
<1>5. reset = "idle" /\ got < Required
  BY DEF WaitsOK, TypeOK, RollouterTypeOK
<1>6. ProcessorOK'
  BY <1>4 DEF ProcessorOK
<1>7. WaitsOK'
  BY <1>5, Params DEF WaitsOK, TypeOK
<1>8. TasksOK' /\ ActiveBound'
  BY <1>4 DEF TasksOK, ActiveBound
<1>9. PlacesOK'
  <2>1. x \notin Out /\ x \notin dropped /\ EndMark \notin Sample
    BY <1>3, Params DEF PlacesOK, Out
  <2>2. QED
    BY <1>3, <1>4, <2>1 DEF PlacesOK
<1>10. EndOK'
  <2>1. ASSUME NEW k \in 1 .. Len(queue'), queue'[k] = EndMark
        PROVE  /\ \E j \in 1 .. Len(queue) : queue[j] = EndMark
               /\ Len(queue') - k + Cardinality(Running') < MaxQueueSize
    <3>1. k + 1 \in 1 .. Len(queue) /\ queue[k + 1] = EndMark /\ Len(queue') = Len(queue) - 1
      BY <2>1, GetResult
    <3>2. Len(queue) - (k + 1) + Cardinality(Running) < MaxQueueSize
      BY <3>1 DEF EndOK
    <3>3. Len(queue') - k = Len(queue) - (k + 1)
      BY <3>1, GetResult
    <3>4. QED
      BY <1>4, <3>1, <3>2, <3>3
  <2>2. QED
    BY <1>4, <2>1 DEF EndOK
<1>11. BudgetOK'
  <2>1. /\ Out \subseteq Sample /\ Out' \subseteq Sample /\ Out \subseteq Out'
    BY <1>4, OutIsSamples
  <2>2. /\ Cardinality(Out) \in Nat /\ Cardinality(Out') \in Nat
        /\ Cardinality(Out) <= Cardinality(Out')
    BY <2>1, Fewer
  <2>3. QED
    BY <1>4, <1>5, <2>2 DEF BudgetOK, StalenessBudget, SamplesTaken, TypeOK
<1>12. QED
  BY <1>6, <1>7, <1>8, <1>9, <1>10, <1>11

LEMMA ReceiveEndInv ==
  ASSUME IInv, ReceiveEnd
  PROVE  PartsOK'
<1> USE DEF IInv, PartsOK
<1>1. /\ UNCHANGED <<taken, proc, activeTasks, reaped, staleness, task, lock, reset, counted,
                     dropped, got, consumed, base>>
      /\ trainer = "collect" /\ trainer' \in {"sync", "save"} /\ ending' = TRUE
      /\ GetSample(EndMark)
  BY DEF ReceiveEnd, GetSample, rollouterVars, feedVars, processorVars, pauseVars, resetVars,
     historyVars
<1> USE <1>1
<1>2. /\ \A j, k \in 1 .. Len(queue') : queue'[j] = queue'[k] => j = k
      /\ \A i \in Sample : i \in Queued' <=> i \in Queued
  <2>1. EndMark \notin Sample
    BY Params
  <2>2. QED
    BY <2>1, GetPlaces
<1>3. /\ Completed' = Completed /\ Running' = Running /\ Lost' = Lost /\ Since' = Since
      /\ Alive' = Alive /\ HasSample' = HasSample /\ InHand' = InHand /\ Out' = Out
  BY DEF Alive, HasSample, InHand, Completed, Running, Lost, Since, SamplesTaken, Out
<1>4. reset = "idle"
  BY DEF WaitsOK, TypeOK, RollouterTypeOK
<1>5. ProcessorOK' /\ WaitsOK'
  BY <1>3, <1>4 DEF ProcessorOK, WaitsOK
<1>6. TasksOK' /\ ActiveBound' /\ PlacesOK'
  BY <1>2, <1>3 DEF TasksOK, ActiveBound, PlacesOK
<1>7. EndOK'
  <2>1. queue[1] = EndMark /\ 1 \in 1 .. Len(queue)
    BY GetResult
  <2>2. proc \in {"closing", "stopped"}
    BY <2>1 DEF EndOK
  <2>3. \A k \in 1 .. Len(queue') : queue'[k] # EndMark
    <3>1. SUFFICES ASSUME NEW k \in 1 .. Len(queue'), queue'[k] = EndMark
                   PROVE  FALSE
      OBVIOUS
    <3>2. k + 1 \in 1 .. Len(queue) /\ queue[k + 1] = EndMark
      BY <3>1, GetResult
    <3>3. k + 1 = 1
      BY <2>1, <3>2 DEF PlacesOK
    <3>4. QED
      BY <3>1, <3>3
  <2>4. QED
    BY <1>3, <2>2, <2>3 DEF EndOK
<1>8. BudgetOK'
  BY <1>3, <1>4 DEF BudgetOK, StalenessBudget, SamplesTaken
<1>9. QED
  BY <1>5, <1>6, <1>7, <1>8

(* The trainer's steps that leave the rollouter and the queue alone. *)
LEMMA TrainerQuietStep ==
  ASSUME IInv, Train \/ StalenessReset \/ SaveCheckpoint
  PROVE  PartsOK'
<1> USE DEF IInv, PartsOK
<1>1. /\ UNCHANGED <<taken, proc, activeTasks, reaped, staleness, task, lock, reset, counted,
                     queue, dropped, ending, consumed, base>>
      /\ trainer # "resetting" \/ reset = "idle"
      /\ trainer' \in {"collect", "sync", "save", "stopped"}
      /\ \/ trainer = "train" /\ got' = 0
         \/ trainer \in {"resetting", "save"} /\ got' = got
      /\ trainer' = "collect" => ~ending
  BY DEF Train, StalenessReset, SaveCheckpoint, rollouterVars, feedVars, processorVars,
     pauseVars, resetVars, queueVars, historyVars
<1>2. /\ Completed' = Completed /\ Running' = Running /\ Lost' = Lost
      /\ Queued' = Queued /\ Out' = Out /\ Since' = Since /\ QueueFull' = QueueFull
      /\ Alive' = Alive /\ HasSample' = HasSample /\ InHand' = InHand
  BY <1>1 DEF Alive, HasSample, InHand, Completed, Running, Lost, Since, SamplesTaken,
     Queued, Out, QueueFull
<1>3. ProcessorOK'
  BY <1>1, <1>2 DEF ProcessorOK
<1>4. WaitsOK'
  BY <1>1, Params DEF WaitsOK, TypeOK
<1>5. TasksOK' /\ ActiveBound' /\ PlacesOK' /\ EndOK'
  BY <1>1, <1>2 DEF TasksOK, ActiveBound, PlacesOK, EndOK
<1>6. BudgetOK'
  BY <1>1, <1>2 DEF BudgetOK, StalenessBudget, SamplesTaken
<1>7. QED
  BY <1>3, <1>4, <1>5, <1>6

LEMMA UpdateWeightsInv ==
  ASSUME IInv, UpdateWeights
  PROVE  PartsOK'
<1> USE DEF IInv, PartsOK
<1>1. /\ UNCHANGED <<taken, proc, activeTasks, reaped, staleness, task, lock, counted,
                     queue, dropped, ending, got, consumed>>
      /\ trainer = "sync" /\ trainer' = "resetting" /\ reset = "idle" /\ reset' = "called"
      /\ base' = Cardinality(Out)
  BY DEF UpdateWeights, feedVars, processorVars, pauseVars, queueVars, Out
<1>2. /\ Completed' = Completed /\ Running' = Running /\ Lost' = Lost
      /\ Queued' = Queued /\ Out' = Out /\ QueueFull' = QueueFull
      /\ Alive' = Alive /\ HasSample' = HasSample
  BY <1>1 DEF Alive, HasSample, Completed, Running, Lost, Queued, Out, QueueFull
<1>3. ProcessorOK' /\ WaitsOK'
  BY <1>1, <1>2 DEF ProcessorOK, WaitsOK
<1>4. TasksOK' /\ ActiveBound' /\ PlacesOK' /\ EndOK'
  BY <1>1, <1>2 DEF TasksOK, ActiveBound, PlacesOK, EndOK
<1>5. BudgetOK'
  <2>1. /\ Cardinality(Out) \in Nat /\ base \in Nat /\ base' \in Nat /\ base <= base'
        /\ SamplesTaken \in Nat
        /\ SamplesTaken' = SamplesTaken /\ staleness \in Nat /\ MaxRequired \in Nat
    BY <1>1, OutIsSamples, Params DEF BudgetOK, TypeOK, RollouterTypeOK, SamplesTaken
  <2>2. Since' <= Since /\ Since' \in Int /\ Since \in Int
    BY <1>1, <2>1 DEF Since, SamplesTaken
  <2>3. QED
    BY <1>1, <1>2, <2>1, <2>2 DEF BudgetOK, StalenessBudget, Since
<1>6. QED
  BY <1>3, <1>4, <1>5

-----------------------------------------------------------------------------
(* The processor's steps, put together from the lemmas above. *)
LEMMA ProcessorInv ==
  ASSUME IInv, Processor, UNCHANGED <<trainerVars, historyVars>>
  PROVE  PartsOK'
<1> USE DEF IInv, PartsOK
<1>1. CASE CheckPause \/ StatisticsTaken \/ Pause
  BY <1>1, QuietStep DEF CheckPause, StatisticsTaken, Pause, Goto, Loop, ProcessorOK,
     feedVars, pauseVars, resetVars
<1>2. CASE DecidePause
  <2>1. proc' = "get" => Since <= MaxRequired
    <3>1. SUFFICES ASSUME proc' = "get"
                   PROVE  Since <= MaxRequired
      OBVIOUS
    <3>2. ~(staleness >= MaxRequired) /\ proc = "answered"
      BY <1>2, <3>1 DEF DecidePause, ShouldPause, Goto
    <3>3. Since <= staleness + 1
      BY <3>2 DEF BudgetOK, Alive
    <3>4. Since \in Int /\ staleness \in Nat /\ MaxRequired \in Nat
      BY Params DEF TypeOK, RollouterTypeOK, Since, SamplesTaken
    <3>5. QED
      BY <3>2, <3>3, <3>4
  <2>2. QED
    BY <1>2, <2>1, QuietStep DEF DecidePause, Goto, Loop, ProcessorOK,
       feedVars, pauseVars, resetVars
<1>3. CASE StopRunning
  BY <1>3, QuietStep DEF StopRunning, Goto, ProcessorOK, feedVars, pauseVars, resetVars
<1>4. CASE DrainWakes
  <2>1. /\ reaped' \subseteq Completed /\ (proc' # "reap" => reaped' = {})
        /\ proc = "drain" /\ proc' \in {"check", "reap"}
    BY <1>4 DEF DrainWakes, DoneActive, Goto
  <2>2. QED
    BY <1>4, <2>1, QuietStep DEF DrainWakes, Loop, feedVars, pauseVars, resetVars
<1>5. CASE DrainReaps
  <2>1. reaped \in SUBSET DoneActive
    BY DEF ProcessorOK, TypeOK, RollouterTypeOK, DoneActive
  <2>2. /\ proc = "reap" /\ activeTasks' = activeTasks \ reaped /\ reaped' = {}
        /\ UNCHANGED <<taken, staleness, task, reset, counted, queueVars>>
        /\ lock = "free" /\ lock' = lock
        /\ \/ proc' = "ended" /\ \E i \in reaped : task[i] = "failed"
           \/ /\ \A i \in reaped : task[i] # "failed"
              /\ proc' \in {"check", "drain"}
    BY <1>5 DEF DrainReaps, Goto, AfterReaping, feedVars, pauseVars, resetVars
  <2>3. QED
    BY <2>1, <2>2, Reaping
<1>6. CASE TaskReturns
  <2>1. /\ proc \in {"limitWait", "finalWait"} /\ lock = "proc" /\ reaped = {}
        /\ activeTasks' = activeTasks \ DoneActive /\ reaped' = {} /\ lock' = "free"
        /\ UNCHANGED <<taken, staleness, task, reset, counted, queueVars>>
        /\ \/ proc' = "ended" /\ \E i \in DoneActive : task[i] = "failed"
           \/ /\ \A i \in DoneActive : task[i] # "failed"
              /\ \/ proc = "limitWait" /\ proc' = "limit"
                 \/ proc = "finalWait" /\ proc' = "final"
    BY <1>6 DEF TaskReturns, Goto, AfterReaping, ProcessorOK, feedVars, resetVars
  <2>2. QED
    BY <2>1, Reaping
<1>7. QED
  BY <1>1, <1>2, <1>3, <1>4, <1>5, <1>6, TakeSampleInv, WaitForTaskInv, SubmitInv,
     ProcessorReturnsInv, PutEndInv DEF Processor

LEMMA RollouterInv ==
  ASSUME IInv, Rollouter, UNCHANGED <<trainerVars, historyVars>>
  PROVE  PartsOK'
<1>1. CASE Feed \/ Monitor
  <2>1. /\ UNCHANGED <<taken, task, activeTasks, staleness, counted, reset, lock, queueVars>>
        /\ proc' = proc /\ reaped' = reaped
    BY <1>1 DEF Feed, Monitor, MonitorAsks, MonitorDecides, MonitorResumes, MonitorStops,
       feedVars, processorVars, pauseVars, resetVars
  <2>2. QED
    BY <2>1, QuietStep DEF IInv, PartsOK, ProcessorOK
<1>2. QED
  BY <1>1, ProcessorInv, DeliverInv, TaskEndsInv, TaskRaisesInv, ResetInv DEF Rollouter, TaskStep

LEMMA TrainerInv ==
  ASSUME IInv, Trainer
  PROVE  PartsOK'
BY ReceiveSampleInv, ReceiveEndInv, TrainerQuietStep, UpdateWeightsInv DEF Trainer

(* Whoever changes `paused` changes `_resume_event` with it. *)
LEMMA ResumeEventInv ==
  ASSUME ResumeEventMeansRunning, Next
  PROVE  ResumeEventMeansRunning'
<1>1. Trainer => UNCHANGED <<paused, resumeEvent>>
  BY DEF Trainer, ReceiveSample, ReceiveEnd, Train, UpdateWeights, StalenessReset,
     SaveCheckpoint, rollouterVars, pauseVars
<1>2. Feed \/ (\E i \in Sample : TaskStep(i)) => UNCHANGED <<paused, resumeEvent>>
  BY DEF Feed, TaskStep, Deliver, TaskEnds, TaskRaises, pauseVars
<1>3. ResetStaleness \/ Monitor =>
        UNCHANGED <<paused, resumeEvent>> \/ (paused' = FALSE /\ resumeEvent' = TRUE)
  BY DEF ResetStaleness, ResetBegins, ResetCounts, ResetEnds,
     Monitor, MonitorAsks, MonitorDecides, MonitorResumes, MonitorStops, pauseVars
<1>4. Processor =>
        UNCHANGED <<paused, resumeEvent>> \/ (paused' = TRUE /\ resumeEvent' = FALSE)
  BY DEF Processor, CheckPause, StatisticsTaken, DecidePause, Pause, DrainWakes,
     DrainReaps, TakeSample, WaitForTask, TaskReturns, Submit, ProcessorReturns, PutEnd,
     StopRunning, pauseVars
<1>5. Terminated => UNCHANGED <<paused, resumeEvent>>
  BY DEF Terminated, vars, rollouterVars, pauseVars
<1>6. \/ paused' = paused /\ resumeEvent' = resumeEvent
      \/ paused' = FALSE /\ resumeEvent' = TRUE
      \/ paused' = TRUE /\ resumeEvent' = FALSE
  BY <1>1, <1>2, <1>3, <1>4, <1>5 DEF Next, Rollouter
<1>7. CASE paused' = paused /\ resumeEvent' = resumeEvent
  BY <1>7, Zenon DEF ResumeEventMeansRunning
<1>8. CASE \/ paused' = FALSE /\ resumeEvent' = TRUE
           \/ paused' = TRUE /\ resumeEvent' = FALSE
  BY <1>8 DEF ResumeEventMeansRunning
<1>9. QED
  BY <1>6, <1>7, <1>8

LEMMA InitIInv == Init => IInv
<1> SUFFICES ASSUME Init
             PROVE  IInv
  OBVIOUS
<1> USE DEF Init, RollouterInit, QueueInit
<1>1. TypeOK
  <2>1. RollouterTypeOK
    <3>1. queue \in Seq(Sample \cup {EndMark}) /\ Len(queue) = 0
      OBVIOUS
    <3>2. task \in [Sample -> {"none", "running", "sent", "done", "failed"}]
      OBVIOUS
    <3>3. fed \in 0 .. LastFed /\ taken \in 0 .. fed
      BY Params
    <3>4. /\ dropped \subseteq Sample \cup {EndMark} /\ Len(queue) <= MaxQueueSize
          /\ activeTasks \subseteq Sample /\ reaped \subseteq activeTasks
          /\ staleness \in Nat /\ counted \in Nat
      BY <3>1, Params
    <3>5. QED
      BY <3>1, <3>2, <3>3, <3>4 DEF RollouterTypeOK
  <2>2. /\ got \in 0 .. Required /\ local \in 1 .. Trigger /\ base \in 0 .. Total
        /\ version \in Nat /\ lastCkpt \in 0 .. version
        /\ steps \in Nat /\ saved \in 0 .. steps
    BY Params
  <2>3. QED
    BY <2>1, <2>2 DEF TypeOK
<1>2. ResumeEventMeansRunning
  BY DEF ResumeEventMeansRunning
<1>3. /\ Completed = {} /\ Running = {} /\ Queued = {} /\ Out = {}
      /\ Alive /\ ~HasSample /\ SamplesTaken = 0 /\ Cardinality({}) = 0
  BY Params, FS_EmptySet DEF Completed, Running, Queued, Out, Alive, HasSample, SamplesTaken
<1>4. ProcessorOK /\ WaitsOK
  BY <1>3, Params DEF ProcessorOK, WaitsOK
<1>5. TasksOK
  BY <1>3, Params DEF TasksOK
<1>6. ActiveBound /\ PlacesOK
  BY <1>3, Params DEF ActiveBound, PlacesOK
<1>7. EndOK
  BY <1>3 DEF EndOK
<1>8. BudgetOK
  BY <1>3, Params DEF BudgetOK, StalenessBudget, Since
<1>9. QED
  BY <1>1, <1>2, <1>4, <1>5, <1>6, <1>7, <1>8 DEF IInv, PartsOK

(* IInv holds in every reachable state. *)
THEOREM Invariance == Spec => []IInv
<1>1. IInv /\ [Next]_vars => IInv'
  <2>1. SUFFICES ASSUME IInv, [Next]_vars
                 PROVE  IInv'
    OBVIOUS
  <2>2. CASE Trainer
    <3>1. TypeOK'
      BY <2>1, <2>2, TrainerType
    <3>2. ResumeEventMeansRunning'
      BY <2>1, <2>2, ResumeEventInv DEF IInv, Next
    <3>3. PartsOK'
      BY <2>1, <2>2, TrainerInv
    <3>4. QED
      BY <3>1, <3>2, <3>3 DEF IInv
  <2>3. CASE Rollouter /\ UNCHANGED <<trainerVars, historyVars>>
    <3>1. TypeOK'
      BY <2>1, <2>3, RollouterType
    <3>2. ResumeEventMeansRunning'
      BY <2>1, <2>3, ResumeEventInv DEF IInv, Next
    <3>3. PartsOK'
      BY <2>1, <2>3, RollouterInv
    <3>4. QED
      BY <3>1, <3>2, <3>3 DEF IInv
  <2>4. CASE UNCHANGED vars
    <3>1. /\ UNCHANGED <<rollouterVars, queueVars, trainerVars, historyVars>>
          /\ UNCHANGED <<feedVars, processorVars, task, pauseVars, resetVars, monitor, running>>
      BY <2>4 DEF vars, rollouterVars
    <3>2. TypeOK' /\ ResumeEventMeansRunning'
      BY <2>1, <3>1 DEF IInv, TypeOK, RollouterTypeOK, ResumeEventMeansRunning, feedVars,
         processorVars, pauseVars, resetVars, queueVars, trainerVars, historyVars
    <3>3. PartsOK'
      BY <2>1, <3>1, QuietStep DEF IInv, PartsOK, ProcessorOK, feedVars, processorVars,
         pauseVars, resetVars
    <3>4. QED
      BY <3>2, <3>3 DEF IInv
  <2>5. QED
    BY <2>1, <2>2, <2>3, <2>4 DEF Next, Terminated
<1>2. QED
  BY <1>1, InitIInv, PTL DEF Spec

(* Every variable of the rollouter, the queue and the trainer has its      *)
(* type: the queue never outgrows its capacity, the trainer never collects *)
(* more samples than a step needs.                                         *)
THEOREM TypeCorrect == Spec => []TypeOK
<1>1. IInv => TypeOK
  BY DEF IInv
<1>2. QED
  BY <1>1, Invariance, PTL

(* The resume event says what its comment says: `paused` is FALSE.         *)
THEOREM ResumeEvent == Spec => []ResumeEventMeansRunning
<1>1. IInv => ResumeEventMeansRunning
  BY DEF IInv
<1>2. QED
  BY <1>1, Invariance, PTL

(* At most max_concurrent_samples are being generated, whatever is paused, *)
(* drained or reset meanwhile.                                             *)
THEOREM Concurrency == Spec => []ConcurrencyBound
<1>1. IInv => ConcurrencyBound
  <2>1. SUFFICES ASSUME IInv
                 PROVE  Cardinality(Running) <= MaxConcurrent
    BY DEF ConcurrencyBound
  <2>2. Running \subseteq activeTasks /\ activeTasks \subseteq Sample
    BY <2>1 DEF IInv, PartsOK, TasksOK, Running, TypeOK, RollouterTypeOK
  <2>3. /\ Cardinality(Running) \in Nat /\ Cardinality(activeTasks) \in Nat
        /\ Cardinality(Running) <= Cardinality(activeTasks)
    BY <2>2, Fewer
  <2>4. QED
    BY <2>1, <2>3, Params DEF IInv, PartsOK, ActiveBound
<1>2. QED
  BY <1>1, Invariance, PTL

(* No sample is trained on twice, none vanishes: each one taken is in one  *)
(* place of the pipeline.                                                  *)
THEOREM SamplesOnce == Spec => []EverySampleOnce
<1>1. IInv => EverySampleOnce
  <2>1. SUFFICES ASSUME IInv
                 PROVE  EverySampleOnce
    OBVIOUS
  <2> USE <2>1 DEF IInv, PartsOK
  <2> DEFINE places == <<Held, Running, Queued, consumed, dropped \ {EndMark}, Lost>>
  <2>2. Len(queue) = Cardinality({ queue[k] : k \in DOMAIN queue })
    BY QueueCounted
  <2>3. /\ Queued \subseteq Sample /\ consumed \subseteq Sample
        /\ dropped \ {EndMark} \subseteq Sample
    BY DEF Queued, TypeOK, RollouterTypeOK
  <2>4. /\ \A i \in Held : task[i] = "none"
        /\ \A i \in Running : task[i] = "running"
        /\ \A i \in Queued : task[i] \in {"sent", "done"} /\ i \notin consumed /\ i \notin dropped
        /\ \A i \in consumed : task[i] \in {"sent", "done"} /\ i \notin dropped
        /\ \A i \in dropped \ {EndMark} : task[i] \in {"sent", "done"}
        /\ \A i \in Lost : task[i] = "failed"
    BY <2>3, Params DEF PlacesOK, Out, Held, Running, Lost
  <2>5. \A j, k \in DOMAIN places : j # k => places[j] \cap places[k] = {}
    BY <2>4
  <2>6. 1 .. SamplesTaken \subseteq UNION { places[k] : k \in DOMAIN places }
    <3>1. SUFFICES ASSUME NEW i \in 1 .. SamplesTaken
                   PROVE  \E k \in DOMAIN places : i \in places[k]
      OBVIOUS
    <3>2. i \in Sample /\ i <= taken /\ taken \in Nat
      BY Params DEF SamplesTaken, TypeOK, RollouterTypeOK
    <3>3. i = taken \/ task[i] # "none"
      BY <3>2 DEF TasksOK
    <3>4. \/ i \in Held \/ i \in Running \/ i \in Queued \/ i \in consumed
          \/ i \in dropped \ {EndMark} \/ i \in Lost
      BY <3>2, <3>3 DEF Held, Running, Lost, PlacesOK, Out, TypeOK, RollouterTypeOK
    <3>5. QED
      BY <3>4
  <2>7. QED
    BY <2>2, <2>5, <2>6 DEF EverySampleOnce
<1>2. QED
  BY <1>1, Invariance, PTL

(* Once the end mark has been put, no sample is still to come, unless a    *)
(* generation has failed.                                                  *)
THEOREM EndComplete == Spec => []EndIsComplete
<1>1. IInv => EndIsComplete
  <2>1. SUFFICES ASSUME IInv, Lost = {},
                        EndMark \in { queue[k] : k \in DOMAIN queue } \/ ending,
                        NEW i \in Sample
                 PROVE  i \in Queued \cup consumed \cup dropped
    BY DEF EndIsComplete
  <2>2. DOMAIN queue = 1 .. Len(queue)
    BY <2>1 DEF IInv, TypeOK, RollouterTypeOK
  <2>3. ~Alive
    BY <2>1, <2>2 DEF IInv, PartsOK, EndOK, Alive
  <2>4. task[i] \in {"sent", "done"}
    BY <2>1, <2>3 DEF IInv, PartsOK, EndOK
  <2>5. QED
    BY <2>1, <2>4 DEF IInv, PartsOK, PlacesOK, Out
<1>2. QED
  BY <1>1, Invariance, PTL

(* The end mark is never pushed out of the queue, by none of the tasks a   *)
(* failed processor leaves behind: MaxConcurrent is at most the capacity.  *)
THEOREM EndMarkKept == Spec => []EndMarkSurvives
<1>1. IInv => EndMarkSurvives
  BY DEF IInv, PartsOK, EndOK, EndMarkSurvives
<1>2. QED
  BY <1>1, Invariance, PTL

(* Between two updates of the weights the rollouter takes max_required     *)
(* samples and at most one more, those outstanding at the update included. *)
THEOREM Budget == Spec => []StalenessBudget
<1>1. IInv => StalenessBudget
  BY DEF IInv, PartsOK, BudgetOK
<1>2. QED
  BY <1>1, Invariance, PTL

=============================================================================
