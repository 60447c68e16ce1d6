---------------------------- MODULE MessageQueue ----------------------------
(***************************************************************************)
(* The MessageQueue actor between the rollouter and the trainer of the     *)
(* fully asynchronous policy.  Each of its methods runs under one asyncio  *)
(* lock without awaiting anything else, so each is one step.  A client     *)
(* call is a round trip: the caller acts on the reply in a later step of   *)
(* its own.                                                                *)
(***************************************************************************)
EXTENDS Naturals, Sequences

CONSTANT
  MaxQueueSize   \* capacity: rollouter.get_max_queue_size()

ASSUME QueueSizeOK == MaxQueueSize \in Nat \ {0}

VARIABLES
  queue,         \* self.queue, oldest first
  dropped        \* the samples put_sample has thrown away

queueVars == <<queue, dropped>>

EndMark == 0     \* put_sample(sample=None), the end of the stream

QueueInit ==
  /\ queue = <<>>
  /\ dropped = {}

QueueFull == Len(queue) >= MaxQueueSize

(* A full queue drops its oldest sample to make room. *)
PutSample(x) ==
  IF QueueFull
    THEN /\ dropped' = dropped \cup {Head(queue)}
         /\ queue' = Append(Tail(queue), x)
    ELSE /\ queue' = Append(queue, x)
         /\ UNCHANGED dropped

(* get_sample waits until there is a sample. *)
GetSample(x) ==
  /\ queue # <<>>
  /\ x = Head(queue)
  /\ queue' = Tail(queue)
  /\ UNCHANGED dropped
=============================================================================
