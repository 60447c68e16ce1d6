--------------------------- MODULE WeightTransfer ---------------------------
(* One transfer of the weights from the trainer to the inference workers:   *)
(*                                                                          *)
(*   trainer rank 0           rollout rank                inference worker  *)
(*   split_weight_chunks      receive_weights,            BucketedWeight-   *)
(*   NCCL send_weights   -->  merge_weight_chunks,   -->  Receiver, loads   *)
(*                            BucketedWeightSender                          *)
(*                                                                          *)
(* The first arrow is a broadcast of buckets: trainer and ranks have two    *)
(* buffers each, one being filled or read while the other is broadcast by   *)
(* a thread of the executor.  The second is one buffer shared between two   *)
(* processes, handed over by a request and its reply.  All copies on a GPU  *)
(* are queued (one stream per process) and happen later, in order; only     *)
(* synchronize waits for them.                                              *)
(*                                                                          *)
(* Memory is counted in units; unit i of weight w is <<w, i>>.              *)
EXTENDS Integers, Sequences

CONSTANTS
  Ranks,    \* rollout ranks, each with its inference worker
  Bucket,   \* bucket_size of both stages
  Sizes,    \* set of sequences: the sizes of the weights, in sending order
  Junk      \* contents of memory nobody has written

ASSUME TransferAssumption ==
  /\ Ranks # {}
  /\ Bucket \in Nat \ {0}
  /\ \A s \in Sizes : s \in Seq(Nat \ {0})

VARIABLES
  size,   \* the weights of this transfer: sequence of sizes
  snd,    \* trainer rank 0: coroutine send_weights and its stream
  cast,   \* its BroadcastOperation, in the executor
  rcv,    \* rank -> coroutine of receive_weights and async_send_weights
  recvop, \* rank -> its BroadcastOperation
  sub,    \* rank -> metadata published and not yet read (ZMQ SUB)
  wk      \* rank -> its inference worker

vars == <<size, snd, cast, rcv, recvop, sub, wk>>

-----------------------------------------------------------------------------
(* Pieces of memory                                                         *)

Units(w, from, n) == [i \in 1..n |-> <<w, from + i>>]
Blank == [i \in 1..Bucket |-> Junk]

\* mem with data at offset at
Write(mem, at, data) ==
  [i \in DOMAIN mem |->
     IF i > at /\ i <= at + Len(data) THEN data[i - at] ELSE mem[i]]

Read(mem, at, n) == [i \in 1..n |-> mem[at + i]]

NoOp == [st |-> "none", buf |-> 0, meta |-> <<>>, last |-> FALSE]

-----------------------------------------------------------------------------
(* Trainer rank 0.  queue is what its stream has still to copy.             *)

\* split_weight_chunks yields every weight in pieces of at most a bucket:
\* the piece it stands at, snd.at units into weight snd.name.
MoreChunks == snd.name <= Len(size)
NextChunk ==
  LET rest == size[snd.name] - snd.at
  IN  [name |-> snd.name, chunkOffset |-> snd.at,
       n |-> IF rest < Bucket THEN rest ELSE Bucket]

\* Faulty variant: off by one.
FitsOneMore == MoreChunks /\ snd.offset + NextChunk.n <= Bucket + 1

Fits == MoreChunks /\ snd.offset + NextChunk.n <= Bucket

FillBucket ==
  LET c == NextChunk
      whole == c.chunkOffset + c.n = size[c.name]
  IN
  /\ snd.pc = "fill" /\ Fits
  /\ snd' = [snd EXCEPT
       !.name = IF whole THEN @ + 1 ELSE @,
       !.at = IF whole THEN 0 ELSE @ + c.n,
       !.offset = @ + c.n,
       !.meta = Append(@, [name |-> c.name, chunkOffset |-> c.chunkOffset,
                           n |-> c.n, offset |-> snd.offset]),
       !.queue = Append(@, [buf |-> snd.fill, at |-> snd.offset,
                            data |-> Units(c.name, c.chunkOffset, c.n)])]
  /\ UNCHANGED <<size, cast, rcv, recvop, sub, wk>>

SenderCopy ==
  /\ snd.queue # <<>>
  /\ LET c == Head(snd.queue) IN
     snd' = [snd EXCEPT !.queue = Tail(@),
                        !.mem[c.buf] = Write(@, c.at, c.data)]
  /\ UNCHANGED <<size, cast, rcv, recvop, sub, wk>>

\* Faulty variant: the broadcast starts before the copies are synchronized.
FlushUnsynchronized ==
  LET last == ~MoreChunks IN
  /\ snd.pc = "fill" /\ ~Fits
  /\ cast.st \in {"none", "done"}
  /\ cast' = [st |-> "publish", buf |-> snd.fill, meta |-> snd.meta, last |-> last]
  /\ snd' = [snd EXCEPT !.fill = 1 - @, !.offset = 0, !.meta = <<>>,
                        !.pc = IF last THEN "finish" ELSE "fill"]
  /\ UNCHANGED <<size, rcv, recvop, sub, wk>>

\* The bucket is full, or was the last: synchronize, wait for the broadcast
\* of the other buffer, start this one's and swap.
FlushBucket ==
  LET last == ~MoreChunks IN
  /\ snd.pc = "fill" /\ ~Fits
  /\ snd.queue = <<>>
  /\ cast.st \in {"none", "done"}
  /\ cast' = [st |-> "publish", buf |-> snd.fill, meta |-> snd.meta, last |-> last]
  /\ snd' = [snd EXCEPT !.fill = 1 - @, !.offset = 0, !.meta = <<>>,
                        !.pc = IF last THEN "finish" ELSE "fill"]
  /\ UNCHANGED <<size, rcv, recvop, sub, wk>>

EndSend ==
  /\ snd.pc = "finish" /\ cast.st = "done"
  /\ snd' = [snd EXCEPT !.pc = "end"]
  /\ UNCHANGED <<size, cast, rcv, recvop, sub, wk>>

-----------------------------------------------------------------------------
(* BroadcastOperation._run, in a thread: the metadata go through PUB/SUB,   *)
(* the bucket through a collective that all ranks have to enter.            *)

Publish ==
  /\ cast.st = "publish"
  /\ cast' = [cast EXCEPT !.st = "broadcast"]
  /\ sub' = [r \in Ranks |-> Append(sub[r], [meta |-> cast.meta, last |-> cast.last])]
  /\ UNCHANGED <<size, snd, rcv, recvop, wk>>

RecvMetadata(r) ==
  /\ recvop[r].st = "publish" /\ sub[r] # <<>>
  /\ recvop' = [recvop EXCEPT ![r].st = "broadcast",
                              ![r].meta = Head(sub[r]).meta,
                              ![r].last = Head(sub[r]).last]
  /\ sub' = [sub EXCEPT ![r] = Tail(@)]
  /\ UNCHANGED <<size, snd, cast, rcv, wk>>

Broadcast ==
  /\ cast.st = "broadcast" /\ \A r \in Ranks : recvop[r].st = "broadcast"
  /\ rcv' = [r \in Ranks |->
               [rcv[r] EXCEPT !.mem[recvop[r].buf] = snd.mem[cast.buf]]]
  /\ cast' = [cast EXCEPT !.st = "done"]
  /\ recvop' = [r \in Ranks |-> [recvop[r] EXCEPT !.st = "done"]]
  /\ UNCHANGED <<size, snd, sub, wk>>

-----------------------------------------------------------------------------
(* Rollout rank: the generators _receive_weight_chunks and                  *)
(* merge_weight_chunks, driven by the loop of async_send_weights.  pc is    *)
(*   "wait"    the next bucket is being received                            *)
(*   "chunk"   about to ask the generators for a weight                     *)
(*   "emit"    the loop has weight w                                        *)
(*   "last"    there are no more weights                                    *)
(*   "reply"   blocked until the worker replies                             *)
(*   "end"                                                                  *)

NoWeight == [name |-> 0, n |-> 0, at |-> 0]
NoMerge == [name |-> 0, got |-> 0, mem |-> <<>>]

\* The buffer whose weights are read: the one not being received into
ReadBuf(r) == 1 - rcv[r].recv

\* Faulty variant: the next bucket is received while the last is copied out.
TakeBucketEarly(r) ==
  /\ rcv[r].pc = "wait" /\ recvop[r].st = "done"
  /\ rcv' = [rcv EXCEPT ![r].recv = 1 - @, ![r].pc = "chunk", ![r].next = 1,
                        ![r].meta = recvop[r].meta, ![r].last = recvop[r].last]
  /\ recvop' = [recvop EXCEPT ![r] =
       IF recvop[r].last THEN NoOp
       ELSE [NoOp EXCEPT !.st = "publish", !.buf = 1 - rcv[r].recv]]
  /\ UNCHANGED <<size, snd, cast, sub, wk>>

\* The bucket is complete and the copies from the other buffer are done:
\* swap, and start to receive the next one.
TakeBucket(r) ==
  /\ rcv[r].pc = "wait" /\ recvop[r].st = "done"
  /\ rcv[r].queue = <<>>
  /\ rcv' = [rcv EXCEPT ![r].recv = 1 - @, ![r].pc = "chunk", ![r].next = 1,
                        ![r].meta = recvop[r].meta, ![r].last = recvop[r].last]
  /\ recvop' = [recvop EXCEPT ![r] =
       IF recvop[r].last THEN NoOp
       ELSE [NoOp EXCEPT !.st = "publish", !.buf = 1 - rcv[r].recv]]
  /\ UNCHANGED <<size, snd, cast, sub, wk>>

HasChunk(r) == rcv[r].pc = "chunk" /\ rcv[r].next <= Len(rcv[r].meta)
NextOf(r) == rcv[r].meta[rcv[r].next]

\* A weight of at most a bucket is a view of the buffer it arrived in.
SmallWeight(r) ==
  LET c == NextOf(r) IN
  /\ HasChunk(r) /\ size[c.name] <= Bucket
  /\ rcv' = [rcv EXCEPT ![r].next = @ + 1, ![r].pc = "emit",
                        ![r].w = [name |-> c.name, n |-> c.n, at |-> c.offset]]
  /\ UNCHANGED <<size, snd, cast, recvop, sub, wk>>

\* A larger one is copied together, and passed on when its last chunk is.
LargeWeight(r) ==
  LET c == NextOf(r)
      m == IF rcv[r].merge.name = 0
           THEN [name |-> c.name, got |-> 0, mem |-> [i \in 1..size[c.name] |-> Junk]]
           ELSE rcv[r].merge
      whole == c.chunkOffset + c.n = size[c.name]
  IN
  /\ HasChunk(r) /\ size[c.name] > Bucket
  /\ rcv' = [rcv EXCEPT
       ![r].next = @ + 1,
       ![r].merge = [m EXCEPT !.got = @ + c.n],
       ![r].queue = Append(@, [to |-> "merge", at |-> c.chunkOffset,
                               buf |-> ReadBuf(r), from |-> c.offset, n |-> c.n]),
       ![r].w = IF whole THEN [name |-> m.name, n |-> size[m.name], at |-> 0] ELSE @,
       ![r].pc = IF whole THEN "emit" ELSE @]
  /\ UNCHANGED <<size, snd, cast, recvop, sub, wk>>

\* Faulty variant: is_last is not looked at.
EndOfBucketWaits(r) ==
  /\ rcv[r].pc = "chunk" /\ rcv[r].next > Len(rcv[r].meta)
  /\ rcv' = [rcv EXCEPT ![r].pc = "wait"]
  /\ UNCHANGED <<size, snd, cast, recvop, sub, wk>>

EndOfBucket(r) ==
  /\ rcv[r].pc = "chunk" /\ rcv[r].next > Len(rcv[r].meta)
  /\ rcv' = [rcv EXCEPT ![r].pc = IF rcv[r].last THEN "last" ELSE "wait"]
  /\ UNCHANGED <<size, snd, cast, recvop, sub, wk>>

\* The stream of the rank does its oldest copy.
RankCopy(r) ==
  /\ rcv[r].queue # <<>>
  /\ LET c == Head(rcv[r].queue)
         data == Read(rcv[r].mem[c.buf], c.from, c.n)
         q == [rcv[r] EXCEPT !.queue = Tail(@)]
     IN rcv' = [rcv EXCEPT ![r] = IF c.to = "merge"
                                  THEN [q EXCEPT !.merge.mem = Write(@, c.at, data)]
                                  ELSE [q EXCEPT !.shared = Write(@, c.at, data)]]
  /\ UNCHANGED <<size, snd, cast, recvop, sub, wk>>

-----------------------------------------------------------------------------
(* BucketedWeightSender.async_send_weights at the rank                      *)

FitsShared(r) == rcv[r].offset + rcv[r].w.n <= Bucket

PackWeight(r) ==
  LET w == rcv[r].w IN
  /\ rcv[r].pc = "emit" /\ FitsShared(r)
  /\ rcv' = [rcv EXCEPT
       ![r].pc = "chunk", ![r].w = NoWeight,
       ![r].packed = Append(@, [name |-> w.name, n |-> w.n, offset |-> rcv[r].offset]),
       ![r].offset = @ + w.n,
       ![r].queue = Append(@, [to |-> "shared", at |-> rcv[r].offset,
                               buf |-> ReadBuf(r), from |-> w.at, n |-> w.n])]
  /\ UNCHANGED <<size, snd, cast, recvop, sub, wk>>

\* socket.send_pyobj, then socket.recv
Request(r, meta, direct, last) ==
  wk' = [wk EXCEPT ![r].st = "load", ![r].meta = meta, ![r].direct = direct,
                   ![r].last = last]

\* synchronize, and hand the shared buffer over
SendShared(r) ==
  /\ \/ rcv[r].pc = "emit" /\ ~FitsShared(r) /\ rcv[r].packed # <<>>
     \/ rcv[r].pc = "last"
  /\ rcv[r].queue = <<>>
  /\ Request(r, rcv[r].packed, FALSE, rcv[r].pc = "last")
  /\ rcv' = [rcv EXCEPT ![r].pc = "reply", ![r].packed = <<>>, ![r].offset = 0]
  /\ UNCHANGED <<size, snd, cast, recvop, sub>>

\* A weight larger than the shared buffer is sent by a handle to its memory.
SendDirect(r) ==
  LET w == rcv[r].w IN
  /\ rcv[r].pc = "emit" /\ ~FitsShared(r) /\ rcv[r].packed = <<>>
  /\ Request(r, <<[name |-> w.name, n |-> w.n, offset |-> 0]>>, TRUE, FALSE)
  /\ rcv' = [rcv EXCEPT ![r].pc = "reply", ![r].w = NoWeight]
  /\ UNCHANGED <<size, snd, cast, recvop, sub>>

\* Faulty variant: the merge state of a large weight is kept.
TakeReplyKeepsMerge(r) ==
  /\ rcv[r].pc = "reply" /\ wk[r].st = "replied"
  /\ wk' = [wk EXCEPT ![r].st = IF wk[r].last THEN "end" ELSE "idle"]
  /\ rcv' = [rcv EXCEPT ![r].pc =
       IF rcv[r].w # NoWeight THEN "emit" ELSE IF wk[r].last THEN "end" ELSE "chunk"]
  /\ UNCHANGED <<size, snd, cast, recvop, sub>>

TakeReply(r) ==
  /\ rcv[r].pc = "reply" /\ wk[r].st = "replied"
  /\ wk' = [wk EXCEPT ![r].st = IF wk[r].last THEN "end" ELSE "idle"]
  /\ rcv' = [rcv EXCEPT
       ![r].pc = IF rcv[r].w # NoWeight THEN "emit" ELSE IF wk[r].last THEN "end" ELSE "chunk",
       ![r].merge = IF wk[r].direct THEN NoMerge ELSE @]
  /\ UNCHANGED <<size, snd, cast, recvop, sub>>

-----------------------------------------------------------------------------
(* Inference worker: load what the message names, synchronize, reply.  The  *)
(* handle of a direct weight makes its reader wait for the copies queued    *)
(* before it was made (torch's IPC event); the shared buffer has no such    *)
(* event.                                                                   *)

Load(r) ==
  /\ wk[r].st = "load"
  /\ wk[r].direct => rcv[r].queue = <<>>
  /\ LET mem == IF wk[r].direct THEN rcv[r].merge.mem ELSE rcv[r].shared
         arrived == [i \in DOMAIN wk[r].meta |->
                       LET m == wk[r].meta[i]
                       IN  [name |-> m.name, data |-> Read(mem, m.offset, m.n)]]
     IN wk' = [wk EXCEPT ![r].st = "replied", ![r].loaded = @ \o arrived]
  /\ UNCHANGED <<size, snd, cast, rcv, recvop, sub>>

-----------------------------------------------------------------------------
Init ==
  /\ size \in Sizes
  /\ snd = [pc |-> "fill", name |-> 1, at |-> 0, fill |-> 0, offset |-> 0, meta |-> <<>>,
            mem |-> [b \in 0..1 |-> Blank], queue |-> <<>>]
  /\ cast = NoOp
  /\ rcv = [r \in Ranks |->
              [pc |-> "wait", recv |-> 0, next |-> 1, meta |-> <<>>, last |-> FALSE,
               mem |-> [b \in 0..1 |-> Blank], queue |-> <<>>, merge |-> NoMerge,
               w |-> NoWeight, shared |-> Blank, offset |-> 0, packed |-> <<>>]]
  /\ recvop = [r \in Ranks |-> [NoOp EXCEPT !.st = "publish"]]
  /\ sub = [r \in Ranks |-> <<>>]
  /\ wk = [r \in Ranks |-> [st |-> "idle", meta |-> <<>>, direct |-> FALSE,
                            last |-> FALSE, loaded |-> <<>>]]

Trainer == FillBucket \/ FlushBucket \/ EndSend
Rank(r) ==
  \/ TakeBucket(r) \/ SmallWeight(r) \/ LargeWeight(r) \/ EndOfBucket(r)
  \/ PackWeight(r) \/ SendShared(r) \/ SendDirect(r) \/ TakeReply(r)
Executors == Publish \/ Broadcast \/ \E r \in Ranks : RecvMetadata(r)

Ended ==
  /\ snd.pc = "end"
  /\ \A r \in Ranks : rcv[r].pc = "end" /\ wk[r].st = "end"

Next ==
  \/ Trainer \/ SenderCopy \/ Executors
  \/ \E r \in Ranks : Rank(r) \/ RankCopy(r) \/ Load(r)

Spec == Init /\ [][Next]_vars

\* Coroutines and threads are scheduled, and the streams make progress.  No
\* step can repeat without another part of the transfer being behind it, so
\* fairness of the whole is enough.
FairSpec == Spec /\ WF_vars(Next)

-----------------------------------------------------------------------------
(* Properties                                                               *)

Memory == {Junk} \cup (Nat \X Nat)
Bytes == [1..Bucket -> Memory]
Chunk == [name : Nat, chunkOffset : Nat, n : Nat, offset : Nat]
Packed == [name : Nat, n : Nat, offset : Nat]
Operation == [st : {"none", "publish", "broadcast", "done"}, buf : 0..1,
              meta : Seq(Chunk), last : BOOLEAN]
Sender ==
  [pc : {"fill", "finish", "end"}, name : Nat, at : Nat, fill : 0..1,
   offset : 0..Bucket, meta : Seq(Chunk), mem : [0..1 -> Bytes],
   queue : Seq([buf : 0..1, at : Nat, data : Seq(Memory)])]
Receiver ==
  [pc : {"wait", "chunk", "emit", "last", "reply", "end"}, recv : 0..1, next : Nat,
   meta : Seq(Chunk), last : BOOLEAN, mem : [0..1 -> Bytes],
   queue : Seq([to : {"merge", "shared"}, at : Nat, buf : 0..1, from : Nat, n : Nat]),
   merge : [name : Nat, got : Nat, mem : Seq(Memory)],
   w : [name : Nat, n : Nat, at : Nat],
   shared : Bytes, offset : 0..Bucket, packed : Seq(Packed)]
Worker ==
  [st : {"idle", "load", "replied", "end"}, meta : Seq(Packed), direct : BOOLEAN,
   last : BOOLEAN, loaded : Seq([name : Nat, data : Seq(Memory)])]

\* The types; no bucket, and no shared buffer, is filled beyond its size.
TypeOK ==
  /\ size \in Sizes
  /\ snd \in Sender
  /\ cast \in Operation
  /\ rcv \in [Ranks -> Receiver]
  /\ recvop \in [Ranks -> Operation]
  /\ sub \in [Ranks -> Seq([meta : Seq(Chunk), last : BOOLEAN])]
  /\ wk \in [Ranks -> Worker]

\* What a worker has loaded at any time is the first weights, in order, each
\* once, whole and with the trainer's contents; at the end it is all of them
\* (send_weights, _receive_weight_chunks, async_send_weights,
\* receive_weights).
LoadedIsSent ==
  \A r \in Ranks :
    LET l == wk[r].loaded IN
    /\ Len(l) <= Len(size) /\ (wk[r].st = "end" => Len(l) = Len(size))
    /\ \A w \in DOMAIN l : l[w] = [name |-> w, data |-> Units(w, 0, size[w])]

\* No memory is written while it is read: no copy is queued into a buffer
\* being broadcast, out of one being received into, or into the shared buffer
\* while the worker loads from it (the waits and synchronize calls).
NoDataRace ==
  /\ cast.st \in {"publish", "broadcast"} =>
       \A i \in DOMAIN snd.queue : snd.queue[i].buf # cast.buf
  /\ \A r \in Ranks : \A i \in DOMAIN rcv[r].queue :
       LET c == rcv[r].queue[i] IN
       /\ recvop[r].st = "broadcast" => c.buf # recvop[r].buf
       /\ wk[r].st = "load" /\ ~wk[r].direct => c.to # "shared"

\* The assertions of merge_weight_chunks and send_weights: a weight is merged
\* from consecutive chunks, none of another comes between them, and a bucket
\* holds no two chunks of one weight.
AssertionsHold ==
  /\ \A i, j \in DOMAIN snd.meta : i # j => snd.meta[i].name # snd.meta[j].name
  /\ \A r \in Ranks : HasChunk(r) =>
       LET c == NextOf(r)
           m == rcv[r].merge
       IN  IF size[c.name] <= Bucket THEN m.name = 0
           ELSE IF m.name = 0 THEN c.chunkOffset = 0
           ELSE m.name = c.name /\ m.got = c.chunkOffset

\* The transfer ends, at the trainer and at every rank and worker: nobody
\* waits for a broadcast, a reply or a bucket that does not come.
TransferEnds == <>Ended
=============================================================================
