----------------------- MODULE WeightTransfer_proofs -----------------------
(* TLAPS proofs about WeightTransfer, for any weights, bucket size and      *)
(* ranks.                                                                   *)
EXTENDS WeightTransfer, SequenceTheorems, TLAPS

-----------------------------------------------------------------------------
(* The stream of pieces.  A position in it is a weight and an offset into   *)
(* it.  z is the sequence of sizes.                                         *)

Start(c) == <<c.name, c.chunkOffset>>
After(z, c) == IF c.chunkOffset + c.n = z[c.name] THEN <<c.name + 1, 0>>
               ELSE <<c.name, c.chunkOffset + c.n>>
EndOfAll(z) == <<Len(z) + 1, 0>>

(* Where piece i of meta starts, or else what follows meta. *)
At(meta, i, e) == IF i <= Len(meta) THEN Start(meta[i]) ELSE e

IsChunk(z, c) ==
  /\ c.name \in DOMAIN z
  /\ c.n > 0 /\ c.chunkOffset + c.n <= z[c.name]
  /\ z[c.name] <= Bucket => c.chunkOffset = 0 /\ c.n = z[c.name]
  /\ c.offset + c.n <= Bucket

(* The pieces of a bucket follow one another, up to position e. *)
Run(z, meta, e) ==
  \A i \in DOMAIN meta : IsChunk(z, meta[i]) /\ After(z, meta[i]) = At(meta, i + 1, e)

(* n units of a weight lie at an offset of a memory; a buffer has what its  *)
(* metadata name.                                                           *)
Has(mem, at, w, from, n) == \A k \in 1 .. n : mem[at + k] = <<w, from + k>>
HasPiece(mem, c) == Has(mem, c.offset, c.name, c.chunkOffset, c.n)
Holds(mem, meta) == \A i \in DOMAIN meta : HasPiece(mem, meta[i])

Disjoint(meta) ==
  \A i, j \in DOMAIN meta : i < j => meta[i].offset + meta[i].n <= meta[j].offset

-----------------------------------------------------------------------------
(* The trainer. *)

(* Where its generator stands, and the first piece of the bucket being      *)
(* filled (s is snd), and the first that has not been broadcast (c is cast).*)
Cursor(s) == <<s.name, s.at>>
FillStart(s) == At(s.meta, 1, Cursor(s))
CastStart(s, c) == IF c.st \in {"publish", "broadcast"} THEN At(c.meta, 1, FillStart(s))
                   ELSE FillStart(s)

CursorOK(z, s) ==
  /\ s.name \in 1 .. Len(z) + 1
  /\ s.name <= Len(z) => s.at < z[s.name] /\ (s.at > 0 => z[s.name] > Bucket)
  /\ s.name > Len(z) => s.at = 0
  /\ s.meta # <<>> /\ s.at > 0 => s.offset = Bucket

BucketOK(z, s) ==
  /\ Run(z, s.meta, Cursor(s))
  /\ Disjoint(s.meta)
  /\ \A i \in DOMAIN s.meta :
       /\ s.meta[i].offset + s.meta[i].n <= s.offset
       /\ s.meta[i].name < s.name \/ (s.meta[i].name = s.name /\ s.at > 0)
  /\ \A i, j \in DOMAIN s.meta : i < j => s.meta[i].name < s.meta[j].name

(* A piece of the bucket is in its place or its copy is still queued. *)
Carries(c, piece) ==
  /\ c.at = piece.offset
  /\ c.data = Units(piece.name, piece.chunkOffset, piece.n)

FillOK(s) ==
  /\ \A j \in DOMAIN s.queue :
       s.queue[j].buf = s.fill /\ \E i \in DOMAIN s.meta : Carries(s.queue[j], s.meta[i])
  /\ \A i \in DOMAIN s.meta :
       \/ HasPiece(s.mem[s.fill], s.meta[i])
       \/ \E j \in DOMAIN s.queue : Carries(s.queue[j], s.meta[i])

CastOK(z, s, c) ==
  /\ c.st = "none" => s.pc = "fill"
  /\ c.st # "none" => (c.last <=> s.pc # "fill")
  /\ s.pc # "fill" => s.meta = <<>> /\ s.queue = <<>> /\ s.name = Len(z) + 1
  /\ c.st \in {"publish", "broadcast"} =>
       /\ Run(z, c.meta, FillStart(s))
       /\ c.buf = 1 - s.fill
       /\ Holds(s.mem[c.buf], c.meta)

TrainerOK == CursorOK(size, snd) /\ BucketOK(size, snd) /\ FillOK(snd) /\ CastOK(size, snd, cast)

(* Who has had which metadata. *)
MetadataOK ==
  \A r \in Ranks :
    /\ cast.st = "broadcast" =>
         \/ /\ recvop[r].st = "broadcast" /\ sub[r] = <<>>
            /\ recvop[r].meta = cast.meta /\ recvop[r].last = cast.last
         \/ /\ recvop[r].st # "broadcast"
            /\ sub[r] = <<[meta |-> cast.meta, last |-> cast.last]>>
    /\ cast.st # "broadcast" => recvop[r].st # "broadcast" /\ sub[r] = <<>>
    /\ (recvop[r].st = "done" /\ recvop[r].last) \/ rcv[r].last =>
         cast.st = "done" /\ cast.last

-----------------------------------------------------------------------------
(* A rank and its worker: q is rcv[r], o is recvop[r], k is wk[r], and e is *)
(* CastStart.                                                               *)

(* What the worker is about to load, and the weights that are past the      *)
(* merging.                                                                 *)
Loading(k) == IF k.st = "load" THEN k.meta ELSE <<>>
Handed(k) == Len(k.loaded) + Len(Loading(k))
Emitted(q, k) == Handed(k) + Len(q.packed) + (IF q.w.name # 0 THEN 1 ELSE 0)

Merging(q, k) == q.merge.name # 0 /\ q.merge.name > Emitted(q, k)

(* The position of the piece that the merging expects. *)
Wanted(q, k) == IF Merging(q, k) THEN <<q.merge.name, q.merge.got>> ELSE <<Emitted(q, k) + 1, 0>>

Following(o, e) == IF o.st = "done" THEN At(o.meta, 1, e) ELSE e

ControlOK(q, o, k) ==
  /\ q.pc = "reply" <=> k.st \in {"load", "replied"}
  /\ q.pc = "end" <=> k.st = "end"
  /\ q.pc \in {"wait", "last", "end"} => q.next > Len(q.meta)
  /\ q.pc \in {"last", "end"} => q.last
  /\ q.pc \in {"wait", "chunk", "last", "end"} => q.w = NoWeight
  /\ q.pc = "emit" => q.w.name # 0
  /\ q.pc \in {"reply", "end"} => q.packed = <<>>
  /\ q.pc = "reply" =>
       /\ k.last => q.last /\ q.next > Len(q.meta)
       /\ k.direct => q.w = NoWeight /\ ~k.last
       /\ ~k.direct => (q.w.name # 0 <=> ~k.last)
  /\ q.w = NoWeight \/ q.w.name # 0
  /\ q.last => o.st = "none"

(* Two buffers: one received into, one read from. *)
BuffersOK(q, o) ==
  /\ o.st # "none" => o.buf = q.recv
  /\ \A j \in DOMAIN q.queue : q.queue[j].buf = 1 - q.recv
  /\ Holds(q.mem[1 - q.recv], q.meta)
  /\ o.st = "done" => Holds(q.mem[o.buf], o.meta)

(* Nothing is lost or out of order between broadcast and merging. *)
StreamOK(z, q, o, k, e) ==
  /\ o.st = "done" => Run(z, o.meta, e)
  /\ Run(z, q.meta, Following(o, e))
  /\ q.next > 0
  /\ Wanted(q, k) = At(q.meta, q.next, Following(o, e))

(* Nor from there to the worker. *)
WeightsOK(z, q, k) ==
  /\ \A i \in DOMAIN k.loaded : /\ i \in DOMAIN z
                                /\ k.loaded[i] = [name |-> i, data |-> Units(i, 0, z[i])]
  /\ \A i \in DOMAIN Loading(k) : /\ Loading(k)[i].name = Len(k.loaded) + i
                                  /\ Loading(k)[i].name \in DOMAIN z
                                  /\ Loading(k)[i].n = z[Loading(k)[i].name]
  /\ \A i \in DOMAIN q.packed : /\ q.packed[i].name = Handed(k) + i
                                /\ q.packed[i].name \in DOMAIN z
                                /\ q.packed[i].n = z[q.packed[i].name]
                                /\ q.packed[i].offset + q.packed[i].n <= q.offset
  /\ Disjoint(q.packed)
  /\ q.packed = <<>> => q.offset = 0
  /\ q.w.name # 0 => /\ q.w.name = Handed(k) + Len(q.packed) + 1
                     /\ q.w.name \in DOMAIN z
                     /\ q.w.n = z[q.w.name]

(* A large weight is being put together, or is whole and being passed on. *)
MergeOK(z, q, k) ==
  /\ q.merge.name = 0 =>
       /\ q.w.name # 0 => z[q.w.name] <= Bucket
       /\ ~(q.pc = "reply" /\ k.direct)
  /\ q.merge.name # 0 =>
       /\ q.merge.name \in DOMAIN z /\ z[q.merge.name] > Bucket
       /\ DOMAIN q.merge.mem = 1 .. z[q.merge.name]
       /\ \/ /\ q.merge.name = Emitted(q, k) + 1
             /\ 0 < q.merge.got /\ q.merge.got < z[q.merge.name]
             /\ q.w = NoWeight /\ ~(q.pc = "reply" /\ k.direct)
          \/ /\ q.merge.name = Emitted(q, k)
             /\ q.merge.got = z[q.merge.name]
             /\ q.w.name # 0 \/ (q.pc = "reply" /\ k.direct)

(* What a copy of the rank's stream brings is what belongs there. *)
Adds(q, c) ==
  /\ c.to = "merge" /\ q.merge.name # 0 /\ c.at + c.n <= q.merge.got
  /\ Has(q.mem[c.buf], c.from, q.merge.name, c.at, c.n)
Brings(q, c, p) ==
  /\ c.to = "shared" /\ c.at = q.packed[p].offset /\ c.n = q.packed[p].n
  /\ Has(q.mem[c.buf], c.from, q.packed[p].name, 0, c.n)

ContentsOK(z, q, k) ==
  /\ \A j \in DOMAIN q.queue :
       Adds(q, q.queue[j]) \/ \E p \in DOMAIN q.packed : Brings(q, q.queue[j], p)
  /\ q.merge.name # 0 =>
       \A i \in 1 .. q.merge.got :
         \/ q.merge.mem[i] = <<q.merge.name, i>>
         \/ \E j \in DOMAIN q.queue : /\ q.queue[j].to = "merge" /\ q.queue[j].at < i
                                      /\ i <= q.queue[j].at + q.queue[j].n
  /\ \A p \in DOMAIN q.packed :
       \/ Has(q.shared, q.packed[p].offset, q.packed[p].name, 0, q.packed[p].n)
       \/ \E j \in DOMAIN q.queue : Brings(q, q.queue[j], p)
  /\ q.w.name # 0 /\ z[q.w.name] <= Bucket =>
       Has(q.mem[1 - q.recv], q.w.at, q.w.name, 0, q.w.n)
  /\ k.st = "load" /\ k.direct => Len(k.meta) = 1 /\ k.meta[1].offset = 0
  /\ k.st = "replied" /\ k.direct => q.queue = <<>>
  /\ k.st = "load" /\ ~k.direct =>
       /\ q.queue = <<>>
       /\ \A p \in DOMAIN k.meta :
            Has(q.shared, k.meta[p].offset, k.meta[p].name, 0, k.meta[p].n)

RankOK(z, q, o, k, e) ==
  /\ ControlOK(q, o, k)
  /\ BuffersOK(q, o)
  /\ StreamOK(z, q, o, k, e)
  /\ WeightsOK(z, q, k)
  /\ MergeOK(z, q, k)
  /\ ContentsOK(z, q, k)

RanksOK == \A r \in Ranks : RankOK(size, rcv[r], recvop[r], wk[r], CastStart(snd, cast))

IInv == TypeOK /\ TrainerOK /\ MetadataOK /\ RanksOK

-----------------------------------------------------------------------------
(* Sequences. *)
LEMMA AppendFacts ==
  ASSUME NEW S, NEW s \in Seq(S), NEW x \in S
  PROVE  /\ Append(s, x) \in Seq(S) /\ Append(s, x) # <<>>
         /\ Len(s) \in Nat /\ Len(Append(s, x)) = Len(s) + 1
         /\ DOMAIN s = 1 .. Len(s) /\ DOMAIN Append(s, x) = 1 .. Len(s) + 1
         /\ \A i \in 1 .. Len(s) : Append(s, x)[i] = s[i]
         /\ Append(s, x)[Len(s) + 1] = x
OBVIOUS

LEMMA TailFacts ==
  ASSUME NEW S, NEW s \in Seq(S), s # <<>>
  PROVE  /\ Tail(s) \in Seq(S) /\ Len(s) \in Nat \ {0} /\ Len(Tail(s)) = Len(s) - 1
         /\ DOMAIN s = 1 .. Len(s) /\ DOMAIN Tail(s) = 1 .. Len(s) - 1
         /\ Head(s) \in S /\ Head(s) = s[1]
         /\ \A i \in 1 .. Len(s) - 1 : Tail(s)[i] = s[i + 1]
OBVIOUS

(* A piece that starts where the run ends makes it longer. *)
LEMMA RunAppend ==
  ASSUME NEW z, NEW meta \in Seq(Chunk), NEW c \in Chunk, IsChunk(z, c), Run(z, meta, Start(c))
  PROVE  /\ Run(z, Append(meta, c), After(z, c))
         /\ At(Append(meta, c), 1, After(z, c)) = At(meta, 1, Start(c))
<1> DEFINE m == Append(meta, c)
           e == After(z, c)
<1>1. /\ m \in Seq(Chunk) /\ Len(meta) \in Nat /\ Len(m) = Len(meta) + 1
      /\ DOMAIN meta = 1 .. Len(meta) /\ DOMAIN m = 1 .. Len(meta) + 1
      /\ \A i \in 1 .. Len(meta) : m[i] = meta[i]
      /\ m[Len(meta) + 1] = c
  BY AppendFacts
<1> HIDE DEF m, e
<1>2. ASSUME NEW i \in 1 .. Len(meta) + 1
      PROVE  IsChunk(z, m[i]) /\ After(z, m[i]) = At(m, i + 1, e)
  <2>1. CASE i = Len(meta) + 1
    BY <1>1, <2>1 DEF At, e
  <2>2. CASE i \in 1 .. Len(meta)
    <3>1. At(m, i + 1, e) = At(meta, i + 1, Start(c))
      BY <1>1, <2>2 DEF At
    <3>2. QED
      BY <1>1, <2>2, <3>1 DEF Run
  <2>3. QED
    BY <1>1, <2>1, <2>2
<1>3. Run(z, m, e)
  BY <1>1, <1>2 DEF Run
<1>4. At(m, 1, e) = At(meta, 1, Start(c))
  BY <1>1 DEF At
<1>5. QED
  BY <1>3, <1>4 DEF m, e

-----------------------------------------------------------------------------
(* Pieces of memory. *)
LEMMA UnitsFacts ==
  ASSUME NEW w \in Nat, NEW from \in Nat, NEW n \in Nat
  PROVE  /\ Units(w, from, n) \in Seq(Memory) /\ Len(Units(w, from, n)) = n
         /\ \A i \in 1 .. n : Units(w, from, n)[i] = <<w, from + i>>
<1>1. \A i \in 1 .. n : <<w, from + i>> \in Memory
  BY DEF Memory
<1> HIDE DEF Memory
<1> DEFINE u == [i \in 1 .. n |-> <<w, from + i>>]
<1>2. u \in [1 .. n -> Memory]
  BY <1>1
<1> HIDE DEF u
<1>3. u \in Seq(Memory) /\ Len(u) = n
  BY <1>2
<1>4. \A i \in 1 .. n : u[i] = <<w, from + i>>
  BY DEF u
<1>5. QED
  BY <1>3, <1>4 DEF Units, u

Written(m, mem, at, data) ==
  \A i \in DOMAIN mem :
    m[i] = IF i > at /\ i <= at + Len(data) THEN data[i - at] ELSE mem[i]

LEMMA WriteFacts ==
  ASSUME NEW N \in Nat, NEW M, NEW mem \in [1 .. N -> M], NEW at \in Nat, NEW data \in Seq(M)
  PROVE  /\ Write(mem, at, data) \in [1 .. N -> M]
         /\ Written(Write(mem, at, data), mem, at, data)
<1> DEFINE f(i) == IF i > at /\ i <= at + Len(data) THEN data[i - at] ELSE mem[i]
<1>1. ASSUME NEW i \in 1 .. N PROVE f(i) \in M
  <2>1. CASE i > at /\ i <= at + Len(data)
    <3>1. i - at \in 1 .. Len(data)
      BY <2>1
    <3>2. data[i - at] \in M
      BY <3>1
    <3>3. QED
      BY <2>1, <3>2
  <2>2. CASE ~(i > at /\ i <= at + Len(data))
    BY <2>2
  <2>3. QED
    BY <2>1, <2>2
<1>2. Write(mem, at, data) = [i \in 1 .. N |-> f(i)]
  BY DEF Write
<1> HIDE DEF f
<1>3. Write(mem, at, data) \in [1 .. N -> M] /\ \A i \in 1 .. N : Write(mem, at, data)[i] = f(i)
  BY <1>1, <1>2
<1>4. QED
  BY <1>3 DEF f, Written

(* n units written at an offset are in their place, and what lies before or *)
(* behind is as it was.                                                     *)
SameAround(m, mem, at, n) == \A i \in DOMAIN mem : i <= at \/ i > at + n => m[i] = mem[i]

LEMMA WriteUnits ==
  ASSUME NEW N \in Nat, NEW mem \in [1 .. N -> Memory], NEW at \in Nat,
         NEW w \in Nat, NEW from \in Nat, NEW n \in Nat, at + n <= N
  PROVE  /\ Write(mem, at, Units(w, from, n)) \in [1 .. N -> Memory]
         /\ Has(Write(mem, at, Units(w, from, n)), at, w, from, n)
         /\ SameAround(Write(mem, at, Units(w, from, n)), mem, at, n)
<1>1. PICK u : u = Units(w, from, n)
  OBVIOUS
<1>2. PICK m : m = Write(mem, at, u)
  OBVIOUS
<1>3. u \in Seq(Memory) /\ Len(u) = n /\ \A i \in 1 .. n : u[i] = <<w, from + i>>
  BY <1>1, UnitsFacts, ZenonT(30)
<1>4. m \in [1 .. N -> Memory] /\ Written(m, mem, at, u)
  BY <1>2, <1>3, WriteFacts
<1>5. ASSUME NEW k \in 1 .. n PROVE m[at + k] = <<w, from + k>>
  <2>1. at + k \in 1 .. N /\ at + k > at /\ at + k <= at + n /\ (at + k) - at = k
    OBVIOUS
  <2>2. QED
    BY <1>3, <1>4, <2>1 DEF Written
<1>6. \A i \in 1 .. N : i <= at \/ i > at + n => m[i] = mem[i]
  BY <1>3, <1>4 DEF Written
<1>7. Has(m, at, w, from, n) /\ SameAround(m, mem, at, n)
  BY <1>5, <1>6 DEF Has, SameAround
<1>8. QED
  BY <1>1, <1>2, <1>4, <1>7

(* A place in one of two stretches of memory that do not overlap. *)
LEMMA Apart ==
  ASSUME NEW a \in Nat, NEW n \in Nat, NEW b \in Nat, NEW l \in Nat, NEW N \in Nat,
         a + n <= N, a + n <= b \/ b + l <= a, NEW i \in 1 .. n
  PROVE  a + i \in 1 .. N /\ (a + i <= b \/ a + i > b + l)
OBVIOUS

-----------------------------------------------------------------------------
(* The trainer's steps, on values. *)
CopyType == [buf : 0..1, at : Nat, data : Seq(Memory)]

Sizing(z) == z \in Seq(Nat \ {0})

TrainerGood(z, s, c) ==
  CursorOK(z, s) /\ BucketOK(z, s) /\ FillOK(s) /\ CastOK(z, s, c)

(* The piece at the cursor. *)
LEMMA NextPiece ==
  ASSUME NEW z, Sizing(z), NEW s \in Sender, CursorOK(z, s), s.name <= Len(z),
         NEW n, n = IF z[s.name] - s.at < Bucket THEN z[s.name] - s.at ELSE Bucket
  PROVE  /\ s.name \in DOMAIN z /\ z[s.name] \in Nat \ {0} /\ s.at \in Nat /\ s.name \in Nat
         /\ n \in Nat \ {0} /\ n <= Bucket /\ s.at + n <= z[s.name]
         /\ z[s.name] <= Bucket => s.at = 0 /\ n = z[s.name]
         /\ s.at + n < z[s.name] => n = Bucket /\ z[s.name] > Bucket
<1>1. Bucket \in Nat \ {0}
  BY TransferAssumption
<1>2. s.name \in Nat /\ s.at \in Nat
  BY DEF Sender
<1>3. s.name \in DOMAIN z /\ z[s.name] \in Nat \ {0}
  BY <1>2 DEF Sizing, CursorOK
<1>4. s.at < z[s.name] /\ (s.at > 0 => z[s.name] > Bucket)
  BY DEF CursorOK
<1>5. QED
  BY <1>1, <1>2, <1>3, <1>4

FilledBy(s, s2, x, y) ==
  /\ s2.pc = s.pc /\ s2.fill = s.fill /\ s2.mem = s.mem
  /\ s2.offset = s.offset + x.n
  /\ s2.meta = Append(s.meta, x) /\ s2.queue = Append(s.queue, y)

LEMMA SenderTypes ==
  ASSUME NEW s \in Sender
  PROVE  /\ s.pc \in {"fill", "finish", "end"} /\ s.name \in Nat /\ s.at \in Nat
         /\ s.fill \in 0 .. 1 /\ s.offset \in Nat /\ s.offset <= Bucket
         /\ s.meta \in Seq(Chunk) /\ s.mem \in [0 .. 1 -> Bytes]
         /\ s.queue \in Seq(CopyType) /\ Bucket \in Nat \ {0}
<1>1. Bucket \in Nat \ {0}
  BY TransferAssumption
<1>2. QED
  BY <1>1 DEF Sender, CopyType

LEMMA FillTrainer ==
  ASSUME NEW z, Sizing(z), NEW s \in Sender, NEW c \in Operation, TrainerGood(z, s, c),
         s.name <= Len(z), NEW x \in Chunk, NEW y \in CopyType,
         x.name = s.name, x.chunkOffset = s.at, x.offset = s.offset,
         x.n = IF z[s.name] - s.at < Bucket THEN z[s.name] - s.at ELSE Bucket,
         s.offset + x.n <= Bucket,
         Carries(y, x), y.buf = s.fill,
         NEW s2 \in Sender, FilledBy(s, s2, x, y),
         s.at + x.n = z[s.name] => s2.name = s.name + 1 /\ s2.at = 0,
         s.at + x.n # z[s.name] => s2.name = s.name /\ s2.at = s.at + x.n
  PROVE  TrainerGood(z, s2, c) /\ CastStart(s2, c) = CastStart(s, c)
<1> DEFINE n == x.n
<1>1. /\ s.name \in DOMAIN z /\ z[s.name] \in Nat \ {0} /\ s.at \in Nat /\ s.name \in Nat
      /\ n \in Nat \ {0} /\ n <= Bucket /\ s.at + n <= z[s.name]
      /\ z[s.name] <= Bucket => s.at = 0 /\ n = z[s.name]
      /\ s.at + n < z[s.name] => n = Bucket /\ z[s.name] > Bucket
  BY NextPiece DEF TrainerGood
<1>2. /\ s.offset \in Nat /\ s.offset + n \in 0 .. Bucket /\ Bucket \in Nat \ {0}
      /\ s.meta \in Seq(Chunk) /\ s.fill \in 0 .. 1
      /\ s.queue \in Seq(CopyType)
  <2>1. s.offset \in Nat /\ Bucket \in Nat \ {0} /\ s.meta \in Seq(Chunk) /\ s.fill \in 0 .. 1
        /\ s.queue \in Seq(CopyType)
    BY SenderTypes
  <2>2. s.offset + n <= Bucket
    OBVIOUS
  <2> HIDE DEF n
  <2>3. QED
    BY <1>1, <2>1, <2>2, SMTT(20)
<1>3. /\ s2.pc = s.pc /\ s2.fill = s.fill /\ s2.mem = s.mem
      /\ s2.offset = s.offset + n
      /\ s2.meta = Append(s.meta, x) /\ s2.queue = Append(s.queue, y)
  BY DEF FilledBy
<1>4. /\ Len(s.meta) \in Nat /\ DOMAIN s.meta = 1 .. Len(s.meta)
      /\ s2.meta # <<>>
      /\ DOMAIN s2.meta = 1 .. Len(s.meta) + 1
      /\ \A i \in 1 .. Len(s.meta) : s2.meta[i] = s.meta[i]
      /\ s2.meta[Len(s.meta) + 1] = x
  BY <1>2, <1>3, AppendFacts, SMTT(20)
<1>5. /\ Len(s.queue) \in Nat /\ DOMAIN s.queue = 1 .. Len(s.queue)
      /\ DOMAIN s2.queue = 1 .. Len(s.queue) + 1
      /\ \A i \in 1 .. Len(s.queue) : s2.queue[i] = s.queue[i]
      /\ s2.queue[Len(s.queue) + 1] = y
  BY <1>2, <1>3, AppendFacts
<1>6. /\ \A i \in DOMAIN s2.meta : i \in 1 .. Len(s.meta) \/ i = Len(s.meta) + 1
      /\ \A j \in DOMAIN s2.queue : j \in 1 .. Len(s.queue) \/ j = Len(s.queue) + 1
      /\ 1 .. Len(s.meta) \subseteq DOMAIN s2.meta /\ Len(s.meta) + 1 \in DOMAIN s2.meta
      /\ 1 .. Len(s.queue) \subseteq DOMAIN s2.queue /\ Len(s.queue) + 1 \in DOMAIN s2.queue
  BY <1>4, <1>5
<1>7. x.name = s.name /\ x.chunkOffset = s.at /\ x.n = n /\ x.offset = s.offset
  OBVIOUS
<1>8. IsChunk(z, x) /\ Start(x) = Cursor(s) /\ After(z, x) = Cursor(s2)
  <2>1. IsChunk(z, x)
    BY <1>1, <1>7 DEF IsChunk
  <2>2. QED
    BY <1>3, <1>7, <2>1 DEF Start, Cursor, After
<1>9. s.meta # <<>> => s.at = 0
  BY <1>1, <1>2 DEF TrainerGood, CursorOK
<1>10. CursorOK(z, s2)
  <2>1. Len(z) \in Nat /\ DOMAIN z = 1 .. Len(z) /\ \A w \in 1 .. Len(z) : z[w] \in Nat \ {0}
    BY DEF Sizing
  <2>2. CASE s.at + n = z[s.name]
    <3>1. s2.name = s.name + 1 /\ s2.at = 0
      BY <2>2
    <3>2. s2.name \in 1 .. Len(z) + 1
      BY <1>1, <2>1, <3>1
    <3>3. s2.name <= Len(z) => z[s2.name] \in Nat \ {0}
      BY <2>1, <3>2
    <3>4. QED
      BY <3>1, <3>2, <3>3 DEF CursorOK
  <2>3. CASE s.at + n # z[s.name]
    <3>1. s2.at = s.at + n /\ s2.name = s.name /\ z[s.name] > Bucket /\ n = Bucket /\ s2.at < z[s.name]
      BY <1>1, <2>3
    <3>2. s2.offset = Bucket
      BY <1>2, <1>3, <3>1
    <3>3. QED
      BY <1>1, <2>1, <3>1, <3>2 DEF CursorOK
  <2>4. QED
    BY <2>2, <2>3
<1>11. BucketOK(z, s2)
  <2>1. Run(z, s2.meta, Cursor(s2))
    BY <1>2, <1>3, <1>8, RunAppend DEF TrainerGood, BucketOK
  <2>2. \A i \in 1 .. Len(s.meta) : /\ s.meta[i] \in Chunk
                                    /\ s.meta[i].offset + s.meta[i].n <= s.offset
                                    /\ s.meta[i].name < s.name
    BY <1>2, <1>4, <1>9 DEF TrainerGood, BucketOK
  <2>3. Disjoint(s2.meta)
    BY <1>4, <1>7, <2>2, SMTT(20) DEF TrainerGood, BucketOK, Disjoint
  <2>4. \A i \in DOMAIN s2.meta :
          /\ s2.meta[i].offset + s2.meta[i].n <= s2.offset
          /\ s2.meta[i].name < s2.name \/ (s2.meta[i].name = s2.name /\ s2.at > 0)
    <3>0. /\ s.name \in Nat /\ s2.name \in Nat /\ s.name <= s2.name
          /\ s.name < s2.name \/ (s.name = s2.name /\ s2.at > 0)
      BY <1>1, SenderTypes
    <3>1. ASSUME NEW i \in 1 .. Len(s.meta)
          PROVE  /\ s2.meta[i].offset + s2.meta[i].n <= s2.offset
                 /\ s2.meta[i].name < s2.name
      <4>1. /\ s.meta[i].offset \in Nat /\ s.meta[i].n \in Nat /\ s.meta[i].name \in Nat
            /\ s2.name \in Nat
        BY <2>2 DEF Chunk, Sender
      <4>2. s2.meta[i] = s.meta[i] /\ s.meta[i].offset + s.meta[i].n <= s.offset
            /\ s.meta[i].name < s.name
        BY <1>4, <2>2
      <4>3. s.meta[i].name < s2.name
        BY <3>0, <4>1, <4>2
      <4>4. s.meta[i].offset + s.meta[i].n <= s2.offset
        <5>1. s.offset \in Nat /\ s2.offset \in Nat /\ s.offset <= s2.offset
          BY <1>1, <1>2, <1>3
        <5>2. QED
          BY <4>1, <4>2, <5>1
      <4>5. QED
        BY <4>2, <4>3, <4>4
    <3>2. /\ x.offset + x.n <= s2.offset
          /\ x.name < s2.name \/ (x.name = s2.name /\ s2.at > 0)
      BY <1>2, <1>3, <3>0
    <3>3. QED
      BY <1>4, <3>1, <3>2
  <2>5. \A i, j \in DOMAIN s2.meta : i < j => s2.meta[i].name < s2.meta[j].name
    BY <1>4, <1>7, <2>2, SMTT(20) DEF TrainerGood, BucketOK
  <2>6. QED
    BY <2>1, <2>3, <2>4, <2>5 DEF BucketOK
<1>12. FillOK(s2)
  <2>1. Carries(y, x) /\ y.buf = s.fill
    OBVIOUS
  <2>2. \A j \in DOMAIN s2.queue :
          s2.queue[j].buf = s2.fill /\ \E i \in DOMAIN s2.meta : Carries(s2.queue[j], s2.meta[i])
    <3>1. ASSUME NEW j \in 1 .. Len(s.queue)
          PROVE  s2.queue[j].buf = s2.fill /\ \E i \in DOMAIN s2.meta : Carries(s2.queue[j], s2.meta[i])
      <4>1. s.queue[j].buf = s.fill /\ \E i \in 1 .. Len(s.meta) : Carries(s.queue[j], s.meta[i])
        BY <1>4, <1>5 DEF TrainerGood, FillOK
      <4>2. QED
        BY <1>3, <1>6, <1>4, <1>5, <4>1
    <3>2. s2.queue[Len(s.queue) + 1].buf = s2.fill
          /\ Carries(s2.queue[Len(s.queue) + 1], s2.meta[Len(s.meta) + 1])
      BY <1>3, <1>4, <1>5, <2>1
    <3>3. QED
      BY <1>6, <3>1, <3>2
  <2>3. \A i \in DOMAIN s2.meta :
          \/ HasPiece(s2.mem[s2.fill], s2.meta[i])
          \/ \E j \in DOMAIN s2.queue : Carries(s2.queue[j], s2.meta[i])
    <3>1. ASSUME NEW i \in 1 .. Len(s.meta)
          PROVE  \/ HasPiece(s2.mem[s2.fill], s2.meta[i])
                 \/ \E j \in DOMAIN s2.queue : Carries(s2.queue[j], s2.meta[i])
      <4>1. \/ HasPiece(s.mem[s.fill], s.meta[i])
            \/ \E j \in 1 .. Len(s.queue) : Carries(s.queue[j], s.meta[i])
        BY <1>4, <1>5 DEF TrainerGood, FillOK
      <4>2. QED
        BY <1>3, <1>6, <1>4, <1>5, <4>1
    <3>2. Carries(s2.queue[Len(s.queue) + 1], s2.meta[Len(s.meta) + 1])
      BY <1>4, <1>5, <2>1
    <3>3. QED
      BY <1>6, <3>1, <3>2
  <2>4. QED
    BY <2>2, <2>3 DEF FillOK
<1>13. FillStart(s2) = FillStart(s)
  BY <1>2, <1>3, <1>8, RunAppend DEF FillStart, TrainerGood, BucketOK
<1>14. CastOK(z, s2, c)
  BY <1>3, <1>13 DEF TrainerGood, CastOK
<1>15. QED
  BY <1>10, <1>11, <1>12, <1>13, <1>14 DEF TrainerGood, CastStart

(* The pieces of a bucket lie in it. *)
LEMMA PiecesFacts ==
  ASSUME NEW z, Sizing(z), NEW meta \in Seq(Chunk), NEW e, Run(z, meta, e)
  PROVE  \A i \in DOMAIN meta :
           /\ i \in Nat
           /\ meta[i].name \in Nat /\ meta[i].chunkOffset \in Nat
           /\ meta[i].n \in Nat /\ meta[i].offset \in Nat
           /\ meta[i].offset + meta[i].n <= Bucket
<1>1. ASSUME NEW i \in DOMAIN meta
      PROVE  i \in Nat /\ meta[i] \in Chunk /\ IsChunk(z, meta[i])
  BY <1>1 DEF Run
<1>2. QED
  BY <1>1 DEF Chunk, IsChunk

CopiedBy(s, s2, h) ==
  /\ s2.pc = s.pc /\ s2.name = s.name /\ s2.at = s.at /\ s2.fill = s.fill
  /\ s2.offset = s.offset /\ s2.meta = s.meta
  /\ s2.queue = Tail(s.queue)
  /\ s2.mem = [s.mem EXCEPT ![h.buf] = Write(@, h.at, h.data)]

(* The stream of the trainer makes the oldest copy. *)
LEMMA CopyTrainer ==
  ASSUME NEW z, Sizing(z), NEW s \in Sender, NEW c \in Operation, TrainerGood(z, s, c),
         s.queue # <<>>, NEW h, h = Head(s.queue), NEW s2, CopiedBy(s, s2, h)
  PROVE  /\ s2.mem \in [0 .. 1 -> Bytes] /\ s2.queue \in Seq(CopyType)
         /\ TrainerGood(z, s2, c) /\ CastStart(s2, c) = CastStart(s, c)
<1>1. /\ s.meta \in Seq(Chunk) /\ s.mem \in [0 .. 1 -> Bytes] /\ s.queue \in Seq(CopyType)
      /\ s.fill \in 0 .. 1 /\ Bucket \in Nat \ {0}
  BY SenderTypes
<1>2. /\ Tail(s.queue) \in Seq(CopyType) /\ Len(s.queue) \in Nat \ {0}
      /\ DOMAIN s.queue = 1 .. Len(s.queue) /\ DOMAIN Tail(s.queue) = 1 .. Len(s.queue) - 1
      /\ h = s.queue[1]
      /\ \A i \in 1 .. Len(s.queue) - 1 : Tail(s.queue)[i] = s.queue[i + 1]
  BY <1>1, TailFacts
<1>3. /\ 1 \in DOMAIN s.queue
      /\ \A j \in DOMAIN Tail(s.queue) : j + 1 \in DOMAIN s.queue
      /\ \A j \in DOMAIN s.queue : j = 1 \/ (j - 1 \in DOMAIN Tail(s.queue) /\ Tail(s.queue)[j - 1] = s.queue[j])
  BY <1>2
<1>4. h.buf = s.fill /\ \E i \in DOMAIN s.meta : Carries(h, s.meta[i])
  BY <1>2, <1>3 DEF TrainerGood, FillOK
<1>5. PICK i0 \in DOMAIN s.meta : Carries(h, s.meta[i0])
  BY <1>4
<1>6. PICK x : x = s.meta[i0]
  OBVIOUS
<1>7. PICK m : m = Write(s.mem[s.fill], x.offset, Units(x.name, x.chunkOffset, x.n))
  OBVIOUS
<1>8. Run(z, s.meta, Cursor(s)) /\ Disjoint(s.meta)
  BY DEF TrainerGood, BucketOK
<1>9. \A i \in DOMAIN s.meta :
        /\ i \in Nat
        /\ s.meta[i].name \in Nat /\ s.meta[i].chunkOffset \in Nat
        /\ s.meta[i].n \in Nat /\ s.meta[i].offset \in Nat
        /\ s.meta[i].offset + s.meta[i].n <= Bucket
  BY <1>1, <1>8, PiecesFacts
<1>10. s.mem[s.fill] \in [1 .. Bucket -> Memory] /\ Bucket \in Nat
  <2>1. s.mem[s.fill] \in Bytes
    BY <1>1
  <2>2. QED
    BY <1>1, <2>1 DEF Bytes
<1>11. /\ x.name \in Nat /\ x.chunkOffset \in Nat /\ x.n \in Nat /\ x.offset \in Nat
       /\ x.offset + x.n <= Bucket
  BY <1>6, <1>9
<1>12. /\ m \in [1 .. Bucket -> Memory]
       /\ Has(m, x.offset, x.name, x.chunkOffset, x.n)
       /\ SameAround(m, s.mem[s.fill], x.offset, x.n)
  BY <1>7, <1>10, <1>11, WriteUnits
<1>13. s2.mem = [s.mem EXCEPT ![s.fill] = m]
  BY <1>4, <1>5, <1>6, <1>7 DEF Carries, CopiedBy
<1>14. s2.mem \in [0 .. 1 -> Bytes] /\ s2.queue \in Seq(CopyType)
  <2>1. m \in Bytes
    BY <1>12 DEF Bytes
  <2>2. QED
    BY <1>1, <1>2, <1>13, <2>1, ZenonT(30) DEF CopiedBy
<1>15. s2.mem[s.fill] = m /\ \A b \in 0 .. 1 : b # s.fill => s2.mem[b] = s.mem[b]
  BY <1>1, <1>13
<1>16. ASSUME NEW i \in DOMAIN s.meta
       PROVE  \/ HasPiece(m, s.meta[i])
              \/ \E j \in DOMAIN Tail(s.queue) : Carries(Tail(s.queue)[j], s.meta[i])
  <2>1. CASE i = i0
    BY <1>6, <1>12, <2>1 DEF HasPiece
  <2>2. ASSUME i # i0, NEW k \in 1 .. s.meta[i].n
        PROVE  m[s.meta[i].offset + k] = s.mem[s.fill][s.meta[i].offset + k]
    <3>1. \/ s.meta[i].offset + s.meta[i].n <= x.offset
          \/ x.offset + x.n <= s.meta[i].offset
      <4>1. i < i0 \/ i0 < i
        BY <1>9, <2>2
      <4>2. QED
        BY <1>6, <1>8, <4>1 DEF Disjoint
    <3>2. /\ s.meta[i].offset \in Nat /\ s.meta[i].n \in Nat
          /\ s.meta[i].offset + s.meta[i].n <= Bucket
      BY <1>9
    <3>3. /\ s.meta[i].offset + k \in 1 .. Bucket
          /\ s.meta[i].offset + k <= x.offset \/ s.meta[i].offset + k > x.offset + x.n
      <4>1. PICK a, n : a = s.meta[i].offset /\ n = s.meta[i].n
        OBVIOUS
      <4>2. /\ a \in Nat /\ n \in Nat /\ x.offset \in Nat /\ x.n \in Nat /\ Bucket \in Nat
            /\ a + n <= Bucket /\ (a + n <= x.offset \/ x.offset + x.n <= a) /\ k \in 1 .. n
        BY <1>10, <1>11, <2>2, <3>1, <3>2, <4>1
      <4>3. a + k \in 1 .. Bucket /\ (a + k <= x.offset \/ a + k > x.offset + x.n)
        BY <4>2, Apart
      <4>4. QED
        BY <4>1, <4>3
    <3>4. QED
      BY <1>10, <1>12, <3>3 DEF SameAround
  <2>3. ASSUME i # i0, HasPiece(s.mem[s.fill], s.meta[i])
        PROVE  HasPiece(m, s.meta[i])
    BY <2>2, <2>3 DEF HasPiece, Has
  <2>4. ASSUME Carries(s.queue[1], s.meta[i])
        PROVE  HasPiece(m, s.meta[i])
    <3>1. Carries(h, s.meta[i])
      BY <1>2, <2>4
    <3>2. m = Write(s.mem[s.fill], s.meta[i].offset,
                    Units(s.meta[i].name, s.meta[i].chunkOffset, s.meta[i].n))
      BY <1>5, <1>6, <1>7, <3>1 DEF Carries
    <3>3. QED
      BY <1>9, <1>10, <3>2, WriteUnits DEF HasPiece
  <2>5. ASSUME NEW j \in DOMAIN s.queue, Carries(s.queue[j], s.meta[i]), j # 1
        PROVE  \E l \in DOMAIN Tail(s.queue) : Carries(Tail(s.queue)[l], s.meta[i])
    BY <1>3, <2>5
  <2>6. \/ HasPiece(s.mem[s.fill], s.meta[i])
        \/ \E j \in DOMAIN s.queue : Carries(s.queue[j], s.meta[i])
    BY DEF TrainerGood, FillOK
  <2>7. QED
    BY <2>1, <2>3, <2>4, <2>5, <2>6
<1>17. FillOK(s2)
  <2>1. s2.meta = s.meta /\ s2.fill = s.fill /\ s2.queue = Tail(s.queue) /\ s2.mem[s2.fill] = m
    BY <1>15 DEF CopiedBy
  <2>2. \A j \in DOMAIN s2.queue :
          s2.queue[j].buf = s2.fill /\ \E i \in DOMAIN s2.meta : Carries(s2.queue[j], s2.meta[i])
    <3>1. ASSUME NEW j \in DOMAIN Tail(s.queue)
          PROVE  j + 1 \in DOMAIN s.queue /\ Tail(s.queue)[j] = s.queue[j + 1]
      BY <1>2, <1>3
    <3>2. QED
      BY <2>1, <3>1 DEF TrainerGood, FillOK
  <2>3. QED
    BY <1>16, <2>1, <2>2 DEF FillOK
<1>18. FillStart(s2) = FillStart(s) /\ Cursor(s2) = Cursor(s)
  BY DEF FillStart, Cursor, CopiedBy
<1>19. CursorOK(z, s2) /\ BucketOK(z, s2)
  BY <1>18 DEF TrainerGood, CursorOK, BucketOK, CopiedBy
<1>20. CastOK(z, s2, c)
  <2>1. s.pc = "fill"
    BY DEF TrainerGood, CastOK
  <2>2. c.buf = 1 - s.fill => s2.mem[c.buf] = s.mem[c.buf]
    <3>1. 1 - s.fill \in 0 .. 1 /\ 1 - s.fill # s.fill
      BY <1>1
    <3>2. QED
      BY <1>15, <3>1
  <2>3. s2.pc = s.pc /\ s2.fill = s.fill
    BY DEF CopiedBy
  <2>4. QED
    BY <1>18, <2>1, <2>2, <2>3 DEF TrainerGood, CastOK
<1>21. QED
  BY <1>14, <1>17, <1>18, <1>19, <1>20 DEF TrainerGood, CastStart

FlushedBy(s, s2, c2, last) ==
  /\ s2.pc = (IF last THEN "finish" ELSE "fill")
  /\ s2.name = s.name /\ s2.at = s.at /\ s2.fill = 1 - s.fill /\ s2.offset = 0
  /\ s2.meta = <<>> /\ s2.mem = s.mem /\ s2.queue = s.queue
  /\ c2.st = "publish" /\ c2.buf = s.fill /\ c2.meta = s.meta /\ c2.last = last

(* The full or last bucket is handed to the executor. *)
LEMMA FlushTrainer ==
  ASSUME NEW z, Sizing(z), NEW s \in Sender, NEW c \in Operation, TrainerGood(z, s, c),
         s.pc = "fill", s.queue = <<>>, c.st \in {"none", "done"},
         NEW last \in BOOLEAN, last <=> ~(s.name <= Len(z)),
         NEW s2, NEW c2, FlushedBy(s, s2, c2, last)
  PROVE  TrainerGood(z, s2, c2) /\ CastStart(s2, c2) = CastStart(s, c)
<1>1. /\ s.name \in Nat /\ s.at \in Nat
      /\ s.meta \in Seq(Chunk) /\ s.mem \in [0 .. 1 -> Bytes] /\ s.queue \in Seq(CopyType)
      /\ s.fill \in 0 .. 1 /\ Bucket \in Nat \ {0}
  BY SenderTypes
<1>2. s.fill = 1 - (1 - s.fill)
  BY <1>1
<1>3. Len(<<>>) = 0 /\ DOMAIN <<>> = {}
  OBVIOUS
<1>4. Cursor(s2) = Cursor(s) /\ FillStart(s2) = Cursor(s)
  BY <1>3 DEF Cursor, FillStart, At, FlushedBy
<1>5. CursorOK(z, s2)
  BY DEF TrainerGood, CursorOK, FlushedBy
<1>6. BucketOK(z, s2) /\ FillOK(s2)
  BY <1>3 DEF BucketOK, FillOK, Run, Disjoint, FlushedBy
<1>7. CastOK(z, s2, c2)
  <2>1. Run(z, s.meta, Cursor(s))
    BY DEF TrainerGood, BucketOK
  <2>2. Holds(s.mem[s.fill], s.meta)
    BY <1>3 DEF TrainerGood, FillOK, Holds
  <2>3. last => s.name = Len(z) + 1
    <3>1. Len(z) \in Nat
      BY DEF Sizing
    <3>2. QED
      BY <1>1, <3>1 DEF TrainerGood, CursorOK
  <2>4. /\ c2.st = "publish" /\ c2.buf = 1 - s2.fill /\ c2.meta = s.meta /\ c2.last = last
        /\ s2.mem[c2.buf] = s.mem[s.fill]
    BY <1>2 DEF FlushedBy
  <2>5. /\ s2.pc # "fill" <=> last
        /\ s2.meta = <<>> /\ s2.queue = <<>> /\ s2.name = s.name
    BY DEF FlushedBy
  <2>6. QED
    BY <1>4, <2>1, <2>2, <2>3, <2>4, <2>5 DEF CastOK
<1>8. CastStart(s2, c2) = CastStart(s, c)
  <2>1. c2.st = "publish" /\ c2.meta = s.meta
    BY DEF FlushedBy
  <2>2. CastStart(s2, c2) = At(s.meta, 1, Cursor(s))
    BY <1>4, <2>1 DEF CastStart
  <2>3. QED
    BY <2>2 DEF CastStart, FillStart
<1>9. QED
  BY <1>5, <1>6, <1>7, <1>8 DEF TrainerGood

(* The broadcast moves on: published, and then done. *)
LEMMA CastTrainer ==
  ASSUME NEW z, NEW s, NEW c, TrainerGood(z, s, c), c.st \in {"publish", "broadcast"},
         NEW c2, c2.st \in {"broadcast", "done"}, c2.buf = c.buf, c2.meta = c.meta, c2.last = c.last
  PROVE  /\ TrainerGood(z, s, c2)
         /\ c2.st = "broadcast" => CastStart(s, c2) = CastStart(s, c)
         /\ CastStart(s, c) = At(c.meta, 1, FillStart(s))
         /\ c2.st = "done" => CastStart(s, c2) = FillStart(s)
         /\ Run(z, c.meta, FillStart(s)) /\ Holds(s.mem[c.buf], c.meta)
BY DEF TrainerGood, CastOK, CastStart

-----------------------------------------------------------------------------
(* The steps of a rank and its worker, on values. *)
QueuedType == [to : {"merge", "shared"}, at : Nat, buf : 0..1, from : Nat, n : Nat]

LEMMA ReceiverTypes ==
  ASSUME NEW q \in Receiver
  PROVE  /\ q.recv \in 0 .. 1 /\ q.next \in Nat /\ q.meta \in Seq(Chunk) /\ q.last \in BOOLEAN
         /\ q.pc \in {"wait", "chunk", "emit", "last", "reply", "end"}
         /\ q.mem \in [0 .. 1 -> Bytes] /\ q.queue \in Seq(QueuedType)
         /\ q.merge.name \in Nat /\ q.merge.got \in Nat /\ q.merge.mem \in Seq(Memory)
         /\ q.w.name \in Nat /\ q.w.n \in Nat /\ q.w.at \in Nat
         /\ q.shared \in Bytes /\ q.offset \in Nat /\ q.offset <= Bucket
         /\ q.packed \in Seq(Packed) /\ Len(q.packed) \in Nat /\ Bucket \in Nat \ {0}
<1>1. Bucket \in Nat \ {0}
  BY TransferAssumption
<1>2. QED
  BY <1>1 DEF Receiver, QueuedType

LEMMA WorkerTypes ==
  ASSUME NEW k \in Worker
  PROVE  /\ k.st \in {"idle", "load", "replied", "end"} /\ k.meta \in Seq(Packed)
         /\ k.direct \in BOOLEAN /\ k.last \in BOOLEAN
         /\ k.loaded \in Seq([name : Nat, data : Seq(Memory)])
         /\ Loading(k) \in Seq(Packed) /\ Len(k.loaded) \in Nat /\ Len(Loading(k)) \in Nat
         /\ Handed(k) \in Nat
<1>1. /\ k.st \in {"idle", "load", "replied", "end"} /\ k.meta \in Seq(Packed)
      /\ k.direct \in BOOLEAN /\ k.last \in BOOLEAN
      /\ k.loaded \in Seq([name : Nat, data : Seq(Memory)])
  BY DEF Worker
<1>2. Loading(k) \in Seq(Packed)
  BY <1>1 DEF Loading
<1>3. Len(k.loaded) \in Nat /\ Len(Loading(k)) \in Nat
  BY <1>1, <1>2
<1>4. QED
  BY <1>1, <1>2, <1>3 DEF Handed

LEMMA EmittedFacts ==
  ASSUME NEW q \in Receiver, NEW k \in Worker
  PROVE  /\ Emitted(q, k) \in Nat
         /\ q.w.name = 0 => Emitted(q, k) = Handed(k) + Len(q.packed)
         /\ q.w.name # 0 => Emitted(q, k) = Handed(k) + Len(q.packed) + 1
BY ReceiverTypes, WorkerTypes DEF Emitted

(* The piece the generators stand at. *)
LEMMA PieceAt ==
  ASSUME NEW z, NEW q \in Receiver, NEW o \in Operation, NEW k \in Worker, NEW e,
         RankOK(z, q, o, k, e), q.pc = "chunk", q.next <= Len(q.meta),
         NEW c, c = q.meta[q.next]
  PROVE  /\ c \in Chunk /\ IsChunk(z, c) /\ q.w = NoWeight /\ q.w.name = 0
         /\ HasPiece(q.mem[1 - q.recv], c)
         /\ After(z, c) = At(q.meta, q.next + 1, Following(o, e))
         /\ c.name = Emitted(q, k) + 1
         /\ \/ q.merge.name = 0 /\ c.chunkOffset = 0
            \/ /\ q.merge.name = c.name /\ q.merge.got = c.chunkOffset
               /\ z[c.name] > Bucket /\ Merging(q, k) /\ q.merge.name # 0
<1>1. q.next \in Nat /\ q.meta \in Seq(Chunk) /\ q.next > 0
  BY ReceiverTypes DEF RankOK, StreamOK
<1>2. q.next \in DOMAIN q.meta
  BY <1>1
<1>3. c \in Chunk /\ IsChunk(z, c) /\ After(z, c) = At(q.meta, q.next + 1, Following(o, e))
  BY <1>1, <1>2 DEF RankOK, StreamOK, Run
<1>4. q.w = NoWeight /\ q.w.name = 0
  BY DEF RankOK, ControlOK, NoWeight
<1>5. HasPiece(q.mem[1 - q.recv], c)
  BY <1>2 DEF RankOK, BuffersOK, Holds
<1>6. Wanted(q, k) = <<c.name, c.chunkOffset>>
  BY DEF RankOK, StreamOK, At, Start
<1>7. Emitted(q, k) \in Nat /\ q.merge.name \in Nat
  BY EmittedFacts, ReceiverTypes
<1>8. CASE q.merge.name = 0
  BY <1>3, <1>4, <1>5, <1>6, <1>8 DEF Wanted, Merging
<1>9. CASE q.merge.name # 0
  <2>1. q.merge.name = Emitted(q, k) + 1 /\ z[q.merge.name] > Bucket
    BY <1>4, <1>9 DEF RankOK, MergeOK
  <2>2. Merging(q, k)
    BY <1>7, <1>9, <2>1 DEF Merging
  <2>3. QED
    BY <1>3, <1>4, <1>5, <1>6, <1>9, <2>1, <2>2 DEF Wanted
<1>10. QED
  BY <1>8, <1>9

(* The bucket received is taken, and the next is asked for unless it was    *)
(* the last.                                                                *)
LEMMA TakeBucketRank ==
  ASSUME NEW z, NEW q \in Receiver, NEW o \in Operation, NEW k \in Worker, NEW e,
         RankOK(z, q, o, k, e), q.pc = "wait", o.st = "done", q.queue = <<>>,
         NEW q2, q2.recv = 1 - q.recv, q2.pc = "chunk", q2.next = 1, q2.meta = o.meta,
         q2.last = o.last, q2.mem = q.mem, q2.queue = q.queue, q2.merge = q.merge,
         q2.w = q.w, q2.shared = q.shared, q2.offset = q.offset, q2.packed = q.packed,
         NEW o2, o.last => o2.st = "none",
         ~o.last => o2.st = "publish" /\ o2.buf = 1 - q.recv
  PROVE  RankOK(z, q2, o2, k, e)
<1>1. q.w = NoWeight /\ q.w.name = 0 /\ o.buf = q.recv /\ o.last \in BOOLEAN
  BY DEF RankOK, ControlOK, BuffersOK, NoWeight, Operation
<1>2. ControlOK(q2, o2, k)
  BY <1>1 DEF RankOK, ControlOK
<1>3. BuffersOK(q2, o2)
  <2>1. 1 - q2.recv = q.recv
    BY ReceiverTypes
  <2>2. Holds(q.mem[q.recv], o.meta)
    BY <1>1 DEF RankOK, BuffersOK
  <2>3. QED
    BY <1>1, <2>1, <2>2 DEF BuffersOK
<1>4. StreamOK(z, q2, o2, k, e)
  <2>1. Wanted(q2, k) = Wanted(q, k)
    BY DEF Wanted, Merging, Emitted
  <2>2. Following(o2, e) = e /\ Following(o, e) = At(o.meta, 1, e)
    BY <1>1 DEF Following
  <2>3. Wanted(q, k) = At(o.meta, 1, e)
    <3>1. q.next > Len(q.meta) /\ q.next \in Nat /\ Len(q.meta) \in Nat
      BY ReceiverTypes DEF RankOK, ControlOK
    <3>2. QED
      BY <2>2, <3>1 DEF RankOK, StreamOK, At
  <2>4. o2.st # "done"
    BY <1>1
  <2>5. QED
    BY <2>1, <2>2, <2>3, <2>4 DEF RankOK, StreamOK
<1>5. WeightsOK(z, q2, k)
  BY DEF RankOK, WeightsOK
<1>6. MergeOK(z, q2, k)
  <2>1. Emitted(q2, k) = Emitted(q, k)
    BY DEF Emitted
  <2>2. QED
    BY <2>1 DEF RankOK, MergeOK
<1>7. ContentsOK(z, q2, k)
  BY <1>1 DEF RankOK, ContentsOK
<1>8. QED
  BY <1>2, <1>3, <1>4, <1>5, <1>6, <1>7 DEF RankOK

(* A small weight goes to the loop. *)
LEMMA SmallWeightRank ==
  ASSUME NEW z, NEW q \in Receiver, NEW o \in Operation, NEW k \in Worker, NEW e,
         RankOK(z, q, o, k, e), q.pc = "chunk", q.next <= Len(q.meta),
         NEW c, c = q.meta[q.next], z[c.name] <= Bucket,
         NEW q2, q2.recv = q.recv, q2.pc = "emit", q2.next = q.next + 1, q2.meta = q.meta,
         q2.last = q.last, q2.mem = q.mem, q2.queue = q.queue, q2.merge = q.merge,
         q2.w.name = c.name, q2.w.n = c.n, q2.w.at = c.offset,
         q2.shared = q.shared, q2.offset = q.offset, q2.packed = q.packed
  PROVE  RankOK(z, q2, o, k, e)
<1>1. /\ c \in Chunk /\ IsChunk(z, c) /\ q.w = NoWeight /\ q.w.name = 0
      /\ HasPiece(q.mem[1 - q.recv], c)
      /\ After(z, c) = At(q.meta, q.next + 1, Following(o, e))
      /\ c.name = Emitted(q, k) + 1
      /\ \/ q.merge.name = 0 /\ c.chunkOffset = 0
         \/ z[c.name] > Bucket
  BY PieceAt
<1>2. c.name \in Nat /\ c.name \in DOMAIN z /\ c.chunkOffset = 0 /\ c.n = z[c.name]
  BY <1>1 DEF IsChunk, Chunk
<1>3. q.merge.name = 0
  <2>1. CASE z[c.name] > Bucket
    <3>1. c.n \in Nat /\ Bucket \in Nat
      BY <1>1, TransferAssumption DEF Chunk
    <3>2. QED
      BY <1>2, <2>1, <3>1
  <2>2. QED
    BY <1>1, <2>1
<1>4. Handed(k) \in Nat /\ Len(q.packed) \in Nat /\ Emitted(q, k) = Handed(k) + Len(q.packed)
  BY <1>1, ReceiverTypes, WorkerTypes, EmittedFacts
<1>5. c.name = Handed(k) + Len(q.packed) + 1 /\ c.name # 0
  BY <1>1, <1>4
<1>6. Emitted(q2, k) = c.name
  BY <1>4, <1>5 DEF Emitted
<1>7. ControlOK(q2, o, k)
  BY <1>5 DEF RankOK, ControlOK
<1>8. BuffersOK(q2, o)
  BY DEF RankOK, BuffersOK
<1>9. StreamOK(z, q2, o, k, e)
  <2>1. q2.next > 0
    BY ReceiverTypes
  <2>2. Wanted(q2, k) = <<c.name + 1, 0>>
    BY <1>3, <1>6 DEF Wanted, Merging
  <2>3. After(z, c) = <<c.name + 1, 0>>
    <3>1. c.n \in Nat
      BY <1>1 DEF Chunk
    <3>2. QED
      BY <1>2, <3>1 DEF After
  <2>4. QED
    BY <1>1, <2>1, <2>2, <2>3 DEF RankOK, StreamOK
<1>10. WeightsOK(z, q2, k)
  BY <1>2, <1>5 DEF RankOK, WeightsOK
<1>11. MergeOK(z, q2, k)
  BY <1>3 DEF MergeOK
<1>12. ContentsOK(z, q2, k)
  <2>1. Has(q2.mem[1 - q2.recv], q2.w.at, q2.w.name, 0, q2.w.n)
    BY <1>1, <1>2 DEF HasPiece
  <2>2. \A j \in DOMAIN q.queue : \E p \in DOMAIN q.packed : Brings(q, q.queue[j], p)
    BY <1>3 DEF RankOK, ContentsOK, Adds
  <2>3. \A d, p : Brings(q2, d, p) <=> Brings(q, d, p)
    BY DEF Brings
  <2>4. q2.merge.name = 0
    BY <1>3
  <2>5. QED
    BY <1>3, <2>1, <2>2, <2>3, <2>4 DEF RankOK, ContentsOK
<1>13. QED
  BY <1>7, <1>8, <1>9, <1>10, <1>11, <1>12 DEF RankOK

LEMMA Below == \A a, b \in Nat : a <= b /\ a # b => a < b
OBVIOUS

LEMMA Further == \A a, b, n \in Nat : a <= b => a <= b + n
OBVIOUS

LEMMA Either == \A a, b \in Int : a > b \/ a <= b
OBVIOUS

(* A piece of a large weight is queued to be copied to the others.          *)
LEMMA LargeWeightRank ==
  ASSUME NEW z, Sizing(z), NEW q \in Receiver, NEW o \in Operation, NEW k \in Worker, NEW e,
         RankOK(z, q, o, k, e), q.pc = "chunk", q.next <= Len(q.meta),
         NEW c, c = q.meta[q.next], z[c.name] > Bucket,
         NEW whole \in BOOLEAN, whole <=> c.chunkOffset + c.n = z[c.name],
         NEW y \in QueuedType, y.to = "merge", y.at = c.chunkOffset, y.buf = 1 - q.recv,
         y.from = c.offset, y.n = c.n,
         NEW q2, q2.recv = q.recv, q2.next = q.next + 1, q2.meta = q.meta, q2.last = q.last,
         q2.mem = q.mem, q2.queue = Append(q.queue, y),
         q2.shared = q.shared, q2.offset = q.offset, q2.packed = q.packed,
         q.merge.name = 0 => /\ q2.merge.name = c.name /\ q2.merge.got = c.n
                             /\ DOMAIN q2.merge.mem = 1 .. z[c.name],
         q.merge.name # 0 => /\ q2.merge.name = q.merge.name
                             /\ q2.merge.got = q.merge.got + c.n /\ q2.merge.mem = q.merge.mem,
         whole => q2.pc = "emit" /\ q2.w.name = c.name /\ q2.w.n = z[c.name],
         ~whole => q2.pc = "chunk" /\ q2.w = q.w
  PROVE  RankOK(z, q2, o, k, e)
<1>1. /\ c \in Chunk /\ IsChunk(z, c) /\ q.w = NoWeight /\ q.w.name = 0
      /\ HasPiece(q.mem[1 - q.recv], c)
      /\ After(z, c) = At(q.meta, q.next + 1, Following(o, e))
      /\ c.name = Emitted(q, k) + 1
      /\ \/ q.merge.name = 0 /\ c.chunkOffset = 0
         \/ q.merge.name = c.name /\ q.merge.got = c.chunkOffset /\ q.merge.name # 0
  BY PieceAt
<1>2. /\ c.name \in Nat /\ c.name \in DOMAIN z /\ c.chunkOffset \in Nat /\ c.n \in Nat /\ c.n > 0
      /\ z[c.name] \in Nat /\ c.chunkOffset + c.n <= z[c.name]
      /\ ~whole => c.chunkOffset + c.n < z[c.name]
  <2>1. c.name \in Nat /\ c.name \in DOMAIN z /\ c.chunkOffset \in Nat /\ c.n \in Nat /\ c.n > 0
        /\ c.chunkOffset + c.n <= z[c.name]
    BY <1>1 DEF IsChunk, Chunk
  <2>2. z[c.name] \in Nat
    BY <2>1 DEF Sizing
  <2>3. ~whole => c.chunkOffset + c.n # z[c.name]
    OBVIOUS
  <2>4. c.chunkOffset + c.n # z[c.name] => c.chunkOffset + c.n < z[c.name]
    <3>1. c.chunkOffset + c.n \in Nat
      BY <2>1
    <3>2. QED
      BY <2>1, <2>2, <3>1, Below
  <2>5. QED
    BY <2>1, <2>2, <2>3, <2>4, Zenon
<1>3. Handed(k) \in Nat /\ Len(q.packed) \in Nat /\ Emitted(q, k) = Handed(k) + Len(q.packed)
  BY <1>1, ReceiverTypes, WorkerTypes, EmittedFacts
<1>4. c.name = Handed(k) + Len(q.packed) + 1 /\ c.name # 0
  BY <1>1, <1>3
<1>5. q2.merge.name = c.name /\ q2.merge.got = c.chunkOffset + c.n
  BY <1>1, <1>2
<1>6. q2.merge.name # 0 /\ q2.merge.got > 0
  BY <1>2, <1>4, <1>5
<1>7. /\ whole => Emitted(q2, k) = c.name
      /\ ~whole => Emitted(q2, k) = Emitted(q, k)
  BY <1>1, <1>3, <1>4 DEF Emitted
<1>8. ControlOK(q2, o, k)
  <2>1. whole => q2.w.name # 0
    BY <1>4
  <2>2. CASE whole
    BY <2>1, <2>2 DEF RankOK, ControlOK
  <2>3. CASE ~whole
    BY <2>3 DEF RankOK, ControlOK
  <2>4. QED
    BY <2>2, <2>3
<1>9. q.queue \in Seq(QueuedType)
  BY ReceiverTypes
<1>10. /\ DOMAIN q.queue = 1 .. Len(q.queue) /\ Len(q.queue) \in Nat
       /\ DOMAIN q2.queue = 1 .. Len(q.queue) + 1
       /\ \A i \in 1 .. Len(q.queue) : q2.queue[i] = q.queue[i]
       /\ q2.queue[Len(q.queue) + 1] = y
  BY <1>9, AppendFacts
<1>11. /\ \A j \in DOMAIN q2.queue : j \in DOMAIN q.queue \/ j = Len(q.queue) + 1
       /\ \A j \in DOMAIN q.queue : j \in DOMAIN q2.queue /\ q2.queue[j] = q.queue[j]
       /\ Len(q.queue) + 1 \in DOMAIN q2.queue
  BY <1>10
<1>12. BuffersOK(q2, o)
  <2>1. \A j \in DOMAIN q2.queue : q2.queue[j].buf = 1 - q2.recv
    BY <1>10, <1>11 DEF RankOK, BuffersOK
  <2>2. QED
    BY <2>1 DEF RankOK, BuffersOK
<1>13. StreamOK(z, q2, o, k, e)
  <2>1. q2.next > 0
    BY ReceiverTypes
  <2>2. Wanted(q2, k) = After(z, c)
    <3>1. CASE whole
      <4>1. Emitted(q2, k) = c.name /\ ~Merging(q2, k)
        BY <1>2, <1>5, <1>7, <3>1 DEF Merging
      <4>2. QED
        BY <3>1, <4>1 DEF Wanted, After
    <3>2. CASE ~whole
      <4>1. Emitted(q2, k) \in Nat /\ c.name = Emitted(q2, k) + 1
        BY <1>1, <1>3, <1>7, <3>2
      <4>2. Merging(q2, k)
        BY <1>5, <1>6, <4>1 DEF Merging
      <4>3. QED
        BY <1>5, <3>2, <4>2 DEF Wanted, After
    <3>3. QED
      BY <3>1, <3>2
  <2>3. QED
    BY <1>1, <2>1, <2>2 DEF RankOK, StreamOK
<1>14. WeightsOK(z, q2, k)
  <2>1. q2.w.name # 0 => whole
    BY <1>1
  <2>2. QED
    BY <1>2, <1>4, <2>1 DEF RankOK, WeightsOK
<1>15. MergeOK(z, q2, k)
  <2>1. DOMAIN q2.merge.mem = 1 .. z[q2.merge.name]
    BY <1>1, <1>5 DEF RankOK, MergeOK
  <2>2. CASE whole
    BY <1>2, <1>4, <1>5, <1>6, <1>7, <2>1, <2>2 DEF MergeOK
  <2>3. CASE ~whole
    <3>1. q2.merge.name = Emitted(q2, k) + 1 /\ q2.merge.got < z[q2.merge.name]
      BY <1>1, <1>2, <1>5, <1>7, <2>3
    <3>2. q2.w = NoWeight /\ q2.pc = "chunk"
      BY <1>1, <2>3
    <3>3. QED
      BY <1>2, <1>5, <1>6, <2>1, <3>1, <3>2 DEF MergeOK
  <2>4. QED
    BY <2>2, <2>3
<1>16. ContentsOK(z, q2, k)
  <2>1. Adds(q2, y)
    BY <1>1, <1>2, <1>5, <1>6 DEF Adds, HasPiece
  <2>2. \A d \in QueuedType : Adds(q, d) => Adds(q2, d)
    <3>1. ASSUME NEW d \in QueuedType, Adds(q, d) PROVE Adds(q2, d)
      <4>1. /\ d.to = "merge" /\ q.merge.name # 0 /\ d.at + d.n <= q.merge.got
            /\ Has(q.mem[d.buf], d.from, q.merge.name, d.at, d.n)
            /\ d.at \in Nat /\ d.n \in Nat
        BY <3>1 DEF Adds, QueuedType
      <4>2. q2.merge.name = q.merge.name /\ q.merge.got = c.chunkOffset
        BY <1>1, <4>1
      <4>3. d.at + d.n <= c.chunkOffset
        BY <4>1, <4>2
      <4>4. d.at + d.n <= c.chunkOffset + c.n
        <5>1. d.at + d.n \in Nat
          BY <4>1
        <5>2. QED
          BY <1>2, <4>3, <5>1, Further
      <4>5. d.at + d.n <= q2.merge.got
        BY <1>5, <4>4, Zenon
      <4>6. Has(q2.mem[d.buf], d.from, q2.merge.name, d.at, d.n)
        BY <4>1, <4>2, Zenon
      <4>7. QED
        BY <1>6, <4>1, <4>5, <4>6 DEF Adds
    <3>2. QED
      BY <3>1
  <2>3. \A d, p : Brings(q2, d, p) <=> Brings(q, d, p)
    BY DEF Brings
  <2>4. \A j \in DOMAIN q.queue : q.queue[j] \in QueuedType
    BY <1>9
  <2>5. \A j \in DOMAIN q2.queue :
          Adds(q2, q2.queue[j]) \/ \E p \in DOMAIN q2.packed : Brings(q2, q2.queue[j], p)
    <3>1. ASSUME NEW j \in DOMAIN q.queue
          PROVE  Adds(q2, q2.queue[j]) \/ \E p \in DOMAIN q2.packed : Brings(q2, q2.queue[j], p)
      <4>1. Adds(q, q.queue[j]) \/ \E p \in DOMAIN q.packed : Brings(q, q.queue[j], p)
        BY DEF RankOK, ContentsOK
      <4>2. QED
        BY <1>11, <2>2, <2>3, <2>4, <4>1
    <3>2. QED
      BY <1>10, <1>11, <2>1, <3>1
  <2>6. ASSUME NEW i \in 1 .. q2.merge.got
        PROVE  \/ q2.merge.mem[i] = <<q2.merge.name, i>>
               \/ \E j \in DOMAIN q2.queue : /\ q2.queue[j].to = "merge" /\ q2.queue[j].at < i
                                             /\ i <= q2.queue[j].at + q2.queue[j].n
    <3>1. CASE i > c.chunkOffset
      <4>1. y.at < i /\ i <= y.at + y.n
        BY <1>2, <1>5, <3>1
      <4>2. QED
        BY <1>10, <1>11, <4>1
    <3>2. CASE i <= c.chunkOffset
      <4>1. q.merge.name # 0 /\ i \in 1 .. q.merge.got
        BY <1>1, <1>2, <1>5, <3>2
      <4>2. \/ q.merge.mem[i] = <<q.merge.name, i>>
            \/ \E j \in DOMAIN q.queue : /\ q.queue[j].to = "merge" /\ q.queue[j].at < i
                                         /\ i <= q.queue[j].at + q.queue[j].n
        BY <4>1 DEF RankOK, ContentsOK
      <4>3. q2.merge.name = q.merge.name /\ q2.merge.mem = q.merge.mem
        BY <4>1
      <4>4. QED
        BY <1>11, <4>2, <4>3, Zenon
    <3>3. i > c.chunkOffset \/ i <= c.chunkOffset
      BY <1>2, Either
    <3>4. QED
      BY <3>1, <3>2, <3>3, Zenon
  <2>7. \A p \in DOMAIN q2.packed :
          \/ Has(q2.shared, q2.packed[p].offset, q2.packed[p].name, 0, q2.packed[p].n)
          \/ \E j \in DOMAIN q2.queue : Brings(q2, q2.queue[j], p)
    BY <1>11, <2>3 DEF RankOK, ContentsOK
  <2>8. q2.w.name # 0 => ~(z[q2.w.name] <= Bucket)
    <3>1. z[c.name] \in Nat /\ Bucket \in Nat
      BY <1>2, TransferAssumption
    <3>2. q2.w.name # 0 => q2.w.name = c.name
      BY <1>1
    <3>3. QED
      BY <3>1, <3>2
  <2>9. k.st \notin {"load", "replied"}
    BY DEF RankOK, ControlOK
  <2>10. k.st = "load" /\ k.direct => Len(k.meta) = 1 /\ k.meta[1].offset = 0
    BY <2>9
  <2>11. QED
    BY <2>5, <2>6, <2>7, <2>8, <2>9 DEF ContentsOK
<1>17. QED
  BY <1>8, <1>12, <1>13, <1>14, <1>15, <1>16 DEF RankOK

(* The bucket has no more. *)
LEMMA EndOfBucketRank ==
  ASSUME NEW z, NEW q \in Receiver, NEW o \in Operation, NEW k \in Worker, NEW e,
         RankOK(z, q, o, k, e), q.pc = "chunk", q.next > Len(q.meta),
         NEW q2, q2.recv = q.recv, q.last => q2.pc = "last", ~q.last => q2.pc = "wait",
         q2.next = q.next, q2.meta = q.meta,
         q2.last = q.last, q2.mem = q.mem, q2.queue = q.queue, q2.merge = q.merge, q2.w = q.w,
         q2.shared = q.shared, q2.offset = q.offset, q2.packed = q.packed
  PROVE  RankOK(z, q2, o, k, e)
<1>1. q2.pc \in {"last", "wait"} /\ (q2.pc = "last" => q.last)
  BY ReceiverTypes
<1>2. ControlOK(q2, o, k)
  BY <1>1 DEF RankOK, ControlOK
<1>3. Emitted(q2, k) = Emitted(q, k)
  BY DEF Emitted
<1>4. BuffersOK(q2, o) /\ WeightsOK(z, q2, k)
  BY DEF RankOK, BuffersOK, WeightsOK
<1>5. StreamOK(z, q2, o, k, e)
  BY <1>3 DEF RankOK, StreamOK, Wanted, Merging
<1>6. MergeOK(z, q2, k)
  BY <1>1, <1>3 DEF RankOK, MergeOK
<1>7. ContentsOK(z, q2, k)
  BY DEF RankOK, ContentsOK, Adds, Brings
<1>8. QED
  BY <1>2, <1>4, <1>5, <1>6, <1>7 DEF RankOK

(* The loop puts a weight into the shared buffer. *)
LEMMA PackWeightRank ==
  ASSUME NEW z, NEW q \in Receiver, NEW o \in Operation, NEW k \in Worker, NEW e,
         RankOK(z, q, o, k, e), q.pc = "emit", q.offset + q.w.n <= Bucket,
         NEW p \in Packed, p.name = q.w.name, p.n = q.w.n, p.offset = q.offset,
         NEW y \in QueuedType, y.to = "shared", y.at = q.offset, y.buf = 1 - q.recv,
         y.from = q.w.at, y.n = q.w.n,
         NEW q2, q2.pc = "chunk", q2.recv = q.recv, q2.next = q.next, q2.meta = q.meta,
         q2.last = q.last, q2.mem = q.mem, q2.queue = Append(q.queue, y), q2.merge = q.merge,
         q2.w = NoWeight, q2.shared = q.shared, q2.offset = q.offset + q.w.n,
         q2.packed = Append(q.packed, p)
  PROVE  RankOK(z, q2, o, k, e)
<1>1. /\ q.w.name # 0 /\ q.w.name = Handed(k) + Len(q.packed) + 1 /\ q.w.name \in DOMAIN z
      /\ q.w.n = z[q.w.name] /\ q.w.n \in Nat /\ q.offset \in Nat /\ q.w.name \in Nat
  BY ReceiverTypes DEF RankOK, ControlOK, WeightsOK
<1>2. k.st \notin {"load", "replied", "end"}
  BY DEF RankOK, ControlOK
<1>3. Handed(k) \in Nat /\ Len(q.packed) \in Nat /\ Emitted(q, k) = q.w.name
  BY <1>1, ReceiverTypes, WorkerTypes, EmittedFacts
<1>4. z[q.w.name] <= Bucket
  <2>1. q.w.n <= Bucket
    BY <1>1, TransferAssumption
  <2>2. QED
    BY <1>1, <2>1
<1>5. q.merge.name = 0
  <2>1. ~(z[q.w.name] > Bucket)
    <3>1. z[q.w.name] \in Nat /\ Bucket \in Nat
      BY <1>1, TransferAssumption
    <3>2. QED
      BY <1>4, <3>1
  <2>2. q.w # NoWeight
    BY <1>1 DEF NoWeight
  <2>3. QED
    BY <1>3, <2>1, <2>2 DEF RankOK, MergeOK
<1>6. /\ DOMAIN q.packed = 1 .. Len(q.packed) /\ DOMAIN q2.packed = 1 .. Len(q.packed) + 1
      /\ Len(q2.packed) = Len(q.packed) + 1
      /\ \A i \in 1 .. Len(q.packed) : q2.packed[i] = q.packed[i] /\ q.packed[i] \in Packed
      /\ q2.packed[Len(q.packed) + 1] = p /\ q2.packed # <<>>
  BY ReceiverTypes, AppendFacts
<1>7. /\ \A i \in DOMAIN q2.packed : i \in 1 .. Len(q.packed) \/ i = Len(q.packed) + 1
      /\ \A i \in 1 .. Len(q.packed) : i \in DOMAIN q2.packed
      /\ Len(q.packed) + 1 \in DOMAIN q2.packed
  BY <1>3, <1>6
<1>8. /\ DOMAIN q.queue = 1 .. Len(q.queue) /\ Len(q.queue) \in Nat
      /\ DOMAIN q2.queue = 1 .. Len(q.queue) + 1
      /\ \A i \in 1 .. Len(q.queue) : q2.queue[i] = q.queue[i]
      /\ q2.queue[Len(q.queue) + 1] = y
  <2>1. q.queue \in Seq(QueuedType)
    BY ReceiverTypes
  <2>2. QED
    BY <2>1, AppendFacts
<1>9. /\ \A j \in DOMAIN q2.queue : j \in DOMAIN q.queue \/ j = Len(q.queue) + 1
      /\ \A j \in DOMAIN q.queue : j \in DOMAIN q2.queue /\ q2.queue[j] = q.queue[j]
      /\ Len(q.queue) + 1 \in DOMAIN q2.queue
  BY <1>8
<1>10. Emitted(q2, k) = Emitted(q, k)
  BY <1>1, <1>3, <1>6 DEF Emitted, NoWeight
<1>11. ControlOK(q2, o, k)
  BY <1>2 DEF RankOK, ControlOK
<1>12. BuffersOK(q2, o)
  <2>1. \A j \in DOMAIN q2.queue : q2.queue[j].buf = 1 - q2.recv
    BY <1>8, <1>9 DEF RankOK, BuffersOK
  <2>2. QED
    BY <2>1 DEF RankOK, BuffersOK
<1>13. StreamOK(z, q2, o, k, e)
  BY <1>10 DEF RankOK, StreamOK, Wanted, Merging
<1>14. WeightsOK(z, q2, k)
  <2>1. \A i \in 1 .. Len(q.packed) : /\ q.packed[i].name = Handed(k) + i
                                      /\ q.packed[i].name \in DOMAIN z
                                      /\ q.packed[i].n = z[q.packed[i].name]
                                      /\ q.packed[i].offset + q.packed[i].n <= q.offset
                                      /\ q.packed[i].offset \in Nat /\ q.packed[i].n \in Nat
    BY <1>6 DEF RankOK, WeightsOK, Packed
  <2>2. \A i \in 1 .. Len(q.packed) : q.packed[i].offset + q.packed[i].n <= q2.offset
    BY <1>1, <2>1, SMTT(20)
  <2>3. p.name = Handed(k) + (Len(q.packed) + 1) /\ p.offset + p.n <= q2.offset
    BY <1>1, <1>3
  <2>4. \A i \in DOMAIN q2.packed : /\ q2.packed[i].name = Handed(k) + i
                                    /\ q2.packed[i].name \in DOMAIN z
                                    /\ q2.packed[i].n = z[q2.packed[i].name]
                                    /\ q2.packed[i].offset + q2.packed[i].n <= q2.offset
    BY <1>1, <1>6, <1>7, <2>1, <2>2, <2>3
  <2>5. Disjoint(q2.packed)
    <3>1. \A i, j \in 1 .. Len(q.packed) :
            i < j => q.packed[i].offset + q.packed[i].n <= q.packed[j].offset
      BY <1>6 DEF RankOK, WeightsOK, Disjoint
    <3>2. \A i \in 1 .. Len(q.packed) : q.packed[i].offset + q.packed[i].n <= p.offset
      BY <2>1
    <3>3. \A i, j \in DOMAIN q2.packed :
            i < j => i \in 1 .. Len(q.packed) /\ (j \in 1 .. Len(q.packed) \/ j = Len(q.packed) + 1)
      BY <1>3, <1>6
    <3>4. QED
      BY <1>6, <3>1, <3>2, <3>3 DEF Disjoint
  <2>6. q2.w.name = 0
    BY DEF NoWeight
  <2>7. QED
    BY <1>6, <2>4, <2>5, <2>6 DEF RankOK, WeightsOK
<1>15. MergeOK(z, q2, k)
  BY <1>5 DEF MergeOK, NoWeight
<1>16. ContentsOK(z, q2, k)
  <2>1. Brings(q2, y, Len(q.packed) + 1)
    <3>1. Has(q.mem[1 - q.recv], q.w.at, q.w.name, 0, q.w.n)
      BY <1>1, <1>4 DEF RankOK, ContentsOK
    <3>2. QED
      BY <1>6, <3>1 DEF Brings
  <2>2. \A d : \A i \in 1 .. Len(q.packed) : Brings(q2, d, i) <=> Brings(q, d, i)
    BY <1>6 DEF Brings
  <2>3. \A j \in DOMAIN q.queue : \E i \in 1 .. Len(q.packed) : Brings(q, q.queue[j], i)
    BY <1>5, <1>6 DEF RankOK, ContentsOK, Adds
  <2>4. \A j \in DOMAIN q2.queue : \E i \in DOMAIN q2.packed : Brings(q2, q2.queue[j], i)
    BY <1>7, <1>8, <1>9, <2>1, <2>2, <2>3
  <2>5. \A i \in 1 .. Len(q.packed) :
          \/ Has(q.shared, q.packed[i].offset, q.packed[i].name, 0, q.packed[i].n)
          \/ \E j \in DOMAIN q.queue : Brings(q, q.queue[j], i)
    BY <1>6 DEF RankOK, ContentsOK
  <2>6. \A i \in DOMAIN q2.packed :
          \/ Has(q2.shared, q2.packed[i].offset, q2.packed[i].name, 0, q2.packed[i].n)
          \/ \E j \in DOMAIN q2.queue : Brings(q2, q2.queue[j], i)
    <3>1. ASSUME NEW i \in 1 .. Len(q.packed)
          PROVE  \/ Has(q2.shared, q2.packed[i].offset, q2.packed[i].name, 0, q2.packed[i].n)
                 \/ \E j \in DOMAIN q2.queue : Brings(q2, q2.queue[j], i)
      BY <1>6, <1>9, <2>2, <2>5
    <3>2. QED
      BY <1>7, <1>8, <1>9, <2>1, <3>1
  <2>7. q2.w.name = 0 /\ q2.merge.name = 0
    BY <1>5 DEF NoWeight
  <2>8. QED
    BY <1>2, <2>4, <2>6, <2>7 DEF ContentsOK
<1>17. QED
  BY <1>11, <1>12, <1>13, <1>14, <1>15, <1>16 DEF RankOK

(* The shared buffer is handed to the worker. *)
LEMMA SendSharedRank ==
  ASSUME NEW z, NEW q \in Receiver, NEW o \in Operation, NEW k \in Worker, NEW e,
         RankOK(z, q, o, k, e), q.pc = "emit" \/ q.pc = "last", q.queue = <<>>,
         NEW q2, q2.pc = "reply", q2.recv = q.recv, q2.next = q.next, q2.meta = q.meta,
         q2.last = q.last, q2.mem = q.mem, q2.queue = q.queue, q2.merge = q.merge,
         q2.w = q.w, q2.shared = q.shared, q2.offset = 0, q2.packed = <<>>,
         NEW k2, k2.st = "load", k2.meta = q.packed, ~k2.direct,
         k2.last \in BOOLEAN, k2.last <=> q.pc = "last", k2.loaded = k.loaded
  PROVE  RankOK(z, q2, o, k2, e)
<1>1. k.st \notin {"load", "replied", "end"}
  BY DEF RankOK, ControlOK
<1>2. Loading(k) = <<>> /\ Loading(k2) = q.packed /\ Len(<<>>) = 0 /\ DOMAIN <<>> = {}
  BY <1>1 DEF Loading
<1>3. /\ Len(k.loaded) \in Nat /\ Len(q.packed) \in Nat
      /\ Handed(k) = Len(k.loaded) /\ Handed(k2) = Len(k.loaded) + Len(q.packed)
  BY <1>2, ReceiverTypes, WorkerTypes DEF Handed
<1>4. Emitted(q2, k2) = Emitted(q, k)
  BY <1>2, <1>3 DEF Emitted
<1>5. /\ q.pc = "last" => q.w = NoWeight /\ q.last /\ q.next > Len(q.meta)
      /\ q.pc = "emit" => q.w.name # 0
      /\ NoWeight.name = 0
  BY DEF RankOK, ControlOK, NoWeight
<1>6. ControlOK(q2, o, k2)
  BY <1>5 DEF RankOK, ControlOK
<1>7. BuffersOK(q2, o)
  BY DEF RankOK, BuffersOK
<1>8. StreamOK(z, q2, o, k2, e)
  BY <1>4 DEF RankOK, StreamOK, Wanted, Merging
<1>9. WeightsOK(z, q2, k2)
  <2>1. \A i \in DOMAIN Loading(k2) : /\ Loading(k2)[i].name = Len(k2.loaded) + i
                                      /\ Loading(k2)[i].name \in DOMAIN z
                                      /\ Loading(k2)[i].n = z[Loading(k2)[i].name]
    BY <1>2, <1>3 DEF RankOK, WeightsOK
  <2>2. q2.w.name # 0 => q2.w.name = Handed(k2) + Len(q2.packed) + 1
    <3>1. q.w.name # 0 => q.w.name = Handed(k) + Len(q.packed) + 1
      BY DEF RankOK, WeightsOK
    <3>2. Handed(k2) + Len(q2.packed) = Handed(k) + Len(q.packed)
      BY <1>2, <1>3
    <3>3. QED
      BY <3>1, <3>2, Zenon
  <2>3. QED
    BY <1>2, <2>1, <2>2 DEF RankOK, WeightsOK, Disjoint
<1>10. MergeOK(z, q2, k2)
  <2>1. q.pc # "reply"
    OBVIOUS
  <2>2. QED
    BY <1>4, <2>1 DEF RankOK, MergeOK
<1>11. ContentsOK(z, q2, k2)
  <2>1. \A p \in DOMAIN k2.meta : Has(q2.shared, k2.meta[p].offset, k2.meta[p].name, 0, k2.meta[p].n)
    BY <1>2 DEF RankOK, ContentsOK
  <2>2. QED
    BY <1>2, <2>1 DEF RankOK, ContentsOK
<1>12. QED
  BY <1>6, <1>7, <1>8, <1>9, <1>10, <1>11 DEF RankOK

(* A weight too large for it is handed over by a handle. *)
LEMMA SendDirectRank ==
  ASSUME NEW z, NEW q \in Receiver, NEW o \in Operation, NEW k \in Worker, NEW e,
         RankOK(z, q, o, k, e), q.pc = "emit", q.offset + q.w.n > Bucket, q.packed = <<>>,
         NEW q2, q2.pc = "reply", q2.recv = q.recv, q2.next = q.next, q2.meta = q.meta,
         q2.last = q.last, q2.mem = q.mem, q2.queue = q.queue, q2.merge = q.merge,
         q2.w = NoWeight, q2.shared = q.shared, q2.offset = q.offset, q2.packed = q.packed,
         NEW p \in Packed, p.name = q.w.name, p.n = q.w.n, p.offset = 0,
         NEW k2, k2.st = "load", k2.meta = <<p>>, k2.direct, ~k2.last, k2.loaded = k.loaded
  PROVE  RankOK(z, q2, o, k2, e)
<1>1. k.st \notin {"load", "replied", "end"}
  BY DEF RankOK, ControlOK
<1>2. /\ Loading(k) = <<>> /\ Loading(k2) = <<p>> /\ Len(<<>>) = 0 /\ DOMAIN <<>> = {}
      /\ Len(<<p>>) = 1 /\ DOMAIN <<p>> = {1} /\ <<p>>[1] = p
  BY <1>1 DEF Loading
<1>3. /\ q.w.name # 0 /\ q.w.name = Handed(k) + Len(q.packed) + 1 /\ q.w.name \in DOMAIN z
      /\ q.w.n = z[q.w.name] /\ q.w.n \in Nat /\ q.w.name \in Nat /\ q.offset = 0
  BY ReceiverTypes DEF RankOK, ControlOK, WeightsOK
<1>4. /\ Len(k.loaded) \in Nat /\ Len(q.packed) = 0
      /\ Handed(k) = Len(k.loaded) /\ Handed(k2) = Len(k.loaded) + 1
  BY <1>2, WorkerTypes DEF Handed
<1>5. Emitted(q, k) = q.w.name /\ Emitted(q2, k2) = q.w.name /\ q.w.name = Len(k.loaded) + 1
  BY <1>2, <1>3, <1>4 DEF Emitted, NoWeight
<1>6. z[q.w.name] > Bucket
  <2>1. q.w.n > Bucket
    BY <1>3, TransferAssumption
  <2>2. QED
    BY <1>3, <2>1
<1>7. q.merge.name # 0
  <2>1. ~(z[q.w.name] <= Bucket)
    <3>1. z[q.w.name] \in Nat /\ Bucket \in Nat
      BY <1>3, TransferAssumption
    <3>2. QED
      BY <1>6, <3>1
  <2>2. QED
    BY <1>3, <2>1 DEF RankOK, MergeOK
<1>8. q.w # NoWeight
  BY <1>3 DEF NoWeight
<1>9. ControlOK(q2, o, k2)
  BY <1>1 DEF RankOK, ControlOK
<1>10. BuffersOK(q2, o)
  BY DEF RankOK, BuffersOK
<1>11. StreamOK(z, q2, o, k2, e)
  BY <1>5 DEF RankOK, StreamOK, Wanted, Merging
<1>12. WeightsOK(z, q2, k2)
  <2>1. q2.w.name = 0
    BY DEF NoWeight
  <2>2. \A i \in DOMAIN Loading(k2) : /\ Loading(k2)[i].name = Len(k2.loaded) + i
                                      /\ Loading(k2)[i].name \in DOMAIN z
                                      /\ Loading(k2)[i].n = z[Loading(k2)[i].name]
    BY <1>2, <1>3, <1>5
  <2>3. QED
    BY <1>2, <1>3, <2>1, <2>2 DEF RankOK, WeightsOK
<1>13. MergeOK(z, q2, k2)
  BY <1>5, <1>7, <1>8 DEF RankOK, MergeOK
<1>14. ContentsOK(z, q2, k2)
  <2>1. q2.w.name = 0
    BY DEF NoWeight
  <2>2. /\ \A d : Adds(q2, d) <=> Adds(q, d)
        /\ \A d, i : Brings(q2, d, i) <=> Brings(q, d, i)
    BY DEF Adds, Brings
  <2>3. QED
    BY <1>2, <2>1, <2>2 DEF RankOK, ContentsOK
<1>15. QED
  BY <1>9, <1>10, <1>11, <1>12, <1>13, <1>14 DEF RankOK

(* The reply releases the buffer, or the memory a large weight was put      *)
(* together in.                                                             *)
LEMMA TakeReplyRank ==
  ASSUME NEW z, NEW q \in Receiver, NEW o \in Operation, NEW k \in Worker, NEW e,
         RankOK(z, q, o, k, e), q.pc = "reply", k.st = "replied",
         NEW q2, q2.recv = q.recv, q2.next = q.next, q2.meta = q.meta,
         q2.last = q.last, q2.mem = q.mem, q2.queue = q.queue,
         q2.w = q.w, q2.shared = q.shared, q2.offset = q.offset, q2.packed = q.packed,
         q.w # NoWeight => q2.pc = "emit",
         q.w = NoWeight /\ k.last => q2.pc = "end",
         q.w = NoWeight /\ ~k.last => q2.pc = "chunk",
         k.direct => q2.merge = NoMerge, ~k.direct => q2.merge = q.merge,
         NEW k2, k.last => k2.st = "end", ~k.last => k2.st = "idle", k2.loaded = k.loaded
  PROVE  RankOK(z, q2, o, k2, e)
<1>1. k2.st \in {"end", "idle"}
  BY WorkerTypes
<1>2. Loading(k) = <<>> /\ Loading(k2) = <<>> /\ Handed(k2) = Handed(k)
  BY <1>1 DEF Loading, Handed
<1>3. Emitted(q2, k2) = Emitted(q, k)
  BY <1>2 DEF Emitted
<1>4. /\ k.last => q.last /\ q.next > Len(q.meta)
      /\ k.direct => q.w = NoWeight /\ ~k.last
      /\ ~k.direct => (q.w.name # 0 <=> ~k.last)
      /\ q.packed = <<>>
      /\ q.w = NoWeight <=> q.w.name = 0
  BY DEF RankOK, ControlOK, NoWeight
<1>5. ControlOK(q2, o, k2)
  <2>1. CASE q.w # NoWeight
    <3>1. q2.pc = "emit" /\ k2.st = "idle" /\ q.w.name # 0
      BY <1>4, <2>1
    <3>2. QED
      BY <2>1, <3>1 DEF RankOK, ControlOK
  <2>2. CASE q.w = NoWeight /\ k.last
    BY <1>4, <2>2 DEF RankOK, ControlOK
  <2>3. CASE q.w = NoWeight /\ ~k.last
    BY <1>4, <2>3 DEF RankOK, ControlOK
  <2>4. QED
    BY <2>1, <2>2, <2>3
<1>6. BuffersOK(q2, o)
  BY DEF RankOK, BuffersOK
<1>7. k.direct => q.merge.name # 0 /\ q.merge.name = Emitted(q, k) /\ q.queue = <<>>
  BY DEF RankOK, MergeOK, ContentsOK
<1>8. StreamOK(z, q2, o, k2, e)
  <2>1. Wanted(q2, k2) = Wanted(q, k)
    <3>1. CASE k.direct
      <4>1. ~Merging(q, k)
        BY <1>7, <3>1, EmittedFacts DEF Merging
      <4>2. ~Merging(q2, k2)
        BY <3>1 DEF Merging, NoMerge
      <4>3. QED
        BY <1>3, <4>1, <4>2 DEF Wanted
    <3>2. CASE ~k.direct
      BY <1>3, <3>2 DEF Wanted, Merging
    <3>3. QED
      BY <3>1, <3>2
  <2>2. QED
    BY <2>1 DEF RankOK, StreamOK
<1>9. WeightsOK(z, q2, k2)
  BY <1>2 DEF RankOK, WeightsOK
<1>10. MergeOK(z, q2, k2)
  <2>1. q2.pc # "reply"
    BY WorkerTypes
  <2>2. CASE k.direct
    <3>1. q2.merge.name = 0 /\ q2.w.name = 0
      BY <1>4, <2>2 DEF NoMerge
    <3>2. QED
      BY <2>1, <3>1 DEF MergeOK
  <2>3. CASE ~k.direct
    BY <1>3, <2>1, <2>3 DEF RankOK, MergeOK
  <2>4. QED
    BY <2>2, <2>3
<1>11. ContentsOK(z, q2, k2)
  <2>1. CASE k.direct
    <3>1. q2.merge.name = 0 /\ DOMAIN q2.queue = {} /\ DOMAIN q2.packed = {}
      BY <1>4, <1>7, <2>1 DEF NoMerge
    <3>2. QED
      BY <1>1, <3>1 DEF RankOK, ContentsOK
  <2>2. CASE ~k.direct
    <3>1. /\ \A d : Adds(q2, d) <=> Adds(q, d)
          /\ \A d, i : Brings(q2, d, i) <=> Brings(q, d, i)
      BY <2>2 DEF Adds, Brings
    <3>2. QED
      BY <1>1, <2>2, <3>1 DEF RankOK, ContentsOK
  <2>3. QED
    BY <2>1, <2>2
<1>12. QED
  BY <1>5, <1>6, <1>8, <1>9, <1>10, <1>11 DEF RankOK

(* The metadata of the next bucket have come. *)
LEMMA RecvMetadataRank ==
  ASSUME NEW z, NEW q, NEW o, NEW k, NEW e,
         RankOK(z, q, o, k, e), o.st = "publish",
         NEW o2, o2.st = "broadcast", o2.buf = o.buf
  PROVE  RankOK(z, q, o2, k, e)
<1>1. ControlOK(q, o2, k)
  BY DEF RankOK, ControlOK
<1>2. BuffersOK(q, o2)
  BY DEF RankOK, BuffersOK
<1>3. StreamOK(z, q, o2, k, e)
  BY DEF RankOK, StreamOK, Following
<1>4. QED
  BY <1>1, <1>2, <1>3 DEF RankOK

(* The bucket has come: e is where it starts, e2 where it ends. *)
LEMMA BroadcastRank ==
  ASSUME NEW z, NEW q \in Receiver, NEW o \in Operation, NEW k, NEW e, NEW e2,
         RankOK(z, q, o, k, e), o.st = "broadcast", e = At(o.meta, 1, e2), Run(z, o.meta, e2),
         NEW m, Holds(m, o.meta),
         NEW q2, q2.mem = [q.mem EXCEPT ![o.buf] = m],
         q2.pc = q.pc, q2.recv = q.recv, q2.next = q.next, q2.meta = q.meta,
         q2.last = q.last, q2.queue = q.queue, q2.merge = q.merge,
         q2.w = q.w, q2.shared = q.shared, q2.offset = q.offset, q2.packed = q.packed,
         NEW o2, o2.st = "done", o2.buf = o.buf, o2.meta = o.meta, o2.last = o.last
  PROVE  RankOK(z, q2, o2, k, e2)
<1>1. q.recv \in 0 .. 1 /\ q.mem \in [0 .. 1 -> Bytes] /\ o.buf = q.recv
  BY ReceiverTypes DEF RankOK, BuffersOK
<1>2. 1 - q.recv \in 0 .. 1 /\ 1 - q.recv # q.recv
  BY <1>1
<1>3. q2.mem[q.recv] = m /\ q2.mem[1 - q.recv] = q.mem[1 - q.recv]
  BY <1>1, <1>2
<1>4. ControlOK(q2, o2, k)
  BY DEF RankOK, ControlOK
<1>5. BuffersOK(q2, o2)
  BY <1>1, <1>3 DEF RankOK, BuffersOK
<1>6. StreamOK(z, q2, o2, k, e2)
  <2>1. Following(o2, e2) = e /\ Following(o, e) = e
    BY DEF Following
  <2>2. Wanted(q2, k) = Wanted(q, k)
    BY DEF Wanted, Merging, Emitted
  <2>3. QED
    BY <2>1, <2>2 DEF RankOK, StreamOK
<1>7. WeightsOK(z, q2, k)
  BY DEF RankOK, WeightsOK
<1>8. MergeOK(z, q2, k)
  <2>1. Emitted(q2, k) = Emitted(q, k)
    BY DEF Emitted
  <2>2. QED
    BY <2>1 DEF RankOK, MergeOK
<1>9. ContentsOK(z, q2, k)
  <2>1. \A j \in DOMAIN q.queue : q.queue[j].buf = 1 - q.recv
    BY DEF RankOK, BuffersOK
  <2>2. \A j \in DOMAIN q.queue : q2.mem[q.queue[j].buf] = q.mem[q.queue[j].buf]
    BY <1>3, <2>1
  <2>3. /\ \A j \in DOMAIN q.queue : Adds(q2, q.queue[j]) <=> Adds(q, q.queue[j])
        /\ \A j \in DOMAIN q.queue : \A p : Brings(q2, q.queue[j], p) <=> Brings(q, q.queue[j], p)
    BY <2>2 DEF Adds, Brings
  <2>4. QED
    BY <1>3, <2>3 DEF RankOK, ContentsOK
<1>10. QED
  BY <1>4, <1>5, <1>6, <1>7, <1>8, <1>9 DEF RankOK

(* The oldest copy of the rank's stream is made. *)
LEMMA ReadUnits ==
  ASSUME NEW mem, NEW at, NEW w, NEW from, NEW n, Has(mem, at, w, from, n)
  PROVE  Read(mem, at, n) = Units(w, from, n)
BY DEF Has, Read, Units

LEMMA RankCopyRank ==
  ASSUME NEW z, Sizing(z), NEW q \in Receiver, NEW o \in Operation, NEW k \in Worker, NEW e,
         RankOK(z, q, o, k, e), q.queue # <<>>, NEW h, h = Head(q.queue),
         NEW data, data = Read(q.mem[h.buf], h.from, h.n),
         NEW q2, q2.pc = q.pc, q2.recv = q.recv, q2.next = q.next, q2.meta = q.meta,
         q2.last = q.last, q2.mem = q.mem, q2.queue = Tail(q.queue),
         q2.w = q.w, q2.offset = q.offset, q2.packed = q.packed,
         q2.merge.name = q.merge.name, q2.merge.got = q.merge.got,
         h.to = "merge" => /\ q2.merge.mem = Write(q.merge.mem, h.at, data)
                           /\ q2.shared = q.shared,
         h.to = "shared" => /\ q2.shared = Write(q.shared, h.at, data)
                            /\ q2.merge.mem = q.merge.mem
  PROVE  /\ q2.merge.mem \in Seq(Memory) /\ q2.shared \in Bytes
         /\ RankOK(z, q2, o, k, e)
<1>1. /\ Tail(q.queue) \in Seq(QueuedType) /\ Len(q.queue) \in Nat \ {0}
      /\ DOMAIN q.queue = 1 .. Len(q.queue) /\ DOMAIN Tail(q.queue) = 1 .. Len(q.queue) - 1
      /\ h \in QueuedType /\ h = q.queue[1]
      /\ \A i \in 1 .. Len(q.queue) - 1 : Tail(q.queue)[i] = q.queue[i + 1]
  BY ReceiverTypes, TailFacts
<1>2. /\ 1 \in DOMAIN q.queue
      /\ \A j \in DOMAIN Tail(q.queue) : j + 1 \in DOMAIN q.queue /\ Tail(q.queue)[j] = q.queue[j + 1]
      /\ \A j \in DOMAIN q.queue :
           j = 1 \/ (j - 1 \in DOMAIN Tail(q.queue) /\ Tail(q.queue)[j - 1] = q.queue[j])
  BY <1>1
<1>3. \A j \in DOMAIN Tail(q.queue) : \E i \in DOMAIN q.queue : Tail(q.queue)[j] = q.queue[i]
  BY <1>2
<1>4. \A j \in DOMAIN q.queue : j = 1 \/ \E i \in DOMAIN Tail(q.queue) : Tail(q.queue)[i] = q.queue[j]
  BY <1>2
<1>5. /\ h.to \in {"merge", "shared"} /\ h.at \in Nat /\ h.n \in Nat /\ h.from \in Nat
  BY <1>1 DEF QueuedType
<1>6. Adds(q, h) \/ \E p \in DOMAIN q.packed : Brings(q, h, p)
  BY <1>1, <1>2 DEF RankOK, ContentsOK
<1>7. ~(k.st = "load" /\ ~k.direct) /\ ~(k.st = "replied" /\ k.direct)
  BY DEF RankOK, ContentsOK
<1>8. Emitted(q2, k) = Emitted(q, k)
  BY DEF Emitted
<1>9. ControlOK(q2, o, k) /\ WeightsOK(z, q2, k)
  BY DEF RankOK, ControlOK, WeightsOK
<1>10. BuffersOK(q2, o)
  BY <1>3 DEF RankOK, BuffersOK
<1>11. StreamOK(z, q2, o, k, e)
  BY <1>8 DEF RankOK, StreamOK, Wanted, Merging
<1>12. /\ \A d : Adds(q2, d) <=> Adds(q, d)
       /\ \A d, i : Brings(q2, d, i) <=> Brings(q, d, i)
  BY DEF Adds, Brings
<1>13. \A j \in DOMAIN q2.queue :
         Adds(q2, q2.queue[j]) \/ \E p \in DOMAIN q2.packed : Brings(q2, q2.queue[j], p)
  BY <1>3, <1>12 DEF RankOK, ContentsOK
<1>14. CASE h.to = "merge"
  <2>1. /\ q.merge.name # 0 /\ h.at + h.n <= q.merge.got
        /\ Has(q.mem[h.buf], h.from, q.merge.name, h.at, h.n)
    BY <1>6, <1>14 DEF Adds, Brings
  <2>2. PICK N : N = z[q.merge.name]
    OBVIOUS
  <2>3. /\ q.merge.name \in DOMAIN z /\ DOMAIN q.merge.mem = 1 .. N /\ q.merge.got <= N
        /\ q.merge.name \in Nat /\ q.merge.got \in Nat /\ N \in Nat
    <3>1. q.merge.name \in DOMAIN z /\ DOMAIN q.merge.mem = 1 .. N
          /\ (q.merge.got < N \/ q.merge.got = N)
      BY <2>1, <2>2 DEF RankOK, MergeOK
    <3>2. q.merge.name \in Nat /\ q.merge.got \in Nat
      BY ReceiverTypes
    <3>3. N \in Nat
      BY <2>2, <3>1 DEF Sizing
    <3>4. QED
      BY <3>1, <3>2, <3>3
  <2>4. data = Units(q.merge.name, h.at, h.n)
    BY <2>1, ReadUnits
  <2>5. q.merge.mem \in [1 .. N -> Memory]
    BY <2>3, ReceiverTypes
  <2>6. h.at + h.n <= N
    BY <1>5, <2>1, <2>3
  <2>7. PICK m : m = Write(q.merge.mem, h.at, data)
    OBVIOUS
  <2>8. /\ m \in [1 .. N -> Memory] /\ Has(m, h.at, q.merge.name, h.at, h.n)
        /\ SameAround(m, q.merge.mem, h.at, h.n)
    <3>1. m = Write(q.merge.mem, h.at, Units(q.merge.name, h.at, h.n))
      BY <2>4, <2>7
    <3>2. QED
      BY <1>5, <2>3, <2>5, <2>6, <3>1, WriteUnits, ZenonT(30)
  <2>9. q2.merge.mem = m /\ q2.shared = q.shared
    BY <1>14, <2>7
  <2>10. q2.merge.mem \in Seq(Memory) /\ q2.shared \in Bytes
    BY <2>3, <2>8, <2>9, ReceiverTypes
  <2>11. MergeOK(z, q2, k)
    <3>1. DOMAIN q2.merge.mem = 1 .. z[q2.merge.name]
      BY <2>2, <2>8, <2>9
    <3>2. QED
      BY <1>8, <3>1 DEF RankOK, MergeOK
  <2>12. ASSUME NEW i \in 1 .. q.merge.got
         PROVE  \/ m[i] = <<q.merge.name, i>>
                \/ \E j \in DOMAIN Tail(q.queue) :
                     /\ Tail(q.queue)[j].to = "merge" /\ Tail(q.queue)[j].at < i
                     /\ i <= Tail(q.queue)[j].at + Tail(q.queue)[j].n
    <3>1. CASE h.at < i /\ i <= h.at + h.n
      <4>1. i - h.at \in 1 .. h.n /\ h.at + (i - h.at) = i
        BY <1>5, <3>1
      <4>2. m[h.at + (i - h.at)] = <<q.merge.name, h.at + (i - h.at)>>
        BY <2>8, <4>1 DEF Has
      <4>3. QED
        BY <4>1, <4>2
    <3>2. CASE ~(h.at < i /\ i <= h.at + h.n)
      <4>1. i \in 1 .. N /\ (i <= h.at \/ i > h.at + h.n)
        BY <1>5, <2>3, <3>2
      <4>2. m[i] = q.merge.mem[i]
        BY <2>3, <2>8, <4>1 DEF SameAround
      <4>3. \/ q.merge.mem[i] = <<q.merge.name, i>>
            \/ \E j \in DOMAIN q.queue : /\ q.queue[j].to = "merge" /\ q.queue[j].at < i
                                         /\ i <= q.queue[j].at + q.queue[j].n
        BY <2>1 DEF RankOK, ContentsOK
      <4>4. ASSUME NEW j \in DOMAIN q.queue, q.queue[j].to = "merge", q.queue[j].at < i,
                   i <= q.queue[j].at + q.queue[j].n
            PROVE  \E l \in DOMAIN Tail(q.queue) :
                     /\ Tail(q.queue)[l].to = "merge" /\ Tail(q.queue)[l].at < i
                     /\ i <= Tail(q.queue)[l].at + Tail(q.queue)[l].n
        <5>1. j # 1
          BY <1>1, <3>2, <4>4
        <5>2. QED
          BY <1>4, <4>4, <5>1, Zenon
      <4>5. QED
        BY <4>2, <4>3, <4>4
    <3>3. QED
      BY <3>1, <3>2
  <2>13. \A p \in DOMAIN q2.packed :
           \/ Has(q2.shared, q2.packed[p].offset, q2.packed[p].name, 0, q2.packed[p].n)
           \/ \E j \in DOMAIN q2.queue : Brings(q2, q2.queue[j], p)
    <3>1. \A p : ~Brings(q, q.queue[1], p)
      BY <1>1, <1>14 DEF Brings
    <3>2. QED
      BY <1>4, <1>12, <2>9, <3>1 DEF RankOK, ContentsOK
  <2>14. ContentsOK(z, q2, k)
    BY <1>7, <1>13, <2>9, <2>12, <2>13, ZenonT(30) DEF RankOK, ContentsOK
  <2>15. QED
    BY <1>9, <1>10, <1>11, <2>10, <2>11, <2>14 DEF RankOK
<1>15. CASE h.to = "shared"
  <2>1. PICK p0 \in DOMAIN q.packed : Brings(q, h, p0)
    BY <1>6, <1>15 DEF Adds
  <2>2. PICK x : x = q.packed[p0]
    OBVIOUS
  <2>3. \A p \in DOMAIN q.packed :
          /\ p \in Nat /\ q.packed[p].name \in Nat /\ q.packed[p].n \in Nat /\ q.packed[p].offset \in Nat
          /\ q.packed[p].offset + q.packed[p].n <= Bucket
    <3>1. \A p \in DOMAIN q.packed : p \in Nat /\ q.packed[p] \in Packed
      BY ReceiverTypes
    <3>2. \A p \in DOMAIN q.packed : q.packed[p].offset + q.packed[p].n <= q.offset
      BY DEF RankOK, WeightsOK
    <3>3. q.offset \in Nat /\ q.offset <= Bucket /\ Bucket \in Nat
      BY ReceiverTypes
    <3>4. QED
      BY <3>1, <3>2, <3>3 DEF Packed
  <2>4. /\ h.at = x.offset /\ h.n = x.n
        /\ Has(q.mem[h.buf], h.from, x.name, 0, h.n)
    BY <2>1, <2>2 DEF Brings
  <2>5. data = Units(x.name, 0, x.n)
    BY <2>4, ReadUnits
  <2>6. q.shared \in [1 .. Bucket -> Memory] /\ Bucket \in Nat
    BY ReceiverTypes DEF Bytes
  <2>7. PICK m : m = Write(q.shared, x.offset, data)
    OBVIOUS
  <2>8. /\ m \in [1 .. Bucket -> Memory] /\ Has(m, x.offset, x.name, 0, x.n)
        /\ SameAround(m, q.shared, x.offset, x.n)
    <3>1. /\ x.name \in Nat /\ x.n \in Nat /\ x.offset \in Nat /\ 0 \in Nat
          /\ x.offset + x.n <= Bucket
      BY <2>2, <2>3
    <3>2. QED
      <4>1. m = Write(q.shared, x.offset, Units(x.name, 0, x.n))
        BY <2>5, <2>7
      <4>2. QED
        BY <2>6, <3>1, <4>1, WriteUnits
  <2>9. q2.shared = m /\ q2.merge.mem = q.merge.mem
    BY <1>15, <2>4, <2>7
  <2>10. q2.merge.mem \in Seq(Memory) /\ q2.shared \in Bytes
    BY <2>8, <2>9, ReceiverTypes DEF Bytes
  <2>11. MergeOK(z, q2, k)
    BY <1>8, <2>9 DEF RankOK, MergeOK
  <2>12. \A i \in 1 .. q.merge.got :
           q.merge.name # 0 =>
             \/ q2.merge.mem[i] = <<q.merge.name, i>>
             \/ \E j \in DOMAIN Tail(q.queue) :
                  /\ Tail(q.queue)[j].to = "merge" /\ Tail(q.queue)[j].at < i
                  /\ i <= Tail(q.queue)[j].at + Tail(q.queue)[j].n
    <3>1. q.queue[1].to # "merge"
      BY <1>1, <1>15
    <3>2. \A i \in 1 .. q.merge.got :
            q.merge.name # 0 =>
             \/ q.merge.mem[i] = <<q.merge.name, i>>
             \/ \E j \in DOMAIN q.queue :
                  /\ q.queue[j].to = "merge" /\ q.queue[j].at < i
                  /\ i <= q.queue[j].at + q.queue[j].n
      BY DEF RankOK, ContentsOK
    <3>3. QED
      BY <1>4, <2>9, <3>1, <3>2, Zenon
  <2>13. ASSUME NEW p \in DOMAIN q.packed
         PROVE  \/ Has(m, q.packed[p].offset, q.packed[p].name, 0, q.packed[p].n)
                \/ \E j \in DOMAIN Tail(q.queue) : Brings(q, Tail(q.queue)[j], p)
    <3>1. CASE p = p0
      BY <2>2, <2>8, <3>1
    <3>2. ASSUME p # p0, Has(q.shared, q.packed[p].offset, q.packed[p].name, 0, q.packed[p].n)
          PROVE  Has(m, q.packed[p].offset, q.packed[p].name, 0, q.packed[p].n)
      <4>1. \/ q.packed[p].offset + q.packed[p].n <= x.offset
            \/ x.offset + x.n <= q.packed[p].offset
        <5>1. p < p0 \/ p0 < p
          BY <2>3, <3>2
        <5>2. QED
          BY <2>2, <5>1 DEF RankOK, WeightsOK, Disjoint
      <4>2. ASSUME NEW i \in 1 .. q.packed[p].n
            PROVE  m[q.packed[p].offset + i] = q.shared[q.packed[p].offset + i]
        <5>1. /\ q.packed[p].n \in Nat /\ q.packed[p].offset \in Nat
              /\ q.packed[p].offset + q.packed[p].n <= Bucket
              /\ x.n \in Nat /\ x.offset \in Nat
          BY <2>2, <2>3
        <5>2. /\ q.packed[p].offset + i \in 1 .. Bucket
              /\ q.packed[p].offset + i <= x.offset \/ q.packed[p].offset + i > x.offset + x.n
          BY <2>6, <4>1, <5>1, Apart
        <5>3. QED
          BY <2>6, <2>8, <5>2 DEF SameAround
      <4>3. QED
        BY <3>2, <4>2 DEF Has
    <3>3. ASSUME Brings(q, h, p)
          PROVE  Has(m, q.packed[p].offset, q.packed[p].name, 0, q.packed[p].n)
      <4>1. /\ h.at = q.packed[p].offset /\ h.n = q.packed[p].n
            /\ Has(q.mem[h.buf], h.from, q.packed[p].name, 0, h.n)
        BY <3>3 DEF Brings
      <4>2. data = Units(q.packed[p].name, 0, q.packed[p].n)
        BY <4>1, ReadUnits
      <4>3. m = Write(q.shared, q.packed[p].offset, Units(q.packed[p].name, 0, q.packed[p].n))
        BY <2>4, <2>7, <4>1, <4>2
      <4>4. /\ q.packed[p].name \in Nat /\ q.packed[p].n \in Nat /\ q.packed[p].offset \in Nat
            /\ q.packed[p].offset + q.packed[p].n <= Bucket /\ 0 \in Nat
        BY <2>3
      <4>5. QED
        BY <2>6, <4>3, <4>4, WriteUnits
    <3>4. \/ Has(q.shared, q.packed[p].offset, q.packed[p].name, 0, q.packed[p].n)
          \/ \E j \in DOMAIN q.queue : Brings(q, q.queue[j], p)
      BY DEF RankOK, ContentsOK
    <3>5. \/ Has(q.shared, q.packed[p].offset, q.packed[p].name, 0, q.packed[p].n)
          \/ Brings(q, h, p)
          \/ \E j \in DOMAIN Tail(q.queue) : Brings(q, Tail(q.queue)[j], p)
      BY <1>1, <1>4, <3>4
    <3>6. QED
      BY <3>1, <3>2, <3>3, <3>5
  <2>14. ContentsOK(z, q2, k)
    <3>1. \A p \in DOMAIN q2.packed :
            \/ Has(q2.shared, q2.packed[p].offset, q2.packed[p].name, 0, q2.packed[p].n)
            \/ \E j \in DOMAIN q2.queue : Brings(q2, q2.queue[j], p)
      BY <1>12, <2>9, <2>13
    <3>2. QED
      BY <1>7, <1>13, <2>12, <3>1 DEF RankOK, ContentsOK
  <2>15. QED
    BY <1>9, <1>10, <1>11, <2>10, <2>11, <2>14 DEF RankOK
<1>16. QED
  BY <1>5, <1>14, <1>15

(* l is s followed by t. *)
Joined(l, s, t) ==
  /\ Len(l) = Len(s) + Len(t) /\ DOMAIN l = 1 .. Len(s) + Len(t)
  /\ DOMAIN s = 1 .. Len(s)
  /\ \A i \in 1 .. Len(s) : l[i] = s[i]
  /\ \A i \in 1 .. Len(t) : l[Len(s) + i] = t[i]

LEMMA ConcatFacts ==
  ASSUME NEW S, NEW s \in Seq(S), NEW t \in Seq(S)
  PROVE  s \o t \in Seq(S) /\ Joined(s \o t, s, t)
BY DEF Joined

Tensor == [name : Nat, data : Seq(Memory)]

(* The worker loads what the message names. *)
LEMMA LoadRank ==
  ASSUME NEW z, Sizing(z), NEW q \in Receiver, NEW o \in Operation, NEW k \in Worker, NEW e,
         RankOK(z, q, o, k, e), k.st = "load", k.direct => q.queue = <<>>,
         NEW mem, k.direct => mem = q.merge.mem, ~k.direct => mem = q.shared,
         NEW arrived,
         arrived = [i \in DOMAIN k.meta |->
                      [name |-> k.meta[i].name, data |-> Read(mem, k.meta[i].offset, k.meta[i].n)]],
         NEW k2, k2.st = "replied", k2.loaded = k.loaded \o arrived,
         k2.meta = k.meta, k2.direct = k.direct, k2.last = k.last
  PROVE  k2.loaded \in Seq(Tensor) /\ RankOK(z, q, o, k2, e)
<1>1. /\ k.meta \in Seq(Packed) /\ k.loaded \in Seq(Tensor) /\ Len(k.loaded) \in Nat
      /\ Len(k.meta) \in Nat /\ DOMAIN k.meta = 1 .. Len(k.meta)
  <2>1. k.meta \in Seq(Packed) /\ k.loaded \in Seq(Tensor)
    BY WorkerTypes DEF Tensor
  <2>2. QED
    BY <2>1
<1>2. Loading(k) = k.meta /\ Loading(k2) = <<>> /\ Len(<<>>) = 0 /\ DOMAIN <<>> = {}
  BY DEF Loading
<1>3. \A i \in DOMAIN k.meta : /\ k.meta[i].name = Len(k.loaded) + i
                               /\ k.meta[i].name \in DOMAIN z
                               /\ k.meta[i].n = z[k.meta[i].name]
  BY <1>2 DEF RankOK, WeightsOK
<1>4. \A i \in DOMAIN k.meta : k.meta[i].name \in Nat /\ k.meta[i].n \in Nat
  <2>1. \A i \in DOMAIN k.meta : k.meta[i] \in Packed
    BY <1>1
  <2>2. QED
    BY <2>1 DEF Packed
<1>5. q.pc = "reply" /\ q.packed = <<>>
  BY DEF RankOK, ControlOK
<1>6. ASSUME NEW i \in DOMAIN k.meta
      PROVE  Has(mem, k.meta[i].offset, k.meta[i].name, 0, k.meta[i].n)
  <2>1. CASE k.direct
    <3>1. Len(k.meta) = 1 /\ k.meta[1].offset = 0
      BY <2>1 DEF RankOK, ContentsOK
    <3>2. i = 1 /\ k.meta[1].name = Len(k.loaded) + 1
      BY <1>1, <1>3, <3>1
    <3>3. Handed(k) = Len(k.loaded) + 1
      BY <1>2, <3>1 DEF Handed
    <3>4. q.w.name = 0
      BY <1>5, <2>1 DEF RankOK, ControlOK, NoWeight
    <3>5. Emitted(q, k) = Len(k.loaded) + 1
      <4>1. Len(q.packed) = 0
        BY <1>5
      <4>2. QED
        BY <1>1, <3>3, <3>4, <4>1 DEF Emitted
    <3>6. /\ q.merge.name # 0 /\ q.merge.name = Emitted(q, k)
          /\ q.merge.got = z[q.merge.name]
      BY <1>5, <2>1 DEF RankOK, MergeOK
    <3>7. q.merge.name = k.meta[1].name /\ q.merge.got = k.meta[1].n
      BY <1>3, <3>2, <3>5, <3>6
    <3>8. \A j \in 1 .. k.meta[1].n : mem[j] = <<k.meta[1].name, j>>
      <4>1. mem = q.merge.mem /\ DOMAIN q.queue = {}
        BY <2>1
      <4>2. QED
        BY <3>6, <3>7, <4>1 DEF RankOK, ContentsOK
    <3>9. k.meta[1].n \in Nat /\ k.meta[1].name \in Nat
      BY <1>4, <3>2
    <3>10. ASSUME NEW j \in 1 .. k.meta[1].n PROVE mem[0 + j] = <<k.meta[1].name, 0 + j>>
      <4>1. 0 + j = j
        BY <3>9
      <4>2. QED
        BY <3>8, <4>1
    <3>11. QED
      BY <3>1, <3>2, <3>10 DEF Has
  <2>2. CASE ~k.direct
    BY <2>2 DEF RankOK, ContentsOK
  <2>3. QED
    BY <2>1, <2>2
<1>7. \A i \in DOMAIN k.meta :
        arrived[i] = [name |-> k.meta[i].name, data |-> Units(k.meta[i].name, 0, k.meta[i].n)]
  <2>1. \A i \in DOMAIN k.meta :
          Read(mem, k.meta[i].offset, k.meta[i].n) = Units(k.meta[i].name, 0, k.meta[i].n)
    BY <1>6, ReadUnits
  <2>2. QED
    BY <2>1
<1>8. arrived \in Seq(Tensor) /\ Len(arrived) = Len(k.meta)
  <2> DEFINE f(i) == [name |-> k.meta[i].name, data |-> Read(mem, k.meta[i].offset, k.meta[i].n)]
  <2>1. \A i \in 1 .. Len(k.meta) : arrived[i] = f(i)
    BY <1>1
  <2>2. \A i \in 1 .. Len(k.meta) : arrived[i] \in Tensor
    <3>1. \A w, n \in Nat : [name |-> w, data |-> Units(w, 0, n)] \in Tensor
      <4>1. ASSUME NEW w \in Nat, NEW n \in Nat PROVE Units(w, 0, n) \in Seq(Memory)
        BY UnitsFacts
      <4>2. QED
        BY <4>1 DEF Tensor
    <3>2. ASSUME NEW i \in DOMAIN k.meta PROVE arrived[i] \in Tensor
      <4>1. k.meta[i].name \in Nat /\ k.meta[i].n \in Nat
        BY <1>4
      <4>2. [name |-> k.meta[i].name, data |-> Units(k.meta[i].name, 0, k.meta[i].n)] \in Tensor
        BY <3>1, <4>1
      <4>3. QED
        BY <1>7, <4>2, Zenon
    <3>3. QED
      BY <1>1, <3>2
  <2>3. arrived = [i \in 1 .. Len(k.meta) |-> f(i)]
    BY <1>1
  <2> HIDE DEF f
  <2>4. arrived \in [1 .. Len(k.meta) -> Tensor]
    <3>1. \A i \in 1 .. Len(k.meta) : f(i) \in Tensor
      BY <2>1, <2>2
    <3>2. QED
      BY <2>3, <3>1
  <2>5. QED
    BY <1>1, <2>4
<1>9. /\ k2.loaded \in Seq(Tensor) /\ Len(k2.loaded) = Len(k.loaded) + Len(k.meta)
      /\ DOMAIN k2.loaded = 1 .. Len(k.loaded) + Len(k.meta)
      /\ DOMAIN k.loaded = 1 .. Len(k.loaded)
      /\ \A i \in 1 .. Len(k.loaded) : k2.loaded[i] = k.loaded[i]
      /\ \A i \in 1 .. Len(k.meta) : k2.loaded[Len(k.loaded) + i] = arrived[i]
  <2>1. k.loaded \o arrived \in Seq(Tensor) /\ Joined(k.loaded \o arrived, k.loaded, arrived)
    BY <1>1, <1>8, ConcatFacts
  <2>2. k2.loaded \in Seq(Tensor) /\ Joined(k2.loaded, k.loaded, arrived)
    BY <2>1
  <2>3. QED
    BY <1>8, <2>2 DEF Joined
<1>10. Handed(k2) = Handed(k)
  <2>1. Handed(k) = Len(k.loaded) + Len(k.meta)
    BY <1>2 DEF Handed
  <2>2. Len(k.loaded) + Len(k.meta) + 0 = Len(k.loaded) + Len(k.meta)
    BY <1>1
  <2>3. QED
    BY <1>2, <1>9, <2>1, <2>2 DEF Handed
<1>11. Emitted(q, k2) = Emitted(q, k)
  BY <1>10 DEF Emitted
<1>12. ControlOK(q, o, k2) /\ BuffersOK(q, o)
  BY DEF RankOK, ControlOK
<1>13. StreamOK(z, q, o, k2, e)
  BY <1>11 DEF RankOK, StreamOK, Wanted, Merging
<1>14. WeightsOK(z, q, k2)
  <2>1. ASSUME NEW i \in DOMAIN k2.loaded
        PROVE  i \in DOMAIN z /\ k2.loaded[i] = [name |-> i, data |-> Units(i, 0, z[i])]
    <3>1. CASE i \in 1 .. Len(k.loaded)
      BY <1>9, <3>1 DEF RankOK, WeightsOK
    <3>2. CASE i \notin 1 .. Len(k.loaded)
      <4>1. PICK j \in 1 .. Len(k.meta) : i = Len(k.loaded) + j
        <5>1. i \in 1 .. Len(k.loaded) + Len(k.meta)
          BY <1>9
        <5>2. i - Len(k.loaded) \in 1 .. Len(k.meta) /\ i = Len(k.loaded) + (i - Len(k.loaded))
          BY <1>1, <3>2, <5>1
        <5>3. QED
          BY <5>2
      <4>2. k.meta[j].name = i /\ i \in DOMAIN z /\ k.meta[j].n = z[i]
        BY <1>1, <1>3, <4>1
      <4>3. k2.loaded[i] = [name |-> i, data |-> Units(i, 0, z[i])]
        <5>1. k2.loaded[i] = arrived[j] /\ j \in DOMAIN k.meta
          BY <1>1, <1>9, <4>1
        <5>2. arrived[j] = [name |-> k.meta[j].name, data |-> Units(k.meta[j].name, 0, k.meta[j].n)]
          BY <1>7, <5>1
        <5>3. QED
          BY <4>2, <5>1, <5>2
      <4>4. QED
        BY <4>2, <4>3
    <3>3. QED
      BY <3>1, <3>2
  <2>2. QED
    BY <1>2, <1>10, <2>1 DEF RankOK, WeightsOK
<1>15. MergeOK(z, q, k2)
  BY <1>11 DEF RankOK, MergeOK
<1>16. ContentsOK(z, q, k2)
  BY DEF RankOK, ContentsOK
<1>17. QED
  BY <1>9, <1>12, <1>13, <1>14, <1>15, <1>16 DEF RankOK

-----------------------------------------------------------------------------
(* The steps of the specification. *)
Unread == [meta : Seq(Chunk), last : BOOLEAN]
From == CastStart(snd, cast)

LEMMA StateFacts ==
  ASSUME IInv
  PROVE  /\ size \in Sizes /\ Sizing(size) /\ snd \in Sender /\ cast \in Operation
         /\ rcv \in [Ranks -> Receiver] /\ recvop \in [Ranks -> Operation]
         /\ sub \in [Ranks -> Seq(Unread)] /\ wk \in [Ranks -> Worker]
         /\ TrainerGood(size, snd, cast) /\ MetadataOK
         /\ \A r \in Ranks : RankOK(size, rcv[r], recvop[r], wk[r], From)
BY TransferAssumption DEF IInv, TypeOK, TrainerOK, TrainerGood, RanksOK, From, Sizing, Unread

LEMMA RankState ==
  ASSUME IInv, NEW r \in Ranks
  PROVE  /\ rcv[r] \in Receiver /\ recvop[r] \in Operation /\ wk[r] \in Worker
         /\ sub[r] \in Seq(Unread)
         /\ RankOK(size, rcv[r], recvop[r], wk[r], From)
BY StateFacts

(* What a step of the trainer has to show. *)
LEMMA TrainerStep ==
  ASSUME IInv, UNCHANGED <<size, rcv, recvop, wk>>, snd' \in Sender, cast' \in Operation,
         sub' \in [Ranks -> Seq(Unread)],
         TrainerGood(size, snd', cast'), CastStart(snd', cast') = CastStart(snd, cast),
         MetadataOK'
  PROVE  IInv'
<1>1. TypeOK'
  BY StateFacts DEF TypeOK, Unread
<1>2. TrainerOK'
  BY DEF TrainerOK, TrainerGood
<1>3. RanksOK'
  BY DEF IInv, RanksOK
<1>4. QED
  BY <1>1, <1>2, <1>3 DEF IInv

(* And a step of a rank. *)
LEMMA RankStep ==
  ASSUME IInv, UNCHANGED <<size, snd, cast>>, NEW r \in Ranks,
         NEW q \in Receiver, NEW o \in Operation, NEW k \in Worker,
         rcv' = [rcv EXCEPT ![r] = q], recvop' = [recvop EXCEPT ![r] = o],
         wk' = [wk EXCEPT ![r] = k], sub' \in [Ranks -> Seq(Unread)],
         RankOK(size, q, o, k, From), MetadataOK'
  PROVE  IInv'
<1>1. /\ rcv' \in [Ranks -> Receiver] /\ recvop' \in [Ranks -> Operation] /\ wk' \in [Ranks -> Worker]
      /\ rcv'[r] = q /\ recvop'[r] = o /\ wk'[r] = k
      /\ \A s \in Ranks : s # r => rcv'[s] = rcv[s] /\ recvop'[s] = recvop[s] /\ wk'[s] = wk[s]
  BY StateFacts
<1>2. TypeOK'
  BY <1>1, StateFacts DEF TypeOK, Unread
<1>3. TrainerOK'
  BY DEF IInv, TrainerOK
<1>4. RanksOK'
  <2>1. ASSUME NEW s \in Ranks PROVE RankOK(size', rcv'[s], recvop'[s], wk'[s], CastStart(snd', cast'))
    <3>1. CASE s = r
      BY <1>1, <3>1 DEF From
    <3>2. CASE s # r
      BY <1>1, <3>2 DEF From, IInv, RanksOK
    <3>3. QED
      BY <3>1, <3>2
  <2>2. QED
    BY <2>1 DEF RanksOK
<1>5. QED
  BY <1>2, <1>3, <1>4 DEF IInv

(* The metadata are where they were. *)
LEMMA MetadataKept ==
  ASSUME IInv, UNCHANGED <<cast, sub, recvop>>, NEW r \in Ranks, NEW q,
         rcv' = [rcv EXCEPT ![r] = q], q.last = rcv[r].last
  PROVE  MetadataOK'
<1>1. \A s \in Ranks : rcv'[s].last = rcv[s].last
  BY StateFacts
<1>2. QED
  BY <1>1, StateFacts DEF MetadataOK

-----------------------------------------------------------------------------
(* One by one: the trainer. *)
LEMMA InvFill == IInv /\ FillBucket => IInv'
<1> SUFFICES ASSUME IInv, FillBucket PROVE IInv'
  OBVIOUS
<1>1. /\ size \in Sizes /\ Sizing(size) /\ snd \in Sender /\ cast \in Operation
      /\ TrainerGood(size, snd, cast) /\ MetadataOK /\ sub \in [Ranks -> Seq(Unread)]
  BY StateFacts
<1>2. /\ snd.pc = "fill" /\ snd.name <= Len(size) /\ snd.offset + NextChunk.n <= Bucket
      /\ UNCHANGED <<size, cast, rcv, recvop, sub, wk>>
  BY DEF FillBucket, Fits, MoreChunks
<1>3. PICK n : n = IF size[snd.name] - snd.at < Bucket THEN size[snd.name] - snd.at ELSE Bucket
  OBVIOUS
<1>4. NextChunk = [name |-> snd.name, chunkOffset |-> snd.at, n |-> n]
  BY <1>3 DEF NextChunk
<1>5. CursorOK(size, snd)
  BY <1>1 DEF TrainerGood
<1>6. /\ snd.name \in DOMAIN size /\ size[snd.name] \in Nat \ {0} /\ snd.at \in Nat
      /\ snd.name \in Nat /\ n \in Nat \ {0} /\ n <= Bucket /\ snd.at + n <= size[snd.name]
  BY <1>1, <1>2, <1>3, <1>5, NextPiece
<1>7. PICK x : x = [name |-> snd.name, chunkOffset |-> snd.at, n |-> n, offset |-> snd.offset]
  OBVIOUS
<1>8. PICK y : y = [buf |-> snd.fill, at |-> snd.offset, data |-> Units(snd.name, snd.at, n)]
  OBVIOUS
<1>9. snd' = [snd EXCEPT !.name = IF snd.at + n = size[snd.name] THEN snd.name + 1 ELSE snd.name,
                          !.at = IF snd.at + n = size[snd.name] THEN 0 ELSE snd.at + n,
                          !.offset = snd.offset + n,
                          !.meta = Append(snd.meta, x), !.queue = Append(snd.queue, y)]
  BY <1>1, <1>4, <1>7, <1>8 DEF FillBucket, Sender
<1>10. /\ snd.offset \in Nat /\ snd.fill \in 0 .. 1 /\ snd.meta \in Seq(Chunk)
       /\ snd.queue \in Seq(CopyType) /\ snd.mem \in [0 .. 1 -> Bytes] /\ Bucket \in Nat
  BY <1>1, SenderTypes
<1>11. x \in Chunk /\ y \in CopyType
  BY <1>6, <1>7, <1>8, <1>10, UnitsFacts DEF Chunk, CopyType
<1>12. snd.offset + n \in 0 .. Bucket
  BY <1>2, <1>4, <1>6, <1>10
<1>13. /\ Append(snd.meta, x) \in Seq(Chunk) /\ Append(snd.queue, y) \in Seq(CopyType)
       /\ snd.name + 1 \in Nat /\ snd.at + n \in Nat
  BY <1>6, <1>10, <1>11
<1>14. snd' \in Sender
  BY <1>1, <1>6, <1>9, <1>12, <1>13 DEF Sender, CopyType
<1>15. FilledBy(snd, snd', x, y)
  BY <1>1, <1>7, <1>9 DEF Sender, FilledBy
<1>16. /\ snd.at + n = size[snd.name] => snd'.name = snd.name + 1 /\ snd'.at = 0
       /\ snd.at + n # size[snd.name] => snd'.name = snd.name /\ snd'.at = snd.at + n
  BY <1>1, <1>9 DEF Sender
<1>17. /\ x.name = snd.name /\ x.chunkOffset = snd.at /\ x.offset = snd.offset /\ x.n = n
       /\ y.buf = snd.fill /\ Carries(y, x)
  BY <1>7, <1>8 DEF Carries
<1>18. TrainerGood(size, snd', cast) /\ CastStart(snd', cast) = CastStart(snd, cast)
  BY <1>1, <1>2, <1>3, <1>4, <1>11, <1>14, <1>15, <1>16, <1>17, FillTrainer
<1>19. MetadataOK'
  BY <1>1, <1>2 DEF MetadataOK
<1>20. QED
  BY <1>1, <1>2, <1>14, <1>18, <1>19, TrainerStep

LEMMA InvSenderCopy == IInv /\ SenderCopy => IInv'
<1> SUFFICES ASSUME IInv, SenderCopy PROVE IInv'
  OBVIOUS
<1>1. /\ size \in Sizes /\ Sizing(size) /\ snd \in Sender /\ cast \in Operation
      /\ TrainerGood(size, snd, cast) /\ MetadataOK /\ sub \in [Ranks -> Seq(Unread)]
  BY StateFacts
<1>2. snd.queue # <<>> /\ UNCHANGED <<size, cast, rcv, recvop, sub, wk>>
  BY DEF SenderCopy
<1>3. PICK h : h = Head(snd.queue)
  OBVIOUS
<1>4. snd' = [snd EXCEPT !.queue = Tail(@), !.mem[h.buf] = Write(@, h.at, h.data)]
  BY <1>3 DEF SenderCopy
<1>5. CopiedBy(snd, snd', h)
  BY <1>1, <1>4 DEF Sender, CopiedBy
<1>6. /\ snd'.mem \in [0 .. 1 -> Bytes] /\ snd'.queue \in Seq(CopyType)
      /\ TrainerGood(size, snd', cast) /\ CastStart(snd', cast) = CastStart(snd, cast)
  BY <1>1, <1>2, <1>3, <1>5, CopyTrainer
<1>7. snd' \in Sender
  <2>1. PICK m, l : m = snd'.mem /\ l = snd'.queue
    OBVIOUS
  <2>2. snd' = [snd EXCEPT !.queue = l, !.mem = m]
    BY <1>1, <1>4, <2>1 DEF Sender
  <2>3. QED
    BY <1>1, <1>6, <2>1, <2>2 DEF Sender, CopyType
<1>8. MetadataOK'
  BY <1>1, <1>2 DEF MetadataOK
<1>9. QED
  BY <1>1, <1>2, <1>6, <1>7, <1>8, TrainerStep

LEMMA InvFlush == IInv /\ FlushBucket => IInv'
<1> SUFFICES ASSUME IInv, FlushBucket PROVE IInv'
  OBVIOUS
<1>1. /\ size \in Sizes /\ Sizing(size) /\ snd \in Sender /\ cast \in Operation
      /\ TrainerGood(size, snd, cast) /\ MetadataOK /\ sub \in [Ranks -> Seq(Unread)]
  BY StateFacts
<1>2. PICK last \in BOOLEAN : last <=> ~(snd.name <= Len(size))
  OBVIOUS
<1>3. /\ snd.pc = "fill" /\ snd.queue = <<>> /\ cast.st \in {"none", "done"}
      /\ cast' = [st |-> "publish", buf |-> snd.fill, meta |-> snd.meta, last |-> last]
      /\ snd' = [snd EXCEPT !.fill = 1 - @, !.offset = 0, !.meta = <<>>,
                            !.pc = IF last THEN "finish" ELSE "fill"]
      /\ UNCHANGED <<size, rcv, recvop, sub, wk>>
  BY <1>2 DEF FlushBucket, MoreChunks
<1>4. /\ snd.fill \in 0 .. 1 /\ 1 - snd.fill \in 0 .. 1 /\ snd.meta \in Seq(Chunk)
      /\ Bucket \in Nat /\ 0 \in 0 .. Bucket /\ <<>> \in Seq(Chunk)
  BY <1>1, SenderTypes
<1>5. cast' \in Operation
  BY <1>3, <1>4 DEF Operation
<1>6. snd' \in Sender
  BY <1>1, <1>3, <1>4 DEF Sender
<1>7. FlushedBy(snd, snd', cast', last)
  BY <1>1, <1>3 DEF Sender, FlushedBy
<1>8. TrainerGood(size, snd', cast') /\ CastStart(snd', cast') = CastStart(snd, cast)
  BY <1>1, <1>2, <1>3, <1>7, FlushTrainer
<1>9. MetadataOK'
  <2>1. cast.st # "broadcast" /\ ~(cast.st = "done" /\ cast.last) /\ cast'.st = "publish"
    BY <1>1, <1>3 DEF TrainerGood, CastOK
  <2>2. \A r \in Ranks : /\ recvop[r].st # "broadcast" /\ sub[r] = <<>>
                         /\ ~((recvop[r].st = "done" /\ recvop[r].last) \/ rcv[r].last)
    BY <1>1, <2>1 DEF MetadataOK
  <2>3. QED
    BY <1>3, <2>1, <2>2 DEF MetadataOK
<1>10. QED
  BY <1>1, <1>3, <1>5, <1>6, <1>8, <1>9, TrainerStep

LEMMA InvEndSend == IInv /\ EndSend => IInv'
<1> SUFFICES ASSUME IInv, EndSend PROVE IInv'
  OBVIOUS
<1>1. /\ size \in Sizes /\ Sizing(size) /\ snd \in Sender /\ cast \in Operation
      /\ TrainerGood(size, snd, cast) /\ MetadataOK /\ sub \in [Ranks -> Seq(Unread)]
  BY StateFacts
<1>2. /\ snd.pc = "finish" /\ cast.st = "done" /\ snd' = [snd EXCEPT !.pc = "end"]
      /\ UNCHANGED <<size, cast, rcv, recvop, sub, wk>>
  BY DEF EndSend
<1>3. /\ snd'.pc = "end" /\ snd'.name = snd.name /\ snd'.at = snd.at /\ snd'.fill = snd.fill
      /\ snd'.offset = snd.offset /\ snd'.meta = snd.meta /\ snd'.mem = snd.mem
      /\ snd'.queue = snd.queue
  BY <1>1, <1>2 DEF Sender
<1>4. snd' \in Sender
  BY <1>1, <1>2 DEF Sender
<1>5. FillStart(snd') = FillStart(snd) /\ Cursor(snd') = Cursor(snd)
  BY <1>3 DEF FillStart, Cursor
<1>6. CastStart(snd', cast) = CastStart(snd, cast)
  BY <1>5 DEF CastStart
<1>7. TrainerGood(size, snd', cast)
  <2>1. CursorOK(size, snd') /\ BucketOK(size, snd')
    BY <1>1, <1>3, <1>5 DEF TrainerGood, CursorOK, BucketOK
  <2>2. FillOK(snd')
    BY <1>1, <1>3 DEF TrainerGood, FillOK
  <2>3. CastOK(size, snd', cast)
    BY <1>1, <1>2, <1>3, <1>5 DEF TrainerGood, CastOK
  <2>4. QED
    BY <2>1, <2>2, <2>3 DEF TrainerGood
<1>8. MetadataOK'
  BY <1>1, <1>2 DEF MetadataOK
<1>9. QED
  BY <1>1, <1>2, <1>4, <1>6, <1>7, <1>8, TrainerStep

-----------------------------------------------------------------------------
(* The broadcast. *)
LEMMA InvPublish == IInv /\ Publish => IInv'
<1> SUFFICES ASSUME IInv, Publish PROVE IInv'
  OBVIOUS
<1>1. /\ size \in Sizes /\ Sizing(size) /\ snd \in Sender /\ cast \in Operation
      /\ TrainerGood(size, snd, cast) /\ MetadataOK /\ sub \in [Ranks -> Seq(Unread)]
  BY StateFacts
<1>2. /\ cast.st = "publish" /\ cast' = [cast EXCEPT !.st = "broadcast"]
      /\ sub' = [r \in Ranks |-> Append(sub[r], [meta |-> cast.meta, last |-> cast.last])]
      /\ UNCHANGED <<size, snd, rcv, recvop, wk>>
  BY DEF Publish
<1>3. /\ cast'.st = "broadcast" /\ cast'.buf = cast.buf /\ cast'.meta = cast.meta
      /\ cast'.last = cast.last
  BY <1>1, <1>2 DEF Operation
<1>4. cast' \in Operation
  BY <1>1, <1>2 DEF Operation
<1>5. TrainerGood(size, snd, cast') /\ CastStart(snd, cast') = CastStart(snd, cast)
  <2>1. PICK c : c = cast'
    OBVIOUS
  <2>2. /\ cast.st \in {"publish", "broadcast"} /\ c.st \in {"broadcast", "done"}
        /\ c.st = "broadcast" /\ c.buf = cast.buf /\ c.meta = cast.meta /\ c.last = cast.last
    BY <1>2, <1>3, <2>1
  <2>3. TrainerGood(size, snd, c) /\ CastStart(snd, c) = CastStart(snd, cast)
    BY <1>1, <2>2, CastTrainer
  <2>4. QED
    BY <2>1, <2>3
<1>6. PICK u : u = [meta |-> cast.meta, last |-> cast.last]
  OBVIOUS
<1>7. u \in Unread
  BY <1>1, <1>6 DEF Unread, Operation
<1>8. \A r \in Ranks : /\ recvop[r].st # "broadcast" /\ sub[r] = <<>>
                       /\ ~((recvop[r].st = "done" /\ recvop[r].last) \/ rcv[r].last)
  BY <1>1, <1>2 DEF MetadataOK
<1>9. \A r \in Ranks : Append(sub[r], u) = <<u>>
  <2>1. Append(<<>>, u) = <<u>>
    OBVIOUS
  <2>2. QED
    BY <1>8, <2>1
<1>10. sub' \in [Ranks -> Seq(Unread)]
  <2>1. <<u>> \in Seq(Unread)
    BY <1>7
  <2>2. sub' = [r \in Ranks |-> <<u>>]
    BY <1>2, <1>6, <1>9
  <2>3. QED
    BY <2>1, <2>2
<1>11. MetadataOK'
  <2>1. \A r \in Ranks : sub'[r] = <<u>>
    BY <1>2, <1>6, <1>9
  <2>2. QED
    BY <1>2, <1>3, <1>6, <1>8, <2>1 DEF MetadataOK
<1>12. QED
  BY <1>1, <1>2, <1>4, <1>5, <1>10, <1>11, TrainerStep

LEMMA InvRecvMetadata == ASSUME NEW r \in Ranks PROVE IInv /\ RecvMetadata(r) => IInv'
<1> SUFFICES ASSUME IInv, RecvMetadata(r) PROVE IInv'
  OBVIOUS
<1>1. /\ rcv \in [Ranks -> Receiver] /\ recvop \in [Ranks -> Operation]
      /\ sub \in [Ranks -> Seq(Unread)] /\ wk \in [Ranks -> Worker] /\ MetadataOK
      /\ cast \in Operation
  BY StateFacts
<1>2. /\ recvop[r].st = "publish" /\ sub[r] # <<>>
      /\ recvop' = [recvop EXCEPT ![r].st = "broadcast", ![r].meta = Head(sub[r]).meta,
                                  ![r].last = Head(sub[r]).last]
      /\ sub' = [sub EXCEPT ![r] = Tail(@)]
      /\ UNCHANGED <<size, snd, cast, rcv, wk>>
  BY DEF RecvMetadata
<1>3. PICK u : u = [meta |-> cast.meta, last |-> cast.last]
  OBVIOUS
<1>4. cast.st = "broadcast" /\ sub[r] = <<u>>
  BY <1>1, <1>2, <1>3 DEF MetadataOK
<1>5. Head(sub[r]) = u /\ Tail(sub[r]) = <<>> /\ u.meta = cast.meta /\ u.last = cast.last
  BY <1>3, <1>4
<1>6. PICK o : o = [recvop[r] EXCEPT !.st = "broadcast", !.meta = cast.meta, !.last = cast.last]
  OBVIOUS
<1>7. recvop' = [recvop EXCEPT ![r] = o]
  BY <1>1, <1>2, <1>5, <1>6
<1>8. o \in Operation /\ o.st = "broadcast" /\ o.buf = recvop[r].buf /\ o.meta = cast.meta
      /\ o.last = cast.last
  BY <1>1, <1>6 DEF Operation
<1>9. sub' \in [Ranks -> Seq(Unread)] /\ sub'[r] = <<>>
      /\ \A s \in Ranks : s # r => sub'[s] = sub[s]
  <2>1. sub' = [sub EXCEPT ![r] = <<>>]
    BY <1>2, <1>5
  <2>2. <<>> \in Seq(Unread)
    OBVIOUS
  <2>3. QED
    BY <1>1, <2>1, <2>2
<1>10. recvop'[r] = o /\ \A s \in Ranks : s # r => recvop'[s] = recvop[s]
  BY <1>1, <1>7
<1>11. MetadataOK'
  BY <1>1, <1>2, <1>4, <1>8, <1>9, <1>10 DEF MetadataOK
<1>12. RankOK(size, rcv[r], o, wk[r], From)
  BY <1>2, <1>8, RankState, RecvMetadataRank
<1>13. PICK q, k : q = rcv[r] /\ k = wk[r]
  OBVIOUS
<1>14. /\ q \in Receiver /\ k \in Worker
       /\ rcv' = [rcv EXCEPT ![r] = q] /\ wk' = [wk EXCEPT ![r] = k]
  BY <1>1, <1>2, <1>13
<1>15. RankOK(size, q, o, k, From)
  BY <1>12, <1>13
<1>16. UNCHANGED <<size, snd, cast>> /\ sub' \in [Ranks -> Seq(Unread)] /\ o \in Operation
  BY <1>2, <1>8, <1>9
<1>17. QED
  BY <1>7, <1>11, <1>14, <1>15, <1>16, RankStep

LEMMA InvBroadcast == IInv /\ Broadcast => IInv'
<1> SUFFICES ASSUME IInv, Broadcast PROVE IInv'
  OBVIOUS
<1>1. /\ size \in Sizes /\ Sizing(size) /\ snd \in Sender /\ cast \in Operation
      /\ TrainerGood(size, snd, cast) /\ MetadataOK /\ sub \in [Ranks -> Seq(Unread)]
      /\ rcv \in [Ranks -> Receiver] /\ recvop \in [Ranks -> Operation] /\ wk \in [Ranks -> Worker]
  BY StateFacts
<1>2. /\ cast.st = "broadcast" /\ \A r \in Ranks : recvop[r].st = "broadcast"
      /\ rcv' = [r \in Ranks |-> [rcv[r] EXCEPT !.mem[recvop[r].buf] = snd.mem[cast.buf]]]
      /\ cast' = [cast EXCEPT !.st = "done"]
      /\ recvop' = [r \in Ranks |-> [recvop[r] EXCEPT !.st = "done"]]
      /\ UNCHANGED <<size, snd, sub, wk>>
  BY DEF Broadcast
<1>3. /\ cast'.st = "done" /\ cast'.buf = cast.buf /\ cast'.meta = cast.meta
      /\ cast'.last = cast.last /\ cast' \in Operation
  BY <1>1, <1>2 DEF Operation
<1>4. /\ TrainerGood(size, snd, cast') /\ From = At(cast.meta, 1, FillStart(snd))
      /\ CastStart(snd, cast') = FillStart(snd)
      /\ Run(size, cast.meta, FillStart(snd)) /\ Holds(snd.mem[cast.buf], cast.meta)
  <2>1. PICK c : c = cast'
    OBVIOUS
  <2>2. /\ cast.st \in {"publish", "broadcast"} /\ c.st \in {"broadcast", "done"}
        /\ c.st = "done" /\ c.buf = cast.buf /\ c.meta = cast.meta /\ c.last = cast.last
    BY <1>2, <1>3, <2>1
  <2>3. /\ TrainerGood(size, snd, c) /\ CastStart(snd, cast) = At(cast.meta, 1, FillStart(snd))
        /\ CastStart(snd, c) = FillStart(snd)
        /\ Run(size, cast.meta, FillStart(snd)) /\ Holds(snd.mem[cast.buf], cast.meta)
    BY <1>1, <2>2, CastTrainer
  <2>4. QED
    BY <2>1, <2>3 DEF From
<1>5. PICK m : m = snd.mem[cast.buf]
  OBVIOUS
<1>6. m \in Bytes
  <2>1. cast.buf \in 0 .. 1 /\ snd.mem \in [0 .. 1 -> Bytes]
    BY <1>1, SenderTypes DEF Operation
  <2>2. QED
    BY <1>5, <2>1
<1>7. \A r \in Ranks : /\ sub[r] = <<>> /\ recvop[r].meta = cast.meta
                       /\ recvop[r].last = cast.last /\ ~rcv[r].last
  BY <1>1, <1>2 DEF MetadataOK
<1>8. ASSUME NEW r \in Ranks
      PROVE  /\ rcv'[r] = [rcv[r] EXCEPT !.mem[recvop[r].buf] = m]
             /\ rcv'[r] \in Receiver /\ rcv'[r].last = rcv[r].last
             /\ recvop'[r] \in Operation /\ recvop'[r].st = "done"
             /\ recvop'[r].buf = recvop[r].buf /\ recvop'[r].meta = recvop[r].meta
             /\ recvop'[r].last = recvop[r].last
  <2>1. rcv[r] \in Receiver /\ recvop[r] \in Operation
    BY RankState
  <2>2. rcv'[r] = [rcv[r] EXCEPT !.mem[recvop[r].buf] = m]
    BY <1>2, <1>5
  <2>3. recvop'[r] = [recvop[r] EXCEPT !.st = "done"]
    BY <1>2
  <2>4. /\ recvop'[r] \in Operation /\ recvop'[r].st = "done"
        /\ recvop'[r].buf = recvop[r].buf /\ recvop'[r].meta = recvop[r].meta
        /\ recvop'[r].last = recvop[r].last
    BY <2>1, <2>3 DEF Operation
  <2>5. PICK mm : mm = [rcv[r].mem EXCEPT ![recvop[r].buf] = m]
    OBVIOUS
  <2>6. mm \in [0 .. 1 -> Bytes]
    BY <1>6, <2>1, <2>5, ReceiverTypes
  <2>7. rcv'[r] = [rcv[r] EXCEPT !.mem = mm]
    BY <2>1, <2>2, <2>5 DEF Receiver
  <2>8. rcv'[r] \in Receiver /\ rcv'[r].last = rcv[r].last
    BY <2>1, <2>6, <2>7 DEF Receiver
  <2>9. QED
    BY <2>2, <2>4, <2>8
<1>9. rcv' \in [Ranks -> Receiver] /\ recvop' \in [Ranks -> Operation]
  BY <1>2, <1>8
<1>10. ASSUME NEW r \in Ranks
       PROVE  RankOK(size, rcv'[r], recvop'[r], wk[r], FillStart(snd))
  <2>1. rcv[r] \in Receiver /\ recvop[r] \in Operation /\ wk[r] \in Worker
        /\ RankOK(size, rcv[r], recvop[r], wk[r], From)
    BY RankState
  <2>2. /\ From = At(recvop[r].meta, 1, FillStart(snd))
        /\ Run(size, recvop[r].meta, FillStart(snd)) /\ Holds(m, recvop[r].meta)
    BY <1>4, <1>5, <1>7
  <2>3. PICK q : q = rcv'[r]
    OBVIOUS
  <2>4. /\ q.mem = [rcv[r].mem EXCEPT ![recvop[r].buf] = m]
        /\ q.pc = rcv[r].pc /\ q.recv = rcv[r].recv /\ q.next = rcv[r].next /\ q.meta = rcv[r].meta
        /\ q.last = rcv[r].last /\ q.queue = rcv[r].queue /\ q.merge = rcv[r].merge
        /\ q.w = rcv[r].w /\ q.shared = rcv[r].shared /\ q.offset = rcv[r].offset
        /\ q.packed = rcv[r].packed
    <3>1. q = [rcv[r] EXCEPT !.mem[recvop[r].buf] = m]
      BY <1>8, <2>3
    <3>2. QED
      BY <2>1, <3>1 DEF Receiver
  <2>5. PICK o : o = recvop'[r]
    OBVIOUS
  <2>6. o.st = "done" /\ o.buf = recvop[r].buf /\ o.meta = recvop[r].meta /\ o.last = recvop[r].last
    BY <1>8, <2>5
  <2>7. recvop[r].st = "broadcast"
    BY <1>2
  <2>8. RankOK(size, q, o, wk[r], FillStart(snd))
    <3>1. PICK e, f : e = From /\ f = FillStart(snd)
      OBVIOUS
    <3>2. PICK q0 \in Receiver, o0 \in Operation, k0 \in Worker : q0 = rcv[r] /\ o0 = recvop[r] /\ k0 = wk[r]
      BY <2>1
    <3>3. RankOK(size, q0, o0, k0, e) /\ o0.st = "broadcast"
      BY <2>1, <2>7, <3>1, <3>2
    <3>4. e = At(o0.meta, 1, f) /\ Run(size, o0.meta, f) /\ Holds(m, o0.meta)
      BY <2>2, <3>1, <3>2
    <3>5. /\ q.mem = [q0.mem EXCEPT ![o0.buf] = m]
          /\ q.pc = q0.pc /\ q.recv = q0.recv /\ q.next = q0.next /\ q.meta = q0.meta
          /\ q.last = q0.last /\ q.queue = q0.queue /\ q.merge = q0.merge
          /\ q.w = q0.w /\ q.shared = q0.shared /\ q.offset = q0.offset
          /\ q.packed = q0.packed
      BY <2>4, <3>2
    <3>6. o.st = "done" /\ o.buf = o0.buf /\ o.meta = o0.meta /\ o.last = o0.last
      BY <2>6, <3>2
    <3>7. RankOK(size, q, o, k0, f)
      BY <3>3, <3>4, <3>5, <3>6, BroadcastRank
    <3>8. QED
      BY <3>1, <3>2, <3>7
  <2>9. QED
    BY <2>3, <2>5, <2>8
<1>11. RanksOK'
  <2>1. CastStart(snd', cast') = FillStart(snd) /\ size' = size /\ wk' = wk
    BY <1>2, <1>4
  <2>2. QED
    BY <1>10, <2>1 DEF RanksOK
<1>12. MetadataOK'
  <2>1. ASSUME NEW r \in Ranks
        PROVE  /\ recvop'[r].st # "broadcast" /\ sub'[r] = <<>>
               /\ recvop'[r].last \/ rcv'[r].last => cast'.last
    <3>1. recvop'[r].st = "done" /\ sub'[r] = <<>>
      BY <1>2, <1>7, <1>8
    <3>2. recvop'[r].last = cast'.last /\ ~rcv'[r].last
      BY <1>3, <1>7, <1>8, Zenon
    <3>3. QED
      BY <3>1, <3>2
  <2>2. cast'.st = "done"
    BY <1>3
  <2>3. QED
    BY <2>1, <2>2 DEF MetadataOK
<1>13. TypeOK'
  BY <1>1, <1>2, <1>3, <1>9 DEF TypeOK, Unread
<1>14. TrainerOK'
  BY <1>2, <1>4 DEF TrainerOK, TrainerGood
<1>15. QED
  BY <1>11, <1>12, <1>13, <1>14 DEF IInv

-----------------------------------------------------------------------------
(* One by one: the ranks. *)

(* A step that changes nothing but a receiver and its worker. *)
LEMMA ReceiverStep ==
  ASSUME IInv, UNCHANGED <<size, snd, cast, recvop, sub>>, NEW r \in Ranks,
         NEW q \in Receiver, NEW k \in Worker,
         rcv' = [rcv EXCEPT ![r] = q], wk' = [wk EXCEPT ![r] = k], q.last = rcv[r].last,
         RankOK(size, q, recvop[r], k, From)
  PROVE  IInv'
<1>1. MetadataOK'
  BY MetadataKept
<1>2. PICK o \in Operation : o = recvop[r]
  BY RankState
<1>3. recvop' = [recvop EXCEPT ![r] = o] /\ sub' \in [Ranks -> Seq(Unread)]
  BY <1>2, StateFacts
<1>4. RankOK(size, q, o, k, From)
  BY <1>2
<1>5. QED
  BY <1>1, <1>3, <1>4, RankStep

LEMMA InvTakeBucket == ASSUME NEW r \in Ranks PROVE IInv /\ TakeBucket(r) => IInv'
<1> SUFFICES ASSUME IInv, TakeBucket(r) PROVE IInv'
  OBVIOUS
<1>1. PICK q \in Receiver, o \in Operation, k \in Worker : q = rcv[r] /\ o = recvop[r] /\ k = wk[r]
  BY RankState
<1>2. RankOK(size, q, o, k, From)
  BY <1>1, RankState
<1>3. /\ q.recv \in 0 .. 1 /\ 1 - q.recv \in 0 .. 1 /\ o.meta \in Seq(Chunk) /\ o.last \in BOOLEAN
  BY ReceiverTypes DEF Operation
<1>4. PICK q2 : q2 = [q EXCEPT !.recv = 1 - q.recv, !.pc = "chunk", !.next = 1,
                               !.meta = o.meta, !.last = o.last]
  OBVIOUS
<1>5. PICK o2 : o2 = IF o.last THEN NoOp ELSE [NoOp EXCEPT !.st = "publish", !.buf = 1 - q.recv]
  OBVIOUS
<1>6. /\ q.pc = "wait" /\ o.st = "done" /\ q.queue = <<>>
      /\ UNCHANGED <<size, snd, cast, sub, wk>>
  BY <1>1 DEF TakeBucket
<1>7. rcv' = [rcv EXCEPT ![r] = q2]
  BY <1>1, <1>4, StateFacts DEF TakeBucket, Receiver
<1>8. recvop' = [recvop EXCEPT ![r] = o2]
  BY <1>1, <1>5 DEF TakeBucket
<1>9. q2 \in Receiver
  BY <1>3, <1>4 DEF Receiver
<1>10. /\ q2.recv = 1 - q.recv /\ q2.pc = "chunk" /\ q2.next = 1 /\ q2.meta = o.meta
       /\ q2.last = o.last /\ q2.mem = q.mem /\ q2.queue = q.queue /\ q2.merge = q.merge
       /\ q2.w = q.w /\ q2.shared = q.shared /\ q2.offset = q.offset /\ q2.packed = q.packed
  BY <1>4 DEF Receiver
<1>11. /\ o2 \in Operation /\ (o.last => o2.st = "none")
       /\ ~o.last => o2.st = "publish" /\ o2.buf = 1 - q.recv
  <2>1. PICK b \in 0 .. 1 : b = 1 - q.recv
    BY <1>3
  <2>2. <<>> \in Seq(Chunk)
    OBVIOUS
  <2>3. CASE o.last
    BY <1>5, <2>2, <2>3 DEF NoOp, Operation
  <2>4. CASE ~o.last
    <3>1. o2 = [NoOp EXCEPT !.st = "publish", !.buf = b]
      BY <1>5, <2>1, <2>4
    <3>2. o2 \in Operation /\ o2.st = "publish" /\ o2.buf = b
      BY <2>2, <3>1 DEF NoOp, Operation
    <3>3. QED
      BY <2>1, <2>4, <3>2
  <2>5. QED
    BY <2>3, <2>4
<1>12. RankOK(size, q2, o2, k, From)
  <2>1. PICK e : e = From
    OBVIOUS
  <2>2. RankOK(size, q, o, k, e)
    BY <1>2, <2>1
  <2>3. RankOK(size, q2, o2, k, e)
    BY <1>6, <1>10, <1>11, <2>2, TakeBucketRank
  <2>4. QED
    BY <2>1, <2>3
<1>13. MetadataOK'
  <2>1. MetadataOK /\ cast' = cast /\ sub' = sub
    BY <1>6, StateFacts
  <2>2. rcv'[r] = q2 /\ recvop'[r] = o2 /\ o2.st \in {"none", "publish"}
    BY <1>5, <1>7, <1>8, StateFacts DEF NoOp
  <2>3. \A s \in Ranks : s # r => rcv'[s] = rcv[s] /\ recvop'[s] = recvop[s]
    BY <1>7, <1>8, StateFacts
  <2>4. recvop[r].st = "done" /\ q2.last = recvop[r].last
    BY <1>1, <1>6, <1>10
  <2>5. ASSUME NEW s \in Ranks, s = r
        PROVE  /\ cast.st = "broadcast" =>
                    /\ recvop'[s].st # "broadcast"
                    /\ sub[s] = <<[meta |-> cast.meta, last |-> cast.last]>>
               /\ cast.st # "broadcast" => recvop'[s].st # "broadcast" /\ sub[s] = <<>>
               /\ (recvop'[s].st = "done" /\ recvop'[s].last) \/ rcv'[s].last =>
                    cast.st = "done" /\ cast.last
    BY <2>1, <2>2, <2>4, <2>5 DEF MetadataOK
  <2>6. ASSUME NEW s \in Ranks, s # r
        PROVE  rcv'[s] = rcv[s] /\ recvop'[s] = recvop[s]
    BY <2>3, <2>6
  <2>7. QED
    BY <2>1, <2>5, <2>6 DEF MetadataOK
<1>14. wk' = [wk EXCEPT ![r] = k] /\ sub' \in [Ranks -> Seq(Unread)]
  BY <1>1, <1>6, StateFacts
<1>15. QED
  BY <1>6, <1>7, <1>8, <1>9, <1>11, <1>12, <1>13, <1>14, RankStep

LEMMA InvSmallWeight == ASSUME NEW r \in Ranks PROVE IInv /\ SmallWeight(r) => IInv'
<1> SUFFICES ASSUME IInv, SmallWeight(r) PROVE IInv'
  OBVIOUS
<1>1. PICK q \in Receiver, o \in Operation, k \in Worker : q = rcv[r] /\ o = recvop[r] /\ k = wk[r]
  BY RankState
<1>2. RankOK(size, q, o, k, From)
  BY <1>1, RankState
<1>3. PICK c : c = q.meta[q.next]
  OBVIOUS
<1>4. /\ q.pc = "chunk" /\ q.next <= Len(q.meta) /\ size[c.name] <= Bucket
      /\ UNCHANGED <<size, snd, cast, recvop, sub, wk>>
  BY <1>1, <1>3 DEF SmallWeight, HasChunk, NextOf
<1>5. c.name \in Nat /\ c.n \in Nat /\ c.offset \in Nat /\ q.next + 1 \in Nat
  <2>1. c \in Chunk
    <3>1. PICK e : e = From
      OBVIOUS
    <3>2. RankOK(size, q, o, k, e)
      BY <1>2, <3>1
    <3>3. QED
      BY <1>3, <1>4, <3>2, PieceAt
  <2>2. QED
    BY <2>1, ReceiverTypes DEF Chunk
<1>6. PICK w : w = [name |-> c.name, n |-> c.n, at |-> c.offset]
  OBVIOUS
<1>7. PICK q2 : q2 = [q EXCEPT !.next = q.next + 1, !.pc = "emit", !.w = w]
  OBVIOUS
<1>8. rcv' = [rcv EXCEPT ![r] = q2]
  BY <1>1, <1>3, <1>6, <1>7, StateFacts DEF SmallWeight, NextOf, Receiver
<1>9. q2 \in Receiver
  BY <1>5, <1>6, <1>7 DEF Receiver
<1>10. /\ q2.recv = q.recv /\ q2.pc = "emit" /\ q2.next = q.next + 1 /\ q2.meta = q.meta
       /\ q2.last = q.last /\ q2.mem = q.mem /\ q2.queue = q.queue /\ q2.merge = q.merge
       /\ q2.w.name = c.name /\ q2.w.n = c.n /\ q2.w.at = c.offset
       /\ q2.shared = q.shared /\ q2.offset = q.offset /\ q2.packed = q.packed
  BY <1>6, <1>7 DEF Receiver
<1>11. RankOK(size, q2, o, k, From)
  <2>1. PICK e : e = From
    OBVIOUS
  <2>2. RankOK(size, q, o, k, e)
    BY <1>2, <2>1
  <2>3. RankOK(size, q2, o, k, e)
    BY <1>3, <1>4, <1>10, <2>2, SmallWeightRank
  <2>4. QED
    BY <2>1, <2>3
<1>12. wk' = [wk EXCEPT ![r] = k]
  BY <1>1, <1>4, StateFacts
<1>13. QED
  BY <1>1, <1>4, <1>8, <1>9, <1>10, <1>11, <1>12, ReceiverStep

LEMMA InvEndOfBucket == ASSUME NEW r \in Ranks PROVE IInv /\ EndOfBucket(r) => IInv'
<1> SUFFICES ASSUME IInv, EndOfBucket(r) PROVE IInv'
  OBVIOUS
<1>1. PICK q \in Receiver, o \in Operation, k \in Worker : q = rcv[r] /\ o = recvop[r] /\ k = wk[r]
  BY RankState
<1>2. RankOK(size, q, o, k, From)
  BY <1>1, RankState
<1>3. /\ q.pc = "chunk" /\ q.next > Len(q.meta)
      /\ UNCHANGED <<size, snd, cast, recvop, sub, wk>>
  BY <1>1 DEF EndOfBucket
<1>4. PICK p : p = IF q.last THEN "last" ELSE "wait"
  OBVIOUS
<1>5. PICK q2 : q2 = [q EXCEPT !.pc = p]
  OBVIOUS
<1>6. rcv' = [rcv EXCEPT ![r] = q2]
  BY <1>1, <1>4, <1>5, StateFacts DEF EndOfBucket
<1>7. q2 \in Receiver
  BY <1>4, <1>5 DEF Receiver
<1>8. /\ q2.recv = q.recv /\ (q.last => q2.pc = "last") /\ (~q.last => q2.pc = "wait")
      /\ q2.next = q.next /\ q2.meta = q.meta
      /\ q2.last = q.last /\ q2.mem = q.mem /\ q2.queue = q.queue /\ q2.merge = q.merge
      /\ q2.w = q.w /\ q2.shared = q.shared /\ q2.offset = q.offset /\ q2.packed = q.packed
  BY <1>4, <1>5 DEF Receiver
<1>9. RankOK(size, q2, o, k, From)
  <2>1. PICK e : e = From
    OBVIOUS
  <2>2. RankOK(size, q, o, k, e)
    BY <1>2, <2>1
  <2>3. RankOK(size, q2, o, k, e)
    BY <1>3, <1>8, <2>2, EndOfBucketRank
  <2>4. QED
    BY <2>1, <2>3
<1>10. wk' = [wk EXCEPT ![r] = k]
  BY <1>1, <1>3, StateFacts
<1>11. QED
  BY <1>1, <1>3, <1>6, <1>7, <1>8, <1>9, <1>10, ReceiverStep

LEMMA InvLargeWeight == ASSUME NEW r \in Ranks PROVE IInv /\ LargeWeight(r) => IInv'
<1> SUFFICES ASSUME IInv, LargeWeight(r) PROVE IInv'
  OBVIOUS
<1>1. PICK q \in Receiver, o \in Operation, k \in Worker : q = rcv[r] /\ o = recvop[r] /\ k = wk[r]
  BY RankState
<1>2. PICK e : e = From
  OBVIOUS
<1>3. RankOK(size, q, o, k, e) /\ Sizing(size)
  BY <1>1, <1>2, RankState, StateFacts
<1>4. PICK c : c = q.meta[q.next]
  OBVIOUS
<1>5. /\ q.pc = "chunk" /\ q.next <= Len(q.meta) /\ size[c.name] > Bucket
      /\ UNCHANGED <<size, snd, cast, recvop, sub, wk>>
  BY <1>1, <1>4 DEF LargeWeight, HasChunk, NextOf
<1>6. /\ c \in Chunk /\ IsChunk(size, c)
      /\ q.merge.name = 0 \/ q.merge.name = c.name
  BY <1>3, <1>4, <1>5, PieceAt
<1>7. /\ c.name \in Nat /\ c.name # 0 /\ c.n \in Nat /\ c.offset \in Nat /\ c.chunkOffset \in Nat
      /\ size[c.name] \in Nat /\ q.next + 1 \in Nat /\ 1 - q.recv \in 0 .. 1
      /\ q.merge.got \in Nat /\ q.merge.mem \in Seq(Memory) /\ q.merge.name \in Nat
      /\ q.queue \in Seq(QueuedType)
  <2>1. c.name \in DOMAIN size /\ size \in Seq(Nat \ {0})
    BY <1>3, <1>6 DEF IsChunk, Sizing
  <2>2. size[c.name] \in Nat /\ c.name # 0
    BY <2>1
  <2>3. c.name \in Nat /\ c.n \in Nat /\ c.offset \in Nat /\ c.chunkOffset \in Nat
    BY <1>6 DEF Chunk
  <2>4. /\ q.recv \in 0 .. 1 /\ q.next \in Nat /\ q.merge.got \in Nat
        /\ q.merge.mem \in Seq(Memory) /\ q.merge.name \in Nat /\ q.queue \in Seq(QueuedType)
    BY ReceiverTypes
  <2>5. q.next + 1 \in Nat /\ 1 - q.recv \in 0 .. 1
    BY <2>4
  <2>6. QED
    BY <2>2, <2>3, <2>4, <2>5
<1>8. PICK whole \in BOOLEAN : whole <=> c.chunkOffset + c.n = size[c.name]
  OBVIOUS
<1>9. PICK y : y = [to |-> "merge", at |-> c.chunkOffset, buf |-> 1 - q.recv,
                    from |-> c.offset, n |-> c.n]
  OBVIOUS
<1>10. PICK fresh : fresh = [i \in 1 .. size[c.name] |-> Junk]
  OBVIOUS
<1>11. fresh \in Seq(Memory) /\ DOMAIN fresh = 1 .. size[c.name]
  BY <1>7, <1>10 DEF Memory
<1>12. PICK m : m = [name |-> c.name, got |-> IF q.merge.name = 0 THEN c.n ELSE q.merge.got + c.n,
                     mem |-> IF q.merge.name = 0 THEN fresh ELSE q.merge.mem]
  OBVIOUS
<1>13. m \in [name : Nat, got : Nat, mem : Seq(Memory)]
  BY <1>7, <1>11, <1>12
<1>14. PICK w : w = IF whole THEN [name |-> c.name, n |-> size[c.name], at |-> 0] ELSE q.w
  OBVIOUS
<1>15. w \in [name : Nat, n : Nat, at : Nat]
  BY <1>7, <1>14 DEF Receiver
<1>16. PICK p \in {"emit", "chunk"} : p = IF whole THEN "emit" ELSE "chunk"
  OBVIOUS
<1>17. y \in QueuedType /\ Append(q.queue, y) \in Seq(QueuedType)
  BY <1>7, <1>9 DEF QueuedType
<1>18. PICK q2 : q2 = [q EXCEPT !.next = q.next + 1, !.merge = m,
                                !.queue = Append(q.queue, y), !.w = w, !.pc = p]
  OBVIOUS
<1>19. rcv' = [rcv EXCEPT ![r] = q2]
  <2>1. q.merge \in [name : Nat, got : Nat, mem : Seq(Memory)]
    BY DEF Receiver
  <2>2. PICK m0 : m0 = IF q.merge.name = 0
                       THEN [name |-> c.name, got |-> 0, mem |-> fresh] ELSE q.merge
    OBVIOUS
  <2>3. m0.name = c.name
    BY <1>6, <2>2
  <2>4. m = [m0 EXCEPT !.got = m0.got + c.n]
    <3>1. CASE q.merge.name = 0
      BY <1>7, <1>12, <2>2, <3>1
    <3>2. CASE q.merge.name # 0
      BY <1>6, <1>12, <2>1, <2>2, <3>2
    <3>3. QED
      BY <3>1, <3>2
  <2>5. rcv' = [rcv EXCEPT
          ![r].next = @ + 1, ![r].merge = [m0 EXCEPT !.got = @ + c.n],
          ![r].queue = Append(@, y),
          ![r].w = IF c.chunkOffset + c.n = size[c.name]
                   THEN [name |-> m0.name, n |-> size[m0.name], at |-> 0] ELSE @,
          ![r].pc = IF c.chunkOffset + c.n = size[c.name] THEN "emit" ELSE @]
    BY <1>1, <1>4, <1>9, <1>10, <2>2 DEF LargeWeight, NextOf, ReadBuf
  <2>6. rcv' = [rcv EXCEPT
          ![r].next = @ + 1, ![r].merge = m, ![r].queue = Append(@, y), ![r].w = w, ![r].pc = p]
    BY <1>1, <1>5, <1>8, <1>14, <1>16, <2>3, <2>4, <2>5, StateFacts DEF Receiver
  <2>7. QED
    BY <1>1, <1>18, <2>6, StateFacts DEF Receiver
<1>20. q2 \in Receiver
  BY <1>7, <1>13, <1>15, <1>17, <1>18 DEF Receiver, QueuedType
<1>21. /\ q2.recv = q.recv /\ q2.next = q.next + 1 /\ q2.meta = q.meta /\ q2.last = q.last
       /\ q2.mem = q.mem /\ q2.queue = Append(q.queue, y)
       /\ q2.shared = q.shared /\ q2.offset = q.offset /\ q2.packed = q.packed
       /\ q2.merge = m /\ q2.w = w /\ q2.pc = p
  BY <1>18 DEF Receiver
<1>22. /\ y.to = "merge" /\ y.at = c.chunkOffset /\ y.buf = 1 - q.recv /\ y.from = c.offset
       /\ y.n = c.n
  BY <1>9
<1>23. /\ q.merge.name = 0 => /\ q2.merge.name = c.name /\ q2.merge.got = c.n
                              /\ DOMAIN q2.merge.mem = 1 .. size[c.name]
       /\ q.merge.name # 0 => /\ q2.merge.name = q.merge.name
                              /\ q2.merge.got = q.merge.got + c.n /\ q2.merge.mem = q.merge.mem
       /\ whole => q2.pc = "emit" /\ q2.w.name = c.name /\ q2.w.n = size[c.name]
       /\ ~whole => q2.pc = "chunk" /\ q2.w = q.w
  BY <1>6, <1>11, <1>12, <1>14, <1>16, <1>21
<1>24. RankOK(size, q2, o, k, e)
  <2>1. /\ q2.recv = q.recv /\ q2.next = q.next + 1 /\ q2.meta = q.meta /\ q2.last = q.last
        /\ q2.mem = q.mem /\ q2.queue = Append(q.queue, y)
        /\ q2.shared = q.shared /\ q2.offset = q.offset /\ q2.packed = q.packed
    BY <1>21
  <2>2. y \in QueuedType
    BY <1>17
  <2>3. /\ RankOK(size, q, o, k, e) /\ Sizing(size) /\ q.pc = "chunk" /\ q.next <= Len(q.meta)
        /\ size[c.name] > Bucket
    BY <1>3, <1>5
  <2>4. QED
    BY <1>4, <1>8, <1>22, <1>23, <2>1, <2>2, <2>3, LargeWeightRank
<1>25. RankOK(size, q2, recvop[r], k, From) /\ q2.last = rcv[r].last /\ wk' = [wk EXCEPT ![r] = k]
  BY <1>1, <1>2, <1>5, <1>21, <1>24, StateFacts
<1>26. QED
  BY <1>5, <1>19, <1>20, <1>25, ReceiverStep

LEMMA InvRankCopy == ASSUME NEW r \in Ranks PROVE IInv /\ RankCopy(r) => IInv'
<1> SUFFICES ASSUME IInv, RankCopy(r) PROVE IInv'
  OBVIOUS
<1>1. PICK q \in Receiver, o \in Operation, k \in Worker : q = rcv[r] /\ o = recvop[r] /\ k = wk[r]
  BY RankState
<1>2. PICK e : e = From
  OBVIOUS
<1>3. RankOK(size, q, o, k, e) /\ Sizing(size)
  BY <1>1, <1>2, RankState, StateFacts
<1>4. PICK h : h = Head(q.queue)
  OBVIOUS
<1>5. PICK data : data = Read(q.mem[h.buf], h.from, h.n)
  OBVIOUS
<1>6. PICK t : t = Tail(q.queue)
  OBVIOUS
<1>7. q.queue # <<>> /\ UNCHANGED <<size, snd, cast, recvop, sub, wk>>
  BY <1>1 DEF RankCopy
<1>8. h.to \in {"merge", "shared"} /\ t \in Seq(QueuedType)
  <2>1. q.queue \in Seq(QueuedType)
    BY ReceiverTypes
  <2>2. h \in QueuedType /\ t \in Seq(QueuedType)
    BY <1>4, <1>6, <1>7, <2>1
  <2>3. QED
    BY <2>2 DEF QueuedType
<1>9. PICK mm : mm = IF h.to = "merge" THEN Write(q.merge.mem, h.at, data) ELSE q.merge.mem
  OBVIOUS
<1>10. PICK sh : sh = IF h.to = "merge" THEN q.shared ELSE Write(q.shared, h.at, data)
  OBVIOUS
<1>11. PICK q2 : q2 = [q EXCEPT !.queue = t, !.merge.mem = mm, !.shared = sh]
  OBVIOUS
<1>12. rcv' = [rcv EXCEPT ![r] = q2]
  <2>1. rcv' = [rcv EXCEPT ![r] =
          IF h.to = "merge" THEN [[q EXCEPT !.queue = t] EXCEPT !.merge.mem = Write(@, h.at, data)]
          ELSE [[q EXCEPT !.queue = t] EXCEPT !.shared = Write(@, h.at, data)]]
    BY <1>1, <1>4, <1>5, <1>6 DEF RankCopy
  <2>2. CASE h.to = "merge"
    <3>1. PICK a : a = Write(q.merge.mem, h.at, data)
      OBVIOUS
    <3>2. rcv' = [rcv EXCEPT ![r] = [[q EXCEPT !.queue = t] EXCEPT !.merge.mem = a]]
      BY <2>1, <2>2, <3>1 DEF Receiver
    <3>3. mm = a /\ sh = q.shared
      BY <1>9, <1>10, <2>2, <3>1
    <3>4. q2 = [[q EXCEPT !.queue = t] EXCEPT !.merge.mem = a]
      BY <1>11, <3>3 DEF Receiver
    <3>5. QED
      BY <3>2, <3>4
  <2>3. CASE h.to # "merge"
    <3>1. PICK a : a = Write(q.shared, h.at, data)
      OBVIOUS
    <3>2. rcv' = [rcv EXCEPT ![r] = [[q EXCEPT !.queue = t] EXCEPT !.shared = a]]
      BY <2>1, <2>3, <3>1 DEF Receiver
    <3>3. sh = a /\ mm = q.merge.mem
      BY <1>9, <1>10, <2>3, <3>1
    <3>4. q2 = [[q EXCEPT !.queue = t] EXCEPT !.shared = a]
      BY <1>11, <3>3 DEF Receiver
    <3>5. QED
      BY <3>2, <3>4
  <2>4. QED
    BY <2>2, <2>3
<1>13. /\ q2.pc = q.pc /\ q2.recv = q.recv /\ q2.next = q.next /\ q2.meta = q.meta
       /\ q2.last = q.last /\ q2.mem = q.mem /\ q2.queue = t
       /\ q2.w = q.w /\ q2.offset = q.offset /\ q2.packed = q.packed
       /\ q2.merge.name = q.merge.name /\ q2.merge.got = q.merge.got
       /\ q2.merge.mem = mm /\ q2.shared = sh
  BY <1>11 DEF Receiver
<1>14. /\ h.to = "merge" => /\ q2.merge.mem = Write(q.merge.mem, h.at, data)
                            /\ q2.shared = q.shared
       /\ h.to = "shared" => /\ q2.shared = Write(q.shared, h.at, data)
                             /\ q2.merge.mem = q.merge.mem
  BY <1>9, <1>10, <1>13
<1>15. q2.merge.mem \in Seq(Memory) /\ q2.shared \in Bytes /\ RankOK(size, q2, o, k, e)
  BY <1>3, <1>4, <1>5, <1>6, <1>7, <1>13, <1>14, RankCopyRank
<1>16. q2 \in Receiver
  BY <1>8, <1>11, <1>13, <1>15 DEF Receiver, QueuedType
<1>17. RankOK(size, q2, recvop[r], k, From) /\ q2.last = rcv[r].last /\ wk' = [wk EXCEPT ![r] = k]
  BY <1>1, <1>2, <1>7, <1>13, <1>15, StateFacts
<1>18. QED
  BY <1>7, <1>12, <1>16, <1>17, ReceiverStep

LEMMA InvPackWeight == ASSUME NEW r \in Ranks PROVE IInv /\ PackWeight(r) => IInv'
<1> SUFFICES ASSUME IInv, PackWeight(r) PROVE IInv'
  OBVIOUS
<1>1. PICK q \in Receiver, o \in Operation, k \in Worker : q = rcv[r] /\ o = recvop[r] /\ k = wk[r]
  BY RankState
<1>2. PICK e : e = From
  OBVIOUS
<1>3. RankOK(size, q, o, k, e)
  BY <1>1, <1>2, RankState
<1>4. /\ q.pc = "emit" /\ q.offset + q.w.n <= Bucket
      /\ UNCHANGED <<size, snd, cast, recvop, sub, wk>>
  BY <1>1 DEF PackWeight, FitsShared
<1>5. /\ q.recv \in 0 .. 1 /\ q.w.name \in Nat /\ q.w.n \in Nat /\ q.w.at \in Nat
      /\ q.offset \in Nat /\ Bucket \in Nat
      /\ q.queue \in Seq(QueuedType) /\ q.packed \in Seq(Packed)
  BY ReceiverTypes
<1>6. PICK p : p = [name |-> q.w.name, n |-> q.w.n, offset |-> q.offset]
  OBVIOUS
<1>7. PICK y : y = [to |-> "shared", at |-> q.offset, buf |-> 1 - q.recv,
                    from |-> q.w.at, n |-> q.w.n]
  OBVIOUS
<1>8. p \in Packed /\ p.name = q.w.name /\ p.n = q.w.n /\ p.offset = q.offset
  BY <1>5, <1>6 DEF Packed
<1>9. /\ y \in QueuedType /\ y.to = "shared" /\ y.at = q.offset /\ y.buf = 1 - q.recv
      /\ y.from = q.w.at /\ y.n = q.w.n
  <2>1. 1 - q.recv \in 0 .. 1
    BY <1>5
  <2>2. QED
    BY <1>5, <1>7, <2>1 DEF QueuedType
<1>10. PICK a \in Seq(QueuedType), b \in Seq(Packed) : a = Append(q.queue, y) /\ b = Append(q.packed, p)
  <2>1. Append(q.queue, y) \in Seq(QueuedType)
    BY <1>5, <1>9
  <2>2. Append(q.packed, p) \in Seq(Packed)
    BY <1>5, <1>8
  <2>3. QED
    BY <2>1, <2>2, Zenon
<1>11. PICK f \in 0 .. Bucket : f = q.offset + q.w.n
  BY <1>4, <1>5
<1>12. NoWeight \in [name : Nat, n : Nat, at : Nat]
  BY DEF NoWeight
<1>13. PICK q2 : q2 = [q EXCEPT !.pc = "chunk", !.w = NoWeight, !.packed = b, !.offset = f,
                                !.queue = a]
  OBVIOUS
<1>14. rcv' = [rcv EXCEPT ![r] = q2]
  <2>1. rcv' = [rcv EXCEPT ![r].pc = "chunk", ![r].w = NoWeight, ![r].packed = Append(@, p),
                           ![r].offset = @ + q.w.n, ![r].queue = Append(@, y)]
    BY <1>1, <1>6, <1>7 DEF PackWeight, ReadBuf
  <2>2. rcv' = [rcv EXCEPT ![r].pc = "chunk", ![r].w = NoWeight, ![r].packed = b,
                           ![r].offset = f, ![r].queue = a]
    BY <1>1, <1>10, <1>11, <2>1, StateFacts DEF Receiver
  <2>3. QED
    BY <1>1, <1>13, <2>2, StateFacts DEF Receiver
<1>15. q2 \in Receiver
  BY <1>12, <1>13 DEF Receiver, QueuedType
<1>16. /\ q2.pc = "chunk" /\ q2.recv = q.recv /\ q2.next = q.next /\ q2.meta = q.meta
       /\ q2.last = q.last /\ q2.mem = q.mem /\ q2.queue = a /\ q2.merge = q.merge
       /\ q2.w = NoWeight /\ q2.shared = q.shared /\ q2.offset = f /\ q2.packed = b
  BY <1>13 DEF Receiver
<1>17. q2.queue = Append(q.queue, y) /\ q2.offset = q.offset + q.w.n /\ q2.packed = Append(q.packed, p)
  BY <1>10, <1>11, <1>16
<1>18. RankOK(size, q2, o, k, e)
  BY <1>3, <1>4, <1>8, <1>9, <1>16, <1>17, PackWeightRank
<1>19. RankOK(size, q2, recvop[r], k, From) /\ q2.last = rcv[r].last /\ wk' = [wk EXCEPT ![r] = k]
  BY <1>1, <1>2, <1>4, <1>16, <1>18, StateFacts
<1>20. QED
  BY <1>4, <1>14, <1>15, <1>19, ReceiverStep

LEMMA InvSendShared == ASSUME NEW r \in Ranks PROVE IInv /\ SendShared(r) => IInv'
<1> SUFFICES ASSUME IInv, SendShared(r) PROVE IInv'
  OBVIOUS
<1>1. PICK q \in Receiver, o \in Operation, k \in Worker : q = rcv[r] /\ o = recvop[r] /\ k = wk[r]
  BY RankState
<1>2. PICK e : e = From
  OBVIOUS
<1>3. RankOK(size, q, o, k, e)
  BY <1>1, <1>2, RankState
<1>4. /\ q.pc = "emit" \/ q.pc = "last"
      /\ q.queue = <<>> /\ UNCHANGED <<size, snd, cast, recvop, sub>>
  BY <1>1 DEF SendShared
<1>5. q.packed \in Seq(Packed) /\ Bucket \in Nat
  BY ReceiverTypes
<1>6. PICK last \in BOOLEAN : last <=> q.pc = "last"
  OBVIOUS
<1>7. PICK q2 : q2 = [q EXCEPT !.pc = "reply", !.packed = <<>>, !.offset = 0]
  OBVIOUS
<1>8. PICK k2 : k2 = [k EXCEPT !.st = "load", !.meta = q.packed, !.direct = FALSE, !.last = last]
  OBVIOUS
<1>9. rcv' = [rcv EXCEPT ![r] = q2]
  BY <1>1, <1>7 DEF SendShared
<1>10. wk' = [wk EXCEPT ![r] = k2]
  <2>1. wk' = [wk EXCEPT ![r].st = "load", ![r].meta = rcv[r].packed, ![r].direct = FALSE,
                         ![r].last = (rcv[r].pc = "last")]
    BY DEF SendShared, Request
  <2>2. last = (rcv[r].pc = "last")
    BY <1>1, <1>6
  <2>3. QED
    BY <1>1, <1>8, <2>1, <2>2
<1>11. q2 \in Receiver
  <2>1. 0 \in 0 .. Bucket /\ <<>> \in Seq(Packed)
    BY <1>5
  <2>2. QED
    BY <1>7, <2>1 DEF Receiver
<1>12. k2 \in Worker
  BY <1>5, <1>8 DEF Worker
<1>13. /\ q2.pc = "reply" /\ q2.recv = q.recv /\ q2.next = q.next /\ q2.meta = q.meta
       /\ q2.last = q.last /\ q2.mem = q.mem /\ q2.queue = q.queue /\ q2.merge = q.merge
       /\ q2.w = q.w /\ q2.shared = q.shared /\ q2.offset = 0 /\ q2.packed = <<>>
  BY <1>7 DEF Receiver
<1>14. /\ k2.st = "load" /\ k2.meta = q.packed /\ ~k2.direct /\ k2.last = last
       /\ k2.loaded = k.loaded
  BY <1>8 DEF Worker
<1>15. RankOK(size, q2, o, k2, e)
  BY <1>3, <1>4, <1>6, <1>13, <1>14, SendSharedRank
<1>16. RankOK(size, q2, recvop[r], k2, From) /\ q2.last = rcv[r].last
  BY <1>1, <1>2, <1>13, <1>15
<1>17. QED
  BY <1>4, <1>9, <1>10, <1>11, <1>12, <1>16, ReceiverStep

LEMMA InvSendDirect == ASSUME NEW r \in Ranks PROVE IInv /\ SendDirect(r) => IInv'
<1> SUFFICES ASSUME IInv, SendDirect(r) PROVE IInv'
  OBVIOUS
<1>1. PICK q \in Receiver, o \in Operation, k \in Worker : q = rcv[r] /\ o = recvop[r] /\ k = wk[r]
  BY RankState
<1>2. PICK e : e = From
  OBVIOUS
<1>3. RankOK(size, q, o, k, e)
  BY <1>1, <1>2, RankState
<1>4. /\ q.pc = "emit" /\ ~(q.offset + q.w.n <= Bucket) /\ q.packed = <<>>
      /\ UNCHANGED <<size, snd, cast, recvop, sub>>
  BY <1>1 DEF SendDirect, FitsShared
<1>5. q.w.name \in Nat /\ q.w.n \in Nat /\ q.offset \in Nat /\ Bucket \in Nat
  BY ReceiverTypes
<1>6. q.offset + q.w.n > Bucket
  BY <1>4, <1>5
<1>7. PICK p : p = [name |-> q.w.name, n |-> q.w.n, offset |-> 0]
  OBVIOUS
<1>8. p \in Packed /\ p.name = q.w.name /\ p.n = q.w.n /\ p.offset = 0
  BY <1>5, <1>7 DEF Packed
<1>9. PICK meta \in Seq(Packed) : meta = <<p>>
  <2>1. <<p>> \in Seq(Packed)
    BY <1>8
  <2>2. QED
    BY <2>1, Zenon
<1>10. PICK q2 : q2 = [q EXCEPT !.pc = "reply", !.w = NoWeight]
  OBVIOUS
<1>11. PICK k2 : k2 = [k EXCEPT !.st = "load", !.meta = meta, !.direct = TRUE, !.last = FALSE]
  OBVIOUS
<1>12. rcv' = [rcv EXCEPT ![r] = q2]
  BY <1>1, <1>10 DEF SendDirect
<1>13. wk' = [wk EXCEPT ![r] = k2]
  BY <1>1, <1>7, <1>9, <1>11 DEF SendDirect, Request
<1>14. q2 \in Receiver
  <2>1. NoWeight \in [name : Nat, n : Nat, at : Nat]
    BY DEF NoWeight
  <2>2. QED
    BY <1>10, <2>1 DEF Receiver
<1>15. k2 \in Worker
  BY <1>11 DEF Worker
<1>16. /\ q2.pc = "reply" /\ q2.recv = q.recv /\ q2.next = q.next /\ q2.meta = q.meta
       /\ q2.last = q.last /\ q2.mem = q.mem /\ q2.queue = q.queue /\ q2.merge = q.merge
       /\ q2.w = NoWeight /\ q2.shared = q.shared /\ q2.offset = q.offset /\ q2.packed = q.packed
  BY <1>10 DEF Receiver
<1>17. /\ k2.st = "load" /\ k2.meta = <<p>> /\ k2.direct /\ ~k2.last /\ k2.loaded = k.loaded
  BY <1>9, <1>11 DEF Worker
<1>18. RankOK(size, q2, o, k2, e)
  BY <1>3, <1>4, <1>6, <1>8, <1>16, <1>17, SendDirectRank
<1>19. RankOK(size, q2, recvop[r], k2, From) /\ q2.last = rcv[r].last
  BY <1>1, <1>2, <1>16, <1>18
<1>20. QED
  BY <1>4, <1>12, <1>13, <1>14, <1>15, <1>19, ReceiverStep

LEMMA InvTakeReply == ASSUME NEW r \in Ranks PROVE IInv /\ TakeReply(r) => IInv'
<1> SUFFICES ASSUME IInv, TakeReply(r) PROVE IInv'
  OBVIOUS
<1>1. PICK q \in Receiver, o \in Operation, k \in Worker : q = rcv[r] /\ o = recvop[r] /\ k = wk[r]
  BY RankState
<1>2. PICK e : e = From
  OBVIOUS
<1>3. RankOK(size, q, o, k, e)
  BY <1>1, <1>2, RankState
<1>4. q.pc = "reply" /\ k.st = "replied" /\ UNCHANGED <<size, snd, cast, recvop, sub>>
  BY <1>1 DEF TakeReply
<1>5. PICK p : p = IF q.w # NoWeight THEN "emit" ELSE IF k.last THEN "end" ELSE "chunk"
  OBVIOUS
<1>6. PICK m : m = IF k.direct THEN NoMerge ELSE q.merge
  OBVIOUS
<1>7. PICK s : s = IF k.last THEN "end" ELSE "idle"
  OBVIOUS
<1>8. m \in [name : Nat, got : Nat, mem : Seq(Memory)]
  <2>1. NoMerge \in [name : Nat, got : Nat, mem : Seq(Memory)]
    BY DEF NoMerge
  <2>2. QED
    BY <1>6, <2>1 DEF Receiver
<1>9. PICK q2 : q2 = [q EXCEPT !.pc = p, !.merge = m]
  OBVIOUS
<1>10. PICK k2 : k2 = [k EXCEPT !.st = s]
  OBVIOUS
<1>11. rcv' = [rcv EXCEPT ![r] = q2]
  BY <1>1, <1>5, <1>6, <1>9, StateFacts DEF TakeReply, Receiver
<1>12. wk' = [wk EXCEPT ![r] = k2]
  BY <1>1, <1>7, <1>10 DEF TakeReply
<1>13. q2 \in Receiver
  <2>1. p \in {"wait", "chunk", "emit", "last", "reply", "end"}
    BY <1>5
  <2>2. QED
    BY <1>8, <1>9, <2>1 DEF Receiver
<1>14. k2 \in Worker
  BY <1>7, <1>10 DEF Worker
<1>15. /\ q2.pc = p /\ q2.recv = q.recv /\ q2.next = q.next /\ q2.meta = q.meta
       /\ q2.last = q.last /\ q2.mem = q.mem /\ q2.queue = q.queue /\ q2.merge = m
       /\ q2.w = q.w /\ q2.shared = q.shared /\ q2.offset = q.offset /\ q2.packed = q.packed
  BY <1>9 DEF Receiver
<1>16. /\ q.w # NoWeight => q2.pc = "emit"
       /\ q.w = NoWeight /\ k.last => q2.pc = "end"
       /\ q.w = NoWeight /\ ~k.last => q2.pc = "chunk"
       /\ k.direct => q2.merge = NoMerge
       /\ ~k.direct => q2.merge = q.merge
  BY <1>5, <1>6, <1>15
<1>17. /\ (k.last => k2.st = "end") /\ (~k.last => k2.st = "idle") /\ k2.loaded = k.loaded
  BY <1>7, <1>10 DEF Worker
<1>18. RankOK(size, q2, o, k2, e)
  BY <1>3, <1>4, <1>15, <1>16, <1>17, TakeReplyRank
<1>19. RankOK(size, q2, recvop[r], k2, From) /\ q2.last = rcv[r].last
  BY <1>1, <1>2, <1>15, <1>18
<1>20. QED
  BY <1>4, <1>11, <1>12, <1>13, <1>14, <1>19, ReceiverStep

LEMMA InvLoad == ASSUME NEW r \in Ranks PROVE IInv /\ Load(r) => IInv'
<1> SUFFICES ASSUME IInv, Load(r) PROVE IInv'
  OBVIOUS
<1>1. PICK q \in Receiver, o \in Operation, k \in Worker : q = rcv[r] /\ o = recvop[r] /\ k = wk[r]
  BY RankState
<1>2. PICK e : e = From
  OBVIOUS
<1>3. RankOK(size, q, o, k, e) /\ Sizing(size)
  BY <1>1, <1>2, RankState, StateFacts
<1>4. /\ k.st = "load" /\ (k.direct => q.queue = <<>>)
      /\ UNCHANGED <<size, snd, cast, rcv, recvop, sub>>
  BY <1>1 DEF Load
<1>5. PICK mem : mem = IF k.direct THEN q.merge.mem ELSE q.shared
  OBVIOUS
<1>6. PICK arrived :
        arrived = [i \in DOMAIN k.meta |->
                     [name |-> k.meta[i].name,
                      data |-> Read(mem, k.meta[i].offset, k.meta[i].n)]]
  OBVIOUS
<1>7. PICK l : l = k.loaded \o arrived
  OBVIOUS
<1>8. PICK k2 : k2 = [k EXCEPT !.st = "replied", !.loaded = l]
  OBVIOUS
<1>9. wk' = [wk EXCEPT ![r] = k2]
  <2>1. wk' = [wk EXCEPT ![r].st = "replied", ![r].loaded = @ \o arrived]
    BY <1>1, <1>5, <1>6 DEF Load
  <2>2. wk' = [wk EXCEPT ![r].st = "replied", ![r].loaded = l]
    BY <1>1, <1>7, <2>1, StateFacts DEF Worker
  <2>3. QED
    BY <1>1, <1>8, <2>2
<1>10. /\ k2.st = "replied" /\ k2.loaded = l /\ k2.meta = k.meta /\ k2.direct = k.direct
       /\ k2.last = k.last
  BY <1>8 DEF Worker
<1>11. (k.direct => mem = q.merge.mem) /\ (~k.direct => mem = q.shared)
  BY <1>5
<1>12. k2.loaded = k.loaded \o arrived
  BY <1>7, <1>10
<1>13. k2.loaded \in Seq(Tensor) /\ RankOK(size, q, o, k2, e)
  BY <1>3, <1>4, <1>6, <1>10, <1>11, <1>12, LoadRank
<1>14. k2 \in Worker
  BY <1>8, <1>10, <1>13 DEF Worker, Tensor
<1>15. RankOK(size, q, recvop[r], k2, From) /\ q.last = rcv[r].last /\ rcv' = [rcv EXCEPT ![r] = q]
  BY <1>1, <1>2, <1>4, <1>13, StateFacts
<1>16. QED
  BY <1>4, <1>9, <1>14, <1>15, ReceiverStep

-----------------------------------------------------------------------------
(* The invariant holds. *)
LEMMA InitInv == Init => IInv
<1> SUFFICES ASSUME Init PROVE IInv
  OBVIOUS
<1>1. size \in Sizes /\ size \in Seq(Nat \ {0}) /\ Len(size) \in Nat /\ Bucket \in Nat
  BY TransferAssumption DEF Init
<1>2. /\ Blank \in Bytes /\ [b \in 0 .. 1 |-> Blank] \in [0 .. 1 -> Bytes]
  BY DEF Blank, Bytes, Memory
<1>3. /\ snd.pc = "fill" /\ snd.name = 1 /\ snd.at = 0 /\ snd.fill = 0 /\ snd.offset = 0
      /\ snd.meta = <<>> /\ snd.mem = [b \in 0 .. 1 |-> Blank] /\ snd.queue = <<>>
      /\ cast.st = "none" /\ snd \in Sender /\ cast \in Operation
  <2>1. 0 \in 0 .. Bucket /\ 0 \in 0 .. 1 /\ <<>> \in Seq(Chunk)
        /\ <<>> \in Seq([buf : 0..1, at : Nat, data : Seq(Memory)])
    BY <1>1
  <2>2. PICK m \in [0 .. 1 -> Bytes] : m = [b \in 0 .. 1 |-> Blank]
    BY <1>2
  <2>3. snd = [pc |-> "fill", name |-> 1, at |-> 0, fill |-> 0, offset |-> 0, meta |-> <<>>,
               mem |-> m, queue |-> <<>>]
    BY <2>2 DEF Init
  <2>4. snd \in Sender
    BY <2>1, <2>3 DEF Sender
  <2>5. cast \in Operation /\ cast.st = "none"
    BY <2>1 DEF Init, NoOp, Operation
  <2>6. QED
    BY <2>2, <2>3, <2>4, <2>5
<1>4. TrainerOK
  <2>1. CursorOK(size, snd)
    <3>1. 1 <= Len(size) => 0 < size[1]
      BY <1>1
    <3>2. QED
      BY <1>1, <1>3, <3>1 DEF CursorOK
  <2>2. BucketOK(size, snd)
    BY <1>3 DEF BucketOK, Run, Disjoint
  <2>3. FillOK(snd)
    BY <1>3 DEF FillOK
  <2>4. CastOK(size, snd, cast)
    BY <1>3 DEF CastOK
  <2>5. QED
    BY <2>1, <2>2, <2>3, <2>4 DEF TrainerOK
<1>5. From = <<1, 0>>
  <2>1. Len(<<>>) = 0
    OBVIOUS
  <2>2. QED
    BY <1>3, <2>1 DEF From, CastStart, FillStart, Cursor, At
<1>6. ASSUME NEW r \in Ranks
      PROVE  /\ rcv[r] \in Receiver /\ recvop[r] \in Operation /\ wk[r] \in Worker
             /\ sub[r] = <<>> /\ recvop[r].st = "publish" /\ ~rcv[r].last
             /\ RankOK(size, rcv[r], recvop[r], wk[r], From)
  <2>1. PICK m \in [0 .. 1 -> Bytes] : m = [b \in 0 .. 1 |-> Blank]
    BY <1>2
  <2>2. PICK q : q = rcv[r]
    OBVIOUS
  <2>3. q = [pc |-> "wait", recv |-> 0, next |-> 1, meta |-> <<>>, last |-> FALSE,
             mem |-> m, queue |-> <<>>, merge |-> NoMerge,
             w |-> NoWeight, shared |-> Blank, offset |-> 0, packed |-> <<>>]
    BY <2>1, <2>2 DEF Init
  <2>4. /\ NoMerge \in [name : Nat, got : Nat, mem : Seq(Memory)] /\ NoMerge.name = 0
        /\ NoWeight \in [name : Nat, n : Nat, at : Nat] /\ NoWeight.name = 0
        /\ 0 \in 0 .. Bucket /\ <<>> \in Seq(Chunk) /\ <<>> \in Seq(Packed)
        /\ <<>> \in Seq([to : {"merge", "shared"}, at : Nat, buf : 0..1, from : Nat, n : Nat])
    BY <1>1 DEF NoMerge, NoWeight
  <2>5. q \in Receiver
    BY <1>2, <2>3, <2>4 DEF Receiver
  <2>6. /\ q.pc = "wait" /\ q.recv = 0 /\ q.next = 1 /\ q.meta = <<>> /\ ~q.last
        /\ q.queue = <<>> /\ q.merge.name = 0 /\ q.w = NoWeight /\ q.w.name = 0
        /\ q.offset = 0 /\ q.packed = <<>>
    BY <2>3, <2>4
  <2>7. PICK o : o = recvop[r]
    OBVIOUS
  <2>8. o \in Operation /\ o.st = "publish" /\ o.buf = 0
    <3>1. o = [NoOp EXCEPT !.st = "publish"]
      BY <2>7 DEF Init
    <3>2. o = [st |-> "publish", buf |-> 0, meta |-> <<>>, last |-> FALSE]
      BY <3>1 DEF NoOp
    <3>3. QED
      BY <2>4, <3>2 DEF Operation
  <2>9. PICK k : k = wk[r]
    OBVIOUS
  <2>10. k \in Worker /\ k.st = "idle" /\ k.loaded = <<>>
    <3>1. k = [st |-> "idle", meta |-> <<>>, direct |-> FALSE, last |-> FALSE, loaded |-> <<>>]
      BY <2>9 DEF Init
    <3>2. <<>> \in Seq([name : Nat, data : Seq(Memory)])
      OBVIOUS
    <3>3. QED
      BY <2>4, <3>1, <3>2 DEF Worker
  <2>11. /\ Loading(k) = <<>> /\ Handed(k) = 0 /\ Emitted(q, k) = 0
    <3>1. Len(<<>>) = 0
      OBVIOUS
    <3>2. Loading(k) = <<>>
      BY <2>10 DEF Loading
    <3>3. Handed(k) = 0
      BY <2>10, <3>1, <3>2 DEF Handed
    <3>4. QED
      BY <2>6, <3>1, <3>2, <3>3 DEF Emitted
  <2>12. ControlOK(q, o, k)
    BY <2>6, <2>8, <2>10 DEF ControlOK
  <2>13. BuffersOK(q, o)
    BY <2>6, <2>8 DEF BuffersOK, Holds
  <2>14. StreamOK(size, q, o, k, From)
    <3>1. Wanted(q, k) = <<1, 0>>
      BY <2>6, <2>11 DEF Wanted, Merging
    <3>2. At(q.meta, q.next, Following(o, From)) = From
      BY <2>6, <2>8 DEF At, Following
    <3>3. Run(size, q.meta, Following(o, From))
      BY <2>6 DEF Run
    <3>4. QED
      BY <1>5, <2>6, <2>8, <3>1, <3>2, <3>3 DEF StreamOK
  <2>15. WeightsOK(size, q, k)
    BY <2>6, <2>10, <2>11 DEF WeightsOK, Disjoint
  <2>16. MergeOK(size, q, k)
    BY <2>6 DEF MergeOK
  <2>17. ContentsOK(size, q, k)
    BY <2>6, <2>10 DEF ContentsOK
  <2>18. sub[r] = <<>>
    BY DEF Init
  <2>19. RankOK(size, q, o, k, From)
    BY <2>12, <2>13, <2>14, <2>15, <2>16, <2>17 DEF RankOK
  <2>20. QED
    BY <2>2, <2>5, <2>6, <2>7, <2>8, <2>9, <2>10, <2>18, <2>19
<1>7. MetadataOK
  BY <1>3, <1>6 DEF MetadataOK
<1>8. TypeOK
  <2>1. /\ rcv \in [Ranks -> Receiver] /\ recvop \in [Ranks -> Operation]
        /\ wk \in [Ranks -> Worker]
    BY <1>6 DEF Init
  <2>2. sub \in [Ranks -> Seq([meta : Seq(Chunk), last : BOOLEAN])]
    BY DEF Init
  <2>3. QED
    BY <1>1, <1>3, <2>1, <2>2 DEF TypeOK
<1>9. RanksOK
  BY <1>6 DEF RanksOK, From
<1>10. QED
  BY <1>4, <1>7, <1>8, <1>9 DEF IInv

LEMMA NextInv == IInv /\ [Next]_vars => IInv'
<1> SUFFICES ASSUME IInv, [Next]_vars PROVE IInv'
  OBVIOUS
<1>1. CASE UNCHANGED vars
  BY <1>1 DEF vars, IInv, TypeOK, TrainerOK, MetadataOK, RanksOK
<1>2. CASE Trainer
  BY <1>2, InvFill, InvFlush, InvEndSend DEF Trainer
<1>3. CASE SenderCopy
  BY <1>3, InvSenderCopy
<1>4. CASE Executors
  BY <1>4, InvPublish, InvBroadcast, InvRecvMetadata DEF Executors
<1>5. ASSUME NEW r \in Ranks, Rank(r) PROVE IInv'
  BY <1>5, InvTakeBucket, InvSmallWeight, InvLargeWeight, InvEndOfBucket, InvPackWeight,
     InvSendShared, InvSendDirect, InvTakeReply DEF Rank
<1>6. ASSUME NEW r \in Ranks, RankCopy(r) PROVE IInv'
  BY <1>6, InvRankCopy
<1>7. ASSUME NEW r \in Ranks, Load(r) PROVE IInv'
  BY <1>7, InvLoad
<1>8. QED
  BY <1>1, <1>2, <1>3, <1>4, <1>5, <1>6, <1>7 DEF Next

LEMMA Invariance == Spec => []IInv
BY InitInv, NextInv, PTL DEF Spec

-----------------------------------------------------------------------------
(* The results. *)

(* What every buffer, bucket and message of the transfer holds is of its    *)
(* type; no bucket and no shared buffer is filled beyond bucket_size        *)
(* (split_weight_chunks, BucketedWeightSender.async_send_weights).          *)
THEOREM TransferTypes == Spec => []TypeOK
<1>1. IInv => TypeOK
  BY DEF IInv
<1>2. QED
  BY <1>1, Invariance, PTL

(* No memory is written while it is read: the synchronize calls and waits   *)
(* of send_weights, receive_weights and async_send_weights are enough, with *)
(* any weights and in any order of threads and streams.                     *)
THEOREM NoRace == Spec => []NoDataRace
<1>1. ASSUME IInv PROVE NoDataRace
  <2>1. ASSUME cast.st \in {"publish", "broadcast"}, NEW i \in DOMAIN snd.queue
        PROVE  snd.queue[i].buf # cast.buf
    <3>1. FillOK(snd) /\ CastOK(size, snd, cast) /\ snd \in Sender
      BY <1>1, StateFacts DEF TrainerGood
    <3>2. snd.fill \in 0 .. 1
      BY <3>1, SenderTypes
    <3>3. snd.queue[i].buf = snd.fill /\ cast.buf = 1 - snd.fill
      BY <2>1, <3>1 DEF FillOK, CastOK
    <3>4. QED
      BY <3>2, <3>3
  <2>2. ASSUME NEW r \in Ranks, NEW i \in DOMAIN rcv[r].queue
        PROVE  /\ recvop[r].st = "broadcast" => rcv[r].queue[i].buf # recvop[r].buf
               /\ wk[r].st = "load" /\ ~wk[r].direct => rcv[r].queue[i].to # "shared"
    <3>1. PICK q \in Receiver, o \in Operation, k \in Worker :
            q = rcv[r] /\ o = recvop[r] /\ k = wk[r]
      BY <1>1, RankState
    <3>2. BuffersOK(q, o) /\ ContentsOK(size, q, k)
      BY <1>1, <3>1, RankState DEF RankOK
    <3>3. q.recv \in 0 .. 1
      BY ReceiverTypes
    <3>4. i \in DOMAIN q.queue
      BY <3>1
    <3>5. o.st = "broadcast" => q.queue[i].buf # o.buf
      BY <3>2, <3>3, <3>4 DEF BuffersOK
    <3>6. k.st = "load" /\ ~k.direct => q.queue = <<>>
      BY <3>2 DEF ContentsOK
    <3>7. QED
      BY <3>1, <3>4, <3>5, <3>6
  <2>3. QED
    BY <2>1, <2>2 DEF NoDataRace
<1>2. QED
  BY <1>1, Invariance, PTL

(* What the assertions of the merging ask of the next piece. *)
Expected(z, q, c) ==
  \/ q.merge.name = 0 /\ c.chunkOffset = 0
  \/ /\ q.merge.name = c.name /\ q.merge.got = c.chunkOffset
     /\ z[c.name] > Bucket /\ q.merge.name # 0

LEMMA PieceExpected ==
  ASSUME NEW z, NEW q \in Receiver, NEW o \in Operation, NEW k \in Worker, NEW e,
         RankOK(z, q, o, k, e), q.pc = "chunk", q.next <= Len(q.meta),
         NEW c, c = q.meta[q.next]
  PROVE  IsChunk(z, c) /\ Expected(z, q, c)
<1>1. IsChunk(z, c)
  BY PieceAt
<1>2. q.merge.name = 0 \/ z[c.name] > Bucket
  BY PieceAt
<1>3. Wanted(q, k) = <<c.name, c.chunkOffset>>
  BY DEF RankOK, StreamOK, At, Start
<1>4. CASE q.merge.name = 0
  BY <1>1, <1>3, <1>4 DEF Wanted, Merging, Expected
<1>5. CASE q.merge.name # 0
  <2>1. Merging(q, k)
    BY <1>5, PieceAt
  <2>2. q.merge.name = c.name /\ q.merge.got = c.chunkOffset
    BY <1>3, <2>1 DEF Wanted
  <2>3. QED
    BY <1>1, <1>2, <1>5, <2>2 DEF Expected
<1>6. QED
  BY <1>4, <1>5

(* The assertions of merge_weight_chunks and send_weights never fail,       *)
(* however the weights are cut and packed.                                  *)
THEOREM Asserted == Spec => []AssertionsHold
<1>1. ASSUME IInv PROVE AssertionsHold
  <2>1. ASSUME NEW i \in DOMAIN snd.meta, NEW j \in DOMAIN snd.meta, i # j
        PROVE  snd.meta[i].name # snd.meta[j].name
    <3>1. BucketOK(size, snd) /\ snd.meta \in Seq(Chunk)
      BY <1>1, StateFacts, SenderTypes DEF TrainerGood
    <3>2. /\ i \in Nat /\ j \in Nat /\ snd.meta[i] \in Chunk /\ snd.meta[j] \in Chunk
      BY <3>1
    <3>3. snd.meta[i].name \in Nat /\ snd.meta[j].name \in Nat
      BY <3>2 DEF Chunk
    <3>4. CASE i < j
      BY <3>1, <3>3, <3>4 DEF BucketOK
    <3>5. CASE j < i
      BY <3>1, <3>3, <3>5 DEF BucketOK
    <3>6. QED
      BY <2>1, <3>2, <3>4, <3>5
  <2>2. ASSUME NEW r \in Ranks, HasChunk(r), NEW c, c = NextOf(r)
        PROVE  \/ rcv[r].merge.name = 0 /\ c.chunkOffset = 0
               \/ /\ rcv[r].merge.name = c.name /\ rcv[r].merge.got = c.chunkOffset
                  /\ ~(size[c.name] <= Bucket) /\ rcv[r].merge.name # 0
    <3>1. PICK q \in Receiver, o \in Operation, k \in Worker :
            q = rcv[r] /\ o = recvop[r] /\ k = wk[r]
      BY <1>1, RankState
    <3>2. PICK e : e = From
      OBVIOUS
    <3>3. RankOK(size, q, o, k, e)
      BY <1>1, <3>1, <3>2, RankState
    <3>4. q.pc = "chunk" /\ q.next <= Len(q.meta) /\ c = q.meta[q.next]
      BY <2>2, <3>1 DEF HasChunk, NextOf
    <3>5. /\ IsChunk(size, c)
          /\ \/ q.merge.name = 0 /\ c.chunkOffset = 0
             \/ /\ q.merge.name = c.name /\ q.merge.got = c.chunkOffset
                /\ size[c.name] > Bucket /\ q.merge.name # 0
      <4>1. PICK z : z = size
        OBVIOUS
      <4>2. RankOK(z, q, o, k, e)
        BY <3>3, <4>1
      <4>3. q.pc = "chunk" /\ q.next <= Len(q.meta) /\ c = q.meta[q.next]
        BY <3>4
      <4>4. IsChunk(z, c) /\ Expected(z, q, c)
        BY <4>2, <4>3, PieceExpected
      <4>5. QED
        BY <4>1, <4>4 DEF Expected
    <3>6. size[c.name] \in Nat /\ Bucket \in Nat
      BY <1>1, <3>5, StateFacts, TransferAssumption DEF IsChunk, Sizing
    <3>7. QED
      BY <3>1, <3>5, <3>6
  <2>3. QED
    BY <2>1, <2>2 DEF AssertionsHold
<1>2. QED
  BY <1>1, Invariance, PTL

(* What a worker has loaded at any time is the first weights, in order,     *)
(* each once, whole and with the trainer's contents, and at the end all of  *)
(* them (send_weights, receive_weights, merge_weight_chunks,                *)
(* async_send_weights and BucketedWeightReceiver).                          *)
THEOREM LoadedSent == Spec => []LoadedIsSent
<1>1. ASSUME IInv PROVE LoadedIsSent
  <2>1. ASSUME NEW r \in Ranks, NEW l, l = wk[r].loaded
        PROVE  /\ Len(l) <= Len(size) /\ (wk[r].st = "end" => Len(l) = Len(size))
               /\ \A w \in DOMAIN l : l[w] = [name |-> w, data |-> Units(w, 0, size[w])]
    <3>1. PICK q \in Receiver, o \in Operation, k \in Worker :
            q = rcv[r] /\ o = recvop[r] /\ k = wk[r]
      BY <1>1, RankState
    <3>2. /\ RankOK(size, q, o, k, From) /\ Sizing(size)
      BY <1>1, <3>1, StateFacts
    <3>3. /\ k.loaded \in Seq([name : Nat, data : Seq(Memory)]) /\ Len(k.loaded) \in Nat
          /\ DOMAIN k.loaded = 1 .. Len(k.loaded) /\ Len(size) \in Nat
          /\ DOMAIN size = 1 .. Len(size)
      <4>1. k.loaded \in Seq([name : Nat, data : Seq(Memory)])
        BY WorkerTypes
      <4>2. Len(k.loaded) \in Nat /\ DOMAIN k.loaded = 1 .. Len(k.loaded)
        BY <4>1
      <4>3. Len(size) \in Nat /\ DOMAIN size = 1 .. Len(size)
        BY <3>2 DEF Sizing
      <4>4. QED
        BY <4>1, <4>2, <4>3
    <3>4. \A i \in DOMAIN k.loaded :
            i \in DOMAIN size /\ k.loaded[i] = [name |-> i, data |-> Units(i, 0, size[i])]
      BY <3>2 DEF RankOK, WeightsOK
    <3>5. Len(k.loaded) <= Len(size)
      <4>1. CASE Len(k.loaded) = 0
        BY <3>3, <4>1
      <4>2. CASE Len(k.loaded) # 0
        <5>1. Len(k.loaded) \in DOMAIN k.loaded
          BY <3>3, <4>2
        <5>2. Len(k.loaded) \in 1 .. Len(size)
          BY <3>3, <3>4, <5>1
        <5>3. QED
          BY <3>3, <5>2
      <4>3. QED
        BY <4>1, <4>2
    <3>6. ASSUME k.st = "end" PROVE Len(k.loaded) = Len(size)
      <4>1. /\ q.pc = "end" /\ q.next > Len(q.meta) /\ q.last /\ q.w = NoWeight
            /\ q.packed = <<>> /\ o.st = "none" /\ q.w.name = 0
        BY <3>2, <3>6 DEF RankOK, ControlOK, NoWeight
      <4>2. cast.st = "done" /\ cast.last
        BY <1>1, <3>1, <4>1, StateFacts DEF MetadataOK
      <4>3. snd.meta = <<>> /\ snd.name = Len(size) + 1 /\ snd.at = 0
        BY <1>1, <3>3, <4>2, StateFacts DEF TrainerGood, CastOK, CursorOK
      <4>4. From = <<Len(size) + 1, 0>>
        <5>1. Len(<<>>) = 0
          OBVIOUS
        <5>2. QED
          BY <4>2, <4>3, <5>1 DEF From, CastStart, FillStart, At, Cursor
      <4>5. Wanted(q, k) = <<Len(size) + 1, 0>>
        <5>1. Following(o, From) = From
          BY <4>1 DEF Following
        <5>2. q.next \in Nat /\ Len(q.meta) \in Nat
          BY ReceiverTypes
        <5>3. At(q.meta, q.next, From) = From
          BY <4>1, <5>2 DEF At
        <5>4. QED
          BY <3>2, <4>4, <5>1, <5>3 DEF RankOK, StreamOK
      <4>6. ~Merging(q, k)
        <5>1. SUFFICES ASSUME Merging(q, k) PROVE FALSE
          OBVIOUS
        <5>2. q.merge.name = Len(size) + 1
          BY <4>5, <5>1 DEF Wanted
        <5>3. q.merge.name \in 1 .. Len(size)
          BY <3>2, <3>3, <5>1 DEF RankOK, MergeOK, Merging
        <5>4. QED
          BY <3>3, <5>2, <5>3
      <4>7. Emitted(q, k) + 1 = Len(size) + 1
        BY <4>5, <4>6 DEF Wanted
      <4>8. Emitted(q, k) = Len(k.loaded)
        <5>1. Len(<<>>) = 0
          OBVIOUS
        <5>2. Handed(k) = Len(k.loaded)
          BY <3>3, <3>6, <5>1 DEF Handed, Loading
        <5>3. QED
          BY <3>3, <4>1, <5>1, <5>2, EmittedFacts
      <4>9. QED
        BY <3>3, <4>7, <4>8
    <3>7. QED
      BY <2>1, <3>1, <3>4, <3>5, <3>6
  <2>2. QED
    BY <2>1 DEF LoadedIsSent
<1>2. QED
  BY <1>1, Invariance, PTL
=============================================================================
