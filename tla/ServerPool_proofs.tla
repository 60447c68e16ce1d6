--------------------------- MODULE ServerPool_proofs ---------------------------
EXTENDS ServerPool, FiniteSetTheorems, SequenceTheorems, TLAPS

(* Proofs about ServerPool, for every number of servers, requests and       *)
(* versions, in every setup.  The phases of the trainer determine which     *)
(* servers are interrupted and what they have loaded (PhaseOK,              *)
(* InterruptedOK, LoadedOK); from that, how long the answer of a request is *)
(* (LengthsOK) and, where it was never exposed, what its tokens can be      *)
(* (CallsOK, TokensOK, LabelsOK, ValidationOK).                             *)

\* All the phases
Phases == {"abort", "load", "resume", "wake", "abort_own", "abort_hybrid", "add",
           "resume_own", "resume_hybrid", "validating", "stop_own", "stop_hybrid",
           "remove", "sleep", "restart_own", "restart_hybrid", "train"}

\* What After takes the next phase from
Plan == Sync \o (IF NeedValidate THEN Validate ELSE <<>>) \o <<"train">>

\* What the synchronisation and a validation run through, position by
\* position.
LEMMA PlanIs ==
  ASSUME NeedValidate
  PROVE
    /\ DOMAIN Plan = 1..17
    /\ Plan[1] = "abort" /\ Plan[2] = "load" /\ Plan[3] = "resume"
    /\ Plan[4] = "wake" /\ Plan[5] = "abort_own" /\ Plan[6] = "abort_hybrid"
    /\ Plan[7] = "add" /\ Plan[8] = "resume_own" /\ Plan[9] = "resume_hybrid"
    /\ Plan[10] = "validating" /\ Plan[11] = "stop_own" /\ Plan[12] = "stop_hybrid"
    /\ Plan[13] = "remove" /\ Plan[14] = "sleep" /\ Plan[15] = "restart_own"
    /\ Plan[16] = "restart_hybrid" /\ Plan[17] = "train"
<1>1. Validate \in Seq(Phases) /\ Len(Validate) = 13
  BY DEF Validate, Phases
<1>2. Sync \in Seq(Phases) /\ Len(Sync) = 3
  BY DEF Sync, Phases
<1>3. <<"train">> \in Seq(Phases) /\ Len(<<"train">>) = 1 /\ <<"train">>[1] = "train"
  BY DEF Phases
<1> DEFINE P == Sync \o Validate
<1>4. P \in Seq(Phases) /\ Len(P) = 16 /\ \A i \in 1..16 : P[i] = IF i <= 3 THEN Sync[i] ELSE Validate[i-3]
  <2>1. P \in Seq(Phases) /\ Len(P) = Len(Sync) + Len(Validate)
        /\ \A i \in 1..Len(Sync) + Len(Validate) : P[i] = IF i <= Len(Sync) THEN Sync[i] ELSE Validate[i - Len(Sync)]
    BY <1>1, <1>2, ConcatProperties, Zenon
  <2> HIDE DEF P
  <2> QED BY <2>1, <1>1, <1>2
<1> HIDE DEF P
<1> DEFINE T == <<"train">>
<1>5. DOMAIN (P \o T) = 1..17 /\ (P \o T)[17] = "train" /\ \A i \in 1..16 : (P \o T)[i] = P[i]
  <2>1. P \o T \in Seq(Phases) /\ Len(P \o T) = Len(P) + Len(T)
        /\ \A i \in 1..Len(P) + Len(T) : (P \o T)[i] = IF i <= Len(P) THEN P[i] ELSE T[i - Len(P)]
    BY <1>3, <1>4, ConcatProperties, Zenon
  <2>2. Len(T) = 1 /\ T[1] = "train"
    BY <1>3
  <2> HIDE DEF T
  <2>3. 17 \in 1..Len(P) + Len(T) /\ ~(17 <= Len(P)) /\ 17 - Len(P) = 1 /\ 1..16 \subseteq 1..Len(P) + Len(T)
    BY <2>2, <1>4
  <2>4. (P \o T)[17] = "train"
    <3>1. (P \o T)[17] = IF 17 <= Len(P) THEN P[17] ELSE T[17 - Len(P)]
      BY <2>1, <2>3, Zenon
    <3>2. (P \o T)[17] = T[17 - Len(P)]
      BY <2>3, <3>1, Zenon
    <3>3. T[17 - Len(P)] = T[1]
      BY <2>3, Zenon
    <3> QED BY <2>2, <3>2, <3>3, Zenon
  <2>5. Len(P \o T) = 17
    BY <2>1, <2>2, <1>4
  <2> QED BY <2>1, <2>3, <2>4, <2>5, <1>4
<1>6. Plan = P \o T
  BY DEF P, Plan
<1> HIDE DEF T
<1> HIDE DEF Plan
<1>11. \A i \in 1..16 : Plan[i] = IF i <= 3 THEN Sync[i] ELSE Validate[i-3]
  BY <1>4, <1>5, <1>6, Zenon
<1>7. Plan[1] = Sync[1] /\ Plan[2] = Sync[2] /\ Plan[3] = Sync[3] /\ Plan[17] = "train"
  <2>1. Plan[1] = Sync[1] /\ Plan[2] = Sync[2] /\ Plan[3] = Sync[3]
    BY <1>11
  <2>2. Plan[17] = "train"
    BY <1>5, <1>6, Zenon
  <2> QED BY <2>1, <2>2
<1>8. \A i \in 1..13 : Plan[i+3] = Validate[i]
  <2> TAKE i \in 1..13
  <2>1. i + 3 \in 1..16 /\ ~(i + 3 <= 3) /\ (i + 3) - 3 = i
    OBVIOUS
  <2> QED BY <1>11, <2>1, Zenon
<1>9. /\ Plan[4] = Validate[1] /\ Plan[5] = Validate[2] /\ Plan[6] = Validate[3]
      /\ Plan[7] = Validate[4] /\ Plan[8] = Validate[5] /\ Plan[9] = Validate[6]
      /\ Plan[10] = Validate[7] /\ Plan[11] = Validate[8] /\ Plan[12] = Validate[9]
      /\ Plan[13] = Validate[10] /\ Plan[14] = Validate[11] /\ Plan[15] = Validate[12]
      /\ Plan[16] = Validate[13]
  BY <1>8
<1>10. DOMAIN Plan = 1..17
  BY <1>5, <1>6
<1> QED BY <1>7, <1>9, <1>10 DEF Sync, Validate

\* Where a validation is due, After goes from one position to the next.
LEMMA NextInPlan ==
  ASSUME NeedValidate, NEW i \in 1..16
  PROVE After(Plan[i]) = Plan[i+1]
<1> DEFINE j == CHOOSE j \in DOMAIN Plan : Plan[j] = Plan[i]
<1>1. DOMAIN Plan = 1..17
  BY PlanIs
<1>2. \A k \in 1..17 : Plan[k] = Plan[i] => k = i
  <2> HIDE DEF Plan
  <2> QED BY PlanIs
<1>3. j = i
  BY <1>1, <1>2
<1> QED BY <1>3 DEF After, Plan

\* Which phase follows which, with and without a validation.
LEMMA AfterIs ==
  /\ After("abort") = "load" /\ After("load") = "resume"
  /\ After("resume") = IF NeedValidate THEN "wake" ELSE "train"
  /\ NeedValidate =>
       /\ After("wake") = "abort_own" /\ After("abort_own") = "abort_hybrid"
       /\ After("abort_hybrid") = "add" /\ After("add") = "resume_own"
       /\ After("resume_own") = "resume_hybrid" /\ After("resume_hybrid") = "validating"
       /\ After("validating") = "stop_own" /\ After("stop_own") = "stop_hybrid"
       /\ After("stop_hybrid") = "remove" /\ After("remove") = "sleep"
       /\ After("sleep") = "restart_own" /\ After("restart_own") = "restart_hybrid"
       /\ After("restart_hybrid") = "train"
<1>1. CASE NeedValidate
  <2>1. \A i \in 1..16 : After(Plan[i]) = Plan[i+1]
    BY <1>1, NextInPlan
  <2> HIDE DEF Plan
  <2>2. /\ After(Plan[1]) = Plan[2] /\ After(Plan[2]) = Plan[3] /\ After(Plan[3]) = Plan[4]
        /\ After(Plan[4]) = Plan[5] /\ After(Plan[5]) = Plan[6] /\ After(Plan[6]) = Plan[7]
        /\ After(Plan[7]) = Plan[8] /\ After(Plan[8]) = Plan[9] /\ After(Plan[9]) = Plan[10]
        /\ After(Plan[10]) = Plan[11] /\ After(Plan[11]) = Plan[12] /\ After(Plan[12]) = Plan[13]
        /\ After(Plan[13]) = Plan[14] /\ After(Plan[14]) = Plan[15] /\ After(Plan[15]) = Plan[16]
        /\ After(Plan[16]) = Plan[17]
    BY <2>1
  <2> QED BY <1>1, <2>2, PlanIs
<1>2. CASE ~NeedValidate
  <2> DEFINE T == <<"train">>  S == Sync \o T
  <2>1. Sync \in Seq(Phases) /\ Len(Sync) = 3 /\ T \in Seq(Phases) /\ Len(T) = 1
        /\ Sync[1] = "abort" /\ Sync[2] = "load" /\ Sync[3] = "resume" /\ T[1] = "train"
    BY DEF Sync, Phases
  <2>2. Sync \o <<>> = Sync
    BY <2>1, ConcatEmptySeq
  <2>3. Plan = S
    BY <1>2, <2>2 DEF Plan
  <2> HIDE DEF T
  <2>4. S \in Seq(Phases) /\ Len(S) = Len(Sync) + Len(T)
        /\ \A i \in 1..Len(Sync) + Len(T) : S[i] = IF i <= Len(Sync) THEN Sync[i] ELSE T[i - Len(Sync)]
    BY <2>1, ConcatProperties, Zenon
  <2> HIDE DEF S
  <2>5. Len(S) = 4 /\ DOMAIN S = 1..4
    BY <2>1, <2>4
  <2>6. \A i \in 1..4 : S[i] = IF i <= 3 THEN Sync[i] ELSE T[i - 3]
    BY <2>1, <2>4
  <2>7. S[1] = "abort" /\ S[2] = "load" /\ S[3] = "resume" /\ S[4] = "train"
    BY <2>1, <2>6
  <2> DEFINE J(at) == CHOOSE j \in DOMAIN Plan : Plan[j] = at
  <2>8. J("abort") = 1 /\ J("load") = 2 /\ J("resume") = 3
    BY <2>3, <2>5, <2>7
  <2>9. \A at : After(at) = Plan[J(at) + 1]
    BY DEF After, Plan
  <2> QED BY <1>2, <2>3, <2>7, <2>8, <2>9
<1> QED BY <1>1, <1>2

\* The phases of the type invariant are those of the plan.
LEMMA PhasesAre ==
  {Sync[i] : i \in DOMAIN Sync} \cup {Validate[i] : i \in DOMAIN Validate} \cup {"train"} = Phases
<1>1. DOMAIN Sync = 1..3 /\ DOMAIN Validate = 1..13
  BY DEF Sync, Validate
<1>2. {Sync[i] : i \in 1..3} = {"abort", "load", "resume"}
  BY DEF Sync
<1>3. {Validate[i] : i \in 1..13} = {Validate[1], Validate[2], Validate[3], Validate[4], Validate[5],
         Validate[6], Validate[7], Validate[8], Validate[9], Validate[10], Validate[11], Validate[12], Validate[13]}
  OBVIOUS
<1> QED BY <1>1, <1>2, <1>3 DEF Phases, Validate

-----------------------------------------------------------------------------
(* The inductive invariant                                                  *)

\* The phases before the hybrid servers join the pool, and those they are in it
Narrow == {"abort", "load", "resume", "wake", "abort_own", "abort_hybrid", "add"}
Widened == {"resume_own", "resume_hybrid", "validating", "stop_own", "stop_hybrid", "remove"}

\* A server whose last call is an abort, not a resume: paused and emptied, or
\* left open by it
Interrupted(s) == sv[s].paused \/ s \in loose

\* When a standalone, and a hybrid, server is
OwnInterrupted(s) ==
  \/ phase.at \in {"abort", "abort_own", "stop_own"} /\ s \notin phase.left
  \/ phase.at \in {"resume", "resume_own", "restart_own"} /\ s \in phase.left
  \/ phase.at \in {"load", "abort_hybrid", "add", "stop_hybrid", "remove", "sleep"}

HybridInterrupted(s) ==
  \/ phase.at \in {"abort_hybrid", "stop_hybrid"} /\ s \notin phase.left
  \/ phase.at \in {"resume_hybrid", "restart_hybrid"} /\ s \in phase.left
  \/ phase.at \in {"add", "resume_own", "remove", "sleep", "restart_own"}

\* A hybrid server that has the weights of the version being validated
HybridLoaded(s) ==
  \/ phase.at \in {"abort_own", "abort_hybrid", "add", "resume_own", "resume_hybrid",
                   "validating", "stop_own", "stop_hybrid", "remove"}
  \/ phase.at = "wake" /\ s \notin phase.left
  \/ phase.at = "sleep" /\ s \in phase.left

\* The version that an engine which takes requests serves
Served == IF phase.at = "abort" THEN version - 1 ELSE version

\* Where the trainer can be: which servers its call has left, which are in the
\* pool, and that nothing is asked for before the first synchronisation ended.
PhaseOK ==
  /\ phase \in [at : Phases, left : SUBSET Servers, started : BOOLEAN]
  /\ phase.left \subseteq Reached(phase.at)
  /\ phase.at \in {"abort", "load", "resume", "train"} \/ NeedValidate
  /\ phase.at = "train" \/ version > 0 => phase.started
  /\ phase.started /\ version = 0 => phase.at = "train"
  /\ Pool = IF phase.at \in Widened THEN Servers ELSE Standalone

\* Which servers are interrupted is a matter of the phase.
InterruptedOK ==
  /\ \A s \in Standalone : Interrupted(s) <=> OwnInterrupted(s)
  /\ \A s \in Hybrid : Interrupted(s) <=> HybridInterrupted(s)

\* So is what they have loaded, but for those being loaded.
LoadedOK ==
  /\ \A s \in Standalone :
       /\ sv[s].awake
       /\ \/ phase.at = "load" /\ s \in phase.left
          \/ phase.at = "abort" /\ version = 0
          \/ sv[s].weights = Served /\ sv[s].steps = Served
  /\ \A s \in Hybrid :
       /\ HybridLoaded(s) => sv[s].awake /\ sv[s].weights = version /\ sv[s].steps = version
       /\ ~HybridLoaded(s) /\ phase.at # "wake" => ~sv[s].awake
       /\ ~sv[s].awake => sv[s].weights = None

HasServer == {"calling", "running", "completed", "aborted", "raised"}

\* A call has one server, which no release of the request is under way to.  What
\* runs and was never exposed, runs in an engine that is awake and not
\* interrupted, and reaches no hybrid server before the trainer has prepared it.
CallOf(r) ==
  /\ rq[r].pc \in HasServer <=> rq[r].server # None
  /\ rq[r].server # None => release[r] = None
  /\ rq[r].pc = "running" /\ r \notin exposed =>
       ~Interrupted(rq[r].server) /\ sv[rq[r].server].awake
  /\ rq[r].pc \in {"calling", "running"} /\ r \notin exposed /\ rq[r].server \in Hybrid =>
       phase.at \notin Narrow
  /\ r \in Training /\ ~phase.started => rq[r].pc = "start"

CallsOK == \A r \in Requests : CallOf(r)

\* A validation request is under way only while its version is validated, it is
\* never cut nor exposed, and has the tokens of that version only.
ValidationOf(r) ==
  /\ r \notin exposed
  /\ rq[r].pc \in {"start", "calling", "running", "completed", "done"}
  /\ rq[r].pc \in {"calling", "running", "completed"} =>
       phase.at = "validating" /\ version = ValidatedAt[r]
  /\ rq[r].pc \in {"start", "calling", "running", "completed"} => rq[r].low = None
  /\ rq[r].pc \in {"start", "calling"} => rq[r].tokens = <<>>
  /\ rq[r].low = rq[r].high
  /\ \A i \in DOMAIN rq[r].tokens : rq[r].tokens[i] = ValidatedAt[r]

ValidationOK == \A r \in Validation : ValidationOf(r)

\* How many tokens earlier calls left
Merged(q) == IF q.pc \in {"start", "calling"} THEN Len(q.tokens) ELSE q.base

\* How long the answer of a request is: while it may go on, there is room for a
\* token more.
LengthOf(r) ==
  /\ Len(rq[r].tokens) <= Allowance(r)
  /\ rq[r].pc \in {"start", "calling", "running", "aborted"} =>
       Len(rq[r].tokens) < Allowance(r)
  /\ rq[r].pc \in {"running", "completed", "aborted"} => rq[r].base <= Len(rq[r].tokens)
  /\ rq[r].pc = "completed" => rq[r].base < Len(rq[r].tokens)

LengthsOK == \A r \in Requests : LengthOf(r)

\* What a request q that was never exposed has: tokens of versions served so
\* far, those of the call under way all of one version, which is its answer's
\* label; low is None only while no call has brought tokens.
TokensOf(q) ==
  /\ \A i \in DOMAIN q.tokens : q.tokens[i] \in Versions /\ q.tokens[i] <= Served
  /\ q.pc = "running" => \A i \in DOMAIN q.tokens : i > q.base => q.tokens[i] = Served
  /\ q.pc = "completed" => q.label # None
  /\ q.pc \in {"completed", "aborted"} =>
       IF q.label = None THEN Len(q.tokens) = q.base
       ELSE /\ q.label <= Served
            /\ \A i \in DOMAIN q.tokens : /\ q.tokens[i] <= q.label
                                          /\ i > q.base => q.tokens[i] = q.label
  /\ q.low # None => q.low <= Served /\ \A i \in DOMAIN q.tokens : q.low <= q.tokens[i]
  /\ /\ q.pc \in {"start", "calling", "running", "completed", "aborted"}
     /\ q.low = None \/ ~PartialRollout
     => Merged(q) = 0

TokensOK == \A r \in Requests : r \notin exposed => TokensOf(rq[r])

LabelsOf(q) ==
  q.pc = "done" /\ (PartialRollout \/ q.tokens # <<>>) =>
    /\ {q.low, q.high} \subseteq Versions
    /\ \A i \in DOMAIN q.tokens : q.low <= q.tokens[i] /\ q.tokens[i] <= q.high
    /\ q.high = Last(q.tokens)

LabelsOK == \A r \in Requests : r \notin exposed => LabelsOf(rq[r])

\* Where aborts pause the engine and none raises, no server is left open.
ExposureOK == setup.pausing /\ setup.erring = {} => loose = {} /\ exposed = {}

\* What is known of the requests
RequestsOK ==
  /\ CallsOK /\ ValidationOK /\ LengthsOK /\ TokensOK /\ LabelsOK /\ ExposureOK

IInv ==
  /\ TypeOK /\ PhaseOK /\ InterruptedOK /\ LoadedOK /\ RequestsOK
  /\ CountersFollowRequests

-----------------------------------------------------------------------------
(* Steps that leave the requests alone                                      *)

\* A step of the trainer that touches no request keeps what is known of them,
\* if what runs keeps running in an engine that is awake, no one on a hybrid
\* server is caught by a new synchronisation, and no validation is left
\* behind.
LEMMA RequestsKept ==
  ASSUME IInv, UNCHANGED <<rq, release, setup, exposed>>, loose' \subseteq loose,
         Served' = Served,
         \A r \in Requests : rq[r].pc = "running" /\ r \notin exposed =>
           ~Interrupted(rq[r].server)' /\ sv'[rq[r].server].awake,
         phase.started => phase'.started,
         phase'.at \in Narrow => phase.at \in Narrow
           \/ \A r \in Requests : rq[r].pc \in {"calling", "running"} /\ r \notin exposed =>
                                   rq[r].server \notin Hybrid,
         phase.at = "validating" =>
           \/ phase'.at = "validating" /\ version' = version
           \/ \A r \in Validation : rq[r].pc \notin {"calling", "running", "completed"}
  PROVE  RequestsOK'
<1> USE DEF IInv, RequestsOK
<1>1. CallsOK'
  BY DEF CallsOK, CallOf
<1>2. ValidationOK'
  BY DEF ValidationOK, ValidationOf
<1>3. LengthsOK'
  BY DEF LengthsOK, LengthOf, Allowance
<1>4. TokensOK'
  BY DEF TokensOK, TokensOf, Merged
<1>5. LabelsOK'
  BY DEF LabelsOK, LabelsOf
<1>6. ExposureOK'
  BY DEF ExposureOK
<1> QED BY <1>1, <1>2, <1>3, <1>4, <1>5, <1>6

\* The counters stay right while nobody acquires, merges or releases.
LEMMA CountersKept ==
  ASSUME IInv, UNCHANGED <<inflight, release>>,
         \A r \in Requests : rq'[r].server = rq[r].server
  PROVE  CountersFollowRequests'
<1>1. \A s : HeldBy(s)' = HeldBy(s)
  BY DEF HeldBy
<1> QED BY <1>1 DEF IInv, CountersFollowRequests, Pool

\* The types of the fields, one by one.
LEMMA TypeParts ==
  ASSUME TypeOK
  PROVE  /\ version \in Nat /\ version <= MaxVersion /\ MaxVersion \in Nat
         /\ \A r \in Requests :
              /\ rq[r].server \in Servers \cup {None} /\ rq[r].base \in Nat
              /\ rq[r].tokens \in Seq(Labels \cup {Mixed})
              /\ {rq[r].label, rq[r].low, rq[r].high} \subseteq Labels
              /\ release[r] \in Servers \cup {None}
         /\ \A s \in Servers : sv[s].paused \in BOOLEAN /\ sv[s].awake \in BOOLEAN
  BY PoolAssumption DEF TypeOK, Versions

\* What an engine runs has the weights and the label of the version served.
LEMMA RunningIsServed ==
  ASSUME IInv, NEW r \in Requests, rq[r].server \in Servers, r \notin exposed,
         rq[r].pc \in {"calling", "running"},
         ~Interrupted(rq[r].server), sv[rq[r].server].awake
  PROVE  /\ sv[rq[r].server].weights = Served /\ sv[rq[r].server].steps = Served
         /\ Served \in Versions
<1> DEFINE s == rq[r].server
<1>1. CASE s \in Standalone
  <2>1. phase.at # "load"
    BY <1>1 DEF IInv, Interrupted, InterruptedOK, OwnInterrupted
  <2>2. ~(phase.at = "abort" /\ version = 0)
    BY <1>1 DEF IInv, RequestsOK, CallsOK, CallOf, ValidationOK, ValidationOf, PhaseOK, Requests
  <2>3. Served \in Versions
    BY <2>2, TypeParts DEF IInv, Served, Versions
  <2> QED BY <1>1, <2>1, <2>2, <2>3 DEF IInv, LoadedOK
<1>2. CASE s \in Hybrid
  <2>1. phase.at \notin Narrow
    BY <1>2 DEF IInv, RequestsOK, Interrupted, CallsOK, CallOf
  <2>2. HybridLoaded(s) /\ phase.at # "abort"
    BY <1>2, <2>1 DEF IInv, LoadedOK, Narrow
  <2>3. Served = version /\ version \in Versions
    BY <2>2 DEF IInv, TypeOK, Served
  <2> QED BY <1>2, <2>2, <2>3 DEF IInv, LoadedOK
<1> QED BY <1>1, <1>2 DEF Servers

\* No engine of an interrupted or sleeping server runs a request that was never
\* exposed.
LEMMA NothingRuns ==
  ASSUME IInv, NEW s \in Servers,
         Interrupted(s) \/ ~sv[s].awake \/ (s \in Hybrid /\ phase.at \in Narrow)
  PROVE  \A r \in Requests : rq[r].pc = "running" /\ r \notin exposed => rq[r].server # s
  BY DEF IInv, RequestsOK, Interrupted, CallsOK, CallOf

-----------------------------------------------------------------------------
(* The trainer                                                              *)

\* Having reached a server, the trainer stays in its phase or goes to the
\* next.
LEMMA DoneWithIs ==
  ASSUME PhaseOK, NEW s \in phase.left, DoneWith(s)
  PROVE  LET next == After(phase.at) IN
         /\ \/ phase.left = {s} /\ phase'.at = next /\ phase'.left = Reached(next)
            \/ phase.left # {s} /\ phase'.at = phase.at /\ phase'.left = phase.left \ {s}
         /\ phase' \in [at : Phases, left : SUBSET Servers, started : BOOLEAN]
         /\ phase'.started <=> phase.started \/ phase'.at = "train"
<1> DEFINE next == After(phase.at)
<1>1. phase.at \notin {"add", "validating", "remove", "train"}
  BY DEF PhaseOK, Reached
<1>2. next \in Phases
  BY <1>1, AfterIs DEF PhaseOK, Phases
<1> HIDE DEF next
<1>3. Reached(next) \in SUBSET Servers
  BY DEF Reached, Servers
<1>4. phase \in [at : Phases, left : SUBSET Servers, started : BOOLEAN]
  BY DEF PhaseOK
<1>5. CASE phase.left = {s}
  <2>1. phase' = [at |-> next, left |-> Reached(next),
                  started |-> phase.started \/ next = "train"]
    BY <1>5 DEF DoneWith, GoTo, next
  <2>2. (phase.started \/ next = "train") \in BOOLEAN
    OBVIOUS
  <2>3. phase'.at = next /\ phase'.left = Reached(next) /\ (phase'.started <=> phase.started \/ next = "train")
    BY <2>1
  <2>4. phase' \in [at : Phases, left : SUBSET Servers, started : BOOLEAN]
    BY <1>2, <1>3, <2>1, <2>2
  <2> QED BY <1>5, <2>3, <2>4 DEF next
<1>6. CASE phase.left # {s}
  <2>1. phase' = [phase EXCEPT !.left = phase.left \ {s}]
    BY <1>6 DEF DoneWith
  <2> QED BY <1>1, <1>4, <1>6, <2>1
<1> QED BY <1>5, <1>6

\* A new version: the hybrid servers sleep, and no call to them is under way.
LEMMA StartSyncStep == ASSUME IInv, StartSync PROVE IInv'
<1>1. /\ phase.at = "train" /\ version < MaxVersion /\ version' = version + 1
      /\ \A r \in Requests : rq[r].pc # "calling"
      /\ phase' = [at |-> "abort", left |-> Standalone,
                   started |-> phase.started \/ "abort" = "train"]
      /\ UNCHANGED <<inflight, routes, rq, release, sv, setup, loose, exposed>>
  BY DEF StartSync, GoTo, Reached, history
<1> USE <1>1
<1>2. PhaseOK'
  BY TypeParts DEF IInv, PhaseOK, Phases, Reached, Pool, Widened, Servers
<1>3. InterruptedOK'
  BY DEF IInv, Interrupted, InterruptedOK, OwnInterrupted, HybridInterrupted, PhaseOK, Reached
<1>4. Served' = Served
  BY TypeParts DEF IInv, Served
<1>5. LoadedOK'
  <2> USE DEF IInv, LoadedOK, PhaseOK, Reached
  <2>1. \A s \in Standalone : sv[s].weights = Served /\ sv[s].steps = Served
    OBVIOUS
  <2>2. \A s \in Hybrid : ~HybridLoaded(s)' /\ ~sv[s].awake
    BY DEF HybridLoaded
  <2> QED BY <1>4, <2>1, <2>2
<1>6. \A r \in Requests : rq[r].pc = "running" /\ r \notin exposed => rq[r].server \notin Hybrid
  BY NothingRuns DEF IInv, LoadedOK, HybridLoaded, Servers
<1>7. RequestsOK'
  <2>1. \A r \in Requests : rq[r].pc = "running" /\ r \notin exposed =>
           ~Interrupted(rq[r].server)' /\ sv'[rq[r].server].awake
    BY DEF IInv, RequestsOK, Interrupted, CallsOK, CallOf
  <2>2. phase.started => phase'.started
    OBVIOUS
  <2> QED BY <1>4, <1>6, <2>1, <2>2, RequestsKept
<1>8. TypeOK'
  <2>1. version' \in Versions
    BY TypeParts DEF IInv, Versions
  <2> QED BY <1>2, <2>1, PhasesAre DEF IInv, TypeOK, PhaseOK, Pool
<1> QED BY <1>2, <1>3, <1>5, <1>7, <1>8, CountersKept DEF IInv

\* How an abort can end.
LEMMA AbortIs ==
  ASSUME IInv, NEW s \in Servers, Abort(s)
  PROVE  \E paused \in BOOLEAN, cut \in SUBSET RunningOn(s) :
           /\ AbortEnds(s, paused, cut)
           /\ setup.pausing /\ setup.erring = {} => paused /\ cut = RunningOn(s)
<1>1. setup.pausing \in BOOLEAN
  BY PoolAssumption DEF IInv, TypeOK
<1>2. CASE AbortEnds(s, setup.pausing, RunningOn(s))
  BY <1>1, <1>2
<1>3. CASE /\ <<s, version>> \in setup.erring
           /\ \E paused \in {setup.pausing, FALSE}, cut \in SUBSET RunningOn(s) :
                AbortEnds(s, paused, cut)
  <2>1. PICK paused \in {setup.pausing, FALSE}, cut \in SUBSET RunningOn(s) :
          AbortEnds(s, paused, cut)
    BY <1>3
  <2>2. paused \in BOOLEAN /\ setup.erring # {}
    BY <1>1, <1>3
  <2> QED BY <2>1, <2>2
<1> QED BY <1>2, <1>3 DEF Abort

\* Aborting one server keeps the correspondence of phase and servers.
LEMMA AbortPhase ==
  ASSUME IInv, NEW s \in Servers, Abort(s)
  PROVE  PhaseOK' /\ InterruptedOK' /\ LoadedOK'
      /\ (Served' # Served => phase.at = "abort" /\ phase'.at = "load")
<1>1. /\ phase.at \in {"abort", "abort_own", "abort_hybrid", "stop_own", "stop_hybrid"}
      /\ s \in phase.left /\ DoneWith(s)
      /\ UNCHANGED <<inflight, version>>
  BY DEF Abort
<1> USE <1>1
<1>0. PICK paused \in BOOLEAN, cut \in SUBSET RunningOn(s) : AbortEnds(s, paused, cut)
  BY AbortIs
<1>a. /\ sv' = [sv EXCEPT ![s].paused = paused]
      /\ loose' = IF paused /\ cut = RunningOn(s) THEN loose \ {s} ELSE loose \cup {s}
  BY <1>0 DEF AbortEnds
<1> DEFINE next == After(phase.at)
<1>2. /\ \/ phase.left = {s} /\ phase'.at = next /\ phase'.left = Reached(next)
         \/ phase.left # {s} /\ phase'.at = phase.at /\ phase'.left = phase.left \ {s}
      /\ phase' \in [at : Phases, left : SUBSET Servers, started : BOOLEAN]
      /\ phase'.started <=> phase.started \/ phase'.at = "train"
  BY DoneWithIs DEF IInv
<1>3. /\ phase.at = "abort" => next = "load"
      /\ phase.at = "abort_own" => next = "abort_hybrid"
      /\ phase.at = "abort_hybrid" => next = "add"
      /\ phase.at = "stop_own" => next = "stop_hybrid"
      /\ phase.at = "stop_hybrid" => next = "remove"
  BY AfterIs DEF IInv, PhaseOK
<1> HIDE DEF next
<1>4. /\ phase.at \in {"abort", "abort_own", "stop_own"} =>
           s \in Standalone /\ Reached(phase.at) = Standalone
      /\ phase.at \in {"abort_hybrid", "stop_hybrid"} =>
           s \in Hybrid /\ Reached(phase.at) = Hybrid
  BY DEF IInv, PhaseOK, Reached
<1>b. \A t \in Servers : sv'[t] = IF t = s THEN [sv[s] EXCEPT !.paused = paused] ELSE sv[t]
  BY <1>a DEF IInv, TypeOK
<1>5. \A t \in Servers : /\ sv'[t].awake = sv[t].awake /\ sv'[t].weights = sv[t].weights
                         /\ sv'[t].steps = sv[t].steps
  BY <1>a DEF IInv, TypeOK
<1>c. \A t \in Servers : Interrupted(t)' <=> t = s \/ Interrupted(t)
  <2>1. sv'[s].paused = paused
    BY <1>b DEF IInv, TypeOK
  <2>2. \A t \in Servers : t # s => sv'[t].paused = sv[t].paused
    BY <1>b
  <2> QED BY <1>a, <2>1, <2>2 DEF Interrupted
<1>6. PhaseOK'
  BY <1>2, <1>3, <1>4 DEF IInv, PhaseOK, Phases, Reached, Pool, Widened, Servers, NeedValidate
<1>7. InterruptedOK'
  <2>1. \A t \in Standalone : OwnInterrupted(t)' <=> t = s \/ OwnInterrupted(t)
    BY <1>2, <1>3, <1>4, PoolAssumption DEF IInv, OwnInterrupted, PhaseOK, Reached
  <2>2. \A t \in Hybrid : HybridInterrupted(t)' <=> t = s \/ HybridInterrupted(t)
    BY <1>2, <1>3, <1>4, PoolAssumption DEF IInv, HybridInterrupted, PhaseOK, Reached
  <2>3. \A t \in Standalone : t \in Servers /\ (Interrupted(t) <=> OwnInterrupted(t))
    BY DEF IInv, InterruptedOK, Servers
  <2>4. \A t \in Hybrid : t \in Servers /\ (Interrupted(t) <=> HybridInterrupted(t))
    BY DEF IInv, InterruptedOK, Servers
  <2> QED BY <1>c, <2>1, <2>2, <2>3, <2>4, Zenon DEF InterruptedOK
<1>8. LoadedOK'
  BY <1>2, <1>3, <1>4, <1>5, PoolAssumption DEF IInv, LoadedOK, HybridLoaded, PhaseOK,
     Reached, Servers, Served
<1>9. Served' # Served => phase.at = "abort" /\ phase'.at = "load"
  BY <1>2, <1>3 DEF Served
<1> QED BY <1>6, <1>7, <1>8, <1>9

\* What a request has stays in order when later versions are served.
LEMMA TokensLater ==
  ASSUME IInv, NEW r \in Requests, r \notin exposed, rq'[r] = rq[r],
         Served \in Int, Served' \in Int, Served <= Served',
         rq[r].pc = "running" => Served' = Served
  PROVE  TokensOf(rq[r])'
<1> DEFINE q == rq[r]
<1>1. TokensOf(q)
  BY DEF IInv, RequestsOK, TokensOK
<1>2. Versions \subseteq Nat
  BY PoolAssumption DEF Versions
<1>3. q.low \in Versions \cup {None} /\ q.label \in Versions \cup {None}
  BY TypeParts DEF IInv, Labels
<1> DEFINE now == Served  then == Served'
<1>8. \A v \in Versions : v <= now => v <= then
  <2> HIDE DEF now, then
  <2>1. now \in Int /\ then \in Int /\ now <= then
    BY DEF now, then
  <2> QED BY <1>2, <2>1
<1>4. \A i \in DOMAIN q.tokens : q.tokens[i] \in Versions /\ q.tokens[i] <= Served'
  <2>1. \A i \in DOMAIN q.tokens : q.tokens[i] \in Versions /\ q.tokens[i] <= now
    BY <1>1 DEF TokensOf
  <2> QED BY <1>8, <2>1
<1>5. q.low # None => q.low <= Served'
  <2>1. q.low # None => q.low <= now
    BY <1>1 DEF TokensOf
  <2> QED BY <1>3, <1>8, <2>1
<1>6. q.pc \in {"completed", "aborted"} /\ q.label # None => q.label <= Served'
  <2>1. q.pc \in {"completed", "aborted"} /\ q.label # None => q.label <= now
    BY <1>1 DEF TokensOf
  <2> QED BY <1>3, <1>8, <2>1
<1>7. q.pc = "running" => \A i \in DOMAIN q.tokens : i > q.base => q.tokens[i] = Served'
  BY <1>1 DEF TokensOf
<1> QED BY <1>1, <1>4, <1>5, <1>6, <1>7 DEF TokensOf, Merged

\* What Abort does to the requests: some that run on s are answered, all of
\* them that are not exposed from now on.
LEMMA AbortStep == ASSUME IInv, NEW s \in Servers, Abort(s) PROVE IInv'
<1>1. /\ s \in phase.left /\ phase.at \in {"abort", "abort_own", "abort_hybrid", "stop_own", "stop_hybrid"}
      /\ UNCHANGED <<inflight, routes, release, version, setup>>
  BY DEF Abort
<1> USE <1>1
<1>0. PICK paused \in BOOLEAN, cut \in SUBSET RunningOn(s) :
        /\ AbortEnds(s, paused, cut)
        /\ setup.pausing /\ setup.erring = {} => paused /\ cut = RunningOn(s)
  BY AbortIs
<1>2. PICK unlabelled \in SUBSET {r \in cut : Len(rq[r].tokens) = rq[r].base} :
        rq' = [r \in Requests |->
                 IF r \in cut
                 THEN Answer(rq[r], "aborted", IF r \in unlabelled THEN None ELSE sv[s].steps)
                 ELSE rq[r]]
  BY <1>0 DEF AbortEnds
<1>a. /\ sv' = [sv EXCEPT ![s].paused = paused]
      /\ loose' = IF paused /\ cut = RunningOn(s) THEN loose \ {s} ELSE loose \cup {s}
      /\ exposed' = exposed \cup (RunningOn(s) \ cut)
  BY <1>0 DEF AbortEnds
<1>b. \A r \in Requests : r \in cut => rq[r].pc = "running" /\ rq[r].server = s
  BY DEF RunningOn
<1>c. \A r \in Requests : r \notin exposed' =>
        r \notin exposed /\ (r \in cut <=> rq[r].pc = "running" /\ rq[r].server = s)
  BY <1>a, <1>b DEF RunningOn
<1>3. PhaseOK' /\ InterruptedOK' /\ LoadedOK'
      /\ (Served' # Served => phase.at = "abort" /\ phase'.at = "load")
  BY AbortPhase
<1>4. \A r \in Requests : rq[r].pc = "running" /\ r \notin exposed =>
        /\ rq[r].server \in Servers
        /\ sv[rq[r].server].weights = Served /\ sv[rq[r].server].steps = Served /\ Served \in Versions
  <2> TAKE r \in Requests
  <2>1. rq[r].pc = "running" /\ r \notin exposed =>
          /\ rq[r].server \in Servers
          /\ ~Interrupted(rq[r].server) /\ sv[rq[r].server].awake
    BY TypeParts DEF IInv, RequestsOK, CallsOK, CallOf, HasServer
  <2> QED BY <2>1, RunningIsServed
<1>5. \A r \in Requests :
        IF r \in cut
        THEN /\ rq'[r] = [rq[r] EXCEPT !.pc = "aborted", !.label = rq'[r].label]
             /\ rq'[r].label \in {None, sv[s].steps}
             /\ r \notin exposed => rq'[r].label \in {None, Served}
             /\ r \notin exposed /\ rq'[r].label = None => Len(rq[r].tokens) = rq[r].base
        ELSE rq'[r] = rq[r]
  <2> DEFINE lab(r) == IF r \in unlabelled THEN None ELSE sv[s].steps
  <2> TAKE r \in Requests
  <2>1. rq[r] \in
          [pc : {"start", "calling", "running", "completed", "aborted", "raised",
                 "done", "failed"},
           server : Servers \cup {None}, tokens : Seq(Labels \cup {Mixed}),
           base : Nat, label : Labels, low : Labels, high : Labels]
    BY DEF IInv, TypeOK
  <2>2. CASE r \in cut
    <3>1. rq'[r] = [rq[r] EXCEPT !.pc = "aborted", !.label = lab(r)]
      BY <1>2, <2>2 DEF Answer
    <3>2. rq'[r].label = lab(r)
      BY <3>1, <2>1
    <3>3. lab(r) \in {None, sv[s].steps} /\ (r \notin exposed => lab(r) \in {None, Served})
      BY <1>4, <1>b, <2>2
    <3>4. r \notin exposed /\ lab(r) = None => Len(rq[r].tokens) = rq[r].base
      BY <1>2, <1>4, <1>b, <2>2, PoolAssumption
    <3> QED BY <2>2, <3>1, <3>2, <3>3, <3>4
  <2>3. CASE r \notin cut
    BY <1>2, <2>3
  <2> QED BY <2>2, <2>3
<1>6. \A r \in Requests :
        /\ rq'[r].server = rq[r].server /\ rq'[r].tokens = rq[r].tokens /\ rq'[r].base = rq[r].base
        /\ rq'[r].low = rq[r].low /\ rq'[r].high = rq[r].high
        /\ rq'[r].pc = IF r \in cut THEN "aborted" ELSE rq[r].pc
        /\ r \notin cut => rq'[r] = rq[r]
  <2> TAKE r \in Requests
  <2>1. CASE r \in cut
    <3>1. PICK l : rq'[r] = [rq[r] EXCEPT !.pc = "aborted", !.label = l]
      BY <1>5, <2>1
    <3> QED BY <2>1, <3>1 DEF IInv, TypeOK
  <2>2. CASE r \notin cut
    BY <1>5, <2>2
  <2> QED BY <2>1, <2>2
<1>7. \A t \in Servers : t # s =>
        sv'[t] = sv[t] /\ (Interrupted(t)' <=> Interrupted(t))
  BY <1>a DEF IInv, TypeOK, Interrupted
<1>8. phase.at # "validating" /\ (phase'.started = phase.started)
  <2>1. phase'.started = phase.started
    BY DoneWithIs, AfterIs DEF Abort, IInv, PhaseOK
  <2> QED BY <2>1
<1>9. phase'.at \in Narrow => phase.at \in Narrow
  BY DoneWithIs, AfterIs DEF Abort, IInv, PhaseOK, Narrow
<1>10. CallsOK'
  <2> SUFFICES ASSUME NEW r \in Requests PROVE CallOf(r)'
    BY DEF CallsOK
  <2>1. CallOf(r)
    BY DEF IInv, RequestsOK, CallsOK
  <2>2. CASE r \in cut
    BY <1>6, <1>8, <1>b, <2>1, <2>2 DEF CallOf, HasServer
  <2>3. CASE r \notin cut
    BY <1>4, <1>6, <1>7, <1>8, <1>9, <1>c, <2>1, <2>3 DEF CallOf, HasServer
  <2> QED BY <2>2, <2>3
<1>11. ValidationOK'
  <2>1. \A r \in Validation : rq[r].pc # "running"
    BY <1>8 DEF IInv, RequestsOK, ValidationOK, ValidationOf
  <2>2. \A r \in Validation : r \notin exposed'
    BY <1>a, <2>1 DEF IInv, RequestsOK, ValidationOK, ValidationOf, RunningOn
  <2> QED BY <2>1, <2>2, <1>6, <1>8, <1>b DEF IInv, RequestsOK, ValidationOK, ValidationOf, Requests
<1>12. Served' # Served =>
         \A r \in Requests : rq'[r].pc = "running" => r \in exposed'
  <2> SUFFICES ASSUME Served' # Served, NEW r \in Requests, rq'[r].pc = "running", r \notin exposed'
               PROVE  FALSE
    OBVIOUS
  <2>1. r \notin exposed /\ rq[r].pc = "running" /\ rq[r].server # s
        /\ phase.at = "abort" /\ phase'.at = "load"
    BY <1>3, <1>6, <1>c
  <2>5. rq[r].server \in Servers
    BY <1>4, <2>1
  <2>2. rq[r].server \in Standalone
    BY <2>1, <2>5 DEF IInv, RequestsOK, CallsOK, CallOf, Narrow, Servers
  <2>3. Interrupted(rq[r].server)
    <3>1. \A t \in Standalone : Interrupted(t)'
      BY <1>3, <2>1 DEF InterruptedOK, OwnInterrupted
    <3> DEFINE t == rq[r].server
    <3> HIDE DEF t
    <3>2. t \in Standalone => (t # s => Interrupted(t))
      BY <1>7, <3>1 DEF Servers
    <3> QED BY <2>1, <2>2, <3>2 DEF t
  <2> QED BY <2>1, <2>3 DEF IInv, RequestsOK, CallsOK, CallOf
<1>13. Served <= Served' /\ Served \in Int /\ Served' \in Int
  BY <1>3, TypeParts DEF IInv, Served
<1>14. TokensOK'
  <2> SUFFICES ASSUME NEW r \in Requests, r \notin exposed' PROVE TokensOf(rq[r])'
    BY DEF TokensOK
  <2>0. r \notin exposed
    BY <1>c
  <2>1. TokensOf(rq[r])
    BY <2>0 DEF IInv, RequestsOK, TokensOK
  <2>2. rq[r].tokens \in Seq(Labels \cup {Mixed}) /\ rq[r].base \in Nat
    BY TypeParts DEF IInv
  <2>3. CASE r \in cut
    <3> DEFINE q == rq[r]  p == rq'[r]
    <3>2. /\ p.pc = "aborted" /\ p.tokens = q.tokens /\ p.base = q.base /\ p.low = q.low
          /\ p.label \in {None, Served} /\ (p.label = None => Len(q.tokens) = q.base)
          /\ q.pc = "running"
      BY <1>5, <1>6, <1>b, <2>0, <2>3
    <3>1. Served \in Versions /\ Versions \subseteq Nat /\ None \notin Versions
      BY <1>4, <2>0, <3>2, PoolAssumption DEF Versions
    <3> HIDE DEF p
    <3>3. \A i \in DOMAIN q.tokens : q.tokens[i] \in Nat
      BY <2>1, <3>1 DEF TokensOf
    <3>4. /\ \A i \in DOMAIN p.tokens : p.tokens[i] \in Versions /\ p.tokens[i] <= Served'
          /\ p.low # None => p.low <= Served' /\ \A i \in DOMAIN p.tokens : p.low <= p.tokens[i]
      <4>1. q.low \in Versions \cup {None}
        BY TypeParts DEF IInv, Labels
      <4>2. \A i \in DOMAIN q.tokens : q.tokens[i] \in Versions /\ q.tokens[i] <= Served
        BY <2>1 DEF TokensOf
      <4>3. q.low # None => q.low <= Served /\ \A i \in DOMAIN q.tokens : q.low <= q.tokens[i]
        BY <2>1 DEF TokensOf
      <4>4. \A v \in Nat : v <= Served => v <= Served'
        BY <1>13
      <4>5. q.low # None => q.low \in Nat
        BY <3>1, <4>1
      <4> QED BY <3>2, <3>3, <4>2, <4>3, <4>4, <4>5, Zenon
    <3>6. IF p.label = None THEN Len(p.tokens) = p.base
          ELSE /\ p.label <= Served'
               /\ \A i \in DOMAIN p.tokens : /\ p.tokens[i] <= p.label
                                             /\ i > p.base => p.tokens[i] = p.label
      BY <1>13, <2>1, <3>1, <3>2 DEF TokensOf
    <3>7. p.low = None \/ ~PartialRollout => Merged(p) = 0
      BY <2>1, <3>2 DEF TokensOf, Merged
    <3>8. Merged(rq[r])' = Merged(p)
      BY DEF p, Merged
    <3> QED BY <3>2, <3>4, <3>6, <3>7, <3>8 DEF TokensOf, p
  <2>4. CASE r \notin cut
    <3>1. rq'[r] = rq[r]
      BY <1>5, <2>4
    <3>2. rq[r].pc = "running" => Served' = Served
      BY <1>12, <3>1
    <3> QED BY <1>13, <2>0, <3>1, <3>2, TokensLater
  <2> QED BY <2>3, <2>4
<1>15. LabelsOK'
  BY <1>6, <1>c DEF IInv, RequestsOK, LabelsOK, LabelsOf
<1>17. LengthsOK'
  BY <1>6, <1>b DEF IInv, RequestsOK, LengthsOK, LengthOf, Allowance
<1>18. ExposureOK'
  BY <1>0, <1>a DEF IInv, RequestsOK, ExposureOK
<1>16. TypeOK'
  <2>1. sv' \in [Servers -> [paused : BOOLEAN, awake : BOOLEAN,
                         weights : Labels \cup {Mixed}, steps : Labels]]
    BY <1>a DEF IInv, TypeOK
  <2>2. \A r \in Requests : rq'[r] \in
       [pc : {"start", "calling", "running", "completed", "aborted", "raised",
              "done", "failed"},
        server : Servers \cup {None}, tokens : Seq(Labels \cup {Mixed}),
        base : Nat, label : Labels, low : Labels, high : Labels]
    <3> TAKE r \in Requests
    <3>0. sv[s].steps \in Labels /\ None \in Labels
      BY DEF IInv, TypeOK, Labels
    <3>2. CASE r \in cut
      <4>0. rq'[r].label \in Labels
        BY <1>5, <3>0, <3>2
      <4>1. rq'[r] = [rq[r] EXCEPT !.pc = "aborted", !.label = rq'[r].label]
        BY <1>5, <3>2
      <4> QED BY ZenonT(40), <4>0, <4>1 DEF IInv, TypeOK
    <3>3. CASE r \notin cut
      BY <1>5, <3>3 DEF IInv, TypeOK
    <3> QED BY <3>2, <3>3
  <2>3. rq' = [r \in Requests |-> rq'[r]]
    BY <1>2
  <2>4. loose' \subseteq Servers /\ exposed' \subseteq Requests
    BY <1>a DEF IInv, TypeOK, RunningOn
  <2> QED BY <2>1, <2>2, <2>3, <2>4, <1>3, PhasesAre DEF IInv, TypeOK, PhaseOK, Pool
<1>19. RequestsOK'
  BY <1>10, <1>11, <1>14, <1>15, <1>17, <1>18 DEF RequestsOK
<1> QED BY <1>3, <1>6, <1>16, <1>19, CountersKept DEF IInv

\* A server record made of its four fields.
LEMMA ServerRecord ==
  ASSUME NEW p \in BOOLEAN, NEW a \in BOOLEAN, NEW w \in Labels \cup {Mixed}, NEW l \in Labels
  PROVE [paused |-> p, awake |-> a, weights |-> w, steps |-> l]
          \in [paused : BOOLEAN, awake : BOOLEAN, weights : Labels \cup {Mixed}, steps : Labels]
  BY Zenon

\* Loading begins in an engine that nothing runs in: it is paused, or asleep
\* and out of the pool.
LEMMA BeginLoadStep == ASSUME IInv, NEW s \in Servers, BeginLoad(s) PROVE IInv'
<1>1. /\ phase.at \in {"load", "wake"} /\ s \in phase.left
      /\ sv' = [sv EXCEPT ![s].weights = Mixed, ![s].awake = TRUE]
      /\ UNCHANGED <<inflight, routes, rq, release, phase, version, setup, loose, exposed>>
  BY DEF BeginLoad, history
<1> USE <1>1
<1>2. /\ phase.at = "load" => s \in Standalone
      /\ phase.at = "wake" => s \in Hybrid
  BY DEF IInv, PhaseOK, Reached
<1>3. \A t \in Servers : /\ sv'[t].paused = sv[t].paused
                         /\ t # s => sv'[t] = sv[t]
      /\ sv'[s].awake
  BY DEF IInv, TypeOK
<1>4. PhaseOK'
  BY DEF IInv, PhaseOK, Pool, NeedValidate
<1>5. InterruptedOK'
  BY <1>3 DEF IInv, Interrupted, InterruptedOK, OwnInterrupted, HybridInterrupted, Servers
<1>6. LoadedOK'
  <2>1. Served' = Served /\ \A t : HybridLoaded(t)' = HybridLoaded(t)
    BY DEF Served, HybridLoaded
  <2>2. \A t \in Servers : sv[t].weights = Mixed => sv[t].awake
    BY PoolAssumption DEF IInv, LoadedOK, Servers
  <2>3. s \in Hybrid => ~HybridLoaded(s)
    BY <1>2, PoolAssumption DEF HybridLoaded
  <2>4. \A t \in Standalone : /\ sv'[t].awake
                              /\ \/ phase'.at = "load" /\ t \in phase'.left
                                 \/ phase'.at = "abort" /\ version' = 0
                                 \/ sv'[t].weights = Served' /\ sv'[t].steps = Served'
    <3> TAKE t \in Standalone
    <3>1. t \in Servers /\ t \notin Hybrid
      BY PoolAssumption DEF Servers
    <3>2. CASE t = s
      BY <1>2, <1>3, <3>1, <3>2
    <3>3. CASE t # s
      <4>1. sv'[t] = sv[t]
        BY <1>3, <3>1, <3>3
      <4> QED BY <2>1, <4>1 DEF IInv, LoadedOK
    <3> QED BY <3>2, <3>3
  <2>5. \A t \in Hybrid :
       /\ HybridLoaded(t) => sv'[t].awake /\ sv'[t].weights = version /\ sv'[t].steps = version
       /\ ~HybridLoaded(t) /\ phase.at # "wake" => ~sv'[t].awake
       /\ ~sv'[t].awake => sv'[t].weights = None
    BY ZenonT(40), <1>2, <1>3, <2>2, <2>3, PoolAssumption DEF IInv, LoadedOK, Servers
  <2> QED BY <2>1, <2>4, <2>5 DEF LoadedOK
<1>7. RequestsOK'
  <2>1. Served' = Served
    BY DEF Served
  <2>3. \A r \in Requests : rq[r].pc = "running" /\ r \notin exposed =>
           ~Interrupted(rq[r].server)' /\ sv'[rq[r].server].awake
    <3>1. \A r \in Requests : rq[r].pc = "running" => rq[r].server \in Servers
      BY TypeParts DEF IInv, RequestsOK, CallsOK, CallOf, HasServer
    <3> QED BY <1>3, <3>1 DEF IInv, RequestsOK, Interrupted, CallsOK, CallOf
  <2> QED BY <2>1, <2>3, RequestsKept
<1>8. TypeOK'
  <2>1. sv' \in [Servers -> [paused : BOOLEAN, awake : BOOLEAN,
                         weights : Labels \cup {Mixed}, steps : Labels]]
    <3>1. \A t \in Servers : sv'[t] \in [paused : BOOLEAN, awake : BOOLEAN,
                         weights : Labels \cup {Mixed}, steps : Labels]
      <4> TAKE t \in Servers
      <4>1. sv[t] \in [paused : BOOLEAN, awake : BOOLEAN,
                         weights : Labels \cup {Mixed}, steps : Labels]
        BY DEF IInv, TypeOK
      <4>2. sv'[t] = IF t = s THEN [sv[t] EXCEPT !.weights = Mixed, !.awake = TRUE] ELSE sv[t]
        BY DEF IInv, TypeOK
      <4>3. CASE t = s
        <5>1. sv'[t] = [paused |-> sv[t].paused, awake |-> TRUE,
                        weights |-> Mixed, steps |-> sv[t].steps]
          BY <4>1, <4>2, <4>3
        <5>2. sv[t].paused \in BOOLEAN /\ sv[t].awake \in BOOLEAN
              /\ sv[t].weights \in Labels \cup {Mixed} /\ sv[t].steps \in Labels
          BY <4>1
        <5>3. sv[t].paused \in BOOLEAN /\ TRUE \in BOOLEAN
              /\ Mixed \in Labels \cup {Mixed} /\ sv[t].steps \in Labels
          BY <5>2, Zenon
        <5>4. [paused |-> sv[t].paused, awake |-> TRUE,
             weights |-> Mixed, steps |-> sv[t].steps]
              \in [paused : BOOLEAN, awake : BOOLEAN, weights : Labels \cup {Mixed}, steps : Labels]
          BY <5>3, ServerRecord, Zenon
        <5> QED BY <5>1, <5>4, Zenon
      <4>4. CASE t # s
        BY <4>1, <4>2, <4>4
      <4> QED BY <4>3, <4>4
    <3>2. sv' = [t \in Servers |-> sv'[t]]
      BY DEF IInv, TypeOK
    <3> QED BY <3>1, <3>2
  <2> QED BY <2>1 DEF IInv, TypeOK, Pool
<1> QED BY <1>4, <1>5, <1>6, <1>7, <1>8, CountersKept DEF IInv

\* The last tensor arrives.
LEMMA EndLoadStep == ASSUME IInv, NEW s \in Servers, EndLoad(s) PROVE IInv'
<1>1. /\ phase.at \in {"load", "wake"} /\ s \in phase.left /\ sv[s].weights = Mixed
      /\ sv' = [sv EXCEPT ![s].weights = version]
      /\ UNCHANGED <<inflight, routes, rq, release, phase, version, setup, loose, exposed>>
  BY DEF EndLoad, history
<1> USE <1>1
<1>2. /\ phase.at = "load" => s \in Standalone
      /\ phase.at = "wake" => s \in Hybrid
  BY DEF IInv, PhaseOK, Reached
<1>3. \A t \in Servers : /\ sv'[t].paused = sv[t].paused /\ sv'[t].awake = sv[t].awake
                         /\ t # s => sv'[t] = sv[t]
  BY DEF IInv, TypeOK
<1>4. PhaseOK'
  BY DEF IInv, PhaseOK, Pool, NeedValidate
<1>5. InterruptedOK'
  BY <1>3 DEF IInv, Interrupted, InterruptedOK, OwnInterrupted, HybridInterrupted, Servers
<1>6. LoadedOK'
  <2>1. Served' = Served /\ \A t : HybridLoaded(t)' = HybridLoaded(t)
    BY DEF Served, HybridLoaded
  <2>2. \A t \in Servers : sv[t].weights = Mixed => sv[t].awake
    BY PoolAssumption DEF IInv, LoadedOK, Servers
  <2>3. s \in Hybrid => ~HybridLoaded(s)
    BY <1>2, PoolAssumption DEF HybridLoaded
  <2>4. \A t \in Standalone : /\ sv'[t].awake
                              /\ \/ phase'.at = "load" /\ t \in phase'.left
                                 \/ phase'.at = "abort" /\ version' = 0
                                 \/ sv'[t].weights = Served' /\ sv'[t].steps = Served'
    BY <1>2, <1>3, <2>1, <2>2, PoolAssumption DEF IInv, LoadedOK, Servers
  <2>5. \A t \in Hybrid :
       /\ HybridLoaded(t) => sv'[t].awake /\ sv'[t].weights = version /\ sv'[t].steps = version
       /\ ~HybridLoaded(t) /\ phase.at # "wake" => ~sv'[t].awake
       /\ ~sv'[t].awake => sv'[t].weights = None
    <3> TAKE t \in Hybrid
    <3>1. CASE t = s
      <4>1. ~HybridLoaded(t) /\ phase.at = "wake"
        BY <1>2, <2>3, <3>1, PoolAssumption
      <4>2. sv'[t].awake
        BY <1>1, <1>3, <2>2, <3>1
      <4> QED BY <4>1, <4>2
    <3>2. CASE t # s
      BY <1>3, <3>2 DEF IInv, LoadedOK, Servers
    <3> QED BY <3>1, <3>2
  <2> QED BY <2>1, <2>4, <2>5 DEF LoadedOK
<1>7. RequestsOK'
  <2>1. Served' = Served
    BY DEF Served
  <2>3. \A r \in Requests : rq[r].pc = "running" /\ r \notin exposed =>
           ~Interrupted(rq[r].server)' /\ sv'[rq[r].server].awake
    <3>1. \A r \in Requests : rq[r].pc = "running" => rq[r].server \in Servers
      BY TypeParts DEF IInv, RequestsOK, CallsOK, CallOf, HasServer
    <3> QED BY <1>3, <3>1 DEF IInv, RequestsOK, Interrupted, CallsOK, CallOf
  <2> QED BY <2>1, <2>3, RequestsKept
<1>8. TypeOK'
  <2>2. version \in Labels
    BY DEF IInv, TypeOK, Labels
  <2>1. sv' \in [Servers -> [paused : BOOLEAN, awake : BOOLEAN,
                         weights : Labels \cup {Mixed}, steps : Labels]]
    <3>1. \A t \in Servers : sv'[t] \in [paused : BOOLEAN, awake : BOOLEAN,
                         weights : Labels \cup {Mixed}, steps : Labels]
      <4> TAKE t \in Servers
      <4>1. sv[t] \in [paused : BOOLEAN, awake : BOOLEAN,
                         weights : Labels \cup {Mixed}, steps : Labels]
        BY DEF IInv, TypeOK
      <4>2. sv'[t] = IF t = s THEN [sv[t] EXCEPT !.weights = version] ELSE sv[t]
        BY DEF IInv, TypeOK
      <4> QED BY <2>2, <4>1, <4>2
    <3>2. sv' = [t \in Servers |-> sv'[t]]
      BY DEF IInv, TypeOK
    <3> QED BY <3>1, <3>2
  <2> QED BY <2>1 DEF IInv, TypeOK, Pool
<1> QED BY <1>4, <1>5, <1>6, <1>7, <1>8, CountersKept DEF IInv

\* The server is told the version that it has loaded.
LEMMA SetGlobalStepsStep == ASSUME IInv, NEW s \in Servers, SetGlobalSteps(s) PROVE IInv'
<1>1. /\ phase.at \in {"load", "wake"} /\ s \in phase.left
      /\ sv[s].weights = version /\ DoneWith(s)
      /\ sv' = [sv EXCEPT ![s].steps = version]
      /\ UNCHANGED <<inflight, routes, rq, release, version, setup, loose, exposed>>
  BY DEF SetGlobalSteps, history
<1> USE <1>1
<1> DEFINE next == After(phase.at)
<1>2. /\ \/ phase.left = {s} /\ phase'.at = next /\ phase'.left = Reached(next)
         \/ phase.left # {s} /\ phase'.at = phase.at /\ phase'.left = phase.left \ {s}
      /\ phase' \in [at : Phases, left : SUBSET Servers, started : BOOLEAN]
      /\ phase'.started <=> phase.started \/ phase'.at = "train"
  BY DoneWithIs DEF IInv
<1>3. /\ phase.at = "load" => next = "resume"
      /\ phase.at = "wake" => next = "abort_own"
  BY AfterIs DEF IInv, PhaseOK
<1> HIDE DEF next
<1>4. /\ phase.at = "load" =>
           s \in Standalone /\ Reached(phase.at) = Standalone
      /\ phase.at = "wake" =>
           s \in Hybrid /\ Reached(phase.at) = Hybrid
  BY DEF IInv, PhaseOK, Reached
<1>5. \A t \in Servers : /\ sv'[t].awake = sv[t].awake /\ sv'[t].paused = sv[t].paused
                         /\ sv'[t].weights = sv[t].weights
                         /\ sv'[t].steps = IF t = s THEN version ELSE sv[t].steps
  BY DEF IInv, TypeOK
<1>6. PhaseOK'
  BY <1>2, <1>3, <1>4 DEF IInv, PhaseOK, Phases, Reached, Pool, Widened, Servers, NeedValidate
<1>7. InterruptedOK'
  BY <1>2, <1>3, <1>4, <1>5, PoolAssumption DEF IInv, Interrupted, InterruptedOK, OwnInterrupted, HybridInterrupted,
     PhaseOK, Reached, Servers
<1>8. phase.at = "wake" => sv[s].awake
  BY <1>4, PoolAssumption DEF IInv, LoadedOK, TypeOK
<1>9. LoadedOK'
  BY <1>2, <1>3, <1>4, <1>5, <1>8, PoolAssumption DEF IInv, LoadedOK, HybridLoaded, PhaseOK,
     Reached, Servers, Served
<1>10. Served' = Served
  BY <1>2, <1>3 DEF Served
<1>11. RequestsOK'
  <2>1. \A r \in Requests : rq[r].pc = "running" /\ r \notin exposed =>
           ~Interrupted(rq[r].server)' /\ sv'[rq[r].server].awake
    <3>1. \A r \in Requests : rq[r].pc = "running" => rq[r].server \in Servers
      BY TypeParts DEF IInv, RequestsOK, CallsOK, CallOf, HasServer
    <3> QED BY <1>5, <3>1 DEF IInv, RequestsOK, Interrupted, CallsOK, CallOf
  <2>2. phase'.started = phase.started /\ phase.at \in Narrow
    BY <1>2, <1>3 DEF Narrow, IInv, PhaseOK
  <2> QED BY <1>10, <2>1, <2>2, RequestsKept
<1>12. TypeOK'
  <2>2. version \in Labels
    BY DEF IInv, TypeOK, Labels
  <2>1. sv' \in [Servers -> [paused : BOOLEAN, awake : BOOLEAN,
                         weights : Labels \cup {Mixed}, steps : Labels]]
    <3>1. \A t \in Servers : sv'[t] \in [paused : BOOLEAN, awake : BOOLEAN,
                         weights : Labels \cup {Mixed}, steps : Labels]
      <4> TAKE t \in Servers
      <4>1. sv[t] \in [paused : BOOLEAN, awake : BOOLEAN,
                         weights : Labels \cup {Mixed}, steps : Labels]
        BY DEF IInv, TypeOK
      <4>2. sv'[t] = IF t = s THEN [sv[t] EXCEPT !.steps = version] ELSE sv[t]
        BY DEF IInv, TypeOK
      <4> QED BY <2>2, <4>1, <4>2
    <3>2. sv' = [t \in Servers |-> sv'[t]]
      BY DEF IInv, TypeOK
    <3> QED BY <3>1, <3>2
  <2> QED BY <1>6, <2>1, PhasesAre DEF IInv, TypeOK, PhaseOK, Pool
<1> QED BY <1>6, <1>7, <1>9, <1>11, <1>12, CountersKept DEF IInv

\* An engine takes requests again: by then all that it has is of one version.
LEMMA ResumeStep == ASSUME IInv, NEW s \in Servers, Resume(s) PROVE IInv'
<1>1. /\ phase.at \in {"resume", "resume_own", "resume_hybrid", "restart_own", "restart_hybrid"}
      /\ s \in phase.left /\ DoneWith(s)
      /\ sv' = [sv EXCEPT ![s].paused = FALSE]
      /\ UNCHANGED <<inflight, routes, rq, release, version, setup, exposed>>
      /\ loose' = loose \ {s}
  BY DEF Resume
<1> USE <1>1
<1> DEFINE next == After(phase.at)
<1>2. /\ \/ phase.left = {s} /\ phase'.at = next /\ phase'.left = Reached(next)
         \/ phase.left # {s} /\ phase'.at = phase.at /\ phase'.left = phase.left \ {s}
      /\ phase' \in [at : Phases, left : SUBSET Servers, started : BOOLEAN]
      /\ phase'.started <=> phase.started \/ phase'.at = "train"
  BY DoneWithIs DEF IInv
<1>3. /\ phase.at = "resume" => next = IF NeedValidate THEN "wake" ELSE "train"
      /\ phase.at = "resume_own" => next = "resume_hybrid"
      /\ phase.at = "resume_hybrid" => next = "validating"
      /\ phase.at = "restart_own" => next = "restart_hybrid"
      /\ phase.at = "restart_hybrid" => next = "train"
  BY AfterIs DEF IInv, PhaseOK
<1> HIDE DEF next
<1>4. /\ phase.at \in {"resume", "resume_own", "restart_own"} =>
           s \in Standalone /\ Reached(phase.at) = Standalone
      /\ phase.at \in {"resume_hybrid", "restart_hybrid"} =>
           s \in Hybrid /\ Reached(phase.at) = Hybrid
  BY DEF IInv, PhaseOK, Reached
<1>5. \A t \in Servers : /\ sv'[t].awake = sv[t].awake /\ sv'[t].weights = sv[t].weights
                         /\ sv'[t].steps = sv[t].steps
                         /\ Interrupted(t)' <=> (t # s /\ Interrupted(t))
  BY DEF IInv, TypeOK, Interrupted
<1>6. PhaseOK'
  BY <1>2, <1>3, <1>4 DEF IInv, PhaseOK, Phases, Reached, Pool, Widened, Servers, NeedValidate
<1>7. InterruptedOK'
  BY <1>2, <1>3, <1>4, <1>5, PoolAssumption DEF IInv, Interrupted, InterruptedOK, OwnInterrupted, HybridInterrupted,
     PhaseOK, Reached, Servers
<1>8. LoadedOK'
  BY <1>2, <1>3, <1>4, <1>5, PoolAssumption DEF IInv, LoadedOK, HybridLoaded, PhaseOK,
     Reached, Servers, Served
<1>9. Served' = Served
  BY <1>2, <1>3 DEF Served
<1>10. RequestsOK'
  <2>1. \A r \in Requests : rq[r].pc = "running" /\ r \notin exposed =>
           ~Interrupted(rq[r].server)' /\ sv'[rq[r].server].awake
    <3>1. \A r \in Requests : rq[r].pc = "running" => rq[r].server \in Servers
      BY TypeParts DEF IInv, RequestsOK, CallsOK, CallOf, HasServer
    <3> QED BY <1>5, <3>1 DEF IInv, RequestsOK, Interrupted, CallsOK, CallOf
  <2>2. (phase.started => phase'.started) /\ phase.at # "validating"
    BY <1>2
  <2>3. phase'.at \in Narrow => phase.at \in Narrow
    BY <1>2, <1>3 DEF Narrow
  <2> QED BY <1>9, <2>1, <2>2, <2>3, RequestsKept
<1>11. TypeOK'
  <2>1. sv' \in [Servers -> [paused : BOOLEAN, awake : BOOLEAN,
                         weights : Labels \cup {Mixed}, steps : Labels]]
    <3>0. None \in Labels
      BY DEF Labels
    <3>1. \A t \in Servers : sv'[t] \in [paused : BOOLEAN, awake : BOOLEAN,
                         weights : Labels \cup {Mixed}, steps : Labels]
      <4> TAKE t \in Servers
      <4>1. sv[t] \in [paused : BOOLEAN, awake : BOOLEAN,
                         weights : Labels \cup {Mixed}, steps : Labels]
        BY DEF IInv, TypeOK
      <4>2. sv'[t] = IF t = s THEN [sv[t] EXCEPT !.paused = FALSE] ELSE sv[t]
        BY DEF IInv, TypeOK
      <4>3. CASE t = s
        <5>1. sv'[t] = [paused |-> FALSE, awake |-> sv[t].awake,
                        weights |-> sv[t].weights, steps |-> sv[t].steps]
          BY <4>1, <4>2, <4>3
        <5>2. sv[t].paused \in BOOLEAN /\ sv[t].awake \in BOOLEAN
              /\ sv[t].weights \in Labels \cup {Mixed} /\ sv[t].steps \in Labels
          BY <4>1
        <5>3. FALSE \in BOOLEAN /\ sv[t].awake \in BOOLEAN
              /\ sv[t].weights \in Labels \cup {Mixed} /\ sv[t].steps \in Labels
          BY <3>0, <5>2, Zenon
        <5>4. [paused |-> FALSE, awake |-> sv[t].awake,
             weights |-> sv[t].weights, steps |-> sv[t].steps]
              \in [paused : BOOLEAN, awake : BOOLEAN, weights : Labels \cup {Mixed}, steps : Labels]
          BY <5>3, ServerRecord, Zenon
        <5> QED BY <5>1, <5>4, Zenon
      <4>4. CASE t # s
        BY <4>1, <4>2, <4>4
      <4> QED BY <4>3, <4>4
    <3>2. sv' = [t \in Servers |-> sv'[t]]
      BY DEF IInv, TypeOK
    <3> QED BY <3>1, <3>2
  <2> QED BY <1>6, <2>1, PhasesAre DEF IInv, TypeOK, PhaseOK, Pool
<1> QED BY <1>6, <1>7, <1>8, <1>10, <1>11, CountersKept DEF IInv

\* A hybrid server gives its weights back; nothing runs in it, as it is
\* paused.
LEMMA SleepStep == ASSUME IInv, NEW s \in Servers, Sleep(s) PROVE IInv'
<1>1. /\ phase.at = "sleep" /\ s \in phase.left /\ DoneWith(s)
      /\ sv' = [sv EXCEPT ![s].awake = FALSE, ![s].weights = None]
      /\ UNCHANGED <<inflight, routes, rq, release, version, setup, loose, exposed>>
  BY DEF Sleep, history
<1> USE <1>1
<1> DEFINE next == After(phase.at)
<1>2. /\ \/ phase.left = {s} /\ phase'.at = next /\ phase'.left = Reached(next)
         \/ phase.left # {s} /\ phase'.at = phase.at /\ phase'.left = phase.left \ {s}
      /\ phase' \in [at : Phases, left : SUBSET Servers, started : BOOLEAN]
      /\ phase'.started <=> phase.started \/ phase'.at = "train"
  BY DoneWithIs DEF IInv
<1>3. next = "restart_own"
  BY AfterIs DEF IInv, PhaseOK
<1> HIDE DEF next
<1>4. s \in Hybrid /\ Reached(phase.at) = Hybrid
  BY DEF IInv, PhaseOK, Reached
<1>5. /\ \A t \in Servers : sv'[t].paused = sv[t].paused /\ (t # s => sv'[t] = sv[t])
      /\ ~sv'[s].awake /\ sv'[s].weights = None
  BY DEF IInv, TypeOK
<1>6. PhaseOK'
  BY <1>2, <1>3, <1>4 DEF IInv, PhaseOK, Phases, Reached, Pool, Widened, Servers, NeedValidate
<1>7. InterruptedOK'
  <2>1. \A t \in Servers : Interrupted(t)
    BY DEF IInv, Interrupted, InterruptedOK, OwnInterrupted, HybridInterrupted, Servers
  <2>2. phase'.at \in {"sleep", "restart_own"} /\ (phase'.at = "restart_own" => phase'.left = Standalone)
    BY <1>2, <1>3 DEF Reached
  <2>3. \A t \in Standalone : OwnInterrupted(t)'
    BY <2>2 DEF OwnInterrupted
  <2>4. \A t \in Hybrid : HybridInterrupted(t)'
    BY <2>2 DEF HybridInterrupted
  <2> QED BY <1>5, <2>1, <2>3, <2>4 DEF Interrupted, InterruptedOK, Servers
<1>8. LoadedOK'
  <2>1. Served' = version /\ phase'.at \in {"sleep", "restart_own"}
        /\ (phase'.at = "sleep" => phase'.left = phase.left \ {s})
        /\ (phase'.at = "restart_own" => phase.left = {s})
    BY <1>2, <1>3 DEF Served
  <2>2. \A t \in Standalone :
          t # s /\ sv[t].awake /\ sv[t].weights = version /\ sv[t].steps = version
    BY <1>4, PoolAssumption DEF IInv, LoadedOK, Served
  <2>3. \A t \in Hybrid :
          IF t \in phase.left THEN sv[t].awake /\ sv[t].weights = version /\ sv[t].steps = version
          ELSE ~sv[t].awake /\ sv[t].weights = None
    BY DEF IInv, LoadedOK, HybridLoaded
  <2>4. \A t \in Hybrid : HybridLoaded(t)' <=> t # s /\ t \in phase.left
    BY <1>4, <2>1 DEF HybridLoaded
  <2>5. \A t \in Hybrid : ~HybridLoaded(t)' => ~sv'[t].awake /\ sv'[t].weights = None
    BY <1>5, <2>3, <2>4 DEF Servers
  <2>6. \A t \in Hybrid : HybridLoaded(t)' =>
          sv'[t].awake /\ sv'[t].weights = version /\ sv'[t].steps = version
    BY <1>5, <2>3, <2>4 DEF Servers
  <2>7. \A t \in Standalone : sv'[t] = sv[t]
    BY <1>5, <2>2 DEF Servers
  <2>8. \A t \in Standalone :
          sv'[t].awake /\ sv'[t].weights = Served' /\ sv'[t].steps = Served'
    BY <2>1, <2>2, <2>7
  <2>9. \A t \in Hybrid :
          /\ HybridLoaded(t)' => sv'[t].awake /\ sv'[t].weights = version' /\ sv'[t].steps = version'
          /\ ~HybridLoaded(t)' => ~sv'[t].awake
          /\ ~sv'[t].awake => sv'[t].weights = None
    BY <2>5, <2>6
  <2> QED BY <2>8, <2>9 DEF LoadedOK
<1>9. Served' = Served
  BY <1>2, <1>3 DEF Served
<1>10. RequestsOK'
  <2>1. \A r \in Requests : rq[r].pc = "running" /\ r \notin exposed =>
           ~Interrupted(rq[r].server)' /\ sv'[rq[r].server].awake
    <3>1. \A r \in Requests : rq[r].pc = "running" => rq[r].server \in Servers
      BY TypeParts DEF IInv, RequestsOK, CallsOK, CallOf, HasServer
    <3>2. \A t \in Servers : Interrupted(t)
      BY DEF IInv, InterruptedOK, OwnInterrupted, HybridInterrupted, Servers
    <3> QED BY <3>1, <3>2 DEF IInv, RequestsOK, CallsOK, CallOf
  <2>2. phase.started => phase'.started
    BY <1>2
  <2>3. phase'.at \notin Narrow
    BY <1>2, <1>3 DEF Narrow
  <2> QED BY <1>9, <2>1, <2>2, <2>3, RequestsKept
<1>11. TypeOK'
  <2>1. sv' \in [Servers -> [paused : BOOLEAN, awake : BOOLEAN,
                         weights : Labels \cup {Mixed}, steps : Labels]]
    <3>0. None \in Labels
      BY DEF Labels
    <3>1. \A t \in Servers : sv'[t] \in [paused : BOOLEAN, awake : BOOLEAN,
                         weights : Labels \cup {Mixed}, steps : Labels]
      <4> TAKE t \in Servers
      <4>1. sv[t] \in [paused : BOOLEAN, awake : BOOLEAN,
                         weights : Labels \cup {Mixed}, steps : Labels]
        BY DEF IInv, TypeOK
      <4>2. sv'[t] = IF t = s THEN [sv[t] EXCEPT !.awake = FALSE, !.weights = None] ELSE sv[t]
        BY DEF IInv, TypeOK
      <4>3. CASE t = s
        <5>1. sv'[t] = [paused |-> sv[t].paused, awake |-> FALSE,
                        weights |-> None, steps |-> sv[t].steps]
          BY <4>1, <4>2, <4>3
        <5>2. sv[t].paused \in BOOLEAN /\ sv[t].awake \in BOOLEAN
              /\ sv[t].weights \in Labels \cup {Mixed} /\ sv[t].steps \in Labels
          BY <4>1
        <5>3. sv[t].paused \in BOOLEAN /\ FALSE \in BOOLEAN
              /\ None \in Labels \cup {Mixed} /\ sv[t].steps \in Labels
          BY <3>0, <5>2, Zenon
        <5>4. [paused |-> sv[t].paused, awake |-> FALSE,
             weights |-> None, steps |-> sv[t].steps]
              \in [paused : BOOLEAN, awake : BOOLEAN, weights : Labels \cup {Mixed}, steps : Labels]
          BY <5>3, ServerRecord, Zenon
        <5> QED BY <5>1, <5>4, Zenon
      <4>4. CASE t # s
        BY <4>1, <4>2, <4>4
      <4> QED BY <4>3, <4>4
    <3>2. sv' = [t \in Servers |-> sv'[t]]
      BY DEF IInv, TypeOK
    <3> QED BY <3>1, <3>2
  <2> QED BY <1>6, <2>1, PhasesAre DEF IInv, TypeOK, PhaseOK, Pool
<1> QED BY <1>6, <1>7, <1>8, <1>10, <1>11, CountersKept DEF IInv

\* The validation ends when all its requests have.
LEMMA EndValidationStep == ASSUME IInv, EndValidation PROVE IInv'
<1>1. /\ phase.at = "validating"
      /\ phase' = [at |-> "stop_own", left |-> Standalone,
                   started |-> phase.started]
      /\ UNCHANGED <<inflight, routes, rq, release, sv, version, setup, loose, exposed>>
      /\ \A r \in Validation : ValidatedAt[r] = version => rq[r].pc \in {"done", "failed"}
  BY AfterIs DEF EndValidation, history, GoTo, Reached, IInv, PhaseOK
<1> USE <1>1
<1>2. PhaseOK'
  BY DEF IInv, PhaseOK, Phases, Reached, Pool, Widened, Servers, NeedValidate
<1>3. InterruptedOK'
  BY PoolAssumption DEF IInv, Interrupted, InterruptedOK, OwnInterrupted, HybridInterrupted,
     PhaseOK, Reached, Servers
<1>4. LoadedOK' /\ Served' = Served
  BY PoolAssumption DEF IInv, LoadedOK, HybridLoaded, PhaseOK,
     Reached, Servers, Served
<1>5. RequestsOK'
  <2>1. \A r \in Validation : rq[r].pc \notin {"calling", "running", "completed"}
    BY DEF IInv, RequestsOK, ValidationOK, ValidationOf
  <2>2. \A r \in Requests : rq[r].pc = "running" /\ r \notin exposed =>
           ~Interrupted(rq[r].server)' /\ sv'[rq[r].server].awake
    BY DEF IInv, RequestsOK, Interrupted, CallsOK, CallOf
  <2>3. phase'.at \notin Narrow /\ (phase.started => phase'.started)
    BY DEF Narrow
  <2> QED BY <1>4, <2>1, <2>2, <2>3, RequestsKept
<1>6. TypeOK'
  BY <1>2, PhasesAre DEF IInv, TypeOK, PhaseOK, Pool
<1> QED BY <1>2, <1>3, <1>4, <1>5, <1>6, CountersKept DEF IInv

\* The hybrid servers join the pool, counted from zero.
LEMMA AddReplicasStep == ASSUME IInv, AddReplicas PROVE IInv'
<1>1. /\ phase.at = "add"
      /\ phase' = [at |-> "resume_own", left |-> Standalone,
                   started |-> phase.started]
      /\ inflight' = [s \in Standalone \cup Hybrid |-> IF s \in Hybrid THEN 0 ELSE inflight[s]]
      /\ UNCHANGED <<routes, rq, release, sv, version, setup, loose, exposed>>
  BY AfterIs DEF AddReplicas, history, AddServers, GoTo, Reached, IInv, PhaseOK, Widened
<1> USE <1>1
<1>2. PhaseOK'
  BY DEF IInv, PhaseOK, Phases, Reached, Pool, Widened, Servers, NeedValidate
<1>3. InterruptedOK'
  BY PoolAssumption DEF IInv, Interrupted, InterruptedOK, OwnInterrupted, HybridInterrupted,
     PhaseOK, Reached, Servers
<1>4. LoadedOK' /\ Served' = Served
  BY PoolAssumption DEF IInv, LoadedOK, HybridLoaded, PhaseOK,
     Reached, Servers, Served
<1>5. RequestsOK'
  <2>2. \A r \in Requests : rq[r].pc = "running" /\ r \notin exposed =>
           ~Interrupted(rq[r].server)' /\ sv'[rq[r].server].awake
    BY DEF IInv, RequestsOK, Interrupted, CallsOK, CallOf
  <2>3. phase'.at \notin Narrow /\ (phase.started => phase'.started)
    BY DEF Narrow
  <2> QED BY <1>4, <2>2, <2>3, RequestsKept
<1>6. Pool = Standalone /\ Pool' = Servers
  BY DEF IInv, PhaseOK, Pool, Widened, Servers
<1>7. TypeOK'
  <2>1. inflight' \in [Pool' -> Nat]
    BY <1>6 DEF IInv, TypeOK, Servers
  <2> QED BY <1>2, <1>6, <2>1, PhasesAre DEF IInv, TypeOK, PhaseOK
<1>8. CountersFollowRequests'
  <2>1. \A s : HeldBy(s)' = HeldBy(s)
    BY DEF HeldBy
  <2>2. \A s \in Hybrid : inflight'[s] = 0 /\ Cardinality(HeldBy(s)) \in Nat /\ s \notin Standalone
    <3>1. \A s \in Hybrid : IsFiniteSet(HeldBy(s))
      BY PoolAssumption, FS_Subset DEF HeldBy
    <3> QED BY <3>1, FS_CardinalityType, PoolAssumption
  <2>3. \A s \in Standalone : inflight'[s] = inflight[s] /\ s \in Pool
    BY <1>6, PoolAssumption
  <2> QED BY <1>6, <2>1, <2>2, <2>3 DEF IInv, CountersFollowRequests, Servers
<1> QED BY <1>2, <1>3, <1>4, <1>5, <1>7, <1>8 DEF IInv

\* They leave it, and their counters with them.
LEMMA RemoveReplicasStep == ASSUME IInv, RemoveReplicas PROVE IInv'
<1>1. /\ phase.at = "remove"
      /\ phase' = [at |-> "sleep", left |-> Hybrid,
                   started |-> phase.started]
      /\ inflight' = [s \in Pool \ Hybrid |-> inflight[s]]
      /\ UNCHANGED <<routes, rq, release, sv, version, setup, loose, exposed>>
  BY AfterIs DEF RemoveReplicas, history, RemoveServers, GoTo, Reached, IInv, PhaseOK, Widened
<1> USE <1>1
<1>6. Pool = Servers /\ Pool' = Standalone
  BY PoolAssumption DEF IInv, PhaseOK, Pool, Widened, Servers
<1>2. PhaseOK'
  BY <1>6 DEF IInv, PhaseOK, Phases, Reached, Widened, Servers, NeedValidate
<1>3. InterruptedOK'
  BY PoolAssumption DEF IInv, Interrupted, InterruptedOK, OwnInterrupted, HybridInterrupted,
     PhaseOK, Reached, Servers
<1>4. LoadedOK' /\ Served' = Served
  BY PoolAssumption DEF IInv, LoadedOK, HybridLoaded, PhaseOK,
     Reached, Servers, Served
<1>5. RequestsOK'
  <2>2. \A r \in Requests : rq[r].pc = "running" /\ r \notin exposed =>
           ~Interrupted(rq[r].server)' /\ sv'[rq[r].server].awake
    BY DEF IInv, RequestsOK, Interrupted, CallsOK, CallOf
  <2>3. phase'.at \notin Narrow /\ (phase.started => phase'.started)
    BY DEF Narrow
  <2> QED BY <1>4, <2>2, <2>3, RequestsKept
<1>7. TypeOK'
  <2>1. inflight' \in [Pool' -> Nat]
    <3>1. Pool \ Hybrid = Standalone /\ Standalone \subseteq Pool
      BY <1>6, PoolAssumption DEF Servers
    <3> QED BY <1>1, <1>6, <3>1 DEF IInv, TypeOK
  <2> QED BY <1>2, <1>6, <2>1, PhasesAre DEF IInv, TypeOK, PhaseOK, Servers
<1>8. CountersFollowRequests'
  <2>1. \A s : HeldBy(s)' = HeldBy(s)
    BY DEF HeldBy
  <2>3. \A s \in Standalone : inflight'[s] = inflight[s] /\ s \in Pool
    BY <1>6, PoolAssumption DEF Servers
  <2> QED BY <1>6, <2>1, <2>3 DEF IInv, CountersFollowRequests, Servers
<1> QED BY <1>2, <1>3, <1>4, <1>5, <1>7, <1>8 DEF IInv

-----------------------------------------------------------------------------
(* Lemmas about the load balancer and about sets of numbers                 *)

\* The smaller of two numbers.
LEMMA MinOfTwo ==
  ASSUME NEW a \in Int, NEW b \in Int
  PROVE  Min({a, b}) = IF a < b THEN a ELSE b
  BY DEF Min

\* The greater of two numbers.
LEMMA MaxOfTwo ==
  ASSUME NEW a \in Int, NEW b \in Int
  PROVE  Max({a, b}) = IF a < b THEN b ELSE a
  BY DEF Max

\* Whatever the cache holds, storing an entry keeps it within its capacity.
LEMMA CacheRouteType ==
  ASSUME TypeOK, NEW r \in Requests, NEW s \in Servers, CacheRoute(r, s)
  PROVE  routes' \in Seq(Requests \X Servers) /\ Len(routes') <= CacheSize
<1> DEFINE others == OtherRoutes(r)
           kept   == IF Len(others) >= CacheSize THEN Tail(others) ELSE others
<1>1. routes \in Seq(Requests \X Servers) /\ Len(routes) \in Nat /\ Len(routes) <= CacheSize
      /\ CacheSize \in Nat \ {0}
  BY PoolAssumption DEF TypeOK
<1>2. others \in Seq(Requests \X Servers) /\ Len(others) <= CacheSize
  <2>1. CASE Routed(r) = {}
    BY <1>1, <2>1 DEF OtherRoutes
  <2>2. CASE Routed(r) # {}
    <3>1. PICK i \in 1..Len(routes) : others = RemoveAt(routes, i)
      <4> DEFINE j == CHOOSE j \in Routed(r) : TRUE
      <4>1. j \in Routed(r)
        BY <2>2, Zenon
      <4>2. others = RemoveAt(routes, j)
        BY <2>2, Zenon DEF OtherRoutes
      <4>3. Routed(r) \subseteq 1..Len(routes)
        BY <1>1 DEF Routed
      <4> QED BY <4>1, <4>2, <4>3, Zenon
    <3> HIDE DEF others
    <3>2. RemoveAt(routes, i) = SubSeq(routes, 1, i - 1) \o SubSeq(routes, i + 1, Len(routes))
      BY DEF RemoveAt
    <3>3. /\ SubSeq(routes, 1, i - 1) \in Seq(Requests \X Servers) /\ Len(SubSeq(routes, 1, i - 1)) = i - 1
          /\ SubSeq(routes, i + 1, Len(routes)) \in Seq(Requests \X Servers)
          /\ Len(SubSeq(routes, i + 1, Len(routes))) = Len(routes) - i
      BY <1>1
    <3> DEFINE before == SubSeq(routes, 1, i - 1)  after == SubSeq(routes, i + 1, Len(routes))
    <3>4. before \o after \in Seq(Requests \X Servers) /\ Len(before \o after) = Len(before) + Len(after)
      BY <3>3, ConcatProperties, Zenon
    <3>5. (i - 1) + (Len(routes) - i) <= CacheSize
      BY <1>1
    <3> QED BY <3>1, <3>2, <3>3, <3>4, <3>5, Zenon
  <2> QED BY <2>1, <2>2
<1> HIDE DEF others
<1>3. kept \in Seq(Requests \X Servers) /\ Len(kept) < CacheSize
  BY <1>1, <1>2
<1>4. routes' = Append(kept, <<r, s>>)
  BY DEF CacheRoute, others
<1> HIDE DEF kept
<1>5. <<r, s>> \in Requests \X Servers
  OBVIOUS
<1> QED BY <1>1, <1>3, <1>4, <1>5

\* The balancer picks a server of the pool.
LEMMA AcquiredIsInPool ==
  ASSUME NEW r, NEW s, AcquireServer(r, s)
  PROVE  s \in Pool
  BY DEF AcquireServer, StickyServers, LeastLoaded

\* The requests that hold a server can be counted.
LEMMA HeldByFinite == \A s : IsFiniteSet(HeldBy(s)) /\ Cardinality(HeldBy(s)) \in Nat
  BY PoolAssumption, FS_Subset, FS_CardinalityType DEF HeldBy

\* What all the calls of a request may bring, and where the limit is from
LEMMA AllowanceIs ==
  ASSUME IInv, NEW r \in Requests
  PROVE  /\ setup.limited \in BOOLEAN /\ Allowance(r) \in Nat \ {0}
         /\ Allowance(r) = IF setup.limited
                           THEN IF Budget < Room[r] THEN Budget ELSE Room[r]
                           ELSE LET m == IF Ahead[r] < Room[r] THEN Ahead[r] ELSE Room[r]
                                IN  IF 1 < m THEN m ELSE 1
         /\ Allowance(r) <= Room[r]
         /\ setup.limited => Allowance(r) <= Budget
<1>1. /\ setup.limited \in BOOLEAN /\ Budget \in Nat \ {0}
      /\ Room[r] \in Nat \ {0} /\ Ahead[r] \in Int
  BY PoolAssumption DEF IInv, TypeOK
<1>2. Min({Budget, Room[r]}) = IF Budget < Room[r] THEN Budget ELSE Room[r]
  BY <1>1, MinOfTwo
<1> DEFINE m == Min({Ahead[r], Room[r]})
<1>3. m = IF Ahead[r] < Room[r] THEN Ahead[r] ELSE Room[r]
  BY <1>1, MinOfTwo
<1>4. m \in Int
  BY <1>1, <1>3
<1> HIDE DEF m
<1>5. Max({1, m}) = IF 1 < m THEN m ELSE 1
  BY <1>4, MaxOfTwo
<1>6. Allowance(r) = IF setup.limited THEN Min({Budget, Room[r]}) ELSE Max({1, m})
  BY DEF Allowance, m
<1> QED BY <1>1, <1>2, <1>3, <1>5, <1>6

-----------------------------------------------------------------------------
(* The client and the engine                                                *)

RequestType ==
  [pc : {"start", "calling", "running", "completed", "aborted", "raised",
         "done", "failed"},
   server : Servers \cup {None}, tokens : Seq(Labels \cup {Mixed}),
   base : Nat, label : Labels, low : Labels, high : Labels]

\* A step of request r leaves the trainer's part of the invariant alone.
LEMMA TrainerKept ==
  ASSUME IInv, UNCHANGED <<sv, phase, version, loose>>, Pool' = Pool
  PROVE  PhaseOK' /\ InterruptedOK' /\ LoadedOK' /\ Served' = Served
<1>1. PhaseOK'
  BY DEF IInv, PhaseOK, NeedValidate
<1>2. InterruptedOK'
  BY DEF IInv, Interrupted, InterruptedOK, OwnInterrupted, HybridInterrupted
<1>3. LoadedOK' /\ Served' = Served
  BY DEF IInv, LoadedOK, HybridLoaded, Served
<1> QED BY <1>1, <1>2, <1>3

\* It is enough to look at r.
LEMMA OneRequest ==
  ASSUME IInv, UNCHANGED <<sv, phase, version, setup, loose>>, NEW r \in Requests,
         \A o \in Requests \ {r} : rq'[o] = rq[o] /\ release'[o] = release[o],
         exposed \subseteq exposed', exposed' \subseteq exposed \cup {r},
         loose = {} => exposed' = exposed,
         CallOf(r)', r \in Validation => ValidationOf(r)', LengthOf(r)',
         r \notin exposed' => TokensOf(rq[r])' /\ LabelsOf(rq[r])'
  PROVE  RequestsOK'
<1>0. \A o \in Requests \ {r} : o \in exposed' <=> o \in exposed
  OBVIOUS
<1> USE DEF RequestsOK
<1>1. CallsOK'
  <2> SUFFICES ASSUME NEW o \in Requests PROVE CallOf(o)'
    BY DEF CallsOK
  <2>1. CASE o # r
    BY <1>0, <2>1 DEF IInv, CallsOK, CallOf, Interrupted
  <2> QED BY <2>1
<1>2. ValidationOK'
  <2> SUFFICES ASSUME NEW o \in Validation PROVE ValidationOf(o)'
    BY DEF ValidationOK
  <2>1. CASE o # r
    BY <1>0, <2>1 DEF IInv, ValidationOK, ValidationOf, Requests
  <2> QED BY <2>1
<1>3. LengthsOK'
  <2> SUFFICES ASSUME NEW o \in Requests PROVE LengthOf(o)'
    BY DEF LengthsOK
  <2>1. CASE o # r
    BY <2>1 DEF IInv, LengthsOK, LengthOf, Allowance
  <2> QED BY <2>1
<1>4. TokensOK'
  <2> SUFFICES ASSUME NEW o \in Requests, o \notin exposed' PROVE TokensOf(rq[o])'
    BY DEF TokensOK
  <2>1. CASE o # r
    BY <1>0, <2>1 DEF IInv, TokensOK, TokensOf, Merged, Served
  <2> QED BY <2>1
<1>5. LabelsOK'
  <2> SUFFICES ASSUME NEW o \in Requests, o \notin exposed' PROVE LabelsOf(rq[o])'
    BY DEF LabelsOK
  <2>1. CASE o # r
    BY <1>0, <2>1 DEF IInv, LabelsOK, LabelsOf
  <2> QED BY <2>1
<1>6. ExposureOK'
  BY DEF IInv, ExposureOK
<1> QED BY <1>1, <1>2, <1>3, <1>4, <1>5, <1>6

\* What is known of one request
LEMMA OfRequest ==
  ASSUME IInv, NEW r \in Requests
  PROVE  /\ rq[r] \in RequestType /\ release[r] \in Servers \cup {None}
         /\ CallOf(r) /\ (r \in Validation => ValidationOf(r)) /\ LengthOf(r)
         /\ r \notin exposed => TokensOf(rq[r]) /\ LabelsOf(rq[r])
         /\ Room[r] \in Nat \ {0} /\ Budget \in Nat \ {0}
         /\ Versions \subseteq Nat /\ None \notin Versions \cup Servers
         /\ (r \in Training \/ r \in Validation)
  BY PoolAssumption DEF IInv, RequestsOK, TypeOK, RequestType, CallsOK, ValidationOK,
    LengthsOK, TokensOK, LabelsOK, Versions, Requests

\* A request gets a server of the pool and is counted there.
LEMMA AcquireStep == ASSUME IInv, NEW r \in Requests, Acquire(r) PROVE IInv'
<1>1. PICK s \in Servers :
        /\ rq[r].pc = "start" /\ MayStart(r) /\ release[r] = None
        /\ AcquireServer(r, s)
        /\ rq' = [rq EXCEPT ![r].pc = "calling", ![r].server = s]
        /\ UNCHANGED <<release, sv, phase, version, setup, loose, exposed>>
  BY DEF Acquire, history
<1> USE <1>1
<1>2. s \in Pool /\ CacheRoute(r, s) /\ inflight' = [inflight EXCEPT ![s] = @ + 1]
  BY AcquiredIsInPool DEF AcquireServer
<1>3. Pool' = Pool
  BY <1>2 DEF Pool
<1> DEFINE q == rq[r]  p == [rq[r] EXCEPT !.pc = "calling", !.server = s]
<1>4. q \in RequestType /\ CallOf(r) /\ (r \in Validation => ValidationOf(r))
      /\ LengthOf(r) /\ (r \notin exposed => TokensOf(q)) /\ None \notin Servers
      /\ (r \in Training \/ r \in Validation)
  BY OfRequest
<1>5. rq'[r] = p /\ \A o \in Requests \ {r} : rq'[o] = rq[o]
  BY DEF IInv, TypeOK
<1>6. /\ p \in RequestType
      /\ p.pc = "calling" /\ p.server = s /\ p.tokens = q.tokens /\ p.base = q.base
      /\ p.label = q.label /\ p.low = q.low /\ p.high = q.high
  BY <1>4 DEF RequestType
<1> HIDE DEF p
<1>7. PhaseOK' /\ InterruptedOK' /\ LoadedOK' /\ Served' = Served
  BY <1>3, TrainerKept
<1>8. CallOf(r)'
  <2>1. r \in Training => phase.started
    BY DEF MayStart
  <2>2. r \in Validation /\ r \notin Training => phase.at = "validating"
    BY DEF MayStart
  <2>3. s \in Hybrid => phase.at \in Widened
    BY <1>2, PoolAssumption DEF IInv, PhaseOK
  <2>4. phase.at \in Widened => phase.at \notin Narrow
    BY DEF Narrow, Widened
  <2> QED BY <1>4, <1>5, <1>6, <2>1, <2>2, <2>3, <2>4 DEF CallOf, HasServer
<1>9. r \in Validation => ValidationOf(r)'
  <2>1. r \in Validation => phase.at = "validating" /\ version = ValidatedAt[r]
    BY PoolAssumption DEF MayStart
  <2> QED BY <1>4, <1>5, <1>6, <2>1 DEF ValidationOf
<1>10. LengthOf(r)'
  BY <1>4, <1>5, <1>6 DEF LengthOf, Allowance
<1>11. r \notin exposed => TokensOf(rq[r])' /\ LabelsOf(rq[r])'
  BY <1>4, <1>5, <1>6, <1>7 DEF TokensOf, Merged, LabelsOf
<1>12. RequestsOK'
  BY <1>5, <1>8, <1>9, <1>10, <1>11, OneRequest
<1>13. TypeOK'
  <2>1. inflight' \in [Pool' -> Nat]
    BY <1>2, <1>3 DEF IInv, TypeOK
  <2>2. routes' \in Seq(Requests \X Servers) /\ Len(routes') <= CacheSize
    BY <1>2, CacheRouteType DEF IInv
  <2>3. rq' \in [Requests -> RequestType]
    <3>1. \A o \in Requests : rq'[o] \in RequestType
      BY <1>5, <1>6, OfRequest
    <3> QED BY <3>1 DEF IInv, TypeOK
  <2> QED BY <1>3, <2>1, <2>2, <2>3 DEF IInv, TypeOK, RequestType
<1>14. CountersFollowRequests'
  <2>1. rq[r].server = None
    BY <1>4 DEF CallOf, HasServer
  <2>2. \A t \in Servers : t # s => HeldBy(t)' = HeldBy(t)
    <3> TAKE t \in Servers
    <3> HAVE t # s
    <3>1. \A o \in Requests : t \in {rq'[o].server, release'[o]} <=> t \in {rq[o].server, release[o]}
      <4> TAKE o \in Requests
      <4>1. CASE o = r
        BY <1>4, <1>5, <1>6, <2>1, <4>1
      <4>2. CASE o # r
        BY <1>5, <4>2
      <4> QED BY <4>1, <4>2
    <3> QED BY <3>1 DEF HeldBy
  <2>3. HeldBy(s)' = HeldBy(s) \cup {r} /\ r \notin HeldBy(s)
    BY <1>5, <1>6, <2>1, <1>4 DEF HeldBy
  <2>4. Cardinality(HeldBy(s)') = Cardinality(HeldBy(s)) + 1
    BY <2>3, HeldByFinite, FS_AddElement
  <2>5. \A t \in Pool : inflight'[t] = IF t = s THEN inflight[t] + 1 ELSE inflight[t]
    BY <1>2 DEF Pool, IInv, TypeOK
  <2>6. \A t \in Pool : inflight[t] \in Nat /\ Cardinality(HeldBy(t)) \in Nat /\ t \in Servers
    BY HeldByFinite DEF IInv, TypeOK
  <2> QED BY <1>3, <2>2, <2>4, <2>5, <2>6 DEF IInv, CountersFollowRequests
<1> QED BY <1>7, <1>12, <1>13, <1>14 DEF IInv

\* A step that changes neither who holds a server nor the load balancer
LEMMA CountersKeptFor ==
  ASSUME IInv, UNCHANGED <<inflight, release>>, NEW r \in Requests,
         rq'[r].server = rq[r].server, \A o \in Requests \ {r} : rq'[o] = rq[o]
  PROVE  CountersFollowRequests'
  BY CountersKept

\* The types survive a step that changes one request.
LEMMA TypeKept ==
  ASSUME IInv, UNCHANGED <<sv, phase, version, setup, loose>>, NEW r \in Requests,
         rq' = [rq EXCEPT ![r] = rq'[r]], rq'[r] \in RequestType,
         exposed' \subseteq exposed \cup {r},
         UNCHANGED <<inflight, routes>>, release' \in [Requests -> Servers \cup {None}]
  PROVE  TypeOK'
<1>1. rq' \in [Requests -> RequestType]
  <2>1. rq \in [Requests -> RequestType]
    BY DEF IInv, TypeOK, RequestType
  <2> DEFINE p == rq'[r]
  <2>2. rq' = [rq EXCEPT ![r] = p] /\ p \in RequestType
    OBVIOUS
  <2> HIDE DEF p
  <2> QED BY <2>1, <2>2
<1> QED BY <1>1 DEF IInv, TypeOK, RequestType, Pool

\* A call passes the gate of an engine that is not paused.
LEMMA EnterStep == ASSUME IInv, NEW r \in Requests, Enter(r) PROVE IInv'
<1> DEFINE q == rq[r]  s == rq[r].server
           next == IF sv[s].awake /\ Len(q.tokens) < Room[r] THEN "running" ELSE "raised"
           p == [q EXCEPT !.pc = next, !.base = Len(q.tokens)]
<1>1. /\ q.pc = "calling" /\ ~sv[s].paused
      /\ rq' = [rq EXCEPT ![r] = p]
      /\ exposed' = IF s \in loose THEN exposed \cup {r} ELSE exposed
      /\ UNCHANGED <<inflight, routes, release, sv, phase, version, setup, loose>>
  <2>1. rq' = [rq EXCEPT ![r].pc = next, ![r].base = Len(rq[r].tokens)]
    BY DEF Enter
  <2>2. rq \in [Requests -> RequestType]
    BY DEF IInv, TypeOK, RequestType
  <2>3. rq' = [rq EXCEPT ![r] = p]
    BY <2>1, <2>2
  <2> QED BY <2>3 DEF Enter
<1> USE <1>1
<1>2. q \in RequestType /\ CallOf(r) /\ (r \in Validation => ValidationOf(r))
      /\ LengthOf(r) /\ (r \notin exposed => TokensOf(q)) /\ None \notin Servers
      /\ (r \in Training \/ r \in Validation) /\ Room[r] \in Nat \ {0}
  BY OfRequest
<1>3. s \in Servers
  BY <1>2 DEF CallOf, HasServer, RequestType
<1>4. next \in {"running", "raised"} /\ (next = "running" => sv[s].awake)
  OBVIOUS
<1>5. rq'[r] = p /\ \A o \in Requests \ {r} : rq'[o] = rq[o]
  BY DEF IInv, TypeOK
<1>6. Len(q.tokens) \in Nat
  BY <1>2 DEF RequestType
<1>7. r \in Validation => next = "running"
  <2> SUFFICES ASSUME r \in Validation PROVE next = "running"
    OBVIOUS
  <2>1. phase.at = "validating" /\ q.tokens = <<>>
    BY <1>2 DEF ValidationOf
  <2>2. sv[s].awake
    BY <1>3, <2>1 DEF IInv, LoadedOK, HybridLoaded, Servers
  <2>3. Len(q.tokens) < Room[r]
    BY <1>2, <2>1
  <2> QED BY <2>2, <2>3
<1> HIDE DEF next
<1>8. /\ p \in RequestType
      /\ p.pc = next /\ p.server = s /\ p.tokens = q.tokens /\ p.base = Len(q.tokens)
      /\ p.label = q.label /\ p.low = q.low /\ p.high = q.high
  BY <1>2, <1>4, <1>6 DEF RequestType
<1> HIDE DEF p
<1>9. PhaseOK' /\ InterruptedOK' /\ LoadedOK' /\ Served' = Served
  BY TrainerKept DEF Pool
<1>a. exposed \subseteq exposed' /\ (r \notin exposed' => r \notin exposed /\ ~Interrupted(s))
      /\ exposed' \subseteq exposed \cup {r} /\ (loose = {} => exposed' = exposed)
  BY DEF Interrupted
<1>10. CallOf(r)'
  BY <1>2, <1>3, <1>4, <1>5, <1>8, <1>a DEF CallOf, HasServer, Interrupted
<1>11. r \in Validation => ValidationOf(r)'
  <2>1. r \in Validation => ~Interrupted(s)
    BY <1>2, <1>3 DEF IInv, InterruptedOK, OwnInterrupted, HybridInterrupted, ValidationOf, Servers
  <2>2. r \in Validation => exposed' = exposed
    BY <2>1 DEF Interrupted
  <2> QED BY <1>2, <1>5, <1>7, <1>8, <2>2 DEF ValidationOf
<1>b. LengthOf(r)'
  BY <1>2, <1>4, <1>5, <1>6, <1>8 DEF LengthOf, Allowance
<1>12. r \notin exposed' => TokensOf(rq[r])'
  <2>1. \A i \in DOMAIN q.tokens : ~(i > Len(q.tokens))
    BY <1>2, <1>6 DEF RequestType
  <2>2. Merged(q) = Len(q.tokens) /\ Merged(p) = IF next = "running" THEN Len(q.tokens) ELSE p.base
    BY <1>4, <1>8 DEF Merged
  <2> QED BY <1>2, <1>4, <1>5, <1>6, <1>8, <1>9, <1>a, <2>1, <2>2 DEF TokensOf, Merged
<1>13. LabelsOf(rq[r])'
  BY <1>4, <1>5, <1>8 DEF LabelsOf
<1>14. RequestsOK'
  BY <1>5, <1>10, <1>11, <1>12, <1>13, <1>a, <1>b, OneRequest
<1>15. TypeOK'
  <2>1. release' \in [Requests -> Servers \cup {None}]
    BY DEF IInv, TypeOK
  <2> QED BY <1>5, <1>8, <1>a, <2>1, TypeKept
<1>16. CountersFollowRequests'
  BY <1>5, <1>8, CountersKeptFor
<1> QED BY <1>9, <1>14, <1>15, <1>16 DEF IInv

\* The server's clamp leaves a call room for one token, and its calls together
\* what they may get.
LEMMA CallLimitIs ==
  ASSUME IInv, NEW r \in Requests, rq[r].base < Allowance(r)
  PROVE  rq[r].base + CallLimit(r) <= Allowance(r) /\ CallLimit(r) \in Nat \ {0}
<1> DEFINE b == rq[r].base  room == Room[r] - b  own == Budget - b  rest == Ahead[r] - b
           default == Min({Response, rest})
           wanted == IF setup.limited THEN own ELSE default
           clamped == Min({wanted, room})
<1>1. /\ b \in Nat /\ room \in Int /\ own \in Int /\ rest \in Int /\ Response \in Nat \ {0}
      /\ setup.limited \in BOOLEAN
  BY OfRequest, AllowanceIs, PoolAssumption DEF RequestType
<1>2. CallLimit(r) = Max({1, clamped})
  BY DEF CallLimit
<1>3. default = (IF Response < rest THEN Response ELSE rest) /\ default \in Int
  BY <1>1, MinOfTwo
<1> HIDE DEF default
<1>4. wanted = (IF setup.limited THEN own ELSE default) /\ wanted \in Int
  BY <1>1, <1>3
<1> HIDE DEF wanted
<1>5. clamped = (IF wanted < room THEN wanted ELSE room) /\ clamped \in Int
  BY <1>1, <1>4, MinOfTwo
<1> HIDE DEF clamped
<1>6. CallLimit(r) = IF 1 < clamped THEN clamped ELSE 1
  BY <1>2, <1>5, MaxOfTwo
<1>7. CASE setup.limited
  <2>1. Allowance(r) = IF Budget < Room[r] THEN Budget ELSE Room[r]
    BY <1>7, AllowanceIs
  <2>2. Budget \in Int /\ Room[r] \in Int
    BY OfRequest
  <2> QED BY <1>1, <1>4, <1>5, <1>6, <1>7, <2>1, <2>2
<1>8. CASE ~setup.limited
  <2>1. Allowance(r) = LET m == IF Ahead[r] < Room[r] THEN Ahead[r] ELSE Room[r]
                       IN  IF 1 < m THEN m ELSE 1
    BY <1>8, AllowanceIs
  <2>2. Ahead[r] \in Int /\ Room[r] \in Int
    BY PoolAssumption
  <2> QED BY <1>1, <1>3, <1>4, <1>5, <1>6, <1>8, <2>1, <2>2
<1> QED BY <1>7, <1>8

\* What Generate does to a request: a token of what the engine has loaded, and
\* perhaps the end; or nothing but the error, if the engine was put to sleep.
LEMMA GenerateIs ==
  ASSUME IInv, NEW r \in Requests, Generate(r)
  PROVE  LET q == rq[r]  p == rq'[r]  s == rq[r].server IN
         /\ q.pc = "running" /\ s \in Servers
         /\ p \in RequestType /\ rq' = [rq EXCEPT ![r] = p]
         /\ \A o \in Requests \ {r} : rq'[o] = rq[o]
         /\ p.server = s /\ p.base = q.base /\ p.low = q.low /\ p.high = q.high
         /\ \/ /\ sv[s].awake /\ p.tokens = Append(q.tokens, sv[s].weights)
               /\ \/ p.pc = "running" /\ Len(p.tokens) - q.base < CallLimit(r)
                  \/ p.pc = "completed" /\ p.label = sv[s].steps
            \/ ~sv[s].awake /\ p.tokens = q.tokens /\ p.pc = "raised"
<1> DEFINE q == rq[r]  s == rq[r].server  w == sv[s].weights  l == sv[s].steps
           t == Append(q.tokens, w)
           g == [q EXCEPT !.tokens = t]
           c == [g EXCEPT !.pc = "completed", !.label = l]
           e == [q EXCEPT !.pc = "raised"]
<1>1. /\ q.pc = "running"
      /\ \/ sv[s].awake /\ Len(g.tokens) - g.base < CallLimit(r) /\ rq' = [rq EXCEPT ![r] = g]
         \/ sv[s].awake /\ rq' = [rq EXCEPT ![r] = c]
         \/ ~sv[s].awake /\ rq' = [rq EXCEPT ![r].pc = "raised"]
  BY DEF Generate, Answer
<1>2. q \in RequestType /\ CallOf(r) /\ rq \in [Requests -> RequestType]
  BY OfRequest DEF IInv, TypeOK, RequestType
<1>3. s \in Servers
  BY <1>1, <1>2 DEF CallOf, HasServer, RequestType
<1>4. w \in Labels \cup {Mixed} /\ l \in Labels
  BY <1>3 DEF IInv, TypeOK
<1> HIDE DEF w, l
<1>5. t \in Seq(Labels \cup {Mixed})
  BY <1>2, <1>4 DEF RequestType
<1> HIDE DEF t
<1>6. /\ g \in RequestType /\ g.tokens = t /\ g.pc = q.pc
      /\ g.server = s /\ g.base = q.base /\ g.low = q.low /\ g.high = q.high
  BY <1>2, <1>5 DEF RequestType
<1>7. /\ c \in RequestType /\ c.tokens = t /\ c.pc = "completed" /\ c.label = l
      /\ c.server = s /\ c.base = q.base /\ c.low = q.low /\ c.high = q.high
  <2> HIDE DEF g
  <2> QED BY <1>4, <1>6 DEF RequestType
<1>8. /\ e \in RequestType /\ e.tokens = q.tokens /\ e.pc = "raised"
      /\ e.server = s /\ e.base = q.base /\ e.low = q.low /\ e.high = q.high
      /\ [rq EXCEPT ![r].pc = "raised"] = [rq EXCEPT ![r] = e]
  BY <1>2 DEF RequestType
<1>9. \A x : rq' = [rq EXCEPT ![r] = x] =>
        /\ rq'[r] = x /\ rq' = [rq EXCEPT ![r] = rq'[r]]
        /\ \A o \in Requests \ {r} : rq'[o] = rq[o]
  BY <1>2
<1> HIDE DEF g, c, e
<1>10. CASE sv[s].awake /\ Len(g.tokens) - g.base < CallLimit(r) /\ rq' = [rq EXCEPT ![r] = g]
  <2>1. rq'[r] = g /\ rq' = [rq EXCEPT ![r] = rq'[r]] /\ \A o \in Requests \ {r} : rq'[o] = rq[o]
    BY <1>9, <1>10, Zenon
  <2> QED BY <1>1, <1>3, <1>6, <1>10, <2>1, Zenon DEF t, w
<1>11. CASE sv[s].awake /\ rq' = [rq EXCEPT ![r] = c]
  <2>1. rq'[r] = c /\ rq' = [rq EXCEPT ![r] = rq'[r]] /\ \A o \in Requests \ {r} : rq'[o] = rq[o]
    BY <1>9, <1>11, Zenon
  <2> QED BY <1>1, <1>3, <1>7, <1>11, <2>1, Zenon DEF t, w, l
<1>12. CASE ~sv[s].awake /\ rq' = [rq EXCEPT ![r].pc = "raised"]
  <2>1. rq'[r] = e /\ rq' = [rq EXCEPT ![r] = rq'[r]] /\ \A o \in Requests \ {r} : rq'[o] = rq[o]
    BY <1>8, <1>9, <1>12, Zenon
  <2> QED BY <1>1, <1>3, <1>8, <1>12, <2>1, Zenon
<1> QED BY <1>1, <1>10, <1>11, <1>12

\* A token, for which there is room, and of the version served if the request
\* was never exposed.
LEMMA GenerateStep == ASSUME IInv, NEW r \in Requests, Generate(r) PROVE IInv'
<1> DEFINE q == rq[r]  s == rq[r].server  p == rq'[r]  n == Len(q.tokens)
           t == Append(q.tokens, sv[s].weights)
<1>1. UNCHANGED <<inflight, routes, release, sv, phase, version, setup, loose, exposed>>
  BY DEF Generate, history
<1> USE <1>1
<1>2. q \in RequestType /\ CallOf(r) /\ (r \in Validation => ValidationOf(r))
      /\ LengthOf(r) /\ (r \notin exposed => TokensOf(q)) /\ None \notin Versions \cup Servers
      /\ Versions \subseteq Nat
  BY OfRequest
<1>3. /\ q.pc = "running" /\ s \in Servers
      /\ p \in RequestType /\ rq' = [rq EXCEPT ![r] = p]
      /\ \A o \in Requests \ {r} : rq'[o] = rq[o]
      /\ p.server = s /\ p.base = q.base /\ p.low = q.low /\ p.high = q.high
      /\ \/ /\ sv[s].awake /\ p.tokens = t
            /\ \/ p.pc = "running" /\ Len(p.tokens) - q.base < CallLimit(r)
               \/ p.pc = "completed" /\ p.label = sv[s].steps
         \/ ~sv[s].awake /\ p.tokens = q.tokens /\ p.pc = "raised"
  BY GenerateIs
<1>4. r \notin exposed =>
        /\ ~Interrupted(s) /\ sv[s].awake
        /\ sv[s].weights = Served /\ sv[s].steps = Served /\ Served \in Versions
  <2>1. r \notin exposed => ~Interrupted(s) /\ sv[s].awake
    BY <1>2, <1>3 DEF CallOf
  <2> QED BY <1>3, <2>1, RunningIsServed
<1>5. /\ n \in Nat /\ DOMAIN q.tokens = 1..n /\ Len(t) = n + 1 /\ DOMAIN t = 1..(n + 1)
      /\ t[n + 1] = sv[s].weights /\ \A i \in 1..n : t[i] = q.tokens[i]
  <2>1. q.tokens \in Seq(Labels \cup {Mixed}) /\ sv[s].weights \in Labels \cup {Mixed}
    BY <1>2, <1>3 DEF RequestType, IInv, TypeOK
  <2> QED BY <2>1
<1> HIDE DEF t, n, p
<1>6. \A i \in 1..(n + 1) : (i \in 1..n /\ t[i] = q.tokens[i]) \/ (i = n + 1 /\ t[i] = sv[s].weights)
  <2>1. \A i \in 1..(n + 1) : i \in 1..n \/ i = n + 1
    BY <1>5
  <2> QED BY <1>5, <2>1, Zenon
<1>7. PhaseOK' /\ InterruptedOK' /\ LoadedOK' /\ Served' = Served
  BY TrainerKept DEF Pool
<1>8. CallOf(r)'
  BY <1>2, <1>3, <1>4 DEF CallOf, HasServer, p, Interrupted
<1>9. r \in Validation => ValidationOf(r)'
  <2> SUFFICES ASSUME r \in Validation PROVE ValidationOf(r)'
    OBVIOUS
  <2>1. r \notin exposed /\ phase.at = "validating" /\ version = ValidatedAt[r] /\ q.low = q.high
        /\ q.low = None /\ \A i \in DOMAIN q.tokens : q.tokens[i] = ValidatedAt[r]
    BY <1>2, <1>3 DEF ValidationOf
  <2>2. Served = ValidatedAt[r]
    BY <2>1 DEF Served
  <2>3. \A i \in DOMAIN t : t[i] = ValidatedAt[r]
    BY <1>4, <1>5, <1>6, <2>1, <2>2
  <2>4. /\ p.pc \in {"running", "completed"} /\ p.low = None /\ p.low = p.high
        /\ \A i \in DOMAIN p.tokens : p.tokens[i] = ValidatedAt[r]
    BY <1>3, <1>4, <2>1, <2>3
  <2> QED BY <2>1, <2>4 DEF ValidationOf, p
<1>10. LengthOf(r)'
  <2>1. /\ n < Allowance(r) /\ q.base <= n /\ q.base \in Nat
    BY <1>2, <1>3 DEF LengthOf, RequestType, n
  <2>2. Allowance(r)' = Allowance(r) /\ Allowance(r) \in Nat
    BY AllowanceIs DEF Allowance
  <2>3. q.base + CallLimit(r) <= Allowance(r) /\ CallLimit(r) \in Nat
    <3>1. q.base < Allowance(r)
      BY <1>5, <2>1, <2>2
    <3> QED BY <3>1, CallLimitIs
  <2> DEFINE a == Allowance(r)  m == Len(p.tokens)
  <2>4. CASE p.tokens = t /\ p.pc \in {"running", "completed"}
    <3>1. m = n + 1
      BY <1>5, <2>4
    <3>2. p.pc = "running" => m < a
      BY <1>3, <1>5, <2>1, <2>2, <2>3, <3>1
    <3>3. m <= a /\ p.base < m
      BY <1>3, <1>5, <2>1, <2>2, <3>1
    <3>4. p.base <= m
      BY <1>3, <1>5, <2>1, <3>1
    <3> QED BY <2>2, <2>4, <3>2, <3>3, <3>4 DEF LengthOf, p
  <2>5. CASE p.tokens = q.tokens /\ p.pc = "raised"
    <3>1. m <= a
      BY <1>5, <2>1, <2>2, <2>5 DEF n
    <3> QED BY <2>2, <2>5, <3>1 DEF LengthOf, p
  <2> QED BY <1>3, <2>4, <2>5
<1>11. ASSUME r \notin exposed PROVE TokensOf(p)
  <2>1. /\ \A i \in 1..n : q.tokens[i] \in Versions /\ q.tokens[i] <= Served
        /\ \A i \in 1..n : i > q.base => q.tokens[i] = Served
        /\ q.low # None => q.low <= Served /\ \A i \in 1..n : q.low <= q.tokens[i]
        /\ q.low = None \/ ~PartialRollout => q.base = 0
    BY <1>2, <1>3, <1>5, <1>11 DEF TokensOf, Merged
  <2>2. p.tokens = t /\ p.pc \in {"running", "completed"} /\ (p.pc = "completed" => p.label = Served)
    BY <1>3, <1>4, <1>11
  <2>3. \A i \in DOMAIN p.tokens :
          (i \in 1..n /\ p.tokens[i] = q.tokens[i]) \/ (i = n + 1 /\ p.tokens[i] = Served)
    BY <1>4, <1>5, <1>6, <1>11, <2>2
  <2>9. Served <= Served
    <3>1. Served \in Nat
      BY <1>2, <1>4, <1>11, Zenon
    <3> QED BY <3>1
  <2>4. \A i \in DOMAIN p.tokens :
          /\ p.tokens[i] \in Versions /\ p.tokens[i] <= Served
          /\ i > p.base => p.tokens[i] = Served
          /\ p.low # None => p.low <= p.tokens[i]
    <3> TAKE i \in DOMAIN p.tokens
    <3>2. CASE i \in 1..n /\ p.tokens[i] = q.tokens[i]
      BY <1>3, <2>1, <3>2
    <3>3. CASE i = n + 1 /\ p.tokens[i] = Served
      BY <1>3, <1>4, <1>11, <2>1, <2>9, <3>3
    <3> QED BY <2>3, <3>2, <3>3
  <2>5. p.low # None => p.low <= Served
    BY <1>3, <2>1
  <2>6. p.low = None \/ ~PartialRollout => Merged(p) = 0
    BY <1>3, <2>1, <2>2 DEF Merged
  <2>7. Served # None
    BY <1>2, <1>4, <1>11
  <2>8. p.pc = "completed" => /\ p.label # None /\ p.label <= Served
                              /\ \A i \in DOMAIN p.tokens :
                                   /\ p.tokens[i] <= p.label
                                   /\ i > p.base => p.tokens[i] = p.label
    BY <2>2, <2>4, <2>7, <2>9, Zenon
  <2>10. CASE p.pc = "running"
    BY <2>4, <2>5, <2>6, <2>10 DEF TokensOf
  <2>11. CASE p.pc = "completed"
    BY <2>4, <2>5, <2>6, <2>8, <2>11 DEF TokensOf
  <2> QED BY <2>2, <2>10, <2>11
<1>12. r \notin exposed' => TokensOf(rq[r])' /\ LabelsOf(rq[r])'
  <2>1. LabelsOf(rq[r])'
    BY <1>3 DEF LabelsOf, p
  <2>2. r \notin exposed => TokensOf(rq[r])'
    BY <1>7, <1>11 DEF TokensOf, Merged, p
  <2> QED BY <2>1, <2>2
<1>13. RequestsOK'
  BY <1>3, <1>8, <1>9, <1>10, <1>12, OneRequest
<1>14. TypeOK'
  <2>1. release' \in [Requests -> Servers \cup {None}]
    BY DEF IInv, TypeOK
  <2> QED BY <1>3, <2>1, TypeKept DEF p
<1>15. CountersFollowRequests'
  BY <1>3, CountersKeptFor DEF p
<1> QED BY <1>7, <1>13, <1>14, <1>15 DEF IInv

\* The client merges an answer: the labels bracket its tokens, and the request
\* starts over only if there is room for more.
LEMMA MergeStep == ASSUME IInv, NEW r \in Requests, Merge(r) PROVE IInv'
<1> DEFINE q == rq[r]
           over == \/ setup.limited /\ Len(q.tokens) >= Budget
                   \/ q.pc = "completed" \/ ~PartialRollout
           low == IF q.low = None THEN q.label ELSE q.low
           p == [q EXCEPT !.pc = IF over THEN "done" ELSE "start", !.server = None,
                          !.base = 0, !.label = None, !.low = low, !.high = q.label]
<1>1. /\ q.pc \in {"completed", "aborted"}
      /\ release' = [release EXCEPT ![r] = q.server]
      /\ rq' = [rq EXCEPT ![r] = p]
      /\ UNCHANGED <<inflight, routes, sv, phase, version, setup, loose, exposed>>
  <2>1. rq' = [rq EXCEPT ![r].pc = IF over THEN "done" ELSE "start",
                      ![r].server = None, ![r].base = 0, ![r].label = None,
                      ![r].low = IF @ = None THEN q.label ELSE @,
                      ![r].high = q.label]
    BY DEF Merge
  <2>2. rq \in [Requests -> RequestType]
    BY DEF IInv, TypeOK, RequestType
  <2>3. rq' = [rq EXCEPT ![r] = p]
    BY <2>1, <2>2
  <2> QED BY <2>3 DEF Merge, history
<1> USE <1>1
<1>2. q \in RequestType /\ CallOf(r) /\ (r \in Validation => ValidationOf(r))
      /\ LengthOf(r) /\ (r \notin exposed => TokensOf(q)) /\ None \notin Versions \cup Servers
      /\ Room[r] \in Nat \ {0} /\ Budget \in Nat \ {0} /\ Versions \subseteq Nat
  BY OfRequest
<1>3. rq'[r] = p /\ \A o \in Requests \ {r} : rq'[o] = rq[o]
  BY DEF IInv, TypeOK
<1> DEFINE n == Len(q.tokens)
<1>4. n \in Nat /\ DOMAIN q.tokens = 1..n /\ q.base \in Nat
  BY <1>2 DEF RequestType
<1>5. q.label \in Versions \cup {None} /\ q.low \in Versions \cup {None} /\ low \in Labels
  BY <1>2 DEF RequestType, Labels
<1> HIDE DEF low
<1>6. /\ p \in RequestType
      /\ p.pc = IF over THEN "done" ELSE "start"
      /\ p.server = None /\ p.tokens = q.tokens /\ p.low = low /\ p.high = q.label /\ p.label = None
  BY <1>2, <1>5 DEF RequestType, Labels
<1> HIDE DEF p
<1> DEFINE a == Allowance(r)
<1>7. /\ q.pc = "aborted" => n < a
      /\ n <= a /\ q.base <= n /\ a \in Nat
      /\ q.pc = "completed" => n > q.base
      /\ setup.limited => a <= Budget
  BY <1>2, <1>4, AllowanceIs DEF LengthOf
<1>a. r \notin exposed =>
      /\ q.pc = "completed" => q.label # None
      /\ q.label = None => n = q.base
      /\ q.label # None => /\ q.label <= Served
                           /\ \A i \in 1..n : /\ q.tokens[i] <= q.label
                                              /\ i > q.base => q.tokens[i] = q.label
      /\ q.low # None => q.low <= Served /\ \A i \in 1..n : q.low <= q.tokens[i]
      /\ q.low = None \/ ~PartialRollout => q.base = 0
      /\ \A i \in 1..n : q.tokens[i] \in Versions /\ q.tokens[i] <= Served
  BY <1>2, <1>4 DEF TokensOf, Merged
<1>8. ~over => q.pc = "aborted" /\ PartialRollout
  OBVIOUS
<1>9. over => q.pc = "completed" \/ ~PartialRollout
  BY <1>2, <1>4, <1>7
<1> HIDE DEF a
<1>10. r \notin exposed =>
       /\ low # None => low <= Served /\ \A i \in 1..n : low <= q.tokens[i]
       /\ low = None => q.label = None /\ n = 0
  <2>0. SUFFICES ASSUME r \notin exposed
                 PROVE  /\ low # None => low <= Served /\ \A i \in 1..n : low <= q.tokens[i]
                        /\ low = None => q.label = None /\ n = 0
    OBVIOUS
  <2>1. CASE q.low # None
    BY <1>a, <2>0, <2>1 DEF low
  <2>2. CASE q.low = None /\ q.label = None
    BY <1>a, <2>0, <2>2 DEF low
  <2>3. CASE q.low = None /\ q.label # None
    <3>1. q.base = 0 /\ low = q.label
      BY <1>a, <2>0, <2>3 DEF low
    <3>2. \A i \in 1..n : i > q.base
      BY <1>4, <3>1
    <3>3. \A i \in 1..n : q.tokens[i] = q.label
      BY <1>a, <2>0, <2>3, <3>2
    <3>4. q.label <= q.label
      <4>1. q.label \in Nat
        BY <1>2, <1>5, <2>3, Zenon
      <4> QED BY <4>1
    <3> QED BY <1>a, <2>0, <2>3, <3>1, <3>3, <3>4
  <2> QED BY <2>1, <2>2, <2>3
<1>11. PhaseOK' /\ InterruptedOK' /\ LoadedOK' /\ Served' = Served
  BY TrainerKept DEF Pool
<1> HIDE DEF over
<1>12. CallOf(r)'
  <2>1. release'[r] \in Servers \cup {None} /\ (r \in Training /\ ~phase.started => FALSE)
    BY <1>2 DEF CallOf, IInv, TypeOK, RequestType
  <2> QED BY <1>2, <1>3, <1>6, <2>1 DEF CallOf, HasServer
<1>13. r \in Validation => ValidationOf(r)'
  <2> SUFFICES ASSUME r \in Validation PROVE ValidationOf(r)'
    OBVIOUS
  <2>1. r \notin exposed /\ q.pc = "completed" /\ q.low = None /\ \A i \in DOMAIN q.tokens : q.tokens[i] = ValidatedAt[r]
    BY <1>2 DEF ValidationOf
  <2>2. p.pc = "done" /\ p.low = q.label
    BY <1>6, <2>1 DEF over, low
  <2> QED BY <1>3, <1>6, <2>1, <2>2 DEF ValidationOf
<1>b. LengthOf(r)'
  <2>1. p.pc = "start" => n < a
    BY <1>6, <1>7, <1>8
  <2>2. Allowance(r)' = a
    BY DEF a, Allowance
  <2> QED BY <1>3, <1>6, <1>7, <2>1, <2>2 DEF LengthOf
<1>14. r \notin exposed => TokensOf(p)
  <2>2. r \notin exposed /\ p.pc = "start" /\ (p.low = None \/ ~PartialRollout) => Merged(p) = 0
    BY <1>6, <1>8, <1>10 DEF Merged
  <2>3. p.pc \in {"start", "done"}
    BY <1>6
  <2> QED BY <1>4, <1>6, <1>a, <1>10, <2>2, <2>3 DEF TokensOf
<1>15. r \notin exposed' => TokensOf(rq[r])'
  BY <1>3, <1>11, <1>14 DEF TokensOf, Merged
<1>16. r \notin exposed => LabelsOf(p)
  <2>0. SUFFICES ASSUME r \notin exposed, p.pc = "done", PartialRollout \/ p.tokens # <<>>
               PROVE  /\ {p.low, p.high} \subseteq Versions
                      /\ \A i \in DOMAIN p.tokens : p.low <= p.tokens[i] /\ p.tokens[i] <= p.high
                      /\ p.high = Last(p.tokens)
    BY DEF LabelsOf
  <2>1. over
    BY <1>6, <2>0
  <2>2. n > q.base
    <3>1. CASE q.pc = "completed"
      BY <1>7, <3>1
    <3>2. CASE q.pc # "completed"
      <4>1. ~PartialRollout /\ q.tokens # <<>>
        BY <1>6, <1>9, <2>0, <2>1, <3>2
      <4>2. n # 0
        BY <1>2, <4>1 DEF RequestType
      <4> QED BY <1>4, <1>7, <1>a, <2>0, <4>1, <4>2
    <3> QED BY <3>1, <3>2
  <2>3. q.label # None /\ low # None
    <3>1. n # q.base /\ n # 0
      BY <1>4, <2>2
    <3> QED BY <1>a, <1>10, <2>0, <3>1
  <2>4. n \in 1..n /\ n > q.base
    BY <1>4, <2>2
  <2>5. Last(p.tokens) = q.label
    BY <1>6, <1>a, <2>0, <2>3, <2>4 DEF Last
  <2>6. low \in Versions /\ q.label \in Versions
    BY <1>5, <2>3 DEF Labels
  <2> QED BY <1>4, <1>6, <1>a, <1>10, <2>0, <2>3, <2>5, <2>6
<1>17. r \notin exposed' => LabelsOf(rq[r])'
  BY <1>3, <1>16 DEF LabelsOf
<1>18. RequestsOK'
  <2>1. \A o \in Requests \ {r} : release'[o] = release[o]
    BY DEF IInv, TypeOK
  <2> QED BY <1>3, <1>12, <1>13, <1>15, <1>17, <1>b, <2>1, OneRequest
<1>19. TypeOK'
  <2>1. release' \in [Requests -> Servers \cup {None}]
    BY <1>2 DEF IInv, TypeOK, RequestType
  <2> QED BY <1>3, <1>6, <2>1, TypeKept
<1>20. CountersFollowRequests'
  <2>1. \A o \in Requests : {rq'[o].server, release'[o]} \ {None} = {rq[o].server, release[o]} \ {None}
    <3> TAKE o \in Requests
    <3>1. CASE o = r
      <4>1. release[r] = None /\ release'[r] = q.server
        BY <1>2 DEF CallOf, HasServer, IInv, TypeOK
      <4> QED BY <1>3, <1>6, <3>1, <4>1
    <3>2. CASE o # r
      BY <1>3, <3>2 DEF IInv, TypeOK
    <3> QED BY <3>1, <3>2
  <2>2. \A t \in Servers : HeldBy(t)' = HeldBy(t)
    <3> TAKE t \in Servers
    <3>1. \A o \in Requests : t \in {rq'[o].server, release'[o]} <=> t \in {rq[o].server, release[o]}
      BY <1>2, <2>1
    <3> QED BY <3>1 DEF HeldBy
  <2>3. Pool' = Pool /\ Pool \subseteq Servers
    BY DEF Pool, IInv, TypeOK
  <2> QED BY <2>2, <2>3 DEF IInv, CountersFollowRequests
<1> QED BY <1>11, <1>18, <1>19, <1>20 DEF IInv

\* A call that raised.
LEMMA FailStep == ASSUME IInv, NEW r \in Requests, Fail(r) PROVE IInv'
<1> DEFINE q == rq[r]  p == [q EXCEPT !.pc = "failed", !.server = None]
<1>1. /\ q.pc = "raised"
      /\ release' = [release EXCEPT ![r] = q.server]
      /\ rq' = [rq EXCEPT ![r] = p]
      /\ UNCHANGED <<inflight, routes, sv, phase, version, setup, loose, exposed>>
  <2>1. rq' = [rq EXCEPT ![r].pc = "failed", ![r].server = None]
    BY DEF Fail
  <2>2. rq \in [Requests -> RequestType]
    BY DEF IInv, TypeOK, RequestType
  <2>3. rq' = [rq EXCEPT ![r] = p]
    BY <2>1, <2>2
  <2> QED BY <2>3 DEF Fail, history
<1> USE <1>1
<1>2. q \in RequestType /\ CallOf(r) /\ (r \in Validation => ValidationOf(r))
      /\ LengthOf(r) /\ (r \notin exposed => TokensOf(q)) /\ None \notin Servers
  BY OfRequest
<1>3. rq'[r] = p /\ \A o \in Requests \ {r} : rq'[o] = rq[o]
  BY DEF IInv, TypeOK
<1>4. /\ p \in RequestType /\ p.pc = "failed" /\ p.server = None
      /\ p.tokens = q.tokens /\ p.low = q.low
  BY <1>2 DEF RequestType
<1> HIDE DEF p
<1>5. r \notin Validation
  BY <1>2 DEF ValidationOf
<1>6. PhaseOK' /\ InterruptedOK' /\ LoadedOK' /\ Served' = Served
  BY TrainerKept DEF Pool
<1>7. CallOf(r)'
  BY <1>2, <1>3, <1>4 DEF CallOf, HasServer
<1>8. LengthOf(r)' /\ (r \notin exposed' => TokensOf(rq[r])')
  BY <1>2, <1>3, <1>4, <1>6 DEF LengthOf, Allowance, TokensOf, Merged
<1>9. LabelsOf(rq[r])'
  BY <1>3, <1>4 DEF LabelsOf
<1>10. RequestsOK'
  <2>1. \A o \in Requests \ {r} : release'[o] = release[o]
    BY DEF IInv, TypeOK
  <2> QED BY <1>3, <1>5, <1>7, <1>8, <1>9, <2>1, OneRequest
<1>11. TypeOK'
  <2>1. release' \in [Requests -> Servers \cup {None}]
    BY <1>2 DEF IInv, TypeOK, RequestType
  <2> QED BY <1>3, <1>4, <2>1, TypeKept
<1>12. CountersFollowRequests'
  <2>1. \A o \in Requests : {rq'[o].server, release'[o]} \ {None} = {rq[o].server, release[o]} \ {None}
    <3> TAKE o \in Requests
    <3>1. CASE o = r
      <4>1. release[r] = None /\ release'[r] = q.server
        BY <1>2 DEF CallOf, HasServer, IInv, TypeOK
      <4> QED BY <1>3, <1>4, <3>1, <4>1
    <3>2. CASE o # r
      BY <1>3, <3>2 DEF IInv, TypeOK
    <3> QED BY <3>1, <3>2
  <2>2. \A t \in Servers : HeldBy(t)' = HeldBy(t)
    <3> TAKE t \in Servers
    <3>1. \A o \in Requests : t \in {rq'[o].server, release'[o]} <=> t \in {rq[o].server, release[o]}
      BY <1>2, <2>1
    <3> QED BY <3>1 DEF HeldBy
  <2>3. Pool' = Pool /\ Pool \subseteq Servers
    BY DEF Pool, IInv, TypeOK
  <2> QED BY <2>2, <2>3 DEF IInv, CountersFollowRequests
<1> QED BY <1>6, <1>10, <1>11, <1>12 DEF IInv

\* The release arrives and the server is counted down.
LEMMA ReleaseStep == ASSUME IInv, NEW r \in Requests, Release(r) PROVE IInv'
<1>0. PICK s : s = release[r]
  OBVIOUS
<1>1. /\ s # None
      /\ inflight' = [t \in Pool |-> IF t = s /\ inflight[t] > 0
                                     THEN inflight[t] - 1 ELSE inflight[t]]
      /\ release' = [release EXCEPT ![r] = None]
      /\ UNCHANGED <<routes, rq, sv, phase, version, setup, loose, exposed>>
  BY <1>0 DEF Release, ReleaseServer, history
<1> USE <1>1
<1>2. CallOf(r) /\ (r \in Validation => ValidationOf(r)) /\ LengthOf(r)
      /\ (r \notin exposed => TokensOf(rq[r]) /\ LabelsOf(rq[r])) /\ None \notin Servers
  BY OfRequest
<1>3. s \in Servers /\ rq[r].server = None
  BY <1>0, <1>2 DEF CallOf, IInv, TypeOK
<1>4. release'[r] = None /\ \A o \in Requests \ {r} : release'[o] = release[o]
  BY DEF IInv, TypeOK
<1>5. Pool' = Pool
  BY DEF Pool
<1>6. PhaseOK' /\ InterruptedOK' /\ LoadedOK' /\ Served' = Served
  BY <1>5, TrainerKept
<1>7. /\ CallOf(r)' /\ (r \in Validation => ValidationOf(r)') /\ LengthOf(r)'
      /\ r \notin exposed' => TokensOf(rq[r])' /\ LabelsOf(rq[r])'
  BY <1>2, <1>4, <1>6 DEF CallOf, Interrupted, ValidationOf, LengthOf, Allowance, TokensOf, Merged,
    LabelsOf
<1>8. RequestsOK'
  BY <1>4, <1>7, OneRequest
<1>9. TypeOK'
  <2>1. \A t \in Pool : inflight'[t] \in Nat
    BY DEF IInv, TypeOK
  <2>2. inflight' \in [Pool' -> Nat]
    BY <1>5, <2>1
  <2>3. release' \in [Requests -> Servers \cup {None}]
    BY DEF IInv, TypeOK
  <2> QED BY <1>5, <2>2, <2>3 DEF IInv, TypeOK
<1>10. CountersFollowRequests'
  <2>1. \A t \in Servers : t # s => HeldBy(t)' = HeldBy(t)
    <3> TAKE t \in Servers
    <3> HAVE t # s
    <3>1. \A o \in Requests : t \in {rq'[o].server, release'[o]} <=> t \in {rq[o].server, release[o]}
      <4> TAKE o \in Requests
      <4>1. CASE o = r
        BY <1>0, <1>2, <1>3, <1>4, <4>1
      <4>2. CASE o # r
        BY <1>4, <4>2
      <4> QED BY <4>1, <4>2
    <3> QED BY <3>1 DEF HeldBy
  <2>2. HeldBy(s)' = HeldBy(s) \ {r} /\ r \in HeldBy(s)
    <3>1. \A o \in Requests : s \in {rq'[o].server, release'[o]} <=> s \in {rq[o].server, release[o]} /\ o # r
      <4> TAKE o \in Requests
      <4>1. CASE o = r
        BY <1>0, <1>2, <1>3, <1>4, <4>1
      <4>2. CASE o # r
        BY <1>4, <4>2
      <4> QED BY <4>1, <4>2
    <3>2. HeldBy(s)' = {o \in Requests : s \in {rq'[o].server, release'[o]}}
      BY DEF HeldBy
    <3>3. r \in HeldBy(s)
      BY <1>0 DEF HeldBy
    <3>4. HeldBy(s)' = HeldBy(s) \ {r}
      BY <3>1, <3>2 DEF HeldBy
    <3> QED BY <3>3, <3>4
  <2>3. Cardinality(HeldBy(s)') = Cardinality(HeldBy(s)) - 1
    BY <2>2, HeldByFinite, FS_RemoveElement
  <2>4. Cardinality(HeldBy(s)') \in Nat
    BY <2>2, HeldByFinite, FS_RemoveElement, FS_CardinalityType
  <2>5. \A t \in Pool : inflight[t] \in Nat /\ Cardinality(HeldBy(t)) \in Nat /\ t \in Servers
    BY HeldByFinite DEF IInv, TypeOK
  <2>6. ASSUME NEW t \in Pool
        PROVE  IF t \in Standalone THEN inflight'[t] = Cardinality(HeldBy(t)')
               ELSE inflight'[t] <= Cardinality(HeldBy(t)')
    <3>1. IF t \in Standalone THEN inflight[t] = Cardinality(HeldBy(t))
          ELSE inflight[t] <= Cardinality(HeldBy(t))
      BY DEF IInv, CountersFollowRequests
    <3>2. inflight[t] \in Nat /\ Cardinality(HeldBy(t)) \in Nat /\ t \in Servers
      BY <2>5
    <3>3. CASE t # s
      BY <2>1, <3>1, <3>2, <3>3
    <3>4. CASE t = s
      <4>1. inflight'[t] = IF inflight[t] > 0 THEN inflight[t] - 1 ELSE inflight[t]
        BY <3>4
      <4> DEFINE c == Cardinality(HeldBy(t))  d == Cardinality(HeldBy(t)')
      <4>2. c \in Nat /\ d \in Nat /\ d = c - 1
        BY <2>3, <2>4, <3>2, <3>4
      <4> HIDE DEF c, d
      <4>3. IF t \in Standalone THEN inflight[t] = c ELSE inflight[t] <= c
        BY <3>1 DEF c
      <4>4. IF t \in Standalone THEN inflight'[t] = d ELSE inflight'[t] <= d
        BY <3>2, <4>1, <4>2, <4>3
      <4> QED BY <4>4 DEF d
    <3> QED BY <3>3, <3>4
  <2> QED BY <1>5, <2>6 DEF CountersFollowRequests
<1> QED BY <1>6, <1>8, <1>9, <1>10 DEF IInv

-----------------------------------------------------------------------------
(* The theorems                                                             *)

\* Before the first synchronisation nothing runs.
LEMMA InitIInv == ASSUME Init PROVE IInv
<1> USE DEF Init
<1>1. Pool = Standalone /\ phase \in [at : Phases, left : SUBSET Servers, started : BOOLEAN]
  BY DEF Pool, Phases, Servers
<1>2. \A r \in Requests : /\ rq[r] = NewRequest /\ release[r] = None
                          /\ rq[r] \in RequestType /\ rq[r].pc = "start" /\ rq[r].server = None
                          /\ rq[r].tokens = <<>> /\ rq[r].low = None /\ rq[r].high = None
  BY DEF NewRequest, RequestType, Labels
<1>3. TypeOK
  <2>1. inflight \in [Pool -> Nat] /\ Pool \subseteq Servers
    BY <1>1 DEF Servers
  <2>2. Len(routes) <= CacheSize /\ routes \in Seq(Requests \X Servers)
    BY PoolAssumption
  <2>3. rq \in [Requests -> RequestType] /\ release \in [Requests -> Servers \cup {None}]
    BY <1>2
  <2>4. sv \in [Servers -> [paused : BOOLEAN, awake : BOOLEAN,
                         weights : Labels \cup {Mixed}, steps : Labels]]
    BY DEF Labels
  <2>5. version \in Versions
    BY PoolAssumption DEF Versions
  <2> QED BY <1>1, <2>1, <2>2, <2>3, <2>4, <2>5, PhasesAre DEF TypeOK, RequestType
<1>4. PhaseOK
  BY <1>1 DEF PhaseOK, Reached, Widened
<1>5. InterruptedOK
  BY DEF Interrupted, InterruptedOK, OwnInterrupted, HybridInterrupted, Servers
<1>6. LoadedOK
  BY PoolAssumption DEF LoadedOK, HybridLoaded, Servers
<1>7. CallsOK
  BY <1>2 DEF CallsOK, CallOf, HasServer
<1>8. ValidationOK
  BY <1>2 DEF ValidationOK, ValidationOf, Requests
<1>9. TokensOK /\ LabelsOK
  BY <1>2 DEF TokensOK, TokensOf, Merged, LabelsOK, LabelsOf
<1>10. LengthsOK /\ ExposureOK
  <2>1. \A r \in Requests : Allowance(r) \in Nat /\ 0 < Allowance(r)
    <3> TAKE r \in Requests
    <3>1. Budget \in Nat \ {0} /\ Room[r] \in Nat \ {0} /\ Ahead[r] \in Int
      BY PoolAssumption
    <3>2. Min({Budget, Room[r]}) \in Nat \ {0}
      <4>1. Budget \in Int /\ Room[r] \in Int
        BY <3>1
      <4>2. Min({Budget, Room[r]}) = IF Budget < Room[r] THEN Budget ELSE Room[r]
        BY <4>1, MinOfTwo
      <4> QED BY <3>1, <4>2
    <3> DEFINE m == Min({Ahead[r], Room[r]})
    <3>3. m \in Int
      <4>0. Room[r] \in Int
        BY <3>1
      <4>1. m = IF Ahead[r] < Room[r] THEN Ahead[r] ELSE Room[r]
        BY <3>1, <4>0, MinOfTwo
      <4> QED BY <3>1, <4>1
    <3> HIDE DEF m
    <3>4. Max({1, m}) \in Nat \ {0}
      BY <3>3, MaxOfTwo
    <3> QED BY <3>2, <3>4 DEF Allowance, m
  <2> QED BY <1>2, <2>1 DEF LengthsOK, LengthOf, ExposureOK
<1>11. CountersFollowRequests
  <2>1. \A s \in Standalone : s \in Servers /\ s # None
    BY PoolAssumption DEF Servers
  <2>2. \A s \in Standalone : HeldBy(s) = {}
    BY <1>2, <2>1 DEF HeldBy
  <2>3. \A s \in Standalone : inflight[s] = Cardinality(HeldBy(s))
    BY <2>2, FS_EmptySet
  <2> QED BY <1>1, <2>3 DEF CountersFollowRequests
<1> QED BY <1>3, <1>4, <1>5, <1>6, <1>7, <1>8, <1>9, <1>10, <1>11 DEF IInv, RequestsOK

\* Every step keeps the inductive invariant.
LEMMA StepIInv == ASSUME IInv, [Next]_vars PROVE IInv'
<1>1. CASE Trainer
  BY <1>1, StartSyncStep, AddReplicasStep, EndValidationStep, RemoveReplicasStep, AbortStep,
     BeginLoadStep, EndLoadStep, SetGlobalStepsStep, ResumeStep, SleepStep DEF Trainer
<1>2. ASSUME NEW r \in Requests, Client(r) PROVE IInv'
  BY <1>2, AcquireStep, MergeStep, FailStep, ReleaseStep DEF Client
<1>3. ASSUME NEW r \in Requests, Engine(r) PROVE IInv'
  BY <1>3, EnterStep, GenerateStep DEF Engine
<1>4. CASE UNCHANGED vars
  <2> USE <1>4 DEF vars, history
  <2>1. PhaseOK' /\ InterruptedOK' /\ LoadedOK' /\ Served' = Served
    BY TrainerKept DEF Pool
  <2>2. RequestsOK'
    <3>1. \A r \in Requests : rq[r].pc = "running" /\ r \notin exposed =>
            ~Interrupted(rq[r].server)' /\ sv'[rq[r].server].awake
      BY DEF IInv, RequestsOK, Interrupted, CallsOK, CallOf
    <3> QED BY <2>1, <3>1, RequestsKept
  <2>3. TypeOK'
    BY DEF IInv, TypeOK, Pool
  <2> QED BY <2>1, <2>2, <2>3, CountersKept DEF IInv
<1> QED BY <1>1, <1>2, <1>3, <1>4 DEF Next

\* The inductive invariant holds of every behaviour.
THEOREM Invariance == Spec => []IInv
<1>1. Init => IInv
  BY InitIInv
<1>2. IInv /\ [Next]_vars => IInv'
  BY StepIInv
<1> QED BY <1>1, <1>2, PTL DEF Spec

\* The types hold, and the cache of routes never exceeds its capacity
\* (GlobalRequestLoadBalancer.__init__, acquire_server).
THEOREM PoolTypes == Spec => []TypeOK
<1>1. IInv => TypeOK
  BY DEF IInv
<1> QED BY <1>1, Invariance, PTL

\* The in-flight counters of the balancer are exact for servers that stay in
\* the pool and never too high for those that come and go (acquire_server,
\* release_server, add_servers, remove_servers).
THEOREM Counters == Spec => []CountersFollowRequests
<1>1. IInv => CountersFollowRequests
  BY DEF IInv
<1> QED BY <1>1, Invariance, PTL

\* Where aborts pause the engine (vLLM >= 0.12) and none of them raises, no
\* request is ever in the engine of a server that an abort left open or not
\* empty: every request is shielded (abort_all_requests).
THEOREM NobodyExposed == Spec => [](setup.pausing /\ setup.erring = {} => Shielded = Requests)
<1>1. IInv => (setup.pausing /\ setup.erring = {} => Shielded = Requests)
  BY DEF IInv, RequestsOK, ExposureOK, Shielded
<1> QED BY <1>1, Invariance, PTL

\* No token of a shielded request is sampled from weights partly loaded or
\* released, wherever it is interrupted (update_weights, _trainer_side_validate).
THEOREM WholeWeights == Spec => []TokensFromWholeWeights
<1>1. IInv => TokensFromWholeWeights
  BY DEF IInv, RequestsOK, TokensFromWholeWeights, Shielded, TokensOK, TokensOf
<1> QED BY <1>1, Invariance, PTL

\* min_global_steps and max_global_steps of a shielded request that is finished
\* bracket the versions of its tokens (FullyAsyncLLMServerClient.generate).
THEOREM Labelled == Spec => []LabelsBracketTokens
<1>1. IInv => LabelsBracketTokens
  BY DEF IInv, RequestsOK, LabelsBracketTokens, Shielded, LabelsOK, LabelsOf
<1> QED BY <1>1, Invariance, PTL

\* However often it is resumed, and whether or not the agent loop sets
\* max_tokens, a request keeps to what it may get in all (generate of the client
\* and of the server).
THEOREM BudgetKept == Spec => []BudgetSurvivesResumption
<1>1. IInv => BudgetSurvivesResumption
  BY DEF IInv, RequestsOK, BudgetSurvivesResumption, LengthsOK, LengthOf
<1> QED BY <1>1, Invariance, PTL

\* A validation sees one version of the weights, and none of its requests is
\* cut or lost (_trainer_side_validate).
THEOREM OneVersion == Spec => []ValidationIsOfOneVersion
<1>1. IInv => ValidationIsOfOneVersion
  BY DEF IInv, RequestsOK, ValidationIsOfOneVersion, ValidationOK, ValidationOf
<1> QED BY <1>1, Invariance, PTL

\* A server outside the pool gets no request, whatever the cache of routes
\* still names (acquire_server).
THEOREM Withdrawn == Spec => WithdrawnGetsNothing
<1> DEFINE A == \A r \in Requests : rq[r].server = None /\ rq'[r].server # None
                  => rq'[r].server \in Pool
<1>1. ASSUME IInv, Next PROVE A
  <2> SUFFICES ASSUME NEW o \in Requests, rq[o].server = None, rq'[o].server # None
               PROVE  rq'[o].server \in Pool
    OBVIOUS
  <2>1. rq \in [Requests -> RequestType]
    BY <1>1 DEF IInv, TypeOK, RequestType
  <2>2. ASSUME NEW r \in Requests, Acquire(r) PROVE rq'[o].server \in Pool
    BY <2>1, <2>2, AcquiredIsInPool DEF Acquire, RequestType
  <2>3. ASSUME NEW r \in Requests, Merge(r) \/ Fail(r) PROVE FALSE
    <3>1. CASE Merge(r)
      <4>1. /\ rq'[r].server = None
            /\ \A x \in Requests \ {r} : rq'[x] = rq[x]
        <5>1. PICK p, l, h :
                rq' = [rq EXCEPT ![r].pc = p, ![r].server = None, ![r].base = 0,
                                 ![r].label = None, ![r].low = l, ![r].high = h]
          <6> DEFINE pp == IF \/ setup.limited /\ Len(rq[r].tokens) >= Budget
                              \/ rq[r].pc = "completed"
                              \/ ~PartialRollout
                           THEN "done" ELSE "start"
                     ll == IF rq[r].low = None THEN rq[r].label ELSE rq[r].low
          <6>1. rq' = [rq EXCEPT ![r].pc = pp, ![r].server = None, ![r].base = 0,
                                 ![r].label = None, ![r].low = ll, ![r].high = rq[r].label]
            BY <2>1, <3>1 DEF Merge, RequestType
          <6> HIDE DEF pp, ll
          <6> QED BY <6>1
        <5> QED BY <2>1, <5>1 DEF RequestType
      <4> QED BY <4>1
    <3>2. CASE Fail(r)
      BY <2>1, <3>2 DEF Fail, RequestType
    <3> QED BY <2>3, <3>1, <3>2
  <2>4. ASSUME NEW r \in Requests, Enter(r) PROVE FALSE
    BY <2>1, <2>4 DEF Enter, RequestType
  <2>5. ASSUME NEW r \in Requests, Generate(r) PROVE FALSE
    <3>1. rq'[r].server = rq[r].server /\ \A x \in Requests \ {r} : rq'[x] = rq[x]
      BY <1>1, <2>5, GenerateIs
    <3> QED BY <3>1
  <2>6. ASSUME NEW s \in Servers, Abort(s) PROVE FALSE
    <3>0. PICK paused \in BOOLEAN, cut \in SUBSET RunningOn(s) : AbortEnds(s, paused, cut)
      BY <1>1, <2>6, AbortIs
    <3>1. PICK unlabelled :
            rq' = [x \in Requests |->
                     IF x \in cut
                     THEN Answer(rq[x], "aborted", IF x \in unlabelled THEN None ELSE sv[s].steps)
                     ELSE rq[x]]
      BY <3>0 DEF AbortEnds
    <3>2. \A l : Answer(rq[o], "aborted", l).server = rq[o].server
      BY <2>1 DEF Answer, RequestType
    <3>3. rq'[o].server = rq[o].server
      BY <3>1, <3>2
    <3> QED BY <3>3
  <2>7. ASSUME UNCHANGED rq PROVE FALSE
    BY <2>7
  <2>8. Trainer => UNCHANGED rq \/ \E s \in Servers : Abort(s)
    BY DEF Trainer, StartSync, AddReplicas, EndValidation, RemoveReplicas, BeginLoad, EndLoad,
           SetGlobalSteps, Resume, Sleep
  <2>9. ASSUME NEW r \in Requests, Release(r) PROVE FALSE
    BY <2>7, <2>9 DEF Release
  <2> QED BY <1>1, <2>2, <2>3, <2>4, <2>5, <2>6, <2>7, <2>8, <2>9 DEF Next, Client, Engine
<1>2. IInv /\ [Next]_vars => [A]_vars
  BY <1>1
<1>3. Spec => [][A]_vars
  BY <1>2, Invariance, PTL DEF Spec
<1> QED BY <1>3 DEF WithdrawnGetsNothing
==============================================================================
