----------------------------- MODULE ServerPool -----------------------------
(* The inference servers of the fully asynchronous trainer, the load        *)
(* balancer in front of them, the clients that generate through it, and the *)
(* trainer that interrupts them to load new weights.                        *)
(*                                                                          *)
(*  - GlobalRequestLoadBalancer routes a request to a server: the one it    *)
(*    was routed to before if that one is still in the pool, else the one   *)
(*    with the fewest requests.  It is an actor: every call is one step.    *)
(*  - FullyAsyncLLMServerClient.generate acquires a server, calls it,       *)
(*    releases it without waiting, and starts over with the tokens it has   *)
(*    when the answer was aborted.                                          *)
(*  - The trainer aborts the standalone servers, loads the new version into *)
(*    each and resumes them.  To validate it wakes the hybrid servers on    *)
(*    its own GPUs, adds them to the pool, and takes them out afterwards.   *)
(*                                                                          *)
(* Three things differ from one installation to another and are fixed for   *)
(* a behaviour (setup): whether the agent loop sets max_tokens (limited),   *)
(* whether the vLLM version pauses an engine it aborts (pausing), and at    *)
(* which server and version an abort may raise (erring), which              *)
(* abort_all_requests logs and answers like any other.                      *)
(*                                                                          *)
(* A token is the version of the weights it was sampled from.               *)
EXTENDS Integers, Sequences, SequencesExt

CONSTANTS
  Standalone,      \* servers on GPUs of their own, always in the pool
  Hybrid,          \* servers on the trainer's GPUs, asleep but for validation
  Training,        \* requests of the agent loops
  Validation,      \* requests of the validation at a version
  ValidatedAt,     \* Validation -> version
  Setups,          \* the setups explored
  Budget,          \* max_tokens of a request, where the agent loop sets it
  Response,        \* rollout.response_length
  Ahead,           \* request -> prompt_length + response_length - its prompt's
  Room,            \* request -> tokens the context length leaves for answers
  CacheSize,       \* entries of the routing cache
  PartialRollout,  \* async_training.partial_rollout
  TestFreq,        \* trainer.test_freq
  MaxVersion,      \* bound: weight versions after the initial one
  None,            \* no server, no label, no weights
  Mixed            \* weights of which some tensors are loaded

Servers == Standalone \cup Hybrid
Requests == Training \cup Validation
Versions == 0..MaxVersion

ASSUME PoolAssumption ==
  /\ Standalone # {} /\ Hybrid # {} /\ Standalone \cap Hybrid = {}
  /\ Training \cap Validation = {} /\ IsFiniteSet(Requests)
  /\ ValidatedAt \in [Validation -> Versions]
  /\ Room \in [Requests -> Nat \ {0}] /\ Ahead \in [Requests -> Int]
  /\ Setups \subseteq [limited : BOOLEAN, pausing : BOOLEAN,
                     erring : SUBSET (Servers \X Versions)]
  /\ {Budget, Response, CacheSize, TestFreq} \subseteq Nat \ {0}
  /\ MaxVersion \in Nat
  /\ PartialRollout \in BOOLEAN
  /\ None \notin Servers \cup Versions /\ Mixed \notin Versions \cup {None}

VARIABLES
  inflight,  \* load balancer: server in the pool -> its counter
  routes,    \* load balancer: LRU cache of <<request, server>>, latest last
  rq,        \* the requests, with the client's and the server's view of them
  release,   \* request -> server of its release_server call under way, or None
  sv,        \* the servers
  phase,     \* where the trainer is
  version,   \* current_param_version
  setup,     \* the installation; never changes
  loose,     \* history: servers whose last abort left them open or not empty
  exposed    \* history: requests that have been in the engine of such a server

history == <<setup, loose, exposed>>
vars == <<inflight, routes, rq, release, sv, phase, version, history>>

-----------------------------------------------------------------------------
(* Load balancer                                                            *)

Pool == DOMAIN inflight

Routed(r) == {i \in DOMAIN routes : routes[i][1] = r}

\* Faulty variant: a stale entry is not checked against the pool.
StickyServersUnchecked(r) == {routes[i][2] : i \in Routed(r)}

\* The cached server of r, if it is still in the pool
StickyServers(r) == {routes[i][2] : i \in Routed(r)} \cap Pool

LeastLoaded == {s \in Pool : \A t \in Pool : inflight[s] <= inflight[t]}

\* The cache is keyed by request: the entries but that of r
OtherRoutes(r) ==
  IF Routed(r) = {} THEN routes ELSE RemoveAt(routes, CHOOSE i \in Routed(r) : TRUE)

\* Faulty variant: the cache never drops an entry.
CacheRouteForEver(r, s) == routes' = Append(OtherRoutes(r), <<r, s>>)

\* Store <<r, s>> as the latest entry; a full cache drops its oldest
CacheRoute(r, s) ==
  LET others == OtherRoutes(r)
      kept   == IF Len(others) >= CacheSize THEN Tail(others) ELSE others
  IN  routes' = Append(kept, <<r, s>>)

AcquireServer(r, s) ==
  /\ s \in (IF StickyServers(r) # {} THEN StickyServers(r) ELSE LeastLoaded)
  /\ CacheRoute(r, s)
  /\ inflight' = [inflight EXCEPT ![s] = @ + 1]

\* Faulty variant: the last request of a server is not counted down.
ReleaseServerButLast(s) ==
  inflight' = [t \in Pool |-> IF t = s /\ inflight[t] > 1
                              THEN inflight[t] - 1 ELSE inflight[t]]

ReleaseServer(s) ==
  inflight' = [t \in Pool |-> IF t = s /\ inflight[t] > 0
                              THEN inflight[t] - 1 ELSE inflight[t]]

\* FullyAsyncLLMServerManager.add_replicas and remove_replicas
AddServers(S) == inflight' = [s \in Pool \cup S |-> IF s \in S THEN 0 ELSE inflight[s]]
RemoveServers(S) == inflight' = [s \in Pool \ S |-> inflight[s]]

-----------------------------------------------------------------------------
(* Requests.  pc is                                                         *)
(*   "start"     about to acquire a server (first, or after the sleep)      *)
(*   "calling"   server.generate called; at the engine's gate if it paused  *)
(*   "running"   in the engine                                              *)
(*   "completed", "aborted"  the answer is on its way to the client         *)
(*   "raised"    the call raised                                            *)
(*   "done", "failed"                                                       *)

(* tokens are all it has so far, base how many it had before this call,     *)
(* label the version the answer carries, low and high what the client keeps *)
(* as min_global_steps and max_global_steps.                                *)

NewRequest == [pc |-> "start", server |-> None, tokens |-> <<>>, base |-> 0,
               label |-> None, low |-> None, high |-> None]

\* Faulty variant: the tokens of the calls before are not counted.
CallLimitOfPrompt(r) ==
  LET wanted == IF setup.limited THEN Budget ELSE Min({Response, Ahead[r]})
  IN  Max({1, Min({wanted, Room[r] - rq[r].base})})

\* max_tokens of this call: what the client left of the budget or, where the
\* agent loop sets none, the server's default for this prompt, which ends with
\* the tokens of the calls before; then the server clamps it.
CallLimit(r) ==
  LET base   == rq[r].base
      wanted == IF setup.limited THEN Budget - base
                ELSE Min({Response, Ahead[r] - base})
  IN  Max({1, Min({wanted, Room[r] - base})})

MayStart(r) ==
  IF r \in Training THEN phase.started
  ELSE phase.at = "validating" /\ version = ValidatedAt[r]

Acquire(r) ==
  /\ rq[r].pc = "start" /\ MayStart(r)
  /\ release[r] = None
  /\ \E s \in Servers :
       /\ AcquireServer(r, s)
       /\ rq' = [rq EXCEPT ![r].pc = "calling", ![r].server = s]
  /\ UNCHANGED <<release, sv, phase, version, history>>

\* A paused engine lets nobody in.  A call without room for one token, or to
\* an engine whose memory is released, raises.
Enter(r) ==
  LET s == rq[r].server IN
  /\ rq[r].pc = "calling" /\ ~sv[s].paused
  /\ rq' = [rq EXCEPT ![r].pc = IF sv[s].awake /\ Len(rq[r].tokens) < Room[r]
                                THEN "running" ELSE "raised",
                      ![r].base = Len(rq[r].tokens)]
  /\ exposed' = IF s \in loose THEN exposed \cup {r} ELSE exposed
  /\ UNCHANGED <<inflight, routes, release, sv, phase, version, setup, loose>>

Answer(q, reason, label) ==
  [q EXCEPT !.pc = reason, !.label = label]

\* One token more; the engine stops at the limit, or before it at an end of
\* text.  The server labels the answer with the version it was told last.  An
\* engine put to sleep under a request fails it.
Generate(r) ==
  LET s == rq[r].server
      q == [rq[r] EXCEPT !.tokens = Append(@, sv[s].weights)]
  IN
  /\ rq[r].pc = "running"
  /\ \/ /\ sv[s].awake /\ Len(q.tokens) - q.base < CallLimit(r)
        /\ rq' = [rq EXCEPT ![r] = q]
     \/ /\ sv[s].awake
        /\ rq' = [rq EXCEPT ![r] = Answer(q, "completed", sv[s].steps)]
     \/ /\ ~sv[s].awake
        /\ rq' = [rq EXCEPT ![r].pc = "raised"]
  /\ UNCHANGED <<inflight, routes, release, sv, phase, version, history>>

\* Faulty variant: min_global_steps is that of the last call.
MergeForgets(r) ==
  LET q == rq[r]
      over == \/ setup.limited /\ Len(q.tokens) >= Budget
              \/ q.pc = "completed" \/ ~PartialRollout
  IN
  /\ q.pc \in {"completed", "aborted"}
  /\ release' = [release EXCEPT ![r] = q.server]
  /\ rq' = [rq EXCEPT ![r].pc = IF over THEN "done" ELSE "start",
                      ![r].server = None, ![r].base = 0, ![r].label = None,
                      ![r].low = q.label, ![r].high = q.label]
  /\ UNCHANGED <<inflight, routes, sv, phase, version, history>>

\* The client merges the answer, sends the release and does not wait for it.
Merge(r) ==
  LET q == rq[r]
      over == \/ setup.limited /\ Len(q.tokens) >= Budget
              \/ q.pc = "completed"
              \/ ~PartialRollout
  IN
  /\ q.pc \in {"completed", "aborted"}
  /\ release' = [release EXCEPT ![r] = q.server]
  /\ rq' = [rq EXCEPT ![r].pc = IF over THEN "done" ELSE "start",
                      ![r].server = None, ![r].base = 0, ![r].label = None,
                      ![r].low = IF @ = None THEN q.label ELSE @,
                      ![r].high = q.label]
  /\ UNCHANGED <<inflight, routes, sv, phase, version, history>>

Fail(r) ==
  /\ rq[r].pc = "raised"
  /\ release' = [release EXCEPT ![r] = rq[r].server]
  /\ rq' = [rq EXCEPT ![r].pc = "failed", ![r].server = None]
  /\ UNCHANGED <<inflight, routes, sv, phase, version, history>>

\* The release arrives.  A client's own next acquire comes after it, as calls
\* of one worker to one actor keep their order.
Release(r) ==
  /\ release[r] # None
  /\ ReleaseServer(release[r])
  /\ release' = [release EXCEPT ![r] = None]
  /\ UNCHANGED <<routes, rq, sv, phase, version, history>>

-----------------------------------------------------------------------------
(* Trainer.  phase.at names the await it is at, and phase.left the servers  *)
(* the call under way has not reached: a gather calls them in any order.    *)

\* Faulty variant: the servers are resumed before they load.
SyncResumesFirst == <<"abort", "resume", "load">>

\* CheckpointEngineManager.update_weights, then _trainer_side_validate
Sync == <<"abort", "load", "resume">>

\* Faulty variant: the standalone servers stay paused after a validation.
ValidateAndLeave ==
  <<"wake", "abort_own", "abort_hybrid", "add", "resume_own",
    "resume_hybrid", "validating", "stop_own", "stop_hybrid", "remove",
    "sleep", "restart_hybrid">>

Validate == <<"wake", "abort_own", "abort_hybrid", "add", "resume_own",
              "resume_hybrid", "validating", "stop_own", "stop_hybrid",
              "remove", "sleep", "restart_own", "restart_hybrid">>

Reached(at) ==
  IF at \in {"wake", "abort_hybrid", "resume_hybrid", "stop_hybrid", "sleep",
             "restart_hybrid"}
  THEN Hybrid
  ELSE IF at \in {"add", "validating", "remove", "train"} THEN {} ELSE Standalone

\* At version 0 this is val_before_train.
NeedValidate == version % TestFreq = 0

After(at) ==
  LET plan == Sync \o (IF NeedValidate THEN Validate ELSE <<>>) \o <<"train">>
      i    == CHOOSE j \in DOMAIN plan : plan[j] = at
  IN  plan[i + 1]

GoTo(at) ==
  phase' = [at |-> at, left |-> Reached(at), started |-> phase.started \/ at = "train"]

DoneWith(s) ==
  IF phase.left = {s} THEN GoTo(After(phase.at))
  ELSE phase' = [phase EXCEPT !.left = @ \ {s}]

\* A new version.  A training step lasts longer than the delivery of a call.
StartSync ==
  /\ phase.at = "train" /\ version < MaxVersion
  /\ \A r \in Requests : rq[r].pc # "calling"
  /\ version' = version + 1
  /\ GoTo("abort")
  /\ UNCHANGED <<inflight, routes, rq, release, sv, history>>

RunningOn(s) == {r \in Requests : rq[r].pc = "running" /\ rq[r].server = s}

\* An abort of s ends: the requests in cut are answered with their tokens so
\* far.  An answer without tokens may carry no label.
AbortEnds(s, paused, cut) ==
  /\ sv' = [sv EXCEPT ![s].paused = paused]
  /\ \E unlabelled \in SUBSET {r \in cut : Len(rq[r].tokens) = rq[r].base} :
       rq' = [r \in Requests |->
                IF r \in cut
                THEN Answer(rq[r], "aborted",
                            IF r \in unlabelled THEN None ELSE sv[s].steps)
                ELSE rq[r]]
  /\ loose' = IF paused /\ cut = RunningOn(s) THEN loose \ {s} ELSE loose \cup {s}
  /\ exposed' = exposed \cup (RunningOn(s) \ cut)

\* abort_all_requests: the engine is paused and emptied.  Before vLLM 0.12 it
\* is emptied, not paused.  An exception anywhere in it is swallowed: the
\* engine may be left open, and any of its requests in it.
Abort(s) ==
  /\ phase.at \in {"abort", "abort_own", "abort_hybrid", "stop_own", "stop_hybrid"}
  /\ s \in phase.left
  /\ \/ AbortEnds(s, setup.pausing, RunningOn(s))
     \/ /\ <<s, version>> \in setup.erring
        /\ \E paused \in {setup.pausing, FALSE}, cut \in SUBSET RunningOn(s) :
             AbortEnds(s, paused, cut)
  /\ DoneWith(s)
  /\ UNCHANGED <<inflight, routes, release, version, setup>>

\* A server loads the weights tensor by tensor, then is told the version.
BeginLoad(s) ==
  /\ phase.at \in {"load", "wake"} /\ s \in phase.left
  /\ sv[s].weights \notin {Mixed, version}
  /\ sv' = [sv EXCEPT ![s].weights = Mixed, ![s].awake = TRUE]
  /\ UNCHANGED <<inflight, routes, rq, release, phase, version, history>>

EndLoad(s) ==
  /\ phase.at \in {"load", "wake"} /\ s \in phase.left
  /\ sv[s].weights = Mixed
  /\ sv' = [sv EXCEPT ![s].weights = version]
  /\ UNCHANGED <<inflight, routes, rq, release, phase, version, history>>

SetGlobalSteps(s) ==
  /\ phase.at \in {"load", "wake"} /\ s \in phase.left
  /\ sv[s].weights = version
  /\ sv' = [sv EXCEPT ![s].steps = version]
  /\ DoneWith(s)
  /\ UNCHANGED <<inflight, routes, rq, release, version, history>>

\* An engine that was not paused, or does not pause, stays as it is.
Resume(s) ==
  /\ phase.at \in {"resume", "resume_own", "resume_hybrid", "restart_own", "restart_hybrid"}
  /\ s \in phase.left
  /\ sv' = [sv EXCEPT ![s].paused = FALSE]
  /\ loose' = loose \ {s}
  /\ DoneWith(s)
  /\ UNCHANGED <<inflight, routes, rq, release, version, setup, exposed>>

AddReplicas ==
  /\ phase.at = "add"
  /\ AddServers(Hybrid)
  /\ GoTo(After("add"))
  /\ UNCHANGED <<routes, rq, release, sv, version, history>>

\* Faulty variant: validation is not awaited.
EndValidationEarly ==
  /\ phase.at = "validating"
  /\ GoTo(After("validating"))
  /\ UNCHANGED <<inflight, routes, rq, release, sv, version, history>>

EndValidation ==
  /\ phase.at = "validating"
  /\ \A r \in Validation : ValidatedAt[r] = version => rq[r].pc \in {"done", "failed"}
  /\ GoTo(After("validating"))
  /\ UNCHANGED <<inflight, routes, rq, release, sv, version, history>>

RemoveReplicas ==
  /\ phase.at = "remove"
  /\ RemoveServers(Hybrid)
  /\ GoTo(After("remove"))
  /\ UNCHANGED <<routes, rq, release, sv, version, history>>

\* The engine's memory goes back to the training engine.  The drain before it
\* is of data-parallel engines; a request left in the engine is not waited for.
Sleep(s) ==
  /\ phase.at = "sleep" /\ s \in phase.left
  /\ sv' = [sv EXCEPT ![s].awake = FALSE, ![s].weights = None]
  /\ DoneWith(s)
  /\ UNCHANGED <<inflight, routes, rq, release, version, history>>

-----------------------------------------------------------------------------
Init ==
  /\ inflight = [s \in Standalone |-> 0]
  /\ routes = <<>>
  /\ rq = [r \in Requests |-> NewRequest]
  /\ release = [r \in Requests |-> None]
  /\ sv = [s \in Servers |-> [paused |-> FALSE, awake |-> s \in Standalone,
                              weights |-> None, steps |-> None]]
  /\ phase = [at |-> "abort", left |-> Standalone, started |-> FALSE]
  /\ version = 0
  /\ setup \in Setups
  /\ loose = {} /\ exposed = {}

Client(r) == Acquire(r) \/ Merge(r) \/ Fail(r) \/ Release(r)
Engine(r) == Enter(r) \/ Generate(r)
Trainer ==
  \/ StartSync \/ AddReplicas \/ EndValidation \/ RemoveReplicas
  \/ \E s \in Servers : \/ Abort(s) \/ BeginLoad(s) \/ EndLoad(s)
                        \/ SetGlobalSteps(s) \/ Resume(s) \/ Sleep(s)

Next == Trainer \/ \E r \in Requests : Client(r) \/ Engine(r)

Spec == Init /\ [][Next]_vars

\* Tasks and actors are scheduled and calls are delivered; the engine makes
\* progress on a request it runs.
FairSpec ==
  /\ Spec
  /\ WF_vars(Trainer)
  /\ \A r \in Requests : WF_vars(Client(r) \/ Engine(r))

-----------------------------------------------------------------------------
(* Properties                                                               *)

Labels == Versions \cup {None}

\* The types; the routing cache never holds more than its capacity.
TypeOK ==
  /\ Pool \subseteq Servers /\ inflight \in [Pool -> Nat]
  /\ Len(routes) <= CacheSize /\ routes \in Seq(Requests \X Servers)
  /\ rq \in [Requests ->
       [pc : {"start", "calling", "running", "completed", "aborted", "raised",
              "done", "failed"},
        server : Servers \cup {None}, tokens : Seq(Labels \cup {Mixed}),
        base : Nat, label : Labels, low : Labels, high : Labels]]
  /\ release \in [Requests -> Servers \cup {None}]
  /\ sv \in [Servers -> [paused : BOOLEAN, awake : BOOLEAN,
                         weights : Labels \cup {Mixed}, steps : Labels]]
  /\ phase.at \in {Sync[i] : i \in DOMAIN Sync} \cup {Validate[i] : i \in DOMAIN Validate}
                  \cup {"train"}
  /\ phase.left \subseteq Servers
  /\ version \in Versions
  /\ setup \in Setups /\ loose \subseteq Servers /\ exposed \subseteq Requests

\* Requests the load balancer should count on s: a server is held until its
\* release arrives.
HeldBy(s) == {r \in Requests : s \in {rq[r].server, release[r]}}

\* The counters the routing relies on: exact for a server that stays in the
\* pool; a server that was taken out and added again may be undercounted
\* (releases of its former life arrive late) but never overcounted, which
\* would starve it (acquire_server, release_server, add_servers).
CountersFollowRequests ==
  \A s \in Pool :
    IF s \in Standalone THEN inflight[s] = Cardinality(HeldBy(s))
    ELSE inflight[s] <= Cardinality(HeldBy(s))

\* Requests that have never been in an engine an abort left open or not empty:
\* all of them, where aborts pause the engine and none raises
\* (abort_all_requests; see NobodyExposed in ServerPool_proofs).
Shielded == Requests \ exposed

\* Whatever is interrupted where, no token of a shielded request is sampled
\* from weights that are partly loaded or released (update_weights,
\* sleep_replicas).
TokensFromWholeWeights ==
  \A r \in Shielded : \A i \in DOMAIN rq[r].tokens : rq[r].tokens[i] \in Versions

\* min_global_steps and max_global_steps of a finished request, from which its
\* staleness is computed, bracket the versions of all its tokens, and the
\* latter is the version of the last: a shielded request never goes back to
\* older weights, on whatever server it is resumed.  (Without partial rollout
\* a request cut before its first token ends with neither tokens nor labels.)
LabelsBracketTokens ==
  \A r \in Shielded :
    LET t == rq[r].tokens IN
    rq[r].pc = "done" /\ (PartialRollout \/ t # <<>>) =>
    /\ {rq[r].low, rq[r].high} \subseteq Versions
    /\ \A i \in DOMAIN t : rq[r].low <= t[i] /\ t[i] <= rq[r].high
    /\ rq[r].high = Last(t)

\* The tokens r may get in all its calls together
Allowance(r) ==
  IF setup.limited THEN Min({Budget, Room[r]})
  ELSE Max({1, Min({Ahead[r], Room[r]})})

\* However often it is cut, and whoever sets the limit of a call, a request
\* gets no more tokens than its budget (without one: prompt_length +
\* response_length) and the context allow, and a resumed call always has room
\* for one.  (Without a budget a resumed call gets response_length again: that
\* alone bounds a call, not an answer.)
BudgetSurvivesResumption ==
  \A r \in Requests :
    /\ Len(rq[r].tokens) <= Allowance(r)
    /\ rq[r].pc = "start" => Len(rq[r].tokens) < Allowance(r)

\* A validation reports on one version: its requests run, on whatever server,
\* with the weights being validated, and none is cut or lost.
ValidationIsOfOneVersion ==
  \A r \in Validation :
    /\ rq[r].pc # "failed" /\ rq[r].low = rq[r].high
    /\ \A i \in DOMAIN rq[r].tokens : rq[r].tokens[i] = ValidatedAt[r]

\* A server that is not in the pool gets no request, though the routing cache
\* still names it (acquire_server's check of a stale entry).
WithdrawnGetsNothing ==
  [][\A r \in Requests : rq[r].server = None /\ rq'[r].server # None
       => rq'[r].server \in Pool]_vars

\* Interrupted, resumed or refused, every request ends, and the trainer gets
\* through every synchronisation and validation.
AllEnd ==
  <>(/\ \A r \in Requests : rq[r].pc \in {"done", "failed"}
     /\ phase.at = "train" /\ version = MaxVersion)
=============================================================================
