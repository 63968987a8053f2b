----------------------------- MODULE Dispatcher -----------------------------
(***************************************************************************)
(* utils/toolchain/executor/dispatcher.go with the components it is given: *)
(* the fair queue (FairQueue.tla), the query result cache, singleflight,   *)
(* the ants worker pool, the rate limiter and the callers' contexts.       *)
(*                                                                         *)
(* A call of Execute is a process (caller), the closure it enqueues runs   *)
(* on a pool worker (worker), and go drain() moves closures from the queue *)
(* to the pool.  Every dispatcher built over the same DispatchOptions      *)
(* shares all of them; only its draining flag is its own.                  *)
(***************************************************************************)
EXTENDS Naturals, Sequences, FiniteSets

CONSTANTS
  Users, Anonymous, Blank, RawNames, TrimSpace,  \* as in FairQueue
  Calls,         \* calls of Execute with a registered tool, each made once
  CallerName,    \* CallerName[c]: the user name c passes
  Kind,          \* Kind[c]: "query", "mutation" or "llm"
  Keys,          \* result cache keys
  Key,           \* Key[c]: the key of c's user, tool and arguments
  Dispatchers,   \* dispatchers that share queue, pool, cache, limiter
  DispatcherOf,  \* DispatcherOf[c]
  Drains,        \* bound: drain goroutines alive at once, numbered
  PoolSize,      \* workers of the ants pool
  Cancellable,   \* bound: calls whose context may end: cancelled or past its deadline
  Unencodable,   \* bound: queries whose result may not encode as JSON
  Expires,       \* bound: cached results may expire or be evicted
  ShutsDown,     \* bound: the pool may be released
  NoCall

ASSUME DispatcherAssumption ==
  /\ Anonymous \in Users /\ Blank \notin Users
  /\ TrimSpace \in [RawNames -> Users \cup {Blank}]
  /\ CallerName \in [Calls -> RawNames]
  /\ Kind \in [Calls -> {"query", "mutation", "llm"}]
  /\ Key \in [Calls -> Keys]
  /\ DispatcherOf \in [Calls -> Dispatchers]
  /\ Drains \subseteq Nat
  /\ PoolSize \in Nat \ {0}
  /\ Cancellable \subseteq Calls /\ Unencodable \subseteq {c \in Calls : Kind[c] = "query"}
  /\ Expires \in BOOLEAN /\ ShutsDown \in BOOLEAN
  /\ NoCall \notin Calls

VARIABLES
  queues, readyUsers, inReady, pendingCount,  \* the shared fair queue
  caller,    \* where each call of Execute stands
  ctxDone,   \* calls whose context is cancelled
  reply,     \* what Execute is about to return, or has returned
  done,      \* done[c]: the outcome channel of enqueueAndWait, capacity 1
  flight,    \* flight[k]: the call singleflight runs for k, or NoCall
  cache,     \* cache[k]: the call whose result is cached for k, or NoCall
  draining,  \* draining[d]: the flag of dispatcher d
  drain,     \* the drain goroutines
  worker,    \* where each call's closure stands once submitted
  poolOpen,  \* the ants pool has not been released
  version,   \* how many mutations have changed the data
  seen,      \* seen[c]: the data version c's handler read or produced
  before,    \* history, before[c]: the mutations that had returned when c was made
  open       \* history, open[m]: the calls under way when mutation m had cleared the cache

Q == INSTANCE FairQueue WITH Jobs <- Calls

queueVars == <<queues, readyUsers, inReady, pendingCount>>
callerVars == <<caller, reply>>
drainVars == <<draining, drain>>
dataVars == <<version, seen>>
vars == <<queueVars, callerVars, drainVars, dataVars, ctxDone, done, flight,
          cache, worker, poolOpen, before, open>>

Nothing == [status |-> "none", by |-> NoCall]
Failed == [status |-> "error", by |-> NoCall]
Ok(c) == [status |-> "ok", by |-> c]

Off == [pc |-> "off", owner |-> NoCall, job |-> NoCall]

Init ==
  /\ Q!QueueInit
  /\ caller = [c \in Calls |-> "idle"]
  /\ ctxDone = {}
  /\ reply = [c \in Calls |-> Nothing]
  /\ done = [c \in Calls |-> Nothing]
  /\ flight = [k \in Keys |-> NoCall]
  /\ cache = [k \in Keys |-> NoCall]
  /\ draining = [d \in Dispatchers |-> FALSE]
  /\ drain = [g \in Drains |-> Off]
  /\ worker = [c \in Calls |-> "none"]
  /\ poolOpen = TRUE
  /\ version = 0
  /\ seen = [c \in Calls |-> 0]
  /\ before = [c \in Calls |-> {}]
  /\ open = [c \in Calls |-> {}]

Goto(c, pc) == caller' = [caller EXCEPT ![c] = pc]
Answer(c, outcome) == reply' = [reply EXCEPT ![c] = outcome]

-----------------------------------------------------------------------------
(* Execute and loadOrStore                                                 *)

ReturnedMutations ==
  {m \in Calls : Kind[m] = "mutation" /\ caller[m] = "returned" /\ reply[m].status = "ok"}

\* Only queries look at the cache; the other kinds go to the queue directly.
Execute(c) ==
  /\ caller[c] = "idle"
  /\ IF Kind[c] = "query" /\ cache[Key[c]] # NoCall
     THEN Goto(c, "returned") /\ Answer(c, Ok(cache[Key[c]]))
     ELSE /\ Goto(c, IF Kind[c] = "query" THEN "flight" ELSE "enqueue")
          /\ UNCHANGED reply
  /\ before' = [before EXCEPT ![c] = ReturnedMutations]
  /\ UNCHANGED <<queueVars, drainVars, dataVars, ctxDone, done, flight, cache,
                 worker, poolOpen, open>>

\* Mutation: every caller loads for itself.
JoinFlightAlone(c) ==
  /\ caller[c] = "flight"
  /\ Goto(c, "recheck") /\ flight' = [flight EXCEPT ![Key[c]] = c]
  /\ UNCHANGED <<queueVars, reply, drainVars, dataVars, ctxDone, done, cache,
                 worker, poolOpen, before, open>>

\* singleflight.Do: the first caller of a key runs the load, the others wait
\* for its result.
JoinFlight(c) ==
  /\ caller[c] = "flight"
  /\ IF flight[Key[c]] = NoCall
     THEN Goto(c, "recheck") /\ flight' = [flight EXCEPT ![Key[c]] = c]
     ELSE Goto(c, "follow") /\ UNCHANGED flight
  /\ UNCHANGED <<queueVars, reply, drainVars, dataVars, ctxDone, done, cache,
                 worker, poolOpen, before, open>>

Recheck(c) ==
  /\ caller[c] = "recheck"
  /\ IF cache[Key[c]] # NoCall
     THEN Goto(c, "leave") /\ Answer(c, Ok(cache[Key[c]]))
     ELSE Goto(c, "enqueue") /\ UNCHANGED reply
  /\ UNCHANGED <<queueVars, drainVars, dataVars, ctxDone, done, flight, cache,
                 worker, poolOpen, before, open>>

\* cache.Set with the loaded result.
Store(c) ==
  /\ caller[c] = "store"
  /\ cache' = [cache EXCEPT ![Key[c]] = reply[c].by]
  /\ Goto(c, "leave")
  /\ UNCHANGED <<queueVars, reply, drainVars, dataVars, ctxDone, done, flight,
                 worker, poolOpen, before, open>>

\* singleflight deletes the key and hands the leader's result, or its error,
\* to every follower.
LeaveFlight(c) ==
  LET followers == {f \in Calls : caller[f] = "follow" /\ Key[f] = Key[c]} IN
  /\ caller[c] = "leave"
  /\ flight' = [flight EXCEPT ![Key[c]] = NoCall]
  /\ caller' = [f \in Calls |->
                  IF f = c \/ f \in followers THEN "returned" ELSE caller[f]]
  /\ reply' = [f \in Calls |-> IF f \in followers THEN reply[c] ELSE reply[f]]
  /\ UNCHANGED <<queueVars, drainVars, dataVars, ctxDone, done, cache, worker,
                 poolOpen, before, open>>

-----------------------------------------------------------------------------
(* enqueueAndWait                                                          *)

EnqueueCall(c) ==
  /\ caller[c] = "enqueue"
  /\ Q!EnqueueJob(CallerName[c], c)
  /\ Goto(c, "signal")
  /\ UNCHANGED <<reply, drainVars, dataVars, ctxDone, done, flight, cache,
                 worker, poolOpen, before, open>>

\* startDraining, under schedulerMu: at most one drain per dispatcher.
startDraining(d) ==
  \/ draining[d] /\ UNCHANGED drainVars
  \/ /\ ~draining[d]
     /\ draining' = [draining EXCEPT ![d] = TRUE]
     /\ \E g \in Drains :
          /\ drain[g] = Off /\ \A h \in Drains : drain[h] = Off => g <= h
          /\ drain' = [drain EXCEPT ![g] = [pc |-> "loop", owner |-> d, job |-> NoCall]]

Signal(c) ==
  /\ caller[c] = "signal"
  /\ startDraining(DispatcherOf[c])
  /\ Goto(c, "wait")
  /\ UNCHANGED <<queueVars, reply, dataVars, ctxDone, done, flight, cache,
                 worker, poolOpen, before, open>>

\* The result of enqueueAndWait: a query's load stores a success, if it encodes as
\* JSON; every other outcome is what Execute returns.  What was encoded decodes.
Conclude(c, outcome) ==
  \/ /\ Answer(c, outcome)
     /\ Goto(c, CASE Kind[c] # "query" -> "returned"
                  [] Kind[c] = "query" /\ outcome.status = "ok" -> "store"
                  [] OTHER -> "leave")
  \/ /\ c \in Unencodable /\ outcome.status = "ok"
     /\ Answer(c, Failed) /\ Goto(c, "leave")

Receive(c) ==
  /\ caller[c] = "wait"
  /\ done[c] # Nothing
  /\ done' = [done EXCEPT ![c] = Nothing]
  /\ Conclude(c, done[c])
  /\ UNCHANGED <<queueVars, drainVars, dataVars, ctxDone, flight, cache, worker,
                 poolOpen, before, open>>

\* The select takes ctx.Done(): the caller goes, its closure stays where it is.
GiveUp(c) ==
  /\ caller[c] = "wait"
  /\ c \in ctxDone
  /\ Conclude(c, Failed)
  /\ UNCHANGED <<queueVars, drainVars, dataVars, ctxDone, done, flight, cache,
                 worker, poolOpen, before, open>>

-----------------------------------------------------------------------------
(* drain                                                                   *)

\* finish: a send that never blocks and keeps the first outcome.
finish(c, outcome) ==
  done' = IF done[c] = Nothing THEN [done EXCEPT ![c] = outcome] ELSE done

DrainDequeue(g) ==
  /\ drain[g].pc = "loop"
  /\ \/ \E user \in Users, job \in Calls :
          /\ Q!Dequeue(user, job)
          /\ drain' = [drain EXCEPT ![g].pc = "submit", ![g].job = job]
     \/ Q!DequeueNothing /\ drain' = [drain EXCEPT ![g].pc = "exit"]
  /\ UNCHANGED <<callerVars, draining, dataVars, ctxDone, done, flight, cache,
                 worker, poolOpen, before, open>>

Running == {c \in Calls : worker[c] \in
              {"started", "handler", "returning", "clear"}}

\* Mutation: a job the pool has taken is submitted again.
DrainSubmitAgain(g) ==
  /\ drain[g].pc = "submit"
  /\ poolOpen /\ Cardinality(Running) < PoolSize
  /\ worker' = [worker EXCEPT ![drain[g].job] = "started"]
  /\ UNCHANGED <<queueVars, callerVars, drainVars, dataVars, ctxDone, done,
                 flight, cache, poolOpen, before, open>>

\* pool.Submit blocks while every worker is busy.
DrainSubmit(g) ==
  /\ drain[g].pc = "submit"
  /\ poolOpen /\ Cardinality(Running) < PoolSize
  /\ worker' = [worker EXCEPT ![drain[g].job] = "started"]
  /\ drain' = [drain EXCEPT ![g].pc = "loop", ![g].job = NoCall]
  /\ UNCHANGED <<queueVars, callerVars, draining, dataVars, ctxDone, done,
                 flight, cache, poolOpen, before, open>>

\* Mutation: the refused job is dropped.
DrainRejectSilently(g) ==
  /\ drain[g].pc = "submit"
  /\ ~poolOpen
  /\ worker' = [worker EXCEPT ![drain[g].job] = "rejected"]
  /\ drain' = [drain EXCEPT ![g].pc = "loop", ![g].job = NoCall]
  /\ UNCHANGED <<queueVars, callerVars, draining, dataVars, ctxDone, done, flight,
                 cache, poolOpen, before, open>>

\* pool.Submit on a released pool: OnRejected.
DrainReject(g) ==
  /\ drain[g].pc = "submit"
  /\ ~poolOpen
  /\ worker' = [worker EXCEPT ![drain[g].job] = "rejected"]
  /\ finish(drain[g].job, Failed)
  /\ drain' = [drain EXCEPT ![g].pc = "loop", ![g].job = NoCall]
  /\ UNCHANGED <<queueVars, callerVars, draining, dataVars, ctxDone, flight,
                 cache, poolOpen, before, open>>

\* Mutation: the flag falls without a second look at the queue.
DrainExitBlind(g) ==
  /\ drain[g].pc = "exit"
  /\ draining' = [draining EXCEPT ![drain[g].owner] = FALSE]
  /\ drain' = [drain EXCEPT ![g] = Off]
  /\ UNCHANGED <<queueVars, callerVars, dataVars, ctxDone, done, flight, cache,
                 worker, poolOpen, before, open>>

\* The deferred function, under schedulerMu: the flag falls and Pending is
\* read before anyone else can look at the flag.
DrainExit(g) ==
  /\ drain[g].pc = "exit"
  /\ draining' = [draining EXCEPT ![drain[g].owner] = FALSE]
  /\ drain' = IF Q!Pending > 0 THEN [drain EXCEPT ![g].pc = "rearm"]
              ELSE [drain EXCEPT ![g] = Off]
  /\ UNCHANGED <<queueVars, callerVars, dataVars, ctxDone, done, flight, cache,
                 worker, poolOpen, before, open>>

\* Its last call, startDraining: this goroutine ends and, unless another drain
\* has begun meanwhile, a new one takes its place.
DrainRearm(g) ==
  LET d == drain[g].owner IN
  /\ drain[g].pc = "rearm"
  /\ draining' = [draining EXCEPT ![d] = TRUE]
  /\ drain' = IF draining[d] THEN [drain EXCEPT ![g] = Off]
              ELSE [drain EXCEPT ![g].pc = "loop"]
  /\ UNCHANGED <<queueVars, callerVars, dataVars, ctxDone, done, flight, cache,
                 worker, poolOpen, before, open>>

-----------------------------------------------------------------------------
(* Job.Run on a pool worker                                                *)

End(c, how, outcome) ==
  /\ worker' = [worker EXCEPT ![c] = how]
  /\ finish(c, outcome)

\* ctx.Err(), then limiter.Wait(ctx): both fail on a context that has ended, the
\* second also when its deadline comes before the next token; one that ends after
\* they have passed goes unnoticed here.
RunChecks(c) ==
  /\ worker[c] = "started"
  /\ \/ worker' = [worker EXCEPT ![c] = "handler"] /\ UNCHANGED done
     \/ c \in Cancellable /\ End(c, "failed", Failed)
  /\ UNCHANGED <<queueVars, callerVars, drainVars, dataVars, ctxDone, flight,
                 cache, poolOpen, before, open>>

\* registry.Call reaches the data: a query reads it, a mutation commits.
Handle(c) ==
  /\ worker[c] = "handler"
  /\ version' = IF Kind[c] = "mutation" THEN version + 1 ELSE version
  /\ seen' = [seen EXCEPT ![c] = version']
  /\ worker' = [worker EXCEPT ![c] = "returning"]
  /\ UNCHANGED <<queueVars, callerVars, drainVars, ctxDone, done, flight, cache,
                 poolOpen, before, open>>

\* Mutation: the result is handed over before the cache is cleared.
HandlerReturnsEarly(c) ==
  /\ worker[c] = "returning"
  /\ IF Kind[c] = "mutation"
     THEN End(c, "clear", Ok(c))
     ELSE End(c, "succeeded", Ok(c))
  /\ UNCHANGED <<queueVars, callerVars, drainVars, dataVars, ctxDone, flight,
                 cache, poolOpen, before, open>>

\* registry.Call returns; only a successful mutation goes on to clear.
HandlerReturns(c) ==
  /\ worker[c] = "returning"
  /\ IF Kind[c] = "mutation"
     THEN worker' = [worker EXCEPT ![c] = "clear"] /\ UNCHANGED done
     ELSE End(c, "succeeded", Ok(c))
  /\ UNCHANGED <<queueVars, callerVars, drainVars, dataVars, ctxDone, flight,
                 cache, poolOpen, before, open>>

\* The handler fails or panics, before or after it has reached the data.
HandlerFails(c) ==
  /\ worker[c] \in {"handler", "returning"}
  /\ End(c, "failed", Failed)
  /\ UNCHANGED <<queueVars, callerVars, drainVars, dataVars, ctxDone, flight,
                 cache, poolOpen, before, open>>

UnderWay == {c \in Calls : caller[c] \notin {"idle", "returned"}}

\* Mutation: only the mutation's own key is cleared.
ClearOwnKey(c) ==
  /\ worker[c] = "clear"
  /\ cache' = [cache EXCEPT ![Key[c]] = NoCall]
  /\ open' = [open EXCEPT ![c] = UnderWay]
  /\ End(c, "succeeded", Ok(c))
  /\ UNCHANGED <<queueVars, callerVars, drainVars, dataVars, ctxDone, flight,
                 poolOpen, before>>

\* cache.Clear() and then finish.
ClearCache(c) ==
  /\ worker[c] = "clear"
  /\ cache' = [k \in Keys |-> NoCall]
  /\ open' = [open EXCEPT ![c] = UnderWay]
  /\ End(c, "succeeded", Ok(c))
  /\ UNCHANGED <<queueVars, callerVars, drainVars, dataVars, ctxDone, flight,
                 poolOpen, before>>

-----------------------------------------------------------------------------
(* The environment                                                         *)

Cancel(c) ==
  /\ c \in Cancellable \ ctxDone
  /\ caller[c] \notin {"idle", "returned"}
  /\ ctxDone' = ctxDone \cup {c}
  /\ UNCHANGED <<queueVars, callerVars, drainVars, dataVars, done, flight, cache,
                 worker, poolOpen, before, open>>

\* A cached result reaches its expiry, or is evicted by capacity.
Expire(k) ==
  /\ Expires /\ cache[k] # NoCall
  /\ cache' = [cache EXCEPT ![k] = NoCall]
  /\ UNCHANGED <<queueVars, callerVars, drainVars, dataVars, ctxDone, done,
                 flight, worker, poolOpen, before, open>>

\* The shutdown path of initialize/bootstrap.go.
ReleasePool ==
  /\ ShutsDown /\ poolOpen
  /\ poolOpen' = FALSE
  /\ UNCHANGED <<queueVars, callerVars, drainVars, dataVars, ctxDone, done,
                 flight, cache, worker, before, open>>

CallerStep(c) ==
  \/ JoinFlight(c) \/ Recheck(c) \/ Store(c) \/ LeaveFlight(c)
  \/ EnqueueCall(c) \/ Signal(c) \/ Receive(c) \/ GiveUp(c)

WorkerStep(c) ==
  \/ RunChecks(c) \/ Handle(c) \/ HandlerReturns(c) \/ HandlerFails(c)
  \/ ClearCache(c)

DrainStep(g) ==
  \/ DrainDequeue(g) \/ DrainSubmit(g) \/ DrainReject(g) \/ DrainExit(g)
  \/ DrainRearm(g)

Next ==
  \/ \E c \in Calls : Execute(c) \/ CallerStep(c) \/ WorkerStep(c) \/ Cancel(c)
  \/ \E g \in Drains : DrainStep(g)
  \/ \E k \in Keys : Expire(k)
  \/ ReleasePool

\* Goroutines are scheduled; a handler ends (its context, the LLM client and
\* the WebSocket broker have timeouts) and the limiter hands out tokens.
Fairness ==
  /\ \A c \in Calls : WF_vars(CallerStep(c)) /\ WF_vars(WorkerStep(c))
  /\ \A g \in Drains : WF_vars(DrainStep(g))

Spec == Init /\ [][Next]_vars
FairSpec == Spec /\ Fairness
-----------------------------------------------------------------------------
Outcomes == [status : {"none", "ok", "error"}, by : Calls \cup {NoCall}]

TypeOK ==
  /\ Q!QueueTypeOK
  /\ caller \in [Calls -> {"idle", "flight", "recheck", "follow", "enqueue",
                           "signal", "wait", "store", "leave", "returned"}]
  /\ ctxDone \subseteq Calls
  /\ reply \in [Calls -> Outcomes]
  /\ done \in [Calls -> Outcomes]
  /\ flight \in [Keys -> Calls \cup {NoCall}]
  /\ cache \in [Keys -> Calls \cup {NoCall}]
  /\ draining \in [Dispatchers -> BOOLEAN]
  /\ drain \in [Drains -> [pc : {"off", "loop", "submit", "exit", "rearm"},
                           owner : Dispatchers \cup {NoCall},
                           job : Calls \cup {NoCall}]]
  /\ worker \in [Calls -> {"none", "started", "handler", "returning", "clear", "succeeded",
                           "failed", "rejected"}]
  /\ poolOpen \in BOOLEAN
  /\ version \in Nat
  /\ seen \in [Calls -> Nat]
  /\ before \in [Calls -> SUBSET Calls] /\ open \in [Calls -> SUBSET Calls]

\* No lost wakeup: while a job waits in the shared queue, some drain will come
\* back to it or some caller is about to start one.
SomeoneWillDrain ==
  pendingCount > 0 =>
    \/ \E g \in Drains : drain[g] # Off
    \/ \E c \in Calls : caller[c] = "signal"

\* A closure is in one place only (queued, in a drain's hand, submitted), and
\* while its caller waits it is in exactly one: never lost, never run twice.
PlacesOf(c) ==
  {p \in Q!Waiting : queues[p[1]][p[2]] = c}
    \cup {g \in Drains : drain[g].job = c}
    \cup {w \in {c} : worker[c] # "none"}

JobIsInOnePlace ==
  \A c \in Calls :
    /\ Cardinality(PlacesOf(c)) <= 1
    /\ caller[c] \in {"signal", "wait"} => PlacesOf(c) # {}

\* singleflight: two live calls never load the same key at once.  (A load
\* whose caller was cancelled goes on in the pool beside the next one.)
OneLoadPerKey ==
  \A c, d \in Running \ ctxDone :
    Kind[c] = "query" /\ Kind[d] = "query" /\ Key[c] = Key[d] => c = d

\* After a mutation has returned success, a cached result older than it can
\* only be that of a call which was under way at the mutation's Clear and was
\* stored after it; every other query cache entry is fresh.
StaleOnlyByOverlap ==
  \A m \in Calls, k \in Keys :
    /\ Kind[m] = "mutation" /\ caller[m] = "returned" /\ reply[m].status = "ok"
    /\ cache[k] # NoCall /\ seen[cache[k]] < seen[m]
    => cache[k] \in open[m]

\* An error reaches a caller only from a cancelled context, a failed handler, a
\* refused job or a result that does not encode: its own, or that of the call whose
\* flight it shared.
ErrorHasCause ==
  \A c \in Calls : reply[c].status = "error" =>
    \E d \in Calls :
      /\ \/ d = c
         \/ Kind[c] = "query" /\ Kind[d] = "query" /\ Key[d] = Key[c]
      /\ \/ d \in ctxDone \/ worker[d] \in {"failed", "rejected"}
         \/ d \in Unencodable /\ worker[d] = "succeeded"

\* How this looks to those who make the calls (ToolCalls).
Asked == {c \in Calls : caller[c] # "idle"}
Answers == [c \in Calls |-> IF caller[c] = "returned" THEN reply[c] ELSE Nothing]
Stage(pc) ==
  CASE pc \in {"returning", "clear"} -> "reached"
    [] pc = "succeeded" -> "succeeded"
    [] pc \in {"failed", "rejected"} -> "failed"
    [] OTHER -> "none"
Work == [c \in Calls |-> Stage(worker[c])]

Promise ==
  INSTANCE ToolCalls WITH
    asked <- Asked, answer <- Answers, cancelled <- ctxDone, work <- Work

\* Whose result a call returns, and how old it may be: its own handler's or that of
\* another query of its key, which ran once, and no older than the mutations that had
\* returned before the call, unless it or the flight it shares overlapped them.
KeepsItsPromise == Promise!Spec

\* Every Execute returns, the pool released or not: each call is made once, so a
\* moment comes when none of those made is still under way.
EveryCallReturns == (UnderWay # {}) ~> (UnderWay = {})
=============================================================================
