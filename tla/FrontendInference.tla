------------------------- MODULE FrontendInference --------------------------
(***************************************************************************)
(* Inference in the user's browser: utils/websocket/broker.go (one broker  *)
(* per browser), utils/inference/frontend_clients.go (which browser's      *)
(* broker a call uses) and utils/inference/frontend.go (one call at a time *)
(* in the process, retried while connections come and go).                 *)
(*                                                                         *)
(* The processes are the calls of Embedding or Rerank and, for each        *)
(* WebSocket connection, the goroutine in Register that reads from it.     *)
(* Each critical section of a mutex, each write to a socket, each receive  *)
(* and each send on a channel is a step.  The browser answers what it has  *)
(* received in any order, or goes away.                                    *)
(***************************************************************************)
EXTENDS Naturals, FiniteSets

CONSTANTS
  Clients,      \* browsers: identities (user, client id)
  Fallback,     \* the registry's fallback broker
  Conns,        \* connections the browsers open, each once
  ConnClient,   \* ConnClient[w]: the browser that opens w
  Calls,        \* calls of Embedding or Rerank
  CallClient,   \* CallClient[c]: the browser in c's context; Fallback for none
  Cancellable,  \* bound: calls whose context may end
  MaxRetries,   \* frontendReconnectMaxRetries, 5 in the code
  None

ASSUME FrontendAssumption ==
  /\ Fallback \notin Clients
  /\ ConnClient \in [Conns -> Clients]
  /\ CallClient \in [Calls -> Clients \cup {Fallback}]
  /\ Cancellable \subseteq Calls
  /\ MaxRetries \in Nat
  /\ None \notin Conns \cup Calls \cup Clients \cup {Fallback}

Brokers == Clients \cup {Fallback}

VARIABLES
  conn,     \* conn[b]: Broker.conn
  ready,    \* ready[b]: which ready channel of b is open; older ones are closed
  pending,  \* pending[b]: the requests <<call, retry>> that wait in Broker.pending
  active,   \* the browsers the registry holds for active
  latest,   \* the browser that connected last
  sock,     \* the connections with their reading goroutines
  lock,     \* holder of frontendRequestMu
  call,     \* the calls
  chan,     \* chan[c]: the reply channel of c's current request, capacity 1
  ctxDone   \* calls whose context has ended

vars == <<conn, ready, pending, active, latest, sock, lock, call, chan, ctxDone>>
brokerVars == <<conn, ready, pending>>
registryVars == <<active, latest>>
callVars == <<lock, call, chan>>

Init ==
  /\ conn = [b \in Brokers |-> None]
  /\ ready = [b \in Brokers |-> 0]
  /\ pending = [b \in Brokers |-> {}]
  /\ active = {} /\ latest = None
  /\ sock = [w \in Conns |-> [pc |-> "unopened", open |-> FALSE, peer |-> FALSE,
                              sent |-> {}, old |-> None, reply |-> <<>>]]
  /\ lock = None
  /\ call = [c \in Calls |-> [pc |-> "idle", retry |-> 0, broker |-> None,
                              conn |-> None, ready |-> 0, result |-> "none",
                              late |-> FALSE]]
  /\ chan = [c \in Calls |-> "none"]
  /\ ctxDone = {}

Id(c) == <<c, call[c].retry>>

\* The requests whose channel somebody may still read.
Requesting == {c \in Calls : call[c].pc \in {"write", "wait"}}
IsCurrent(id) == id[1] \in Requesting /\ id = Id(id[1])

-----------------------------------------------------------------------------
(* Broker.Register, called by the registry's Register                      *)

\* failPendingLocked: every pending request gets the error and is forgotten.
FailPending(b, error) ==
  /\ pending' = [pending EXCEPT ![b] = {}]
  /\ chan' = [c \in Calls |-> IF Id(c) \in pending[b] THEN error ELSE chan[c]]

\* notifyLocked: the ready channel is closed and a new one made.
Notify(b) == ready' = [ready EXCEPT ![b] = @ + 1]

\* A browser connects; the registry marks it first.
Connect(w) ==
  /\ sock[w].pc = "unopened"
  /\ sock' = [sock EXCEPT ![w].pc = "register", ![w].open = TRUE, ![w].peer = TRUE]
  /\ active' = active \cup {ConnClient[w]}
  /\ latest' = ConnClient[w]
  /\ UNCHANGED <<brokerVars, callVars, ctxDone>>

\* Mutation: who waits for a connection is not told.
RegisterUnnotified(w) ==
  LET b == ConnClient[w] IN
  /\ sock[w].pc = "register"
  /\ conn' = [conn EXCEPT ![b] = w]
  /\ FailPending(b, "reconnected")
  /\ sock' = [sock EXCEPT ![w].pc = IF conn[b] = None THEN "read" ELSE "closeOld",
                          ![w].old = conn[b]]
  /\ UNCHANGED <<ready, registryVars, lock, call, ctxDone>>

\* Under mu: the new connection takes over and what waits for the old one fails.
Register(w) ==
  LET b == ConnClient[w] IN
  /\ sock[w].pc = "register"
  /\ conn' = [conn EXCEPT ![b] = w]
  /\ Notify(b)
  /\ FailPending(b, "reconnected")
  /\ sock' = [sock EXCEPT ![w].pc = IF conn[b] = None THEN "read" ELSE "closeOld",
                          ![w].old = conn[b]]
  /\ UNCHANGED <<registryVars, lock, call, ctxDone>>

CloseReplaced(w) ==
  /\ sock[w].pc = "closeOld"
  /\ sock' = [sock EXCEPT ![w].pc = "read", ![w].old = None,
                          ![sock[w].old].open = FALSE]
  /\ UNCHANGED <<brokerVars, registryVars, callVars, ctxDone>>

\* Mutation: the request is looked up but stays pending.
ReadAnswerKeepsPending(w) ==
  /\ sock[w].pc = "read" /\ sock[w].open /\ sock[w].peer
  /\ \E id \in sock[w].sent :
       LET b == ConnClient[w] IN
       sock' = [sock EXCEPT ![w].sent = @ \ {id},
                  ![w].pc = IF id \in pending[b] THEN "deliver" ELSE "read",
                  ![w].reply = IF id \in pending[b] THEN id ELSE <<>>]
  /\ UNCHANGED <<brokerVars, registryVars, callVars, ctxDone>>

\* An answer is read; it belongs to a pending request, or to one that has left.
ReadAnswer(w) ==
  /\ sock[w].pc = "read" /\ sock[w].open /\ sock[w].peer
  /\ \E id \in sock[w].sent :
       LET b == ConnClient[w] IN
       /\ sock' = [sock EXCEPT ![w].sent = @ \ {id},
                     ![w].pc = IF id \in pending[b] THEN "deliver" ELSE "read",
                     ![w].reply = IF id \in pending[b] THEN id ELSE <<>>]
       /\ pending' = [pending EXCEPT ![b] = @ \ {id}]
  /\ UNCHANGED <<conn, ready, registryVars, callVars, ctxDone>>

\* ch <- msg, outside mu: a result, or the error of the browser's model.
Deliver(w) ==
  /\ sock[w].pc = "deliver"
  /\ LET id == sock[w].reply IN
     IF IsCurrent(id)
     THEN \E answer \in {"result", "modelError"} : chan' = [chan EXCEPT ![id[1]] = answer]
     ELSE UNCHANGED chan
  /\ sock' = [sock EXCEPT ![w].pc = "read", ![w].reply = <<>>]
  /\ UNCHANGED <<brokerVars, registryVars, lock, call, ctxDone>>

\* ReadJSON fails: closed here, gone there, or silent past the read deadline.
ReadFails(w) ==
  /\ sock[w].pc = "read" /\ ~(sock[w].open /\ sock[w].peer)
  /\ sock' = [sock EXCEPT ![w].pc = "unregister", ![w].open = FALSE, ![w].sent = {}]
  /\ UNCHANGED <<brokerVars, registryVars, callVars, ctxDone>>

\* The deferred function, under mu: only the current connection clears itself.
Unregister(w) ==
  LET b == ConnClient[w] IN
  /\ sock[w].pc = "unregister"
  /\ IF conn[b] = w
     THEN /\ conn' = [conn EXCEPT ![b] = None]
          /\ Notify(b)
          /\ FailPending(b, "disconnected")
     ELSE UNCHANGED <<brokerVars, chan>>
  /\ sock' = [sock EXCEPT ![w].pc = "deactivate"]
  /\ UNCHANGED <<registryVars, lock, call, ctxDone>>

\* The registry's Register goes on after Broker.Register has returned.
Deactivate(w) ==
  /\ sock[w].pc = "deactivate"
  /\ active' = active \ {ConnClient[w]}
  /\ sock' = [sock EXCEPT ![w].pc = "gone"]
  /\ UNCHANGED <<brokerVars, latest, callVars, ctxDone>>

\* The tab is closed or the network lost.
PeerLeaves(w) ==
  /\ sock[w].peer
  /\ sock' = [sock EXCEPT ![w].peer = FALSE]
  /\ UNCHANGED <<brokerVars, registryVars, callVars, ctxDone>>

-----------------------------------------------------------------------------
(* Embedding, Rerank: requestFrontendWithReconnectRetry under the lock     *)

Begin(c) ==
  /\ call[c].pc = "idle"
  /\ call' = [call EXCEPT ![c].pc = "lock"]
  /\ UNCHANGED <<brokerVars, registryVars, sock, lock, chan, ctxDone>>

Lock(c) ==
  /\ call[c].pc = "lock" /\ lock = None
  /\ lock' = c
  /\ call' = [call EXCEPT ![c].pc = "broker"]
  /\ UNCHANGED <<brokerVars, registryVars, sock, chan, ctxDone>>

\* BrokerForContext: the browser of the context, or else the latest one.
BrokerForContext(c) ==
  /\ call[c].pc = "broker"
  /\ call' = [call EXCEPT ![c].pc = "conn",
                ![c].broker = IF CallClient[c] \in Clients THEN CallClient[c]
                              ELSE IF latest \in active THEN latest ELSE Fallback]
  /\ UNCHANGED <<brokerVars, registryVars, sock, lock, chan, ctxDone>>

\* waitConn, under mu: the connection, or the channel to wait on.
WaitConn(c) ==
  LET b == call[c].broker IN
  /\ call[c].pc = "conn"
  /\ call' = IF conn[b] # None
             THEN [call EXCEPT ![c].pc = "register", ![c].conn = conn[b]]
             ELSE [call EXCEPT ![c].pc = "ready", ![c].ready = ready[b]]
  /\ UNCHANGED <<brokerVars, registryVars, sock, lock, chan, ctxDone>>

WakeUp(c) ==
  /\ call[c].pc = "ready" /\ ready[call[c].broker] # call[c].ready
  /\ call' = [call EXCEPT ![c].pc = "conn", ![c].ready = 0]
  /\ UNCHANGED <<brokerVars, registryVars, sock, lock, chan, ctxDone>>

RegisterPending(c) ==
  LET b == call[c].broker IN
  /\ call[c].pc = "register"
  /\ pending' = [pending EXCEPT ![b] = @ \cup {Id(c)}]
  /\ call' = [call EXCEPT ![c].pc = "write", ![c].late = conn[b] # call[c].conn]
  /\ UNCHANGED <<conn, ready, registryVars, sock, lock, chan, ctxDone>>

Retryable == {"reconnected", "disconnected", "notConnected", "closed"}

\* Mutation: one retry more than MaxRetries.
ReturnRetryingOnce(c, outcome) ==
  /\ chan' = [chan EXCEPT ![c] = "none"]
  /\ call' = [call EXCEPT ![c] =
       [@ EXCEPT !.conn = None, !.broker = None, !.ready = 0, !.late = FALSE,
          !.pc = IF /\ outcome \in Retryable /\ c \notin ctxDone
                    /\ call[c].retry <= MaxRetries
                 THEN "backoff" ELSE "unlock",
          !.result = IF outcome # "result" /\ c \in ctxDone THEN "context" ELSE outcome]]

\* The request returns with outcome: the call ends, or waits and tries again.
Return(c, outcome) ==
  /\ chan' = [chan EXCEPT ![c] = "none"]
  /\ call' = [call EXCEPT ![c] =
       [@ EXCEPT !.conn = None, !.broker = None, !.ready = 0, !.late = FALSE,
          !.pc = IF /\ outcome \in Retryable /\ c \notin ctxDone
                    /\ call[c].retry < MaxRetries
                 THEN "backoff" ELSE "unlock",
          !.result = IF outcome # "result" /\ c \in ctxDone THEN "context" ELSE outcome]]

Forget(c) == pending' = [pending EXCEPT ![call[c].broker] = @ \ {Id(c)}]

\* Mutation: waitConn has no deadline of its own.
NoConnectionInContext(c) ==
  /\ call[c].pc = "ready"
  /\ c \in ctxDone /\ Return(c, "context")
  /\ UNCHANGED <<brokerVars, registryVars, sock, lock, ctxDone>>

\* waitConn gives up after connectWait, or with the context.
NoConnection(c) ==
  /\ call[c].pc = "ready"
  /\ \/ Return(c, "notConnected")
     \/ c \in ctxDone /\ Return(c, "context")
  /\ UNCHANGED <<brokerVars, registryVars, sock, lock, ctxDone>>

\* A write to a connection that is open here succeeds, whoever is there to read
\* it, unless it takes too long; to a closed one it fails.
Write(c) ==
  LET w == call[c].conn IN
  /\ call[c].pc = "write"
  /\ \/ /\ sock[w].open
        /\ sock' = [sock EXCEPT ![w].sent = IF sock[w].peer THEN @ \cup {Id(c)} ELSE @]
        /\ call' = [call EXCEPT ![c].pc = "wait"]
        /\ UNCHANGED <<pending, chan>>
     \/ /\ ~sock[w].open
        /\ Forget(c) /\ Return(c, "closed") /\ UNCHANGED sock
     \/ /\ sock[w].open /\ ~sock[w].peer
        /\ Forget(c) /\ Return(c, "writeTimeout") /\ UNCHANGED sock
  /\ UNCHANGED <<conn, ready, registryVars, lock, ctxDone>>

\* case msg := <-ch
Receive(c) ==
  /\ call[c].pc = "wait" /\ chan[c] # "none"
  /\ Return(c, chan[c])
  /\ UNCHANGED <<brokerVars, registryVars, sock, lock, ctxDone>>

\* case <-timeout.C, case <-ctx.Done()
Timeout(c) ==
  /\ call[c].pc = "wait"
  /\ Forget(c)
  /\ Return(c, "timeout") \/ (c \in ctxDone /\ Return(c, "context"))
  /\ UNCHANGED <<conn, ready, registryVars, sock, lock, ctxDone>>

Retry(c) ==
  /\ call[c].pc = "backoff"
  /\ call' = IF c \in ctxDone
             THEN [call EXCEPT ![c].pc = "unlock", ![c].result = "context"]
             ELSE [call EXCEPT ![c].pc = "broker", ![c].retry = @ + 1, ![c].result = "none"]
  /\ UNCHANGED <<brokerVars, registryVars, sock, lock, chan, ctxDone>>

Unlock(c) ==
  /\ call[c].pc = "unlock"
  /\ lock' = None
  /\ call' = [call EXCEPT ![c].pc = "done"]
  /\ UNCHANGED <<brokerVars, registryVars, sock, chan, ctxDone>>

EndContext(c) ==
  /\ c \in Cancellable \ ctxDone /\ call[c].pc \notin {"idle", "done"}
  /\ ctxDone' = ctxDone \cup {c}
  /\ UNCHANGED <<brokerVars, registryVars, sock, callVars>>

ConnStep(w) ==
  \/ Register(w) \/ CloseReplaced(w) \/ ReadAnswer(w) \/ Deliver(w)
  \/ ReadFails(w) \/ Unregister(w) \/ Deactivate(w)

CallStep(c) ==
  \/ Lock(c) \/ BrokerForContext(c) \/ WaitConn(c) \/ WakeUp(c) \/ RegisterPending(c)
  \/ NoConnection(c) \/ Write(c) \/ Receive(c) \/ Timeout(c) \/ Retry(c) \/ Unlock(c)

Next ==
  \/ \E w \in Conns : Connect(w) \/ PeerLeaves(w) \/ ConnStep(w)
  \/ \E c \in Calls : Begin(c) \/ CallStep(c) \/ EndContext(c)

\* Goroutines are scheduled, and the timers of waitConn and Request fire.
Fairness ==
  /\ \A w \in Conns : WF_vars(ConnStep(w))
  /\ \A c \in Calls : WF_vars(CallStep(c))

Spec == Init /\ [][Next]_vars
FairSpec == Spec /\ Fairness
-----------------------------------------------------------------------------
CallPcs == {"idle", "lock", "broker", "conn", "ready", "register", "write", "wait",
            "backoff", "unlock", "done"}
Outcomes == {"none", "result", "modelError", "context", "timeout", "writeTimeout"}
              \cup Retryable
Ids == Calls \X (0..MaxRetries)

TypeOK ==
  /\ conn \in [Brokers -> Conns \cup {None}]
  /\ ready \in [Brokers -> Nat]
  /\ pending \in [Brokers -> SUBSET Ids]
  /\ active \subseteq Clients /\ latest \in Clients \cup {None}
  /\ sock \in [Conns -> [pc : {"unopened", "register", "closeOld", "read", "deliver",
                               "unregister", "deactivate", "gone"},
                         open : BOOLEAN, peer : BOOLEAN, sent : SUBSET Ids,
                         old : Conns \cup {None}, reply : Ids \cup {<<>>}]]
  /\ lock \in Calls \cup {None}
  /\ call \in [Calls -> [pc : CallPcs, retry : 0..MaxRetries,
                         broker : Brokers \cup {None}, conn : Conns \cup {None},
                         ready : Nat, result : Outcomes, late : BOOLEAN]]
  /\ chan \in [Calls -> Outcomes]
  /\ ctxDone \subseteq Calls

\* The channel of a request holds one answer: whoever may still send to it (the
\* reader that took the request, or failPendingLocked, which holds mu) finds it
\* empty and never blocks (broker.go:130-136, 261-266).
SendNeverBlocks ==
  \A id \in Ids :
    LET holders == {w \in Conns : sock[w].reply = id}
        senders == holders \cup {b \in Brokers : id \in pending[b]} IN
    /\ Cardinality(senders) <= 1
    /\ senders # {} /\ IsCurrent(id) => chan[id[1]] = "none"

\* Nothing is left behind in pending: what it holds is a request that is being
\* written or waited for now, whichever way the others ended.
PendingIsCurrent ==
  \A b \in Brokers : \A id \in pending[b] : IsCurrent(id) /\ call[id[1]].broker = b

\* A request that waits will hear of its connection: it is pending on the
\* broker's present connection, so an answer, a disconnection or a replacement
\* reaches it.  The exception is a request that entered pending after its
\* connection had been replaced (broker.go:182-184 after 76-82).
WaitIsAnswerable ==
  \A c \in Requesting :
    \/ chan[c] # "none"
    \/ \E w \in Conns : sock[w].reply = Id(c)
    \/ /\ Id(c) \in pending[call[c].broker]
       /\ call[c].late \/ conn[call[c].broker] = call[c].conn

\* A request has one place, and is answered once: in pending while it is written
\* or waited for and no longer, and then with the one who may send to it.
RequestHasItsPlace == SendNeverBlocks /\ PendingIsCurrent /\ WaitIsAnswerable

\* No missed connection: who waits on a ready channel that is still open sees a
\* broker without a connection (waitConn reads both under mu).
NoMissedConnection ==
  \A c \in Calls :
    call[c].pc = "ready" /\ ready[call[c].broker] = call[c].ready
      => conn[call[c].broker] = None

\* Every call returns: with the browser's answer or an error.
EveryCallReturns ==
  \A c \in Calls : (call[c].pc = "lock") ~> (call[c].pc = "done")
=============================================================================
