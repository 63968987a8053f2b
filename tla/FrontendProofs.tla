-------------------------- MODULE FrontendProofs ---------------------------
(***************************************************************************)
(* The safety properties of FrontendInference for any browsers,            *)
(* connections and calls.                                                  *)
(***************************************************************************)
EXTENDS FrontendInference, FiniteSetTheorems, TLAPS

-----------------------------------------------------------------------------
(* The inductive invariant *)

SockPcs == {"unopened", "register", "closeOld", "read", "deliver", "unregister",
            "deactivate", "gone"}
SockRecords == [pc : SockPcs, open : BOOLEAN, peer : BOOLEAN, sent : SUBSET Ids,
                old : Conns \cup {None}, reply : Ids \cup {<<>>}]
CallRecords == [pc : CallPcs, retry : 0..MaxRetries, broker : Brokers \cup {None},
                conn : Conns \cup {None}, ready : Nat, result : Outcomes, late : BOOLEAN]

SocksTyped == sock \in [Conns -> SockRecords]
CallsTyped == call \in [Calls -> CallRecords]

StoresTyped ==
  /\ conn \in [Brokers -> Conns \cup {None}] /\ ready \in [Brokers -> Nat]
  /\ pending \in [Brokers -> SUBSET Ids] /\ chan \in [Calls -> Outcomes]
  /\ active \subseteq Clients /\ latest \in Clients \cup {None}
  /\ lock \in Calls \cup {None} /\ ctxDone \subseteq Calls

Typed == SocksTyped /\ CallsTyped /\ StoresTyped

\* What a call knows at the step it has reached.
StepsKnow ==
  \A c \in Calls :
    /\ call[c].pc \in {"conn", "ready", "register", "write", "wait"} =>
         call[c].broker \in Brokers
    /\ call[c].pc \in {"register", "write", "wait"} => call[c].conn \in Conns
    /\ call[c].pc = "backoff" => call[c].retry < MaxRetries
    /\ call[c].pc = "ready" => call[c].ready <= ready[call[c].broker]

\* A reader holds a request exactly while it is about to deliver.
ReadersHold == \A w \in Conns : sock[w].pc = "deliver" <=> sock[w].reply # <<>>

\* A request somebody holds has been written, or its call would not have it.
Unsent == {"idle", "lock", "broker", "conn", "ready", "register"}
HeldIsWritten ==
  \A w \in Conns : \A c \in Calls : sock[w].reply = Id(c) => call[c].pc \notin Unsent

\* Nor is a request of a retry to come held.
HeldIsPast ==
  \A w \in Conns : \A c \in Calls, n \in Nat :
    sock[w].reply = <<c, n>> => n <= call[c].retry

\* One reader at most holds a request, and then it is no longer pending.
HeldOnce ==
  \A w \in Conns : sock[w].reply # <<>> =>
    /\ \A v \in Conns : sock[v].reply = sock[w].reply => v = w
    /\ \A b \in Brokers : sock[w].reply \notin pending[b]

\* The channel is empty while somebody may send to it.
ChannelIsEmpty ==
  \A c \in Requesting :
    (\E w \in Conns : sock[w].reply = Id(c)) \/ (\E b \in Brokers : Id(c) \in pending[b])
      => chan[c] = "none"

\* Nor has a call that makes no request anything in its channel.
IdleChannelsAreEmpty == \A c \in Calls : c \notin Requesting => chan[c] = "none"

IInv ==
  /\ Typed /\ StepsKnow /\ ReadersHold
  /\ HeldIsWritten /\ HeldIsPast /\ HeldOnce /\ PendingIsCurrent
  /\ ChannelIsEmpty /\ IdleChannelsAreEmpty /\ WaitIsAnswerable /\ NoMissedConnection

-----------------------------------------------------------------------------
LEMMA ConstantsAre ==
  /\ MaxRetries \in Nat /\ Fallback \notin Clients
  /\ ConnClient \in [Conns -> Brokers] /\ ConnClient \in [Conns -> Clients]
  /\ CallClient \in [Calls -> Brokers]
  /\ None \notin Conns /\ None \notin Calls /\ None \notin Brokers /\ None \notin Clients
BY FrontendAssumption DEF FrontendAssumption, Brokers

LEMMA NoIdIsEmpty == \A id \in Ids : id # <<>>
BY SMT DEF Ids

LEMMA OutcomesAre ==
  /\ {"idle", "lock", "broker", "conn", "ready", "register", "write", "wait", "backoff",
      "unlock", "done"} \subseteq CallPcs
  /\ {"none", "result", "modelError", "context", "timeout", "writeTimeout", "reconnected",
      "disconnected", "notConnected", "closed"} \subseteq Outcomes
BY DEF CallPcs, Outcomes, Retryable

LEMMA Counted ==
  ASSUME NEW S, NEW f \in [S -> Nat], NEW s \in S
  PROVE  [f EXCEPT ![s] = @ + 1] \in [S -> Nat]
OBVIOUS

LEMMA IdIsId ==
  ASSUME CallsTyped, NEW c \in Calls
  PROVE  Id(c) \in Ids /\ Id(c)[1] = c /\ Id(c) # <<>>
<1>1. call[c].retry \in 0..MaxRetries
  BY DEF CallsTyped, CallRecords
<1> QED
  BY <1>1, NoIdIsEmpty DEF Ids, Id

LEMMA IdsDiffer ==
  ASSUME CallsTyped, NEW c \in Calls, NEW d \in Calls, Id(c) = Id(d)
  PROVE  c = d
BY IdIsId

\* A request keeps its name while its call makes the same attempt.
LEMMA IdStays ==
  ASSUME NEW c \in Calls, call'[c].retry = call[c].retry
  PROVE  Id(c)' = Id(c)
BY DEF Id

LEMMA CurrentIs ==
  ASSUME CallsTyped, NEW id, IsCurrent(id)
  PROVE  id \in Ids /\ id[1] \in Requesting /\ id[1] \in Calls /\ id = Id(id[1])
BY IdIsId DEF IsCurrent, Requesting

-----------------------------------------------------------------------------
(* What a step does, as far as the requests can tell *)

RepliesStay == \A w \in Conns : sock'[w].reply = sock[w].reply
OthersStay(c) == \A d \in Calls \ {c} : call'[d] = call[d]
Becomes(c, pc, retry, broker, cn, rd, late) ==
  /\ call'[c].pc = pc /\ call'[c].retry = retry /\ call'[c].broker = broker
  /\ call'[c].conn = cn /\ call'[c].ready = rd /\ call'[c].late = late

Quiet == RepliesStay /\ UNCHANGED <<conn, pending, call, chan>>

\* c goes on, outside of a request.
Moves(c) ==
  /\ RepliesStay /\ OthersStay(c) /\ UNCHANGED <<conn, pending, chan>>
  /\ c \notin Requesting /\ call'[c].pc \notin {"write", "wait"}
  /\ \/ call'[c].retry = call[c].retry /\ (call'[c].pc \in Unsent => call[c].pc \in Unsent)
     \/ call'[c].retry = call[c].retry + 1

Enters(c) ==
  /\ RepliesStay /\ OthersStay(c) /\ UNCHANGED <<conn, chan>>
  /\ call[c].pc = "register"
  /\ pending' = [pending EXCEPT ![call[c].broker] = @ \cup {Id(c)}]
  /\ call'[c].pc = "write" /\ call'[c].retry = call[c].retry
  /\ call'[c].broker = call[c].broker /\ call'[c].conn = call[c].conn
  /\ call'[c].late = (conn[call[c].broker] # call[c].conn)

Sends(c) ==
  /\ RepliesStay /\ OthersStay(c) /\ UNCHANGED <<conn, pending, chan>>
  /\ call[c].pc = "write" /\ call'[c].pc = "wait" /\ call'[c].retry = call[c].retry
  /\ call'[c].broker = call[c].broker /\ call'[c].conn = call[c].conn
  /\ call'[c].late = call[c].late

Returns(c) ==
  /\ RepliesStay /\ OthersStay(c) /\ UNCHANGED conn
  /\ call[c].pc \notin Unsent \ {"ready"}
  /\ call'[c].pc \in {"backoff", "unlock"} /\ call'[c].retry = call[c].retry
  /\ chan' = [chan EXCEPT ![c] = "none"]
  /\ \/ UNCHANGED pending /\ (call[c].pc = "ready" \/ chan[c] # "none")
     \/ /\ c \in Requesting
        /\ pending' = [pending EXCEPT ![call[c].broker] = @ \ {Id(c)}]

\* What waits on b gets an error, and b may get another connection.
Fails(b) ==
  /\ RepliesStay /\ UNCHANGED call
  /\ \A a \in Brokers \ {b} : conn'[a] = conn[a]
  /\ pending' = [pending EXCEPT ![b] = {}]
  /\ \E error \in Outcomes \ {"none"} :
       chan' = [c \in Calls |-> IF Id(c) \in pending[b] THEN error ELSE chan[c]]

Takes(w, id) ==
  /\ \A v \in Conns \ {w} : sock'[v].reply = sock[v].reply
  /\ UNCHANGED <<conn, call, chan>>
  /\ sock[w].reply = <<>> /\ sock'[w].reply = id /\ id # <<>>
  /\ \E b \in Brokers : id \in pending[b] /\ pending' = [pending EXCEPT ![b] = @ \ {id}]

Delivers(w) ==
  /\ \A v \in Conns \ {w} : sock'[v].reply = sock[v].reply
  /\ UNCHANGED <<conn, pending, call>>
  /\ sock[w].reply \in Ids /\ sock'[w].reply = <<>>
  /\ \/ ~IsCurrent(sock[w].reply) /\ UNCHANGED chan
     \/ /\ IsCurrent(sock[w].reply)
        /\ \E answer \in Outcomes \ {"none"} :
             chan' = [chan EXCEPT ![sock[w].reply[1]] = answer]

RequestStep ==
  \/ Quiet
  \/ \E c \in Calls : Moves(c) \/ Enters(c) \/ Sends(c) \/ Returns(c)
  \/ \E b \in Brokers : Fails(b)
  \/ \E w \in Conns, id \in Ids : Takes(w, id)
  \/ \E w \in Conns : Delivers(w)

-----------------------------------------------------------------------------
(* The types, action by action *)

LEMMA SockFields ==
  ASSUME Typed, NEW w \in Conns
  PROVE  /\ sock[w] \in SockRecords
         /\ DOMAIN sock[w] = {"pc", "open", "peer", "sent", "old", "reply"}
<1>1. sock[w] \in SockRecords
  BY DEF Typed, SocksTyped
<1> QED
  BY <1>1 DEF SockRecords

LEMMA CallFields ==
  ASSUME CallsTyped, NEW c \in Calls
  PROVE  /\ call[c] \in CallRecords
         /\ DOMAIN call[c] = {"pc", "retry", "broker", "conn", "ready", "result", "late"}
<1>1. call[c] \in CallRecords
  BY DEF CallsTyped
<1> QED
  BY <1>1 DEF CallRecords

LEMMA SockMoves ==
  ASSUME Typed, NEW w \in Conns, NEW r \in SockRecords, sock' = [sock EXCEPT ![w] = r]
  PROVE  SocksTyped' /\ sock'[w] = r /\ \A v \in Conns \ {w} : sock'[v] = sock[v]
BY DEF Typed, SocksTyped

LEMMA CallMoves ==
  ASSUME CallsTyped, NEW c \in Calls, NEW r \in CallRecords, call' = [call EXCEPT ![c] = r]
  PROVE  CallsTyped' /\ call'[c] = r /\ OthersStay(c)
BY DEF CallsTyped, OthersStay

LEMMA ConnectSocks ==
  ASSUME Typed, NEW w \in Conns, Connect(w)
  PROVE  /\ SocksTyped' /\ \A v \in Conns \ {w} : sock'[v] = sock[v]
         /\ sock'[w].pc = "register" /\ sock'[w].reply = sock[w].reply
<1> DEFINE r == [sock[w] EXCEPT !.pc = "register", !.open = TRUE, !.peer = TRUE]
<1>1. sock' = [sock EXCEPT ![w].pc = "register", ![w].open = TRUE, ![w].peer = TRUE]
  BY DEF Connect
<1>2. sock' = [sock EXCEPT ![w] = r]
  BY <1>1 DEF Typed, SocksTyped
<1>3. r \in SockRecords
  BY SockFields DEF SockRecords, SockPcs
<1>4. r.pc = "register" /\ r.reply = sock[w].reply
  BY SockFields
<1> HIDE DEF r
<1> QED
  BY <1>2, <1>3, <1>4, SockMoves

LEMMA PeerLeavesSocks ==
  ASSUME Typed, NEW w \in Conns, PeerLeaves(w)
  PROVE  /\ SocksTyped' /\ \A v \in Conns \ {w} : sock'[v] = sock[v]
         /\ sock'[w].pc = sock[w].pc /\ sock'[w].reply = sock[w].reply
<1> DEFINE r == [sock[w] EXCEPT !.peer = FALSE]
<1>1. sock' = [sock EXCEPT ![w].peer = FALSE]
  BY DEF PeerLeaves
<1>2. sock' = [sock EXCEPT ![w] = r]
  BY <1>1 DEF Typed, SocksTyped
<1>3. r \in SockRecords
  BY SockFields DEF SockRecords, SockPcs
<1>4. r.pc = sock[w].pc /\ r.reply = sock[w].reply
  BY SockFields
<1> HIDE DEF r
<1> QED
  BY <1>2, <1>3, <1>4, SockMoves

LEMMA RegisterSocks ==
  ASSUME Typed, NEW w \in Conns, Register(w)
  PROVE  /\ SocksTyped' /\ \A v \in Conns \ {w} : sock'[v] = sock[v]
         /\ sock'[w].pc = (IF conn[ConnClient[w]] = None THEN "read" ELSE "closeOld")
         /\ sock'[w].reply = sock[w].reply
<1> DEFINE r == [sock[w] EXCEPT !.pc = IF conn[ConnClient[w]] = None THEN "read" ELSE "closeOld",
                                !.old = conn[ConnClient[w]]]
<1>0. conn[ConnClient[w]] \in Conns \cup {None}
  BY ConstantsAre DEF Typed, StoresTyped
<1>1. sock' = [sock EXCEPT ![w].pc = IF conn[ConnClient[w]] = None THEN "read" ELSE "closeOld",
                           ![w].old = conn[ConnClient[w]]]
  BY DEF Register
<1>2. sock' = [sock EXCEPT ![w] = r]
  BY <1>1 DEF Typed, SocksTyped
<1>3. r \in SockRecords
  BY SockFields, <1>0 DEF SockRecords, SockPcs
<1>4. /\ r.pc = (IF conn[ConnClient[w]] = None THEN "read" ELSE "closeOld")
      /\ r.reply = sock[w].reply
  BY SockFields
<1> HIDE DEF r
<1> QED
  BY <1>2, <1>3, <1>4, SockMoves

LEMMA DeliverSocks ==
  ASSUME Typed, NEW w \in Conns, Deliver(w)
  PROVE  /\ SocksTyped' /\ \A v \in Conns \ {w} : sock'[v] = sock[v]
         /\ sock'[w].pc = "read" /\ sock'[w].reply = <<>>
<1> DEFINE r == [sock[w] EXCEPT !.pc = "read", !.reply = <<>>]
<1>1. sock' = [sock EXCEPT ![w].pc = "read", ![w].reply = <<>>]
  BY DEF Deliver
<1>2. sock' = [sock EXCEPT ![w] = r]
  BY <1>1 DEF Typed, SocksTyped
<1>3. r \in SockRecords
  BY SockFields DEF SockRecords, SockPcs
<1>4. r.pc = "read" /\ r.reply = <<>>
  BY SockFields
<1> HIDE DEF r
<1> QED
  BY <1>2, <1>3, <1>4, SockMoves

LEMMA ReadFailsSocks ==
  ASSUME Typed, NEW w \in Conns, ReadFails(w)
  PROVE  /\ SocksTyped' /\ \A v \in Conns \ {w} : sock'[v] = sock[v]
         /\ sock'[w].pc = "unregister" /\ sock'[w].reply = sock[w].reply
<1> DEFINE r == [sock[w] EXCEPT !.pc = "unregister", !.open = FALSE, !.sent = {}]
<1>1. sock' = [sock EXCEPT ![w].pc = "unregister", ![w].open = FALSE, ![w].sent = {}]
  BY DEF ReadFails
<1>2. sock' = [sock EXCEPT ![w] = r]
  BY <1>1 DEF Typed, SocksTyped
<1>3. r \in SockRecords
  BY SockFields DEF SockRecords, SockPcs
<1>4. r.pc = "unregister" /\ r.reply = sock[w].reply
  BY SockFields
<1> HIDE DEF r
<1> QED
  BY <1>2, <1>3, <1>4, SockMoves

LEMMA UnregisterSocks ==
  ASSUME Typed, NEW w \in Conns, Unregister(w)
  PROVE  /\ SocksTyped' /\ \A v \in Conns \ {w} : sock'[v] = sock[v]
         /\ sock'[w].pc = "deactivate" /\ sock'[w].reply = sock[w].reply
<1> DEFINE r == [sock[w] EXCEPT !.pc = "deactivate"]
<1>1. sock' = [sock EXCEPT ![w].pc = "deactivate"]
  BY DEF Unregister
<1>2. sock' = [sock EXCEPT ![w] = r]
  BY <1>1 DEF Typed, SocksTyped
<1>3. r \in SockRecords
  BY SockFields DEF SockRecords, SockPcs
<1>4. r.pc = "deactivate" /\ r.reply = sock[w].reply
  BY SockFields
<1> HIDE DEF r
<1> QED
  BY <1>2, <1>3, <1>4, SockMoves

LEMMA DeactivateSocks ==
  ASSUME Typed, NEW w \in Conns, Deactivate(w)
  PROVE  /\ SocksTyped' /\ \A v \in Conns \ {w} : sock'[v] = sock[v]
         /\ sock'[w].pc = "gone" /\ sock'[w].reply = sock[w].reply
<1> DEFINE r == [sock[w] EXCEPT !.pc = "gone"]
<1>1. sock' = [sock EXCEPT ![w].pc = "gone"]
  BY DEF Deactivate
<1>2. sock' = [sock EXCEPT ![w] = r]
  BY <1>1 DEF Typed, SocksTyped
<1>3. r \in SockRecords
  BY SockFields DEF SockRecords, SockPcs
<1>4. r.pc = "gone" /\ r.reply = sock[w].reply
  BY SockFields
<1> HIDE DEF r
<1> QED
  BY <1>2, <1>3, <1>4, SockMoves

LEMMA ReadAnswerSocks ==
  ASSUME Typed, NEW w \in Conns, NEW id \in sock[w].sent, NEW pc \in SockPcs,
         NEW reply \in Ids \cup {<<>>},
         sock' = [sock EXCEPT ![w].sent = @ \ {id}, ![w].pc = pc, ![w].reply = reply]
  PROVE  SocksTyped' /\ sock'[w].reply = reply /\ sock'[w].pc = pc
         /\ \A v \in Conns \ {w} : sock'[v] = sock[v]
<1> DEFINE r == [sock[w] EXCEPT !.sent = @ \ {id}, !.pc = pc, !.reply = reply]
<1>1. sock' = [sock EXCEPT ![w] = r]
  BY DEF Typed, SocksTyped
<1>2. r \in SockRecords
  BY SockFields DEF SockRecords
<1>3. r.reply = reply /\ r.pc = pc
  BY SockFields
<1> HIDE DEF r
<1> QED
  BY <1>1, <1>2, <1>3, SockMoves

LEMMA CloseReplacedSocks ==
  ASSUME Typed, NEW w \in Conns, CloseReplaced(w)
  PROVE  /\ SocksTyped' /\ RepliesStay
         /\ sock[w].pc = "closeOld" /\ sock'[w].pc = "read"
         /\ \A v \in Conns \ {w} : sock'[v].pc = sock[v].pc
<1> DEFINE r == [sock[w] EXCEPT !.pc = "read", !.old = None]
           s == [sock EXCEPT ![w] = r]
           u == sock[w].old
<1>1. sock' = [sock EXCEPT ![w].pc = "read", ![w].old = None, ![u].open = FALSE]
  BY DEF CloseReplaced
<1>2. sock' = [s EXCEPT ![u] = [@ EXCEPT !.open = FALSE]]
  BY <1>1 DEF Typed, SocksTyped
<1>3. r \in SockRecords /\ r.pc = "read" /\ r.reply = sock[w].reply
  <2>1. r \in SockRecords
    BY SockFields DEF SockRecords, SockPcs
  <2>2. r.pc = "read" /\ r.reply = sock[w].reply
    BY SockFields
  <2> QED
    BY <2>1, <2>2
<1> HIDE DEF r
<1>4. s \in [Conns -> SockRecords] /\ s[w] = r /\ \A v \in Conns \ {w} : s[v] = sock[v]
  BY <1>3 DEF Typed, SocksTyped
<1> HIDE DEF s
<1>5. \A v \in Conns : /\ [s[v] EXCEPT !.open = FALSE] \in SockRecords
                        /\ [s[v] EXCEPT !.open = FALSE].pc = s[v].pc
                        /\ [s[v] EXCEPT !.open = FALSE].reply = s[v].reply
  <2> SUFFICES ASSUME NEW v \in Conns
               PROVE  /\ [s[v] EXCEPT !.open = FALSE] \in SockRecords
                      /\ [s[v] EXCEPT !.open = FALSE].pc = s[v].pc
                      /\ [s[v] EXCEPT !.open = FALSE].reply = s[v].reply
    OBVIOUS
  <2>1. s[v] \in SockRecords
    BY <1>4
  <2>2. DOMAIN s[v] = {"pc", "open", "peer", "sent", "old", "reply"}
    BY <2>1 DEF SockRecords
  <2>3. [s[v] EXCEPT !.open = FALSE] \in SockRecords
    BY <2>1 DEF SockRecords
  <2> QED
    BY <2>2, <2>3
<1>6. sock' \in [Conns -> SockRecords]
  BY <1>2, <1>4, <1>5
<1>7. \A v \in Conns : sock'[v] = IF v = u THEN [s[v] EXCEPT !.open = FALSE] ELSE s[v]
  BY <1>2, <1>4
<1>8. \A v \in Conns : sock'[v].reply = s[v].reply /\ sock'[v].pc = s[v].pc
  BY <1>5, <1>7
<1>9. RepliesStay
  BY <1>3, <1>4, <1>8 DEF RepliesStay
<1>10. sock[w].pc = "closeOld"
  BY DEF CloseReplaced
<1> QED
  BY <1>3, <1>4, <1>6, <1>8, <1>9, <1>10 DEF SocksTyped

LEMMA WriteSocks ==
  ASSUME Typed, NEW c \in Calls, Write(c)
  PROVE  SocksTyped' /\ \A v \in Conns : /\ sock'[v].reply = sock[v].reply
                                         /\ sock'[v].pc = sock[v].pc
<1> DEFINE u == call[c].conn
<1>1. \/ UNCHANGED sock
      \/ \E S \in {sock[u].sent, sock[u].sent \cup {Id(c)}} :
           sock' = [sock EXCEPT ![u].sent = S]
  BY DEF Write
<1>2. Id(c) \in Ids
  BY IdIsId DEF Typed
<1> HIDE DEF u
<1>3. CASE UNCHANGED sock
  BY <1>3 DEF Typed, SocksTyped
<1>4. ASSUME NEW S \in {sock[u].sent, sock[u].sent \cup {Id(c)}},
             sock' = [sock EXCEPT ![u].sent = S]
      PROVE  SocksTyped' /\ \A v \in Conns : /\ sock'[v].reply = sock[v].reply
                                             /\ sock'[v].pc = sock[v].pc
  <2>1. CASE u \notin Conns
    BY <1>4, <2>1 DEF Typed, SocksTyped
  <2>2. CASE u \in Conns
    <3> DEFINE r == [sock[u] EXCEPT !.sent = S]
    <3>1. sock' = [sock EXCEPT ![u] = r]
      BY <1>4, <2>2 DEF Typed, SocksTyped
    <3>2. r \in SockRecords
      BY <1>2, <2>2, SockFields DEF SockRecords
    <3>3. r.reply = sock[u].reply /\ r.pc = sock[u].pc
      BY <2>2, SockFields
    <3> HIDE DEF r
    <3> QED
      BY <2>2, <3>1, <3>2, <3>3, SockMoves
  <2> QED
    BY <2>1, <2>2
<1> QED
  BY <1>1, <1>3, <1>4

LEMMA BeginCalls ==
  ASSUME Typed, NEW c \in Calls, Begin(c)
  PROVE  CallsTyped' /\ OthersStay(c) /\ Becomes(c, "lock", call[c].retry,
         call[c].broker, call[c].conn, call[c].ready, call[c].late)
<1> DEFINE r == [call[c] EXCEPT !.pc = "lock"]
<1>1. call' = [call EXCEPT ![c].pc = "lock"]
  BY DEF Begin
<1>2. call' = [call EXCEPT ![c] = r]
  BY <1>1 DEF Typed, CallsTyped
<1>3. r \in CallRecords
  BY CallFields DEF Typed, CallRecords, CallPcs
<1>4. /\ r.pc = "lock" /\ r.retry = call[c].retry /\ r.broker = call[c].broker
      /\ r.conn = call[c].conn /\ r.ready = call[c].ready /\ r.late = call[c].late
  BY CallFields DEF Typed
<1> HIDE DEF r
<1> QED
  BY <1>2, <1>3, <1>4, CallMoves DEF Typed, Becomes

LEMMA LockCalls ==
  ASSUME Typed, NEW c \in Calls, Lock(c)
  PROVE  CallsTyped' /\ OthersStay(c) /\ Becomes(c, "broker", call[c].retry,
         call[c].broker, call[c].conn, call[c].ready, call[c].late)
<1> DEFINE r == [call[c] EXCEPT !.pc = "broker"]
<1>1. call' = [call EXCEPT ![c].pc = "broker"]
  BY DEF Lock
<1>2. call' = [call EXCEPT ![c] = r]
  BY <1>1 DEF Typed, CallsTyped
<1>3. r \in CallRecords
  BY CallFields DEF Typed, CallRecords, CallPcs
<1>4. /\ r.pc = "broker" /\ r.retry = call[c].retry /\ r.broker = call[c].broker
      /\ r.conn = call[c].conn /\ r.ready = call[c].ready /\ r.late = call[c].late
  BY CallFields DEF Typed
<1> HIDE DEF r
<1> QED
  BY <1>2, <1>3, <1>4, CallMoves DEF Typed, Becomes

LEMMA UnlockCalls ==
  ASSUME Typed, NEW c \in Calls, Unlock(c)
  PROVE  CallsTyped' /\ OthersStay(c) /\ Becomes(c, "done", call[c].retry,
         call[c].broker, call[c].conn, call[c].ready, call[c].late)
<1> DEFINE r == [call[c] EXCEPT !.pc = "done"]
<1>1. call' = [call EXCEPT ![c].pc = "done"]
  BY DEF Unlock
<1>2. call' = [call EXCEPT ![c] = r]
  BY <1>1 DEF Typed, CallsTyped
<1>3. r \in CallRecords
  BY CallFields DEF Typed, CallRecords, CallPcs
<1>4. /\ r.pc = "done" /\ r.retry = call[c].retry /\ r.broker = call[c].broker
      /\ r.conn = call[c].conn /\ r.ready = call[c].ready /\ r.late = call[c].late
  BY CallFields DEF Typed
<1> HIDE DEF r
<1> QED
  BY <1>2, <1>3, <1>4, CallMoves DEF Typed, Becomes

LEMMA WakeUpCalls ==
  ASSUME Typed, NEW c \in Calls, WakeUp(c)
  PROVE  CallsTyped' /\ OthersStay(c) /\ Becomes(c, "conn", call[c].retry,
         call[c].broker, call[c].conn, 0, call[c].late)
<1> DEFINE r == [call[c] EXCEPT !.pc = "conn", !.ready = 0]
<1>1. call' = [call EXCEPT ![c].pc = "conn", ![c].ready = 0]
  BY DEF WakeUp
<1>2. call' = [call EXCEPT ![c] = r]
  BY <1>1 DEF Typed, CallsTyped
<1>3. r \in CallRecords
  BY CallFields DEF Typed, CallRecords, CallPcs
<1>4. /\ r.pc = "conn" /\ r.retry = call[c].retry /\ r.broker = call[c].broker
      /\ r.conn = call[c].conn /\ r.ready = 0 /\ r.late = call[c].late
  BY CallFields DEF Typed
<1> HIDE DEF r
<1> QED
  BY <1>2, <1>3, <1>4, CallMoves DEF Typed, Becomes

LEMMA RegisterPendingCalls ==
  ASSUME Typed, NEW c \in Calls, RegisterPending(c)
  PROVE  CallsTyped' /\ OthersStay(c) /\ Becomes(c, "write", call[c].retry,
         call[c].broker, call[c].conn, call[c].ready, (conn[call[c].broker] #
         call[c].conn))
<1> DEFINE r == [call[c] EXCEPT !.pc = "write", !.late = (conn[call[c].broker] # call[c].conn)]
<1>1. call' = [call EXCEPT ![c].pc = "write", ![c].late = (conn[call[c].broker] #
                 call[c].conn)]
  BY DEF RegisterPending
<1>2. call' = [call EXCEPT ![c] = r]
  BY <1>1 DEF Typed, CallsTyped
<1>3. r \in CallRecords
  BY CallFields DEF Typed, CallRecords, CallPcs
<1>4. /\ r.pc = "write" /\ r.retry = call[c].retry /\ r.broker = call[c].broker
      /\ r.conn = call[c].conn /\ r.ready = call[c].ready
      /\ r.late = (conn[call[c].broker] # call[c].conn)
  BY CallFields DEF Typed
<1> HIDE DEF r
<1> QED
  BY <1>2, <1>3, <1>4, CallMoves DEF Typed, Becomes

LEMMA BrokerCalls ==
  ASSUME Typed, NEW c \in Calls, NEW b \in Brokers,
         call' = [call EXCEPT ![c].pc = "conn", ![c].broker = b]
  PROVE  CallsTyped' /\ OthersStay(c) /\ Becomes(c, "conn", call[c].retry, b,
         call[c].conn, call[c].ready, call[c].late)
<1> DEFINE r == [call[c] EXCEPT !.pc = "conn", !.broker = b]
<1>1. call' = [call EXCEPT ![c] = r]
  BY DEF Typed, CallsTyped
<1>2. r \in CallRecords
  BY CallFields DEF Typed, CallRecords, CallPcs
<1>3. /\ r.pc = "conn" /\ r.retry = call[c].retry /\ r.broker = b
      /\ r.conn = call[c].conn /\ r.ready = call[c].ready /\ r.late = call[c].late
  BY CallFields DEF Typed
<1> HIDE DEF r
<1> QED
  BY <1>1, <1>2, <1>3, CallMoves DEF Typed, Becomes

LEMMA ConnectedCalls ==
  ASSUME Typed, NEW c \in Calls, NEW w \in Conns,
         call' = [call EXCEPT ![c].pc = "register", ![c].conn = w]
  PROVE  CallsTyped' /\ OthersStay(c) /\ Becomes(c, "register", call[c].retry,
         call[c].broker, w, call[c].ready, call[c].late)
<1> DEFINE r == [call[c] EXCEPT !.pc = "register", !.conn = w]
<1>1. call' = [call EXCEPT ![c] = r]
  BY DEF Typed, CallsTyped
<1>2. r \in CallRecords
  BY CallFields DEF Typed, CallRecords, CallPcs
<1>3. /\ r.pc = "register" /\ r.retry = call[c].retry /\ r.broker = call[c].broker
      /\ r.conn = w /\ r.ready = call[c].ready /\ r.late = call[c].late
  BY CallFields DEF Typed
<1> HIDE DEF r
<1> QED
  BY <1>1, <1>2, <1>3, CallMoves DEF Typed, Becomes

LEMMA WaitingCalls ==
  ASSUME Typed, NEW c \in Calls, NEW n \in Nat,
         call' = [call EXCEPT ![c].pc = "ready", ![c].ready = n]
  PROVE  CallsTyped' /\ OthersStay(c) /\ Becomes(c, "ready", call[c].retry,
         call[c].broker, call[c].conn, n, call[c].late)
<1> DEFINE r == [call[c] EXCEPT !.pc = "ready", !.ready = n]
<1>1. call' = [call EXCEPT ![c] = r]
  BY DEF Typed, CallsTyped
<1>2. r \in CallRecords
  BY CallFields DEF Typed, CallRecords, CallPcs
<1>3. /\ r.pc = "ready" /\ r.retry = call[c].retry /\ r.broker = call[c].broker
      /\ r.conn = call[c].conn /\ r.ready = n /\ r.late = call[c].late
  BY CallFields DEF Typed
<1> HIDE DEF r
<1> QED
  BY <1>1, <1>2, <1>3, CallMoves DEF Typed, Becomes

LEMMA SentCalls ==
  ASSUME Typed, NEW c \in Calls, 
         call' = [call EXCEPT ![c].pc = "wait"]
  PROVE  CallsTyped' /\ OthersStay(c) /\ Becomes(c, "wait", call[c].retry,
         call[c].broker, call[c].conn, call[c].ready, call[c].late)
<1> DEFINE r == [call[c] EXCEPT !.pc = "wait"]
<1>1. call' = [call EXCEPT ![c] = r]
  BY DEF Typed, CallsTyped
<1>2. r \in CallRecords
  BY CallFields DEF Typed, CallRecords, CallPcs
<1>3. /\ r.pc = "wait" /\ r.retry = call[c].retry /\ r.broker = call[c].broker
      /\ r.conn = call[c].conn /\ r.ready = call[c].ready /\ r.late = call[c].late
  BY CallFields DEF Typed
<1> HIDE DEF r
<1> QED
  BY <1>1, <1>2, <1>3, CallMoves DEF Typed, Becomes

LEMMA StoppedCalls ==
  ASSUME Typed, NEW c \in Calls, 
         call' = [call EXCEPT ![c].pc = "unlock", ![c].result = "context"]
  PROVE  CallsTyped' /\ OthersStay(c) /\ Becomes(c, "unlock", call[c].retry,
         call[c].broker, call[c].conn, call[c].ready, call[c].late)
<1> DEFINE r == [call[c] EXCEPT !.pc = "unlock", !.result = "context"]
<1>1. call' = [call EXCEPT ![c] = r]
  BY DEF Typed, CallsTyped
<1>2. r \in CallRecords
  BY CallFields, OutcomesAre DEF Typed, CallRecords, CallPcs
<1>3. /\ r.pc = "unlock" /\ r.retry = call[c].retry /\ r.broker = call[c].broker
      /\ r.conn = call[c].conn /\ r.ready = call[c].ready /\ r.late = call[c].late
  BY CallFields DEF Typed
<1> HIDE DEF r
<1> QED
  BY <1>1, <1>2, <1>3, CallMoves DEF Typed, Becomes

LEMMA AgainCalls ==
  ASSUME Typed, NEW c \in Calls, call[c].retry < MaxRetries,
         call' = [call EXCEPT ![c].pc = "broker", ![c].retry = @ + 1, ![c].result
                = "none"]
  PROVE  CallsTyped' /\ OthersStay(c) /\ Becomes(c, "broker", call[c].retry + 1,
         call[c].broker, call[c].conn, call[c].ready, call[c].late)
<1> DEFINE r == [call[c] EXCEPT !.pc = "broker", !.retry = @ + 1, !.result = "none"]
<1>0. call[c].retry + 1 \in 0..MaxRetries
  BY CallFields, ConstantsAre DEF Typed, CallRecords
<1>1. call' = [call EXCEPT ![c] = r]
  BY DEF Typed, CallsTyped
<1>2. r \in CallRecords
  BY CallFields, OutcomesAre, <1>0 DEF Typed, CallRecords, CallPcs
<1>3. /\ r.pc = "broker" /\ r.retry = call[c].retry + 1 /\ r.broker = call[c].broker
      /\ r.conn = call[c].conn /\ r.ready = call[c].ready /\ r.late = call[c].late
  BY CallFields DEF Typed
<1> HIDE DEF r
<1> QED
  BY <1>1, <1>2, <1>3, CallMoves DEF Typed, Becomes

LEMMA ReturnEffect ==
  ASSUME CallsTyped, NEW c \in Calls, NEW o \in Outcomes, Return(c, o)
  PROVE  /\ CallsTyped' /\ OthersStay(c)
         /\ call'[c].pc \in {"backoff", "unlock"} /\ call'[c].retry = call[c].retry
         /\ call'[c].pc = "backoff" => call[c].retry < MaxRetries
         /\ chan' = [chan EXCEPT ![c] = "none"]
<1> DEFINE pc == IF /\ o \in Retryable /\ c \notin ctxDone /\ call[c].retry < MaxRetries
                 THEN "backoff" ELSE "unlock"
           result == IF o # "result" /\ c \in ctxDone THEN "context" ELSE o
           r == [call[c] EXCEPT !.conn = None, !.broker = None, !.ready = 0,
                                !.late = FALSE, !.pc = pc, !.result = result]
<1>1. chan' = [chan EXCEPT ![c] = "none"] /\ call' = [call EXCEPT ![c] = r]
  BY DEF Return
<1>2. /\ pc \in {"backoff", "unlock"} /\ pc \in CallPcs
      /\ pc = "backoff" => call[c].retry < MaxRetries
  BY DEF CallPcs
<1>3. result \in Outcomes
  BY OutcomesAre
<1> HIDE DEF pc, result
<1>4. r \in CallRecords
  BY <1>2, <1>3, CallFields DEF CallRecords
<1>5. r.pc = pc /\ r.retry = call[c].retry
  BY CallFields
<1> HIDE DEF r
<1> QED
  BY <1>1, <1>2, <1>4, <1>5, CallMoves

LEMMA ReturnsOf ==
  ASSUME Typed, NEW c \in Calls, NoConnection(c) \/ Receive(c) \/ Timeout(c)
  PROVE  \E o \in Outcomes : Return(c, o)
<1>1. chan[c] \in Outcomes
  BY DEF Typed, StoresTyped
<1> QED
  BY <1>1, OutcomesAre DEF NoConnection, Receive, Timeout

LEMMA BrokerForContextCalls ==
  ASSUME Typed, NEW c \in Calls, BrokerForContext(c)
  PROVE  /\ CallsTyped' /\ OthersStay(c)
         /\ \E b \in Brokers : Becomes(c, "conn", call[c].retry, b, call[c].conn,
                                      call[c].ready, call[c].late)
<1>1. \E b \in Brokers : call' = [call EXCEPT ![c].pc = "conn", ![c].broker = b]
  <2>1. latest \in active => latest \in Brokers
    BY DEF Typed, StoresTyped, Brokers
  <2> QED
    BY <2>1 DEF BrokerForContext, Brokers
<1> QED
  BY <1>1, BrokerCalls

LEMMA WaitConnCalls ==
  ASSUME Typed, StepsKnow, NEW c \in Calls, WaitConn(c)
  PROVE  /\ CallsTyped' /\ OthersStay(c)
         /\ \/ \E w \in Conns : Becomes(c, "register", call[c].retry, call[c].broker, w,
                                        call[c].ready, call[c].late)
            \/ /\ conn[call[c].broker] = None
               /\ Becomes(c, "ready", call[c].retry, call[c].broker, call[c].conn,
                          ready[call[c].broker], call[c].late)
<1>1. call[c].broker \in Brokers
  BY DEF WaitConn, StepsKnow
<1>2. conn[call[c].broker] \in Conns \cup {None} /\ ready[call[c].broker] \in Nat
  BY <1>1 DEF Typed, StoresTyped
<1>3. CASE conn[call[c].broker] # None
  <2>1. call' = [call EXCEPT ![c].pc = "register", ![c].conn = conn[call[c].broker]]
    BY <1>3 DEF WaitConn
  <2> QED
    BY <1>2, <1>3, <2>1, ConnectedCalls
<1>4. CASE conn[call[c].broker] = None
  <2>1. call' = [call EXCEPT ![c].pc = "ready", ![c].ready = ready[call[c].broker]]
    BY <1>4 DEF WaitConn
  <2> QED
    BY <1>2, <1>4, <2>1, WaitingCalls
<1> QED
  BY <1>3, <1>4

LEMMA RetryCalls ==
  ASSUME Typed, StepsKnow, NEW c \in Calls, Retry(c)
  PROVE  /\ CallsTyped' /\ OthersStay(c)
         /\ \/ Becomes(c, "unlock", call[c].retry, call[c].broker, call[c].conn,
                       call[c].ready, call[c].late)
            \/ Becomes(c, "broker", call[c].retry + 1, call[c].broker, call[c].conn,
                       call[c].ready, call[c].late)
<1>1. call[c].retry < MaxRetries
  BY DEF Retry, StepsKnow
<1>2. \/ call' = [call EXCEPT ![c].pc = "unlock", ![c].result = "context"]
      \/ call' = [call EXCEPT ![c].pc = "broker", ![c].retry = @ + 1, ![c].result = "none"]
  BY DEF Retry
<1> QED
  BY <1>1, <1>2, StoppedCalls, AgainCalls

LEMMA ReturnCalls ==
  ASSUME Typed, NEW c \in Calls, \E o \in Outcomes : Return(c, o)
  PROVE  /\ CallsTyped' /\ OthersStay(c)
         /\ call'[c].pc \in {"backoff", "unlock"} /\ call'[c].retry = call[c].retry
         /\ call'[c].pc = "backoff" => call[c].retry < MaxRetries
         /\ chan' = [chan EXCEPT ![c] = "none"]
BY ReturnEffect DEF Typed

LEMMA WriteCalls ==
  ASSUME Typed, NEW c \in Calls, Write(c)
  PROVE  \/ /\ CallsTyped' /\ OthersStay(c)
            /\ Becomes(c, "wait", call[c].retry, call[c].broker, call[c].conn,
                       call[c].ready, call[c].late)
            /\ UNCHANGED <<pending, chan>>
         \/ Forget(c) /\ (\E o \in Outcomes : Return(c, o))
<1>1. \/ call' = [call EXCEPT ![c].pc = "wait"] /\ UNCHANGED <<pending, chan>>
      \/ Forget(c) /\ (\E o \in Outcomes : Return(c, o))
  BY OutcomesAre DEF Write
<1> QED
  BY <1>1, SentCalls

-----------------------------------------------------------------------------
(* Every step is one of those *)

LEMMA NextSocks ==
  Typed /\ [Next]_vars => SocksTyped'
<1> SUFFICES ASSUME Typed, [Next]_vars PROVE SocksTyped'
  OBVIOUS
<1>1. ASSUME NEW w \in Conns, Connect(w) PROVE SocksTyped'
  BY <1>1, ConnectSocks
<1>2. ASSUME NEW w \in Conns, PeerLeaves(w) PROVE SocksTyped'
  BY <1>2, PeerLeavesSocks
<1>3. ASSUME NEW w \in Conns, Register(w) PROVE SocksTyped'
  BY <1>3, RegisterSocks
<1>4. ASSUME NEW w \in Conns, CloseReplaced(w) PROVE SocksTyped'
  BY <1>4, CloseReplacedSocks
<1>5. ASSUME NEW w \in Conns, ReadAnswer(w) PROVE SocksTyped'
  <2>1. PICK id \in sock[w].sent :
          /\ sock' = [sock EXCEPT ![w].sent = @ \ {id},
                       ![w].pc = IF id \in pending[ConnClient[w]] THEN "deliver" ELSE "read",
                       ![w].reply = IF id \in pending[ConnClient[w]] THEN id ELSE <<>>]
          /\ pending' = [pending EXCEPT ![ConnClient[w]] = @ \ {id}]
    BY <1>5 DEF ReadAnswer
  <2>2. id \in Ids
    BY SockFields DEF SockRecords
  <2>3. \E pc \in SockPcs, reply \in Ids \cup {<<>>} :
          sock' = [sock EXCEPT ![w].sent = @ \ {id}, ![w].pc = pc, ![w].reply = reply]
    BY <2>1, <2>2 DEF SockPcs
  <2> QED
    BY <2>3, ReadAnswerSocks
<1>6. ASSUME NEW w \in Conns, Deliver(w) PROVE SocksTyped'
  BY <1>6, DeliverSocks
<1>7. ASSUME NEW w \in Conns, ReadFails(w) PROVE SocksTyped'
  BY <1>7, ReadFailsSocks
<1>8. ASSUME NEW w \in Conns, Unregister(w) PROVE SocksTyped'
  BY <1>8, UnregisterSocks
<1>9. ASSUME NEW w \in Conns, Deactivate(w) PROVE SocksTyped'
  BY <1>9, DeactivateSocks
<1>10. ASSUME NEW c \in Calls, Begin(c) PROVE SocksTyped'
  BY <1>10 DEF Begin, Typed, SocksTyped, brokerVars, registryVars, callVars
<1>11. ASSUME NEW c \in Calls, Lock(c) PROVE SocksTyped'
  BY <1>11 DEF Lock, Typed, SocksTyped, brokerVars, registryVars, callVars
<1>12. ASSUME NEW c \in Calls, BrokerForContext(c) PROVE SocksTyped'
  BY <1>12 DEF BrokerForContext, Typed, SocksTyped, brokerVars, registryVars, callVars
<1>13. ASSUME NEW c \in Calls, WaitConn(c) PROVE SocksTyped'
  BY <1>13 DEF WaitConn, Typed, SocksTyped, brokerVars, registryVars, callVars
<1>14. ASSUME NEW c \in Calls, WakeUp(c) PROVE SocksTyped'
  BY <1>14 DEF WakeUp, Typed, SocksTyped, brokerVars, registryVars, callVars
<1>15. ASSUME NEW c \in Calls, RegisterPending(c) PROVE SocksTyped'
  BY <1>15 DEF RegisterPending, Typed, SocksTyped, brokerVars, registryVars, callVars
<1>16. ASSUME NEW c \in Calls, NoConnection(c) PROVE SocksTyped'
  BY <1>16 DEF NoConnection, Typed, SocksTyped, Return, brokerVars, registryVars, callVars
<1>17. ASSUME NEW c \in Calls, Write(c) PROVE SocksTyped'
  BY <1>17, WriteSocks
<1>18. ASSUME NEW c \in Calls, Receive(c) PROVE SocksTyped'
  BY <1>18 DEF Receive, Typed, SocksTyped, Return, brokerVars, registryVars, callVars
<1>19. ASSUME NEW c \in Calls, Timeout(c) PROVE SocksTyped'
  BY <1>19 DEF Timeout, Typed, SocksTyped, Return, Forget, brokerVars, registryVars, callVars
<1>20. ASSUME NEW c \in Calls, Retry(c) PROVE SocksTyped'
  BY <1>20 DEF Retry, Typed, SocksTyped, brokerVars, registryVars, callVars
<1>21. ASSUME NEW c \in Calls, Unlock(c) PROVE SocksTyped'
  BY <1>21 DEF Unlock, Typed, SocksTyped, brokerVars, registryVars, callVars
<1>22. ASSUME NEW c \in Calls, EndContext(c) PROVE SocksTyped'
  BY <1>22 DEF EndContext, Typed, SocksTyped, brokerVars, registryVars, callVars
<1>23. CASE UNCHANGED vars
  BY <1>23 DEF vars, Typed, SocksTyped, brokerVars, registryVars, callVars
<1> QED
  BY <1>1, <1>2, <1>3, <1>4, <1>5, <1>6, <1>7, <1>8, <1>9, <1>10, <1>11,
     <1>12, <1>13, <1>14, <1>15, <1>16, <1>17, <1>18, <1>19, <1>20, <1>21,
     <1>22, <1>23
  DEF Next, ConnStep, CallStep

LEMMA NextCalls ==
  Typed /\ StepsKnow /\ [Next]_vars => CallsTyped'
<1> SUFFICES ASSUME Typed, StepsKnow, [Next]_vars PROVE CallsTyped'
  OBVIOUS
<1>1. ASSUME NEW w \in Conns, Connect(w) PROVE CallsTyped'
  BY <1>1 DEF Connect, Typed, CallsTyped, brokerVars, registryVars, callVars
<1>2. ASSUME NEW w \in Conns, PeerLeaves(w) PROVE CallsTyped'
  BY <1>2 DEF PeerLeaves, Typed, CallsTyped, brokerVars, registryVars, callVars
<1>3. ASSUME NEW w \in Conns, Register(w) PROVE CallsTyped'
  BY <1>3 DEF Register, Typed, CallsTyped, FailPending, Notify, brokerVars,
     registryVars, callVars
<1>4. ASSUME NEW w \in Conns, CloseReplaced(w) PROVE CallsTyped'
  BY <1>4 DEF CloseReplaced, Typed, CallsTyped, brokerVars, registryVars, callVars
<1>5. ASSUME NEW w \in Conns, ReadAnswer(w) PROVE CallsTyped'
  BY <1>5 DEF ReadAnswer, Typed, CallsTyped, brokerVars, registryVars, callVars
<1>6. ASSUME NEW w \in Conns, Deliver(w) PROVE CallsTyped'
  BY <1>6 DEF Deliver, Typed, CallsTyped, brokerVars, registryVars, callVars
<1>7. ASSUME NEW w \in Conns, ReadFails(w) PROVE CallsTyped'
  BY <1>7 DEF ReadFails, Typed, CallsTyped, brokerVars, registryVars, callVars
<1>8. ASSUME NEW w \in Conns, Unregister(w) PROVE CallsTyped'
  BY <1>8 DEF Unregister, Typed, CallsTyped, FailPending, Notify, brokerVars,
     registryVars, callVars
<1>9. ASSUME NEW w \in Conns, Deactivate(w) PROVE CallsTyped'
  BY <1>9 DEF Deactivate, Typed, CallsTyped, brokerVars, registryVars, callVars
<1>10. ASSUME NEW c \in Calls, Begin(c) PROVE CallsTyped'
  BY <1>10, BeginCalls
<1>11. ASSUME NEW c \in Calls, Lock(c) PROVE CallsTyped'
  BY <1>11, LockCalls
<1>12. ASSUME NEW c \in Calls, BrokerForContext(c) PROVE CallsTyped'
  BY <1>12, BrokerForContextCalls
<1>13. ASSUME NEW c \in Calls, WaitConn(c) PROVE CallsTyped'
  BY <1>13, WaitConnCalls
<1>14. ASSUME NEW c \in Calls, WakeUp(c) PROVE CallsTyped'
  BY <1>14, WakeUpCalls
<1>15. ASSUME NEW c \in Calls, RegisterPending(c) PROVE CallsTyped'
  BY <1>15, RegisterPendingCalls
<1>16. ASSUME NEW c \in Calls, NoConnection(c) PROVE CallsTyped'
  BY <1>16, ReturnsOf, ReturnCalls
<1>17. ASSUME NEW c \in Calls, Write(c) PROVE CallsTyped'
  BY <1>17, WriteCalls, ReturnCalls
<1>18. ASSUME NEW c \in Calls, Receive(c) PROVE CallsTyped'
  BY <1>18, ReturnsOf, ReturnCalls
<1>19. ASSUME NEW c \in Calls, Timeout(c) PROVE CallsTyped'
  BY <1>19, ReturnsOf, ReturnCalls
<1>20. ASSUME NEW c \in Calls, Retry(c) PROVE CallsTyped'
  BY <1>20, RetryCalls
<1>21. ASSUME NEW c \in Calls, Unlock(c) PROVE CallsTyped'
  BY <1>21, UnlockCalls
<1>22. ASSUME NEW c \in Calls, EndContext(c) PROVE CallsTyped'
  BY <1>22 DEF EndContext, Typed, CallsTyped, brokerVars, registryVars, callVars
<1>23. CASE UNCHANGED vars
  BY <1>23 DEF vars, Typed, CallsTyped, brokerVars, registryVars, callVars
<1> QED
  BY <1>1, <1>2, <1>3, <1>4, <1>5, <1>6, <1>7, <1>8, <1>9, <1>10, <1>11,
     <1>12, <1>13, <1>14, <1>15, <1>16, <1>17, <1>18, <1>19, <1>20, <1>21,
     <1>22, <1>23
  DEF Next, ConnStep, CallStep

LEMMA NextStores ==
  Typed /\ [Next]_vars => StoresTyped'
<1> SUFFICES ASSUME Typed, [Next]_vars PROVE StoresTyped'
  OBVIOUS
<1>1. ASSUME NEW w \in Conns, Connect(w) PROVE StoresTyped'
  <2>1. ConnClient[w] \in Clients
    BY ConstantsAre
  <2> QED
    BY <1>1, <2>1 DEF Connect, Typed, StoresTyped, brokerVars, callVars
<1>2. ASSUME NEW w \in Conns, PeerLeaves(w) PROVE StoresTyped'
  BY <1>2 DEF PeerLeaves, Typed, StoresTyped, brokerVars, registryVars, callVars
<1>3. ASSUME NEW w \in Conns, Register(w) PROVE StoresTyped'
  <2>1. \E error \in Outcomes :
          chan' = [c \in Calls |->
                     IF Id(c) \in pending[ConnClient[w]] THEN error ELSE chan[c]]
    BY <1>3, OutcomesAre DEF Register, FailPending
  <2>2. chan' \in [Calls -> Outcomes]
    BY <2>1 DEF Typed, StoresTyped
  <2>3. /\ conn' = [conn EXCEPT ![ConnClient[w]] = w]
        /\ ready' = [ready EXCEPT ![ConnClient[w]] = @ + 1]
        /\ pending' = [pending EXCEPT ![ConnClient[w]] = {}]
        /\ UNCHANGED <<registryVars, lock, ctxDone>>
    BY <1>3 DEF Register, Notify, FailPending
  <2>4. conn' \in [Brokers -> Conns \cup {None}]
    BY <2>3 DEF Typed, StoresTyped
  <2>5. ready' \in [Brokers -> Nat]
    BY <2>3, ConstantsAre, Counted DEF Typed, StoresTyped
  <2>6. pending' \in [Brokers -> SUBSET Ids]
    BY <2>3 DEF Typed, StoresTyped
  <2>7. UNCHANGED <<active, latest, lock, ctxDone>>
    BY <2>3 DEF registryVars
  <2> QED
    BY <2>2, <2>4, <2>5, <2>6, <2>7 DEF Typed, StoresTyped
<1>4. ASSUME NEW w \in Conns, CloseReplaced(w) PROVE StoresTyped'
  BY <1>4 DEF CloseReplaced, Typed, StoresTyped, brokerVars, registryVars, callVars
<1>5. ASSUME NEW w \in Conns, ReadAnswer(w) PROVE StoresTyped'
  <2>1. \E id : pending' = [pending EXCEPT ![ConnClient[w]] = @ \ {id}]
    BY <1>5 DEF ReadAnswer
  <2>2. pending' \in [Brokers -> SUBSET Ids]
    BY <2>1 DEF Typed, StoresTyped
  <2> QED
    BY <1>5, <2>2 DEF ReadAnswer, Typed, StoresTyped, registryVars, callVars
<1>6. ASSUME NEW w \in Conns, Deliver(w) PROVE StoresTyped'
  <2>1. \/ UNCHANGED chan
        \/ \E answer \in Outcomes : chan' = [chan EXCEPT ![sock[w].reply[1]] = answer]
    BY <1>6, OutcomesAre DEF Deliver
  <2>2. chan' \in [Calls -> Outcomes]
    BY <2>1 DEF Typed, StoresTyped
  <2> QED
    BY <1>6, <2>2 DEF Deliver, Typed, StoresTyped, brokerVars, registryVars
<1>7. ASSUME NEW w \in Conns, ReadFails(w) PROVE StoresTyped'
  BY <1>7 DEF ReadFails, Typed, StoresTyped, brokerVars, registryVars, callVars
<1>8. ASSUME NEW w \in Conns, Unregister(w) PROVE StoresTyped'
  <2>1. CASE conn[ConnClient[w]] = w
    <3>1. \E error \in Outcomes :
            chan' = [c \in Calls |->
                       IF Id(c) \in pending[ConnClient[w]] THEN error ELSE chan[c]]
      BY <1>8, <2>1, OutcomesAre DEF Unregister, FailPending
    <3>2. chan' \in [Calls -> Outcomes]
      BY <3>1 DEF Typed, StoresTyped
    <3>3. /\ conn' = [conn EXCEPT ![ConnClient[w]] = None]
          /\ ready' = [ready EXCEPT ![ConnClient[w]] = @ + 1]
          /\ pending' = [pending EXCEPT ![ConnClient[w]] = {}]
          /\ UNCHANGED <<registryVars, lock, ctxDone>>
      BY <1>8, <2>1 DEF Unregister, Notify, FailPending
    <3>4. conn' \in [Brokers -> Conns \cup {None}]
      BY <3>3 DEF Typed, StoresTyped
    <3>5. ready' \in [Brokers -> Nat]
      BY <3>3, ConstantsAre, Counted DEF Typed, StoresTyped
    <3>6. pending' \in [Brokers -> SUBSET Ids]
      BY <3>3 DEF Typed, StoresTyped
    <3>7. UNCHANGED <<active, latest, lock, ctxDone>>
      BY <3>3 DEF registryVars
    <3> QED
      BY <3>2, <3>4, <3>5, <3>6, <3>7 DEF Typed, StoresTyped
  <2>2. CASE conn[ConnClient[w]] # w
    BY <1>8, <2>2 DEF Unregister, Typed, StoresTyped, brokerVars, registryVars
  <2> QED
    BY <2>1, <2>2
<1>9. ASSUME NEW w \in Conns, Deactivate(w) PROVE StoresTyped'
  BY <1>9 DEF Deactivate, Typed, StoresTyped, brokerVars, registryVars, callVars
<1>10. ASSUME NEW c \in Calls, Begin(c) PROVE StoresTyped'
  BY <1>10 DEF Begin, Typed, StoresTyped, brokerVars, registryVars, callVars
<1>11. ASSUME NEW c \in Calls, Lock(c) PROVE StoresTyped'
  BY <1>11 DEF Lock, Typed, StoresTyped, brokerVars, registryVars, callVars
<1>12. ASSUME NEW c \in Calls, BrokerForContext(c) PROVE StoresTyped'
  BY <1>12 DEF BrokerForContext, Typed, StoresTyped, brokerVars, registryVars, callVars
<1>13. ASSUME NEW c \in Calls, WaitConn(c) PROVE StoresTyped'
  BY <1>13 DEF WaitConn, Typed, StoresTyped, brokerVars, registryVars, callVars
<1>14. ASSUME NEW c \in Calls, WakeUp(c) PROVE StoresTyped'
  BY <1>14 DEF WakeUp, Typed, StoresTyped, brokerVars, registryVars, callVars
<1>15. ASSUME NEW c \in Calls, RegisterPending(c) PROVE StoresTyped'
  <2>1. Id(c) \in Ids
    BY IdIsId DEF Typed
  <2>2. pending' = [pending EXCEPT ![call[c].broker] = @ \cup {Id(c)}]
    BY <1>15 DEF RegisterPending
  <2>3. pending' \in [Brokers -> SUBSET Ids]
    BY <2>1, <2>2 DEF Typed, StoresTyped
  <2> QED
    BY <1>15, <2>3 DEF RegisterPending, Typed, StoresTyped, registryVars
<1>16. ASSUME NEW c \in Calls, NoConnection(c) PROVE StoresTyped'
  <2>1. chan' = [chan EXCEPT ![c] = "none"]
    BY <1>16, ReturnsOf, ReturnCalls
  <2>2. chan' \in [Calls -> Outcomes]
    BY <2>1, OutcomesAre DEF Typed, StoresTyped
  <2>3. \/ pending' = pending
        \/ pending' = [pending EXCEPT ![call[c].broker] = @ \ {Id(c)}]
    BY <1>16 DEF NoConnection, Forget, brokerVars
  <2>4. pending' \in [Brokers -> SUBSET Ids]
    BY <2>3 DEF Typed, StoresTyped
  <2> QED
    BY <1>16, <2>2, <2>4 DEF NoConnection, Typed, StoresTyped, brokerVars, registryVars
<1>17. ASSUME NEW c \in Calls, Write(c) PROVE StoresTyped'
  <2>1. \/ UNCHANGED <<pending, chan>>
        \/ Forget(c) /\ chan' = [chan EXCEPT ![c] = "none"]
    BY <1>17, WriteCalls, ReturnCalls
  <2>2. chan' \in [Calls -> Outcomes]
    BY <2>1, OutcomesAre DEF Typed, StoresTyped
  <2>3. pending' \in [Brokers -> SUBSET Ids]
    BY <2>1 DEF Typed, StoresTyped, Forget
  <2> QED
    BY <1>17, <2>2, <2>3 DEF Write, Typed, StoresTyped, registryVars
<1>18. ASSUME NEW c \in Calls, Receive(c) PROVE StoresTyped'
  <2>1. chan' = [chan EXCEPT ![c] = "none"]
    BY <1>18, ReturnsOf, ReturnCalls
  <2>2. chan' \in [Calls -> Outcomes]
    BY <2>1, OutcomesAre DEF Typed, StoresTyped
  <2>3. \/ pending' = pending
        \/ pending' = [pending EXCEPT ![call[c].broker] = @ \ {Id(c)}]
    BY <1>18 DEF Receive, Forget, brokerVars
  <2>4. pending' \in [Brokers -> SUBSET Ids]
    BY <2>3 DEF Typed, StoresTyped
  <2> QED
    BY <1>18, <2>2, <2>4 DEF Receive, Typed, StoresTyped, brokerVars, registryVars
<1>19. ASSUME NEW c \in Calls, Timeout(c) PROVE StoresTyped'
  <2>1. chan' = [chan EXCEPT ![c] = "none"]
    BY <1>19, ReturnsOf, ReturnCalls
  <2>2. chan' \in [Calls -> Outcomes]
    BY <2>1, OutcomesAre DEF Typed, StoresTyped
  <2>3. \/ pending' = pending
        \/ pending' = [pending EXCEPT ![call[c].broker] = @ \ {Id(c)}]
    BY <1>19 DEF Timeout, Forget, brokerVars
  <2>4. pending' \in [Brokers -> SUBSET Ids]
    BY <2>3 DEF Typed, StoresTyped
  <2> QED
    BY <1>19, <2>2, <2>4 DEF Timeout, Typed, StoresTyped, brokerVars, registryVars
<1>20. ASSUME NEW c \in Calls, Retry(c) PROVE StoresTyped'
  BY <1>20 DEF Retry, Typed, StoresTyped, brokerVars, registryVars, callVars
<1>21. ASSUME NEW c \in Calls, Unlock(c) PROVE StoresTyped'
  BY <1>21 DEF Unlock, Typed, StoresTyped, brokerVars, registryVars, callVars
<1>22. ASSUME NEW c \in Calls, EndContext(c) PROVE StoresTyped'
  BY <1>22 DEF EndContext, Typed, StoresTyped, brokerVars, registryVars, callVars
<1>23. CASE UNCHANGED vars
  BY <1>23 DEF vars, Typed, StoresTyped, brokerVars, registryVars, callVars
<1> QED
  BY <1>1, <1>2, <1>3, <1>4, <1>5, <1>6, <1>7, <1>8, <1>9, <1>10, <1>11,
     <1>12, <1>13, <1>14, <1>15, <1>16, <1>17, <1>18, <1>19, <1>20, <1>21,
     <1>22, <1>23
  DEF Next, ConnStep, CallStep

LEMMA NextSteps ==
  Typed /\ StepsKnow /\ [Next]_vars => StepsKnow'
<1> SUFFICES ASSUME Typed, StepsKnow, [Next]_vars PROVE StepsKnow'
  OBVIOUS
<1>1. ASSUME NEW w \in Conns, Connect(w) PROVE StepsKnow'
  BY <1>1 DEF Connect, StepsKnow, brokerVars, registryVars, callVars
<1>2. ASSUME NEW w \in Conns, PeerLeaves(w) PROVE StepsKnow'
  BY <1>2 DEF PeerLeaves, StepsKnow, brokerVars, registryVars, callVars
<1>3. ASSUME NEW w \in Conns, Register(w) PROVE StepsKnow'
  <2>1. \A b \in Brokers :
          ready[b] \in Nat /\ (ready'[b] = ready[b] \/ ready'[b] = ready[b] + 1)
    BY <1>3 DEF Register, Notify, Typed, StoresTyped, brokerVars
  <2>2. UNCHANGED call
    BY <1>3 DEF Register
  <2>3. \A c \in Calls : call[c].ready \in Nat
    BY CallFields DEF Typed, CallRecords
  <2> QED
    BY <2>1, <2>2, <2>3 DEF StepsKnow
<1>4. ASSUME NEW w \in Conns, CloseReplaced(w) PROVE StepsKnow'
  BY <1>4 DEF CloseReplaced, StepsKnow, brokerVars, registryVars, callVars
<1>5. ASSUME NEW w \in Conns, ReadAnswer(w) PROVE StepsKnow'
  BY <1>5 DEF ReadAnswer, StepsKnow, brokerVars, registryVars, callVars
<1>6. ASSUME NEW w \in Conns, Deliver(w) PROVE StepsKnow'
  BY <1>6 DEF Deliver, StepsKnow, brokerVars, registryVars, callVars
<1>7. ASSUME NEW w \in Conns, ReadFails(w) PROVE StepsKnow'
  BY <1>7 DEF ReadFails, StepsKnow, brokerVars, registryVars, callVars
<1>8. ASSUME NEW w \in Conns, Unregister(w) PROVE StepsKnow'
  <2>1. \A b \in Brokers :
          ready[b] \in Nat /\ (ready'[b] = ready[b] \/ ready'[b] = ready[b] + 1)
    BY <1>8 DEF Unregister, Notify, Typed, StoresTyped, brokerVars
  <2>2. UNCHANGED call
    BY <1>8 DEF Unregister
  <2>3. \A c \in Calls : call[c].ready \in Nat
    BY CallFields DEF Typed, CallRecords
  <2> QED
    BY <2>1, <2>2, <2>3 DEF StepsKnow
<1>9. ASSUME NEW w \in Conns, Deactivate(w) PROVE StepsKnow'
  BY <1>9 DEF Deactivate, StepsKnow, brokerVars, registryVars, callVars
<1>10. ASSUME NEW c \in Calls, Begin(c) PROVE StepsKnow'
  <2>1. OthersStay(c) /\ UNCHANGED <<conn, ready>>
    BY <1>10, BeginCalls DEF Begin, brokerVars
  <2>2. call'[c].pc = "lock"
    BY <1>10, BeginCalls DEF Begin, Becomes
  <2> QED
    BY <2>1, <2>2 DEF StepsKnow, OthersStay
<1>11. ASSUME NEW c \in Calls, Lock(c) PROVE StepsKnow'
  <2>1. OthersStay(c) /\ UNCHANGED <<conn, ready>>
    BY <1>11, LockCalls DEF Lock, brokerVars
  <2>2. call'[c].pc = "broker"
    BY <1>11, LockCalls DEF Lock, Becomes
  <2> QED
    BY <2>1, <2>2 DEF StepsKnow, OthersStay
<1>12. ASSUME NEW c \in Calls, BrokerForContext(c) PROVE StepsKnow'
  <2>1. OthersStay(c) /\ UNCHANGED <<conn, ready>>
    BY <1>12, BrokerForContextCalls DEF BrokerForContext, brokerVars
  <2>2. call'[c].pc = "conn" /\ call'[c].broker \in Brokers
    BY <1>12, BrokerForContextCalls DEF BrokerForContext, Becomes
  <2> QED
    BY <2>1, <2>2 DEF StepsKnow, OthersStay
<1>13. ASSUME NEW c \in Calls, WaitConn(c) PROVE StepsKnow'
  <2>1. OthersStay(c) /\ UNCHANGED <<conn, ready>>
    BY <1>13, WaitConnCalls DEF WaitConn, brokerVars
  <2>2. /\ call[c].pc = "conn" /\ call'[c].broker = call[c].broker
        /\ ready[call[c].broker] \in Nat
        /\ \/ call'[c].pc = "register" /\ call'[c].conn \in Conns
           \/ /\ call'[c].pc = "ready" /\ conn[call[c].broker] = None
              /\ call'[c].ready = ready[call[c].broker]
    BY <1>13, WaitConnCalls DEF WaitConn, Becomes, StepsKnow, Typed, StoresTyped
  <2> QED
    BY <2>1, <2>2 DEF StepsKnow, OthersStay
<1>14. ASSUME NEW c \in Calls, WakeUp(c) PROVE StepsKnow'
  <2>1. OthersStay(c) /\ UNCHANGED <<conn, ready>>
    BY <1>14, WakeUpCalls DEF WakeUp, brokerVars
  <2>2. call[c].pc = "ready" /\ call'[c].pc = "conn" /\ call'[c].broker = call[c].broker
    BY <1>14, WakeUpCalls DEF WakeUp, Becomes
  <2> QED
    BY <2>1, <2>2 DEF StepsKnow, OthersStay
<1>15. ASSUME NEW c \in Calls, RegisterPending(c) PROVE StepsKnow'
  <2>1. OthersStay(c) /\ UNCHANGED <<conn, ready>>
    BY <1>15, RegisterPendingCalls DEF RegisterPending, brokerVars
  <2>2. /\ call[c].pc = "register" /\ call'[c].pc = "write"
        /\ call'[c].broker = call[c].broker /\ call'[c].conn = call[c].conn
    BY <1>15, RegisterPendingCalls DEF RegisterPending, Becomes
  <2> QED
    BY <2>1, <2>2 DEF StepsKnow, OthersStay
<1>16. ASSUME NEW c \in Calls, NoConnection(c) PROVE StepsKnow'
  <2>1. OthersStay(c) /\ UNCHANGED <<conn, ready>>
    BY <1>16, ReturnsOf, ReturnCalls DEF NoConnection, brokerVars
  <2>2. /\ call'[c].pc \in {"backoff", "unlock"} /\ call'[c].retry = call[c].retry
        /\ call'[c].pc = "backoff" => call[c].retry < MaxRetries
    BY <1>16, ReturnsOf, ReturnCalls DEF NoConnection, Becomes
  <2> QED
    BY <2>1, <2>2 DEF StepsKnow, OthersStay
<1>17. ASSUME NEW c \in Calls, Write(c) PROVE StepsKnow'
  <2>1. OthersStay(c) /\ UNCHANGED <<conn, ready>>
    BY <1>17, WriteCalls, ReturnCalls DEF Write, brokerVars
  <2>2. /\ call[c].pc = "write"
        /\ \/ /\ call'[c].pc = "wait"
              /\ call'[c].broker = call[c].broker /\ call'[c].conn = call[c].conn
           \/ /\ call'[c].pc \in {"backoff", "unlock"} /\ call'[c].retry = call[c].retry
              /\ call'[c].pc = "backoff" => call[c].retry < MaxRetries
    BY <1>17, WriteCalls, ReturnCalls DEF Write, Becomes
  <2> QED
    BY <2>1, <2>2 DEF StepsKnow, OthersStay
<1>18. ASSUME NEW c \in Calls, Receive(c) PROVE StepsKnow'
  <2>1. OthersStay(c) /\ UNCHANGED <<conn, ready>>
    BY <1>18, ReturnsOf, ReturnCalls DEF Receive, brokerVars
  <2>2. /\ call'[c].pc \in {"backoff", "unlock"} /\ call'[c].retry = call[c].retry
        /\ call'[c].pc = "backoff" => call[c].retry < MaxRetries
    BY <1>18, ReturnsOf, ReturnCalls DEF Receive, Becomes
  <2> QED
    BY <2>1, <2>2 DEF StepsKnow, OthersStay
<1>19. ASSUME NEW c \in Calls, Timeout(c) PROVE StepsKnow'
  <2>1. OthersStay(c) /\ UNCHANGED <<conn, ready>>
    BY <1>19, ReturnsOf, ReturnCalls DEF Timeout, brokerVars
  <2>2. /\ call'[c].pc \in {"backoff", "unlock"} /\ call'[c].retry = call[c].retry
        /\ call'[c].pc = "backoff" => call[c].retry < MaxRetries
    BY <1>19, ReturnsOf, ReturnCalls DEF Timeout, Becomes
  <2> QED
    BY <2>1, <2>2 DEF StepsKnow, OthersStay
<1>20. ASSUME NEW c \in Calls, Retry(c) PROVE StepsKnow'
  <2>1. OthersStay(c) /\ UNCHANGED <<conn, ready>>
    BY <1>20, RetryCalls DEF Retry, brokerVars
  <2>2. call'[c].pc \in {"unlock", "broker"}
    BY <1>20, RetryCalls DEF Retry, Becomes
  <2> QED
    BY <2>1, <2>2 DEF StepsKnow, OthersStay
<1>21. ASSUME NEW c \in Calls, Unlock(c) PROVE StepsKnow'
  <2>1. OthersStay(c) /\ UNCHANGED <<conn, ready>>
    BY <1>21, UnlockCalls DEF Unlock, brokerVars
  <2>2. call'[c].pc = "done"
    BY <1>21, UnlockCalls DEF Unlock, Becomes
  <2> QED
    BY <2>1, <2>2 DEF StepsKnow, OthersStay
<1>22. ASSUME NEW c \in Calls, EndContext(c) PROVE StepsKnow'
  BY <1>22 DEF EndContext, StepsKnow, brokerVars, registryVars, callVars
<1>23. CASE UNCHANGED vars
  BY <1>23 DEF vars, StepsKnow, brokerVars, registryVars, callVars
<1> QED
  BY <1>1, <1>2, <1>3, <1>4, <1>5, <1>6, <1>7, <1>8, <1>9, <1>10, <1>11,
     <1>12, <1>13, <1>14, <1>15, <1>16, <1>17, <1>18, <1>19, <1>20, <1>21,
     <1>22, <1>23
  DEF Next, ConnStep, CallStep

LEMMA NextMissed ==
  Typed /\ StepsKnow /\ NoMissedConnection /\ [Next]_vars => NoMissedConnection'
<1> SUFFICES ASSUME Typed, StepsKnow, NoMissedConnection, [Next]_vars PROVE
                    NoMissedConnection'
  OBVIOUS
<1>1. ASSUME NEW w \in Conns, Connect(w) PROVE NoMissedConnection'
  BY <1>1 DEF Connect, NoMissedConnection, brokerVars, registryVars, callVars
<1>2. ASSUME NEW w \in Conns, PeerLeaves(w) PROVE NoMissedConnection'
  BY <1>2 DEF PeerLeaves, NoMissedConnection, brokerVars, registryVars, callVars
<1>3. ASSUME NEW w \in Conns, Register(w) PROVE NoMissedConnection'
  <2>1. \A b \in Brokers :
          /\ ready[b] \in Nat
          /\ \/ ready'[b] = ready[b] /\ conn'[b] = conn[b]
             \/ ready'[b] = ready[b] + 1
    BY <1>3, ConstantsAre DEF Register, Notify, Typed, StoresTyped, brokerVars
  <2>2. UNCHANGED call
    BY <1>3 DEF Register
  <2>3. \A c \in Calls : call[c].ready \in Nat
    BY CallFields DEF Typed, CallRecords
  <2> QED
    BY <2>1, <2>2, <2>3 DEF StepsKnow, NoMissedConnection
<1>4. ASSUME NEW w \in Conns, CloseReplaced(w) PROVE NoMissedConnection'
  BY <1>4 DEF CloseReplaced, NoMissedConnection, brokerVars, registryVars, callVars
<1>5. ASSUME NEW w \in Conns, ReadAnswer(w) PROVE NoMissedConnection'
  BY <1>5 DEF ReadAnswer, NoMissedConnection, brokerVars, registryVars, callVars
<1>6. ASSUME NEW w \in Conns, Deliver(w) PROVE NoMissedConnection'
  BY <1>6 DEF Deliver, NoMissedConnection, brokerVars, registryVars, callVars
<1>7. ASSUME NEW w \in Conns, ReadFails(w) PROVE NoMissedConnection'
  BY <1>7 DEF ReadFails, NoMissedConnection, brokerVars, registryVars, callVars
<1>8. ASSUME NEW w \in Conns, Unregister(w) PROVE NoMissedConnection'
  <2>1. \A b \in Brokers :
          /\ ready[b] \in Nat
          /\ \/ ready'[b] = ready[b] /\ conn'[b] = conn[b]
             \/ ready'[b] = ready[b] + 1
    BY <1>8, ConstantsAre DEF Unregister, Notify, Typed, StoresTyped, brokerVars
  <2>2. UNCHANGED call
    BY <1>8 DEF Unregister
  <2>3. \A c \in Calls : call[c].ready \in Nat
    BY CallFields DEF Typed, CallRecords
  <2> QED
    BY <2>1, <2>2, <2>3 DEF StepsKnow, NoMissedConnection
<1>9. ASSUME NEW w \in Conns, Deactivate(w) PROVE NoMissedConnection'
  BY <1>9 DEF Deactivate, NoMissedConnection, brokerVars, registryVars, callVars
<1>10. ASSUME NEW c \in Calls, Begin(c) PROVE NoMissedConnection'
  <2>1. OthersStay(c) /\ UNCHANGED <<conn, ready>>
    BY <1>10, BeginCalls DEF Begin, brokerVars
  <2>2. call'[c].pc = "lock"
    BY <1>10, BeginCalls DEF Begin, Becomes
  <2> QED
    BY <2>1, <2>2 DEF NoMissedConnection, OthersStay
<1>11. ASSUME NEW c \in Calls, Lock(c) PROVE NoMissedConnection'
  <2>1. OthersStay(c) /\ UNCHANGED <<conn, ready>>
    BY <1>11, LockCalls DEF Lock, brokerVars
  <2>2. call'[c].pc = "broker"
    BY <1>11, LockCalls DEF Lock, Becomes
  <2> QED
    BY <2>1, <2>2 DEF NoMissedConnection, OthersStay
<1>12. ASSUME NEW c \in Calls, BrokerForContext(c) PROVE NoMissedConnection'
  <2>1. OthersStay(c) /\ UNCHANGED <<conn, ready>>
    BY <1>12, BrokerForContextCalls DEF BrokerForContext, brokerVars
  <2>2. call'[c].pc = "conn" /\ call'[c].broker \in Brokers
    BY <1>12, BrokerForContextCalls DEF BrokerForContext, Becomes
  <2> QED
    BY <2>1, <2>2 DEF NoMissedConnection, OthersStay
<1>13. ASSUME NEW c \in Calls, WaitConn(c) PROVE NoMissedConnection'
  <2>1. OthersStay(c) /\ UNCHANGED <<conn, ready>>
    BY <1>13, WaitConnCalls DEF WaitConn, brokerVars
  <2>2. /\ call[c].pc = "conn" /\ call'[c].broker = call[c].broker
        /\ ready[call[c].broker] \in Nat
        /\ \/ call'[c].pc = "register" /\ call'[c].conn \in Conns
           \/ /\ call'[c].pc = "ready" /\ conn[call[c].broker] = None
              /\ call'[c].ready = ready[call[c].broker]
    BY <1>13, WaitConnCalls DEF WaitConn, Becomes, StepsKnow, Typed, StoresTyped
  <2> QED
    BY <2>1, <2>2 DEF NoMissedConnection, OthersStay
<1>14. ASSUME NEW c \in Calls, WakeUp(c) PROVE NoMissedConnection'
  <2>1. OthersStay(c) /\ UNCHANGED <<conn, ready>>
    BY <1>14, WakeUpCalls DEF WakeUp, brokerVars
  <2>2. call[c].pc = "ready" /\ call'[c].pc = "conn" /\ call'[c].broker = call[c].broker
    BY <1>14, WakeUpCalls DEF WakeUp, Becomes
  <2> QED
    BY <2>1, <2>2 DEF NoMissedConnection, OthersStay
<1>15. ASSUME NEW c \in Calls, RegisterPending(c) PROVE NoMissedConnection'
  <2>1. OthersStay(c) /\ UNCHANGED <<conn, ready>>
    BY <1>15, RegisterPendingCalls DEF RegisterPending, brokerVars
  <2>2. /\ call[c].pc = "register" /\ call'[c].pc = "write"
        /\ call'[c].broker = call[c].broker /\ call'[c].conn = call[c].conn
    BY <1>15, RegisterPendingCalls DEF RegisterPending, Becomes
  <2> QED
    BY <2>1, <2>2 DEF NoMissedConnection, OthersStay
<1>16. ASSUME NEW c \in Calls, NoConnection(c) PROVE NoMissedConnection'
  <2>1. OthersStay(c) /\ UNCHANGED <<conn, ready>>
    BY <1>16, ReturnsOf, ReturnCalls DEF NoConnection, brokerVars
  <2>2. /\ call'[c].pc \in {"backoff", "unlock"} /\ call'[c].retry = call[c].retry
        /\ call'[c].pc = "backoff" => call[c].retry < MaxRetries
    BY <1>16, ReturnsOf, ReturnCalls DEF NoConnection, Becomes
  <2> QED
    BY <2>1, <2>2 DEF NoMissedConnection, OthersStay
<1>17. ASSUME NEW c \in Calls, Write(c) PROVE NoMissedConnection'
  <2>1. OthersStay(c) /\ UNCHANGED <<conn, ready>>
    BY <1>17, WriteCalls, ReturnCalls DEF Write, brokerVars
  <2>2. /\ call[c].pc = "write"
        /\ \/ /\ call'[c].pc = "wait"
              /\ call'[c].broker = call[c].broker /\ call'[c].conn = call[c].conn
           \/ /\ call'[c].pc \in {"backoff", "unlock"} /\ call'[c].retry = call[c].retry
              /\ call'[c].pc = "backoff" => call[c].retry < MaxRetries
    BY <1>17, WriteCalls, ReturnCalls DEF Write, Becomes
  <2> QED
    BY <2>1, <2>2 DEF NoMissedConnection, OthersStay
<1>18. ASSUME NEW c \in Calls, Receive(c) PROVE NoMissedConnection'
  <2>1. OthersStay(c) /\ UNCHANGED <<conn, ready>>
    BY <1>18, ReturnsOf, ReturnCalls DEF Receive, brokerVars
  <2>2. /\ call'[c].pc \in {"backoff", "unlock"} /\ call'[c].retry = call[c].retry
        /\ call'[c].pc = "backoff" => call[c].retry < MaxRetries
    BY <1>18, ReturnsOf, ReturnCalls DEF Receive, Becomes
  <2> QED
    BY <2>1, <2>2 DEF NoMissedConnection, OthersStay
<1>19. ASSUME NEW c \in Calls, Timeout(c) PROVE NoMissedConnection'
  <2>1. OthersStay(c) /\ UNCHANGED <<conn, ready>>
    BY <1>19, ReturnsOf, ReturnCalls DEF Timeout, brokerVars
  <2>2. /\ call'[c].pc \in {"backoff", "unlock"} /\ call'[c].retry = call[c].retry
        /\ call'[c].pc = "backoff" => call[c].retry < MaxRetries
    BY <1>19, ReturnsOf, ReturnCalls DEF Timeout, Becomes
  <2> QED
    BY <2>1, <2>2 DEF NoMissedConnection, OthersStay
<1>20. ASSUME NEW c \in Calls, Retry(c) PROVE NoMissedConnection'
  <2>1. OthersStay(c) /\ UNCHANGED <<conn, ready>>
    BY <1>20, RetryCalls DEF Retry, brokerVars
  <2>2. call'[c].pc \in {"unlock", "broker"}
    BY <1>20, RetryCalls DEF Retry, Becomes
  <2> QED
    BY <2>1, <2>2 DEF NoMissedConnection, OthersStay
<1>21. ASSUME NEW c \in Calls, Unlock(c) PROVE NoMissedConnection'
  <2>1. OthersStay(c) /\ UNCHANGED <<conn, ready>>
    BY <1>21, UnlockCalls DEF Unlock, brokerVars
  <2>2. call'[c].pc = "done"
    BY <1>21, UnlockCalls DEF Unlock, Becomes
  <2> QED
    BY <2>1, <2>2 DEF NoMissedConnection, OthersStay
<1>22. ASSUME NEW c \in Calls, EndContext(c) PROVE NoMissedConnection'
  BY <1>22 DEF EndContext, NoMissedConnection, brokerVars, registryVars, callVars
<1>23. CASE UNCHANGED vars
  BY <1>23 DEF vars, NoMissedConnection, brokerVars, registryVars, callVars
<1> QED
  BY <1>1, <1>2, <1>3, <1>4, <1>5, <1>6, <1>7, <1>8, <1>9, <1>10, <1>11,
     <1>12, <1>13, <1>14, <1>15, <1>16, <1>17, <1>18, <1>19, <1>20, <1>21,
     <1>22, <1>23
  DEF Next, ConnStep, CallStep

LEMMA NextRequest ==
  Typed /\ StepsKnow /\ ReadersHold /\ [Next]_vars => RequestStep
<1> SUFFICES ASSUME Typed, StepsKnow, ReadersHold, [Next]_vars PROVE RequestStep
  OBVIOUS
<1>1. ASSUME NEW w \in Conns, Connect(w) PROVE RequestStep
  <2>1. RepliesStay
    <3> SUFFICES ASSUME NEW v \in Conns PROVE sock'[v].reply = sock[v].reply
      BY DEF RepliesStay
    <3> QED
      BY <1>1, ConnectSocks
  <2>2. UNCHANGED <<conn, pending, call, chan>>
    BY <1>1 DEF Connect, brokerVars, callVars
  <2> QED
    BY <2>1, <2>2 DEF RequestStep, Quiet
<1>2. ASSUME NEW w \in Conns, PeerLeaves(w) PROVE RequestStep
  <2>1. RepliesStay
    <3> SUFFICES ASSUME NEW v \in Conns PROVE sock'[v].reply = sock[v].reply
      BY DEF RepliesStay
    <3> QED
      BY <1>2, PeerLeavesSocks
  <2>2. UNCHANGED <<conn, pending, call, chan>>
    BY <1>2 DEF PeerLeaves, brokerVars, callVars
  <2> QED
    BY <2>1, <2>2 DEF RequestStep, Quiet
<1>3. ASSUME NEW w \in Conns, Register(w) PROVE RequestStep
  <2>1. RepliesStay
    <3> SUFFICES ASSUME NEW v \in Conns PROVE sock'[v].reply = sock[v].reply
      BY DEF RepliesStay
    <3> QED
      BY <1>3, RegisterSocks
  <2>2. UNCHANGED call
    BY <1>3 DEF Register
  <2>3. \A b \in Brokers \ {ConnClient[w]} : conn'[b] = conn[b]
    BY <1>3 DEF Register, Typed, StoresTyped
  <2>4. /\ pending' = [pending EXCEPT ![ConnClient[w]] = {}]
        /\ chan' = [c \in Calls |->
                      IF Id(c) \in pending[ConnClient[w]] THEN "reconnected" ELSE chan[c]]
    BY <1>3 DEF Register, FailPending
  <2>5. "reconnected" \in Outcomes \ {"none"} /\ ConnClient[w] \in Brokers
    BY OutcomesAre, ConstantsAre
  <2>6. Fails(ConnClient[w])
    BY <2>1, <2>2, <2>3, <2>4, <2>5 DEF Fails
  <2> QED
    BY <2>5, <2>6 DEF RequestStep
<1>4. ASSUME NEW w \in Conns, CloseReplaced(w) PROVE RequestStep
  <2>1. RepliesStay
    BY <1>4, CloseReplacedSocks DEF CloseReplaced, RepliesStay, callVars
  <2>2. UNCHANGED <<conn, pending, call, chan>>
    BY <1>4 DEF CloseReplaced, brokerVars, callVars
  <2> QED
    BY <2>1, <2>2 DEF RequestStep, Quiet
<1>5. ASSUME NEW w \in Conns, ReadAnswer(w) PROVE RequestStep
  <2>1. PICK id \in sock[w].sent :
          /\ sock' = [sock EXCEPT ![w].sent = @ \ {id},
                       ![w].pc = IF id \in pending[ConnClient[w]] THEN "deliver" ELSE "read",
                       ![w].reply = IF id \in pending[ConnClient[w]] THEN id ELSE <<>>]
          /\ pending' = [pending EXCEPT ![ConnClient[w]] = @ \ {id}]
    BY <1>5 DEF ReadAnswer
  <2>2. id \in Ids
    BY SockFields DEF SockRecords
  <2>3. UNCHANGED <<conn, call, chan>>
    BY <1>5 DEF ReadAnswer, callVars
  <2>4. ConnClient[w] \in Brokers /\ sock[w].reply = <<>>
    BY <1>5, ConstantsAre DEF ReadAnswer, ReadersHold
  <2>5. CASE id \in pending[ConnClient[w]]
    <3>1. sock' = [sock EXCEPT ![w].sent = @ \ {id}, ![w].pc = "deliver", ![w].reply = id]
      BY <2>1, <2>5
    <3>2. sock'[w].reply = id /\ \A v \in Conns \ {w} : sock'[v] = sock[v]
      BY <2>2, <3>1, ReadAnswerSocks DEF SockPcs
    <3>3. Takes(w, id)
      BY <2>1, <2>2, <2>3, <2>4, <2>5, <3>2, NoIdIsEmpty DEF Takes
    <3> QED
      BY <2>2, <3>3 DEF RequestStep
  <2>6. CASE id \notin pending[ConnClient[w]]
    <3>1. sock' = [sock EXCEPT ![w].sent = @ \ {id}, ![w].pc = "read", ![w].reply = <<>>]
      BY <2>1, <2>6
    <3>2. sock'[w].reply = <<>> /\ \A v \in Conns \ {w} : sock'[v] = sock[v]
      BY <3>1, ReadAnswerSocks DEF SockPcs
    <3>3. pending' = pending
      BY <2>1, <2>6 DEF Typed, StoresTyped
    <3>4. Quiet
      BY <2>3, <2>4, <3>2, <3>3 DEF Quiet, RepliesStay
    <3> QED
      BY <3>4 DEF RequestStep
  <2> QED
    BY <2>5, <2>6
<1>6. ASSUME NEW w \in Conns, Deliver(w) PROVE RequestStep
  <2>1. sock'[w].reply = <<>> /\ \A v \in Conns \ {w} : sock'[v] = sock[v]
    BY <1>6, DeliverSocks
  <2>2. sock[w].reply \in Ids
    BY <1>6, SockFields DEF Deliver, ReadersHold, SockRecords
  <2>3. UNCHANGED <<conn, pending, call>>
    BY <1>6 DEF Deliver, brokerVars
  <2>4. \/ ~IsCurrent(sock[w].reply) /\ UNCHANGED chan
        \/ /\ IsCurrent(sock[w].reply)
           /\ \E answer \in Outcomes \ {"none"} :
                chan' = [chan EXCEPT ![sock[w].reply[1]] = answer]
    BY <1>6, OutcomesAre DEF Deliver
  <2>5. Delivers(w)
    BY <2>1, <2>2, <2>3, <2>4 DEF Delivers
  <2> QED
    BY <2>5 DEF RequestStep
<1>7. ASSUME NEW w \in Conns, ReadFails(w) PROVE RequestStep
  <2>1. RepliesStay
    <3> SUFFICES ASSUME NEW v \in Conns PROVE sock'[v].reply = sock[v].reply
      BY DEF RepliesStay
    <3> QED
      BY <1>7, ReadFailsSocks
  <2>2. UNCHANGED <<conn, pending, call, chan>>
    BY <1>7 DEF ReadFails, brokerVars, callVars
  <2> QED
    BY <2>1, <2>2 DEF RequestStep, Quiet
<1>8. ASSUME NEW w \in Conns, Unregister(w) PROVE RequestStep
  <2>1. RepliesStay
    <3> SUFFICES ASSUME NEW v \in Conns PROVE sock'[v].reply = sock[v].reply
      BY DEF RepliesStay
    <3> QED
      BY <1>8, UnregisterSocks
  <2>2. UNCHANGED call
    BY <1>8 DEF Unregister
  <2>3. CASE conn[ConnClient[w]] = w
    <3>3. \A b \in Brokers \ {ConnClient[w]} : conn'[b] = conn[b]
      BY <1>8, <2>3 DEF Unregister, Typed, StoresTyped
    <3>4. /\ pending' = [pending EXCEPT ![ConnClient[w]] = {}]
          /\ chan' = [c \in Calls |->
                        IF Id(c) \in pending[ConnClient[w]] THEN "disconnected" ELSE chan[c]]
      BY <1>8, <2>3 DEF Unregister, FailPending
    <3>5. "disconnected" \in Outcomes \ {"none"} /\ ConnClient[w] \in Brokers
      BY OutcomesAre, ConstantsAre
    <3>6. Fails(ConnClient[w])
      BY <2>1, <2>2, <3>3, <3>4, <3>5 DEF Fails
    <3> QED
      BY <3>5, <3>6 DEF RequestStep
  <2>4. CASE conn[ConnClient[w]] # w
    BY <1>8, <2>1, <2>2, <2>4 DEF Unregister, brokerVars, RequestStep, Quiet
  <2> QED
    BY <2>3, <2>4
<1>9. ASSUME NEW w \in Conns, Deactivate(w) PROVE RequestStep
  <2>1. RepliesStay
    <3> SUFFICES ASSUME NEW v \in Conns PROVE sock'[v].reply = sock[v].reply
      BY DEF RepliesStay
    <3> QED
      BY <1>9, DeactivateSocks
  <2>2. UNCHANGED <<conn, pending, call, chan>>
    BY <1>9 DEF Deactivate, brokerVars, callVars
  <2> QED
    BY <2>1, <2>2 DEF RequestStep, Quiet
<1>10. ASSUME NEW c \in Calls, Begin(c) PROVE RequestStep
  <2>1. RepliesStay /\ OthersStay(c) /\ UNCHANGED <<conn, pending, chan>>
    BY <1>10, BeginCalls DEF Begin, brokerVars, RepliesStay
  <2>2. /\ call[c].pc \in Unsent /\ call'[c].pc \in Unsent
        /\ call'[c].retry = call[c].retry
    BY <1>10, BeginCalls DEF Begin, Becomes, Unsent
  <2>3. Moves(c)
    BY <2>1, <2>2 DEF Moves, Requesting, Unsent
  <2> QED
    BY <2>3 DEF RequestStep
<1>11. ASSUME NEW c \in Calls, Lock(c) PROVE RequestStep
  <2>1. RepliesStay /\ OthersStay(c) /\ UNCHANGED <<conn, pending, chan>>
    BY <1>11, LockCalls DEF Lock, brokerVars, RepliesStay
  <2>2. /\ call[c].pc \in Unsent /\ call'[c].pc \in Unsent
        /\ call'[c].retry = call[c].retry
    BY <1>11, LockCalls DEF Lock, Becomes, Unsent
  <2>3. Moves(c)
    BY <2>1, <2>2 DEF Moves, Requesting, Unsent
  <2> QED
    BY <2>3 DEF RequestStep
<1>12. ASSUME NEW c \in Calls, BrokerForContext(c) PROVE RequestStep
  <2>1. RepliesStay /\ OthersStay(c) /\ UNCHANGED <<conn, pending, chan>>
    BY <1>12, BrokerForContextCalls DEF BrokerForContext, brokerVars, RepliesStay
  <2>2. /\ call[c].pc \in Unsent /\ call'[c].pc \in Unsent
        /\ call'[c].retry = call[c].retry
    BY <1>12, BrokerForContextCalls DEF BrokerForContext, Becomes, Unsent
  <2>3. Moves(c)
    BY <2>1, <2>2 DEF Moves, Requesting, Unsent
  <2> QED
    BY <2>3 DEF RequestStep
<1>13. ASSUME NEW c \in Calls, WaitConn(c) PROVE RequestStep
  <2>1. RepliesStay /\ OthersStay(c) /\ UNCHANGED <<conn, pending, chan>>
    BY <1>13, WaitConnCalls DEF WaitConn, brokerVars, RepliesStay
  <2>2. /\ call[c].pc \in Unsent /\ call'[c].pc \in Unsent
        /\ call'[c].retry = call[c].retry
    BY <1>13, WaitConnCalls DEF WaitConn, Becomes, Unsent
  <2>3. Moves(c)
    BY <2>1, <2>2 DEF Moves, Requesting, Unsent
  <2> QED
    BY <2>3 DEF RequestStep
<1>14. ASSUME NEW c \in Calls, WakeUp(c) PROVE RequestStep
  <2>1. RepliesStay /\ OthersStay(c) /\ UNCHANGED <<conn, pending, chan>>
    BY <1>14, WakeUpCalls DEF WakeUp, brokerVars, RepliesStay
  <2>2. /\ call[c].pc \in Unsent /\ call'[c].pc \in Unsent
        /\ call'[c].retry = call[c].retry
    BY <1>14, WakeUpCalls DEF WakeUp, Becomes, Unsent
  <2>3. Moves(c)
    BY <2>1, <2>2 DEF Moves, Requesting, Unsent
  <2> QED
    BY <2>3 DEF RequestStep
<1>15. ASSUME NEW c \in Calls, RegisterPending(c) PROVE RequestStep
  <2>1. RepliesStay /\ OthersStay(c) /\ UNCHANGED <<conn, chan>>
    BY <1>15, RegisterPendingCalls DEF RegisterPending, RepliesStay
  <2>2. /\ call[c].pc = "register"
        /\ pending' = [pending EXCEPT ![call[c].broker] = @ \cup {Id(c)}]
    BY <1>15 DEF RegisterPending
  <2>3. /\ call'[c].pc = "write" /\ call'[c].retry = call[c].retry
        /\ call'[c].broker = call[c].broker /\ call'[c].conn = call[c].conn
        /\ call'[c].late = (conn[call[c].broker] # call[c].conn)
    BY <1>15, RegisterPendingCalls DEF Becomes
  <2>4. Enters(c)
    BY <2>1, <2>2, <2>3 DEF Enters
  <2> QED
    BY <2>4 DEF RequestStep
<1>16. ASSUME NEW c \in Calls, NoConnection(c) PROVE RequestStep
  <2>1. RepliesStay /\ UNCHANGED conn
    BY <1>16 DEF NoConnection, RepliesStay, brokerVars
  <2>2. /\ OthersStay(c) /\ chan' = [chan EXCEPT ![c] = "none"]
        /\ call'[c].pc \in {"backoff", "unlock"} /\ call'[c].retry = call[c].retry
    BY <1>16, ReturnsOf, ReturnCalls
  <2>3. UNCHANGED pending /\ call[c].pc = "ready"
    BY <1>16 DEF NoConnection, brokerVars
  <2>4. Returns(c)
    BY <2>1, <2>2, <2>3 DEF Returns, Requesting, Unsent, Forget
  <2> QED
    BY <2>4 DEF RequestStep
<1>17. ASSUME NEW c \in Calls, Write(c) PROVE RequestStep
  <2>1. RepliesStay /\ UNCHANGED conn /\ call[c].pc = "write"
    BY <1>17, WriteSocks DEF Write, RepliesStay
  <2>2. CASE /\ OthersStay(c)
             /\ Becomes(c, "wait", call[c].retry, call[c].broker, call[c].conn, call[c].ready,
                        call[c].late)
             /\ UNCHANGED <<pending, chan>>
    <3>1. /\ call'[c].pc = "wait" /\ call'[c].retry = call[c].retry
          /\ call'[c].broker = call[c].broker /\ call'[c].conn = call[c].conn
          /\ call'[c].late = call[c].late
      BY <2>2 DEF Becomes
    <3>2. Sends(c)
      BY <2>1, <2>2, <3>1 DEF Sends
    <3> QED
      BY <3>2 DEF RequestStep
  <2>3. CASE Forget(c) /\ \E o \in Outcomes : Return(c, o)
    <3>1. /\ OthersStay(c) /\ chan' = [chan EXCEPT ![c] = "none"]
          /\ call'[c].pc \in {"backoff", "unlock"} /\ call'[c].retry = call[c].retry
      BY <2>3, ReturnCalls
    <3>2. Returns(c)
      BY <2>1, <2>3, <3>1 DEF Returns, Requesting, Unsent, Forget
    <3> QED
      BY <3>2 DEF RequestStep
  <2> QED
    BY <1>17, <2>2, <2>3, WriteCalls
<1>18. ASSUME NEW c \in Calls, Receive(c) PROVE RequestStep
  <2>1. RepliesStay /\ UNCHANGED conn
    BY <1>18 DEF Receive, RepliesStay, brokerVars
  <2>2. /\ OthersStay(c) /\ chan' = [chan EXCEPT ![c] = "none"]
        /\ call'[c].pc \in {"backoff", "unlock"} /\ call'[c].retry = call[c].retry
    BY <1>18, ReturnsOf, ReturnCalls
  <2>3. UNCHANGED pending /\ call[c].pc = "wait" /\ chan[c] # "none"
    BY <1>18 DEF Receive, brokerVars
  <2>4. Returns(c)
    BY <2>1, <2>2, <2>3 DEF Returns, Requesting, Unsent, Forget
  <2> QED
    BY <2>4 DEF RequestStep
<1>19. ASSUME NEW c \in Calls, Timeout(c) PROVE RequestStep
  <2>1. RepliesStay /\ UNCHANGED conn
    BY <1>19 DEF Timeout, RepliesStay, brokerVars
  <2>2. /\ OthersStay(c) /\ chan' = [chan EXCEPT ![c] = "none"]
        /\ call'[c].pc \in {"backoff", "unlock"} /\ call'[c].retry = call[c].retry
    BY <1>19, ReturnsOf, ReturnCalls
  <2>3. call[c].pc = "wait" /\ Forget(c)
    BY <1>19 DEF Timeout, brokerVars
  <2>4. Returns(c)
    BY <2>1, <2>2, <2>3 DEF Returns, Requesting, Unsent, Forget
  <2> QED
    BY <2>4 DEF RequestStep
<1>20. ASSUME NEW c \in Calls, Retry(c) PROVE RequestStep
  <2>1. RepliesStay /\ OthersStay(c) /\ UNCHANGED <<conn, pending, chan>>
    BY <1>20, RetryCalls DEF Retry, brokerVars, RepliesStay
  <2>2. /\ call[c].pc = "backoff"
        /\ \/ call'[c].pc = "unlock" /\ call'[c].retry = call[c].retry
           \/ call'[c].pc = "broker" /\ call'[c].retry = call[c].retry + 1
    BY <1>20, RetryCalls DEF Retry, Becomes, Unsent
  <2>3. Moves(c)
    BY <2>1, <2>2 DEF Moves, Requesting, Unsent
  <2> QED
    BY <2>3 DEF RequestStep
<1>21. ASSUME NEW c \in Calls, Unlock(c) PROVE RequestStep
  <2>1. RepliesStay /\ OthersStay(c) /\ UNCHANGED <<conn, pending, chan>>
    BY <1>21, UnlockCalls DEF Unlock, brokerVars, RepliesStay
  <2>2. /\ call[c].pc = "unlock" /\ call'[c].pc = "done"
        /\ call'[c].retry = call[c].retry
    BY <1>21, UnlockCalls DEF Unlock, Becomes, Unsent
  <2>3. Moves(c)
    BY <2>1, <2>2 DEF Moves, Requesting, Unsent
  <2> QED
    BY <2>3 DEF RequestStep
<1>22. ASSUME NEW c \in Calls, EndContext(c) PROVE RequestStep
  <2>1. RepliesStay
    BY <1>22 DEF EndContext, RepliesStay, callVars
  <2>2. UNCHANGED <<conn, pending, call, chan>>
    BY <1>22 DEF EndContext, brokerVars, callVars
  <2> QED
    BY <2>1, <2>2 DEF RequestStep, Quiet
<1>23. CASE UNCHANGED vars
  BY <1>23 DEF vars, RequestStep, Quiet, RepliesStay, brokerVars, registryVars, callVars
<1> QED
  BY <1>1, <1>2, <1>3, <1>4, <1>5, <1>6, <1>7, <1>8, <1>9, <1>10, <1>11,
     <1>12, <1>13, <1>14, <1>15, <1>16, <1>17, <1>18, <1>19, <1>20, <1>21,
     <1>22, <1>23
  DEF Next, ConnStep, CallStep

LEMMA NextReaders ==
  Typed /\ ReadersHold /\ [Next]_vars => ReadersHold'
<1> SUFFICES ASSUME Typed, ReadersHold, [Next]_vars PROVE ReadersHold'
  OBVIOUS
<1>1. ASSUME NEW w \in Conns, Connect(w) PROVE ReadersHold'
  <2> SUFFICES ASSUME NEW v \in Conns
               PROVE  (sock'[v].pc = "deliver") <=> (sock'[v].reply # <<>>)
    BY DEF ReadersHold
  <2> QED
    BY <1>1, ConnectSocks DEF Connect, ReadersHold
<1>2. ASSUME NEW w \in Conns, PeerLeaves(w) PROVE ReadersHold'
  <2> SUFFICES ASSUME NEW v \in Conns
               PROVE  (sock'[v].pc = "deliver") <=> (sock'[v].reply # <<>>)
    BY DEF ReadersHold
  <2> QED
    BY <1>2, PeerLeavesSocks DEF PeerLeaves, ReadersHold
<1>3. ASSUME NEW w \in Conns, Register(w) PROVE ReadersHold'
  <2>1. /\ sock[w].pc = "register" /\ sock'[w].pc \in {"read", "closeOld"}
        /\ sock'[w].reply = sock[w].reply /\ \A v \in Conns \ {w} : sock'[v] = sock[v]
    BY <1>3, RegisterSocks DEF Register
  <2> QED
    BY <2>1 DEF ReadersHold
<1>4. ASSUME NEW w \in Conns, CloseReplaced(w) PROVE ReadersHold'
  BY <1>4, CloseReplacedSocks DEF ReadersHold, RepliesStay
<1>5. ASSUME NEW w \in Conns, ReadAnswer(w) PROVE ReadersHold'
  <2>1. PICK id \in sock[w].sent :
          /\ sock' = [sock EXCEPT ![w].sent = @ \ {id},
                       ![w].pc = IF id \in pending[ConnClient[w]] THEN "deliver" ELSE "read",
                       ![w].reply = IF id \in pending[ConnClient[w]] THEN id ELSE <<>>]
          /\ pending' = [pending EXCEPT ![ConnClient[w]] = @ \ {id}]
    BY <1>5 DEF ReadAnswer
  <2>2. id \in Ids
    BY SockFields DEF SockRecords
  <2>3. CASE id \in pending[ConnClient[w]]
    <3>1. sock' = [sock EXCEPT ![w].sent = @ \ {id}, ![w].pc = "deliver", ![w].reply = id]
      BY <2>1, <2>3
    <3>2. /\ sock'[w].reply = id /\ sock'[w].pc = "deliver"
          /\ \A v \in Conns \ {w} : sock'[v] = sock[v]
      BY <2>2, <3>1, ReadAnswerSocks DEF SockPcs
    <3> QED
      BY <2>2, <3>2, NoIdIsEmpty DEF ReadersHold
  <2>4. CASE id \notin pending[ConnClient[w]]
    <3>1. sock' = [sock EXCEPT ![w].sent = @ \ {id}, ![w].pc = "read", ![w].reply = <<>>]
      BY <2>1, <2>4
    <3>2. /\ sock'[w].reply = <<>> /\ sock'[w].pc = "read"
          /\ \A v \in Conns \ {w} : sock'[v] = sock[v]
      BY <3>1, ReadAnswerSocks DEF SockPcs
    <3> QED
      BY <3>2 DEF ReadersHold
  <2> QED
    BY <2>3, <2>4
<1>6. ASSUME NEW w \in Conns, Deliver(w) PROVE ReadersHold'
  <2> SUFFICES ASSUME NEW v \in Conns
               PROVE  (sock'[v].pc = "deliver") <=> (sock'[v].reply # <<>>)
    BY DEF ReadersHold
  <2> QED
    BY <1>6, DeliverSocks DEF Deliver, ReadersHold
<1>7. ASSUME NEW w \in Conns, ReadFails(w) PROVE ReadersHold'
  <2> SUFFICES ASSUME NEW v \in Conns
               PROVE  (sock'[v].pc = "deliver") <=> (sock'[v].reply # <<>>)
    BY DEF ReadersHold
  <2> QED
    BY <1>7, ReadFailsSocks DEF ReadFails, ReadersHold
<1>8. ASSUME NEW w \in Conns, Unregister(w) PROVE ReadersHold'
  <2> SUFFICES ASSUME NEW v \in Conns
               PROVE  (sock'[v].pc = "deliver") <=> (sock'[v].reply # <<>>)
    BY DEF ReadersHold
  <2> QED
    BY <1>8, UnregisterSocks DEF Unregister, ReadersHold
<1>9. ASSUME NEW w \in Conns, Deactivate(w) PROVE ReadersHold'
  <2> SUFFICES ASSUME NEW v \in Conns
               PROVE  (sock'[v].pc = "deliver") <=> (sock'[v].reply # <<>>)
    BY DEF ReadersHold
  <2> QED
    BY <1>9, DeactivateSocks DEF Deactivate, ReadersHold
<1>10. ASSUME NEW c \in Calls, Begin(c) PROVE ReadersHold'
  BY <1>10 DEF Begin, ReadersHold, brokerVars, registryVars, callVars
<1>11. ASSUME NEW c \in Calls, Lock(c) PROVE ReadersHold'
  BY <1>11 DEF Lock, ReadersHold, brokerVars, registryVars, callVars
<1>12. ASSUME NEW c \in Calls, BrokerForContext(c) PROVE ReadersHold'
  BY <1>12 DEF BrokerForContext, ReadersHold, brokerVars, registryVars, callVars
<1>13. ASSUME NEW c \in Calls, WaitConn(c) PROVE ReadersHold'
  BY <1>13 DEF WaitConn, ReadersHold, brokerVars, registryVars, callVars
<1>14. ASSUME NEW c \in Calls, WakeUp(c) PROVE ReadersHold'
  BY <1>14 DEF WakeUp, ReadersHold, brokerVars, registryVars, callVars
<1>15. ASSUME NEW c \in Calls, RegisterPending(c) PROVE ReadersHold'
  BY <1>15 DEF RegisterPending, ReadersHold, brokerVars, registryVars, callVars
<1>16. ASSUME NEW c \in Calls, NoConnection(c) PROVE ReadersHold'
  BY <1>16 DEF NoConnection, ReadersHold, Return, brokerVars, registryVars, callVars
<1>17. ASSUME NEW c \in Calls, Write(c) PROVE ReadersHold'
  BY <1>17, WriteSocks DEF ReadersHold
<1>18. ASSUME NEW c \in Calls, Receive(c) PROVE ReadersHold'
  BY <1>18 DEF Receive, ReadersHold, Return, brokerVars, registryVars, callVars
<1>19. ASSUME NEW c \in Calls, Timeout(c) PROVE ReadersHold'
  BY <1>19 DEF Timeout, ReadersHold, Return, Forget, brokerVars, registryVars, callVars
<1>20. ASSUME NEW c \in Calls, Retry(c) PROVE ReadersHold'
  BY <1>20 DEF Retry, ReadersHold, brokerVars, registryVars, callVars
<1>21. ASSUME NEW c \in Calls, Unlock(c) PROVE ReadersHold'
  BY <1>21 DEF Unlock, ReadersHold, brokerVars, registryVars, callVars
<1>22. ASSUME NEW c \in Calls, EndContext(c) PROVE ReadersHold'
  BY <1>22 DEF EndContext, ReadersHold, brokerVars, registryVars, callVars
<1>23. CASE UNCHANGED vars
  BY <1>23 DEF vars, ReadersHold, brokerVars, registryVars, callVars
<1> QED
  BY <1>1, <1>2, <1>3, <1>4, <1>5, <1>6, <1>7, <1>8, <1>9, <1>10, <1>11,
     <1>12, <1>13, <1>14, <1>15, <1>16, <1>17, <1>18, <1>19, <1>20, <1>21,
     <1>22, <1>23
  DEF Next, ConnStep, CallStep

-----------------------------------------------------------------------------
(* The requests keep their places *)

HasPlace(c) ==
  \/ chan[c] # "none"
  \/ \E w \in Conns : sock[w].reply = Id(c)
  \/ /\ Id(c) \in pending[call[c].broker]
     /\ call[c].late \/ conn[call[c].broker] = call[c].conn

LEMMA AnswerableIs == WaitIsAnswerable <=> \A c \in Calls : c \in Requesting => HasPlace(c)
BY DEF WaitIsAnswerable, HasPlace, Requesting

LEMMA IdsStay ==
  ASSUME UNCHANGED call
  PROVE  /\ \A c \in Calls : Id(c)' = Id(c)
         /\ Requesting' = Requesting /\ \A id : IsCurrent(id)' <=> IsCurrent(id)
BY DEF Id, Requesting, IsCurrent

LEMMA OtherIdsStay ==
  ASSUME NEW c \in Calls, OthersStay(c), NEW d \in Calls, d # c
  PROVE  Id(d)' = Id(d) /\ (d \in Requesting' <=> d \in Requesting)
BY DEF OthersStay, Id, Requesting

\* The request of a pending entry is the present one of its call.
LEMMA PendingIs ==
  ASSUME Typed, PendingIsCurrent, NEW b \in Brokers, NEW id \in pending[b]
  PROVE  /\ id[1] \in Calls /\ id[1] \in Requesting /\ id = Id(id[1]) /\ id # <<>>
         /\ call[id[1]].broker = b
BY NoIdIsEmpty DEF Typed, StoresTyped, PendingIsCurrent, IsCurrent, Requesting

LEMMA NextWritten ==
  Typed /\ PendingIsCurrent /\ HeldIsPast /\ HeldIsWritten /\ RequestStep => HeldIsWritten'
<1> SUFFICES ASSUME Typed, PendingIsCurrent, HeldIsPast, HeldIsWritten, RequestStep PROVE
                    HeldIsWritten'
  OBVIOUS
<1>1. CASE Quiet
  BY <1>1, IdsStay DEF Quiet, RepliesStay, HeldIsWritten
<1>2. ASSUME NEW c \in Calls, Moves(c) PROVE HeldIsWritten'
  <2> SUFFICES ASSUME NEW w \in Conns, NEW d \in Calls, sock'[w].reply = Id(d)'
               PROVE  call'[d].pc \notin Unsent
    BY DEF HeldIsWritten
  <2>1. sock[w].reply = sock'[w].reply
    BY <1>2 DEF Moves, RepliesStay
  <2>2. CASE d # c
    BY <1>2, <2>1, <2>2, OtherIdsStay DEF Moves, OthersStay, HeldIsWritten
  <2>3. CASE d = c
    <3>1. call[c].retry \in Nat
      BY CallFields, ConstantsAre DEF Typed, CallRecords
    <3>2. call'[c].retry # call[c].retry + 1
      <4> SUFFICES ASSUME call'[c].retry = call[c].retry + 1 PROVE FALSE
        OBVIOUS
      <4>1. sock[w].reply = <<c, call[c].retry + 1>>
        BY <2>1, <2>3 DEF Id
      <4> QED
        BY <3>1, <4>1 DEF HeldIsPast
    <3>3. call'[c].retry = call[c].retry /\ (call'[c].pc \in Unsent => call[c].pc \in Unsent)
      BY <1>2, <3>2 DEF Moves
    <3>4. Id(c)' = Id(c)
      BY <3>3, IdStays
    <3> QED
      BY <2>1, <2>3, <3>3, <3>4 DEF HeldIsWritten
  <2> QED
    BY <2>2, <2>3
<1>3. ASSUME NEW c \in Calls, Enters(c) PROVE HeldIsWritten'
  <2> SUFFICES ASSUME NEW w \in Conns, NEW d \in Calls, sock'[w].reply = Id(d)'
               PROVE  call'[d].pc \notin Unsent
    BY DEF HeldIsWritten
  <2>1. sock[w].reply = sock'[w].reply
    BY <1>3 DEF Enters, RepliesStay
  <2>2. CASE d # c
    BY <1>3, <2>1, <2>2, OtherIdsStay DEF Enters, OthersStay, HeldIsWritten
  <2>3. CASE d = c
    BY <1>3, <2>3 DEF Enters, Unsent
  <2> QED
    BY <2>2, <2>3
<1>4. ASSUME NEW c \in Calls, Sends(c) PROVE HeldIsWritten'
  <2> SUFFICES ASSUME NEW w \in Conns, NEW d \in Calls, sock'[w].reply = Id(d)'
               PROVE  call'[d].pc \notin Unsent
    BY DEF HeldIsWritten
  <2>1. sock[w].reply = sock'[w].reply
    BY <1>4 DEF Sends, RepliesStay
  <2>2. CASE d # c
    BY <1>4, <2>1, <2>2, OtherIdsStay DEF Sends, OthersStay, HeldIsWritten
  <2>3. CASE d = c
    BY <1>4, <2>3 DEF Sends, Unsent
  <2> QED
    BY <2>2, <2>3
<1>5. ASSUME NEW c \in Calls, Returns(c) PROVE HeldIsWritten'
  <2> SUFFICES ASSUME NEW w \in Conns, NEW d \in Calls, sock'[w].reply = Id(d)'
               PROVE  call'[d].pc \notin Unsent
    BY DEF HeldIsWritten
  <2>1. sock[w].reply = sock'[w].reply
    BY <1>5 DEF Returns, RepliesStay
  <2>2. CASE d # c
    BY <1>5, <2>1, <2>2, OtherIdsStay DEF Returns, OthersStay, HeldIsWritten
  <2>3. CASE d = c
    BY <1>5, <2>3 DEF Returns, Unsent
  <2> QED
    BY <2>2, <2>3
<1>6. ASSUME NEW b \in Brokers, Fails(b) PROVE HeldIsWritten'
  BY <1>6, IdsStay DEF Fails, RepliesStay, HeldIsWritten
<1>7. ASSUME NEW w \in Conns, NEW id \in Ids, Takes(w, id) PROVE HeldIsWritten'
  <2>1. UNCHANGED call
    BY <1>7 DEF Takes
  <2> SUFFICES ASSUME NEW v \in Conns, NEW d \in Calls, sock'[v].reply = Id(d)
               PROVE  call[d].pc \notin Unsent
    BY <2>1, IdsStay DEF HeldIsWritten
  <2>2. CASE v # w
    BY <1>7, <2>2 DEF Takes, HeldIsWritten
  <2>3. CASE v = w
    <3>1. PICK b \in Brokers : id \in pending[b]
      BY <1>7 DEF Takes
    <3>2. id[1] \in Requesting /\ id = Id(d)
      BY <1>7, <2>3, <3>1, PendingIs DEF Takes
    <3>3. id[1] = d
      BY <3>2, IdIsId DEF Typed
    <3> QED
      BY <3>2, <3>3 DEF Requesting, Unsent
  <2> QED
    BY <2>2, <2>3
<1>8. ASSUME NEW w \in Conns, Delivers(w) PROVE HeldIsWritten'
  <2>1. UNCHANGED call
    BY <1>8 DEF Delivers
  <2> SUFFICES ASSUME NEW v \in Conns, NEW d \in Calls, sock'[v].reply = Id(d)
               PROVE  call[d].pc \notin Unsent
    BY <2>1, IdsStay DEF HeldIsWritten
  <2>2. v # w
    BY <1>8, IdIsId DEF Delivers, Typed
  <2> QED
    BY <1>8, <2>2 DEF Delivers, HeldIsWritten
<1> QED
  BY <1>1, <1>2, <1>3, <1>4, <1>5, <1>6, <1>7, <1>8 DEF RequestStep

LEMMA NextPast ==
  Typed /\ PendingIsCurrent /\ HeldIsPast /\ RequestStep => HeldIsPast'
<1> SUFFICES ASSUME Typed, PendingIsCurrent, HeldIsPast, RequestStep PROVE HeldIsPast'
  OBVIOUS
<1>1. CASE Quiet
  BY <1>1 DEF Quiet, RepliesStay, HeldIsPast
<1>2. ASSUME NEW c \in Calls, Moves(c) PROVE HeldIsPast'
  <2> SUFFICES ASSUME NEW w \in Conns, NEW d \in Calls, NEW n \in Nat,
                      sock'[w].reply = <<d, n>>
               PROVE  n <= call'[d].retry
    BY DEF HeldIsPast
  <2>1. n <= call[d].retry
    BY <1>2 DEF Moves, RepliesStay, HeldIsPast
  <2>2. call[d].retry \in Nat
    BY CallFields, ConstantsAre DEF Typed, CallRecords
  <2>3. call'[d].retry = call[d].retry \/ call'[d].retry = call[d].retry + 1
    BY <1>2 DEF Moves, OthersStay
  <2> QED
    BY <2>1, <2>2, <2>3
<1>3. ASSUME NEW c \in Calls, Enters(c) PROVE HeldIsPast'
  <2> SUFFICES ASSUME NEW w \in Conns, NEW d \in Calls, NEW n \in Nat,
                      sock'[w].reply = <<d, n>>
               PROVE  n <= call'[d].retry
    BY DEF HeldIsPast
  <2>1. n <= call[d].retry
    BY <1>3 DEF Enters, RepliesStay, HeldIsPast
  <2>2. call[d].retry \in Nat
    BY CallFields, ConstantsAre DEF Typed, CallRecords
  <2>3. call'[d].retry = call[d].retry \/ call'[d].retry = call[d].retry + 1
    BY <1>3 DEF Enters, OthersStay
  <2> QED
    BY <2>1, <2>2, <2>3
<1>4. ASSUME NEW c \in Calls, Sends(c) PROVE HeldIsPast'
  <2> SUFFICES ASSUME NEW w \in Conns, NEW d \in Calls, NEW n \in Nat,
                      sock'[w].reply = <<d, n>>
               PROVE  n <= call'[d].retry
    BY DEF HeldIsPast
  <2>1. n <= call[d].retry
    BY <1>4 DEF Sends, RepliesStay, HeldIsPast
  <2>2. call[d].retry \in Nat
    BY CallFields, ConstantsAre DEF Typed, CallRecords
  <2>3. call'[d].retry = call[d].retry \/ call'[d].retry = call[d].retry + 1
    BY <1>4 DEF Sends, OthersStay
  <2> QED
    BY <2>1, <2>2, <2>3
<1>5. ASSUME NEW c \in Calls, Returns(c) PROVE HeldIsPast'
  <2> SUFFICES ASSUME NEW w \in Conns, NEW d \in Calls, NEW n \in Nat,
                      sock'[w].reply = <<d, n>>
               PROVE  n <= call'[d].retry
    BY DEF HeldIsPast
  <2>1. n <= call[d].retry
    BY <1>5 DEF Returns, RepliesStay, HeldIsPast
  <2>2. call[d].retry \in Nat
    BY CallFields, ConstantsAre DEF Typed, CallRecords
  <2>3. call'[d].retry = call[d].retry \/ call'[d].retry = call[d].retry + 1
    BY <1>5 DEF Returns, OthersStay
  <2> QED
    BY <2>1, <2>2, <2>3
<1>6. ASSUME NEW b \in Brokers, Fails(b) PROVE HeldIsPast'
  BY <1>6 DEF Fails, RepliesStay, HeldIsPast
<1>7. ASSUME NEW w \in Conns, NEW id \in Ids, Takes(w, id) PROVE HeldIsPast'
  <2> SUFFICES ASSUME NEW v \in Conns, NEW d \in Calls, NEW n \in Nat,
                      sock'[v].reply = <<d, n>>
               PROVE  n <= call[d].retry
    BY <1>7 DEF Takes, HeldIsPast
  <2>1. CASE v # w
    BY <1>7, <2>1 DEF Takes, HeldIsPast
  <2>2. CASE v = w
    <3>1. PICK b \in Brokers : id \in pending[b]
      BY <1>7 DEF Takes
    <3>2. id = <<d, n>>
      BY <1>7, <2>2 DEF Takes
    <3>3. id = <<id[1], call[id[1]].retry>>
      BY <3>1, PendingIs DEF Id
    <3>4. id[1] = d /\ n = call[d].retry
      BY <3>2, <3>3
    <3>5. call[d].retry \in Nat
      BY CallFields, ConstantsAre DEF Typed, CallRecords
    <3> QED
      BY <3>4, <3>5
  <2> QED
    BY <2>1, <2>2
<1>8. ASSUME NEW w \in Conns, Delivers(w) PROVE HeldIsPast'
  <2> SUFFICES ASSUME NEW v \in Conns, NEW d \in Calls, NEW n \in Nat,
                      sock'[v].reply = <<d, n>>
               PROVE  n <= call[d].retry
    BY <1>8 DEF Delivers, HeldIsPast
  <2>1. <<d, n>> # <<>>
    BY SMT
  <2> QED
    BY <1>8, <2>1 DEF Delivers, HeldIsPast
<1> QED
  BY <1>1, <1>2, <1>3, <1>4, <1>5, <1>6, <1>7, <1>8 DEF RequestStep

LEMMA NextHeldOnce ==
  Typed /\ PendingIsCurrent /\ HeldIsWritten /\ HeldOnce /\ RequestStep => HeldOnce'
<1> SUFFICES ASSUME Typed, PendingIsCurrent, HeldIsWritten, HeldOnce, RequestStep PROVE
                    HeldOnce'
  OBVIOUS
<1>1. CASE Quiet
  <2>1. \A w \in Conns : sock'[w].reply = sock[w].reply
    BY <1>1 DEF Quiet, RepliesStay
  <2>2. \A a \in Brokers : pending'[a] \subseteq pending[a]
    BY <1>1 DEF Quiet, Typed, StoresTyped
  <2> QED
    BY <2>1, <2>2 DEF HeldOnce
<1>2. ASSUME NEW c \in Calls, Moves(c) PROVE HeldOnce'
  <2>1. \A w \in Conns : sock'[w].reply = sock[w].reply
    BY <1>2 DEF Moves, RepliesStay
  <2>2. \A a \in Brokers : pending'[a] \subseteq pending[a]
    BY <1>2 DEF Moves, Typed, StoresTyped
  <2> QED
    BY <2>1, <2>2 DEF HeldOnce
<1>3. ASSUME NEW c \in Calls, Enters(c) PROVE HeldOnce'
  <2>1. \A w \in Conns : sock'[w].reply = sock[w].reply
    BY <1>3 DEF Enters, RepliesStay
  <2>2. \A b \in Brokers : pending'[b] \subseteq pending[b] \cup {Id(c)}
    BY <1>3 DEF Enters, Typed, StoresTyped
  <2>3. \A w \in Conns : sock[w].reply # Id(c)
    BY <1>3 DEF Enters, HeldIsWritten, Unsent
  <2> QED
    BY <2>1, <2>2, <2>3 DEF HeldOnce
<1>4. ASSUME NEW c \in Calls, Sends(c) PROVE HeldOnce'
  <2>1. \A w \in Conns : sock'[w].reply = sock[w].reply
    BY <1>4 DEF Sends, RepliesStay
  <2>2. \A a \in Brokers : pending'[a] \subseteq pending[a]
    BY <1>4 DEF Sends, Typed, StoresTyped
  <2> QED
    BY <2>1, <2>2 DEF HeldOnce
<1>5. ASSUME NEW c \in Calls, Returns(c) PROVE HeldOnce'
  <2>1. \A w \in Conns : sock'[w].reply = sock[w].reply
    BY <1>5 DEF Returns, RepliesStay
  <2>2. \A a \in Brokers : pending'[a] \subseteq pending[a]
    BY <1>5 DEF Returns, Typed, StoresTyped
  <2> QED
    BY <2>1, <2>2 DEF HeldOnce
<1>6. ASSUME NEW b \in Brokers, Fails(b) PROVE HeldOnce'
  <2>1. \A w \in Conns : sock'[w].reply = sock[w].reply
    BY <1>6 DEF Fails, RepliesStay
  <2>2. \A a \in Brokers : pending'[a] \subseteq pending[a]
    BY <1>6 DEF Fails, Typed, StoresTyped
  <2> QED
    BY <2>1, <2>2 DEF HeldOnce
<1>7. ASSUME NEW w \in Conns, NEW id \in Ids, Takes(w, id) PROVE HeldOnce'
  <2>1. PICK a \in Brokers : /\ id \in pending[a]
                            /\ pending' = [pending EXCEPT ![a] = @ \ {id}]
    BY <1>7 DEF Takes
  <2>2. /\ \A b \in Brokers : pending'[b] \subseteq pending[b]
        /\ \A b \in Brokers : id \notin pending'[b]
    <3>1. \A b \in Brokers : pending'[b] = IF b = a THEN pending[b] \ {id} ELSE pending[b]
      BY <2>1 DEF Typed, StoresTyped
    <3>2. \A b \in Brokers : id \in pending[b] => b = a
      BY <2>1, PendingIs
    <3> QED
      BY <3>1, <3>2
  <2>3. \A v \in Conns : sock[v].reply # id
    BY <1>7, <2>1 DEF Takes, HeldOnce
  <2>4. /\ sock'[w].reply = id /\ id # <<>>
        /\ \A v \in Conns \ {w} : sock'[v].reply = sock[v].reply
    BY <1>7 DEF Takes
  <2> QED
    BY <2>2, <2>3, <2>4 DEF HeldOnce
<1>8. ASSUME NEW w \in Conns, Delivers(w) PROVE HeldOnce'
  <2>1. /\ \A v \in Conns \ {w} : sock'[v].reply = sock[v].reply
        /\ sock'[w].reply = <<>> /\ pending' = pending
    BY <1>8 DEF Delivers
  <2> QED
    BY <2>1 DEF HeldOnce
<1> QED
  BY <1>1, <1>2, <1>3, <1>4, <1>5, <1>6, <1>7, <1>8 DEF RequestStep

LEMMA NextPending ==
  Typed /\ ChannelIsEmpty /\ PendingIsCurrent /\ RequestStep => PendingIsCurrent'
<1> SUFFICES ASSUME Typed, ChannelIsEmpty, PendingIsCurrent, RequestStep PROVE
                    PendingIsCurrent'
  OBVIOUS
<1>1. CASE Quiet
  <2>1. UNCHANGED <<pending, call>>
    BY <1>1 DEF Quiet
  <2> QED
    BY <2>1, IdsStay DEF PendingIsCurrent
<1>2. ASSUME NEW c \in Calls, Moves(c) PROVE PendingIsCurrent'
  <2> SUFFICES ASSUME NEW b \in Brokers, NEW id \in pending'[b]
               PROVE  IsCurrent(id)' /\ call'[id[1]].broker = b
    BY DEF PendingIsCurrent
  <2>1. id \in pending[b]
    BY <1>2 DEF Moves, Typed, StoresTyped
  <2>2. CASE id \in pending[b] /\ id[1] # c
    <3>1. id[1] \in Calls /\ id[1] \in Requesting /\ id = Id(id[1]) /\ call[id[1]].broker = b
      BY <2>2, PendingIs
    <3>2. OthersStay(c)
      BY <1>2 DEF Moves
    <3>3. Id(id[1])' = Id(id[1]) /\ id[1] \in Requesting'
      BY <2>2, <3>1, <3>2, OtherIdsStay
    <3> QED
      BY <2>2, <3>1, <3>2, <3>3 DEF IsCurrent, OthersStay
  <2>3. id[1] # c
    BY <1>2, <2>1, PendingIs DEF Moves
  <2> QED
    BY <2>1, <2>2, <2>3
<1>3. ASSUME NEW c \in Calls, Enters(c) PROVE PendingIsCurrent'
  <2> SUFFICES ASSUME NEW b \in Brokers, NEW id \in pending'[b]
               PROVE  IsCurrent(id)' /\ call'[id[1]].broker = b
    BY DEF PendingIsCurrent
  <2>1. id \in pending[b] \/ (id = Id(c) /\ call[c].broker = b)
    BY <1>3 DEF Enters, Typed, StoresTyped
  <2>2. CASE id \in pending[b] /\ id[1] # c
    <3>1. id[1] \in Calls /\ id[1] \in Requesting /\ id = Id(id[1]) /\ call[id[1]].broker = b
      BY <2>2, PendingIs
    <3>2. OthersStay(c)
      BY <1>3 DEF Enters
    <3>3. Id(id[1])' = Id(id[1]) /\ id[1] \in Requesting'
      BY <2>2, <3>1, <3>2, OtherIdsStay
    <3> QED
      BY <2>2, <3>1, <3>2, <3>3 DEF IsCurrent, OthersStay
  <2>3. CASE id = Id(c) /\ call[c].broker = b
    <3>1. id[1] = c /\ call'[c].retry = call[c].retry /\ call'[c].broker = call[c].broker
      BY <1>3, <2>3, IdIsId DEF Enters, Typed
    <3>2. Id(c)' = Id(c) /\ c \in Requesting'
      BY <1>3, <3>1, IdStays DEF Enters, Requesting
    <3> QED
      BY <2>3, <3>1, <3>2 DEF IsCurrent
  <2>4. id \in pending[b] => id[1] # c
    BY <1>3, PendingIs DEF Enters, Requesting
  <2> QED
    BY <2>1, <2>2, <2>3, <2>4
<1>4. ASSUME NEW c \in Calls, Sends(c) PROVE PendingIsCurrent'
  <2> SUFFICES ASSUME NEW b \in Brokers, NEW id \in pending'[b]
               PROVE  IsCurrent(id)' /\ call'[id[1]].broker = b
    BY DEF PendingIsCurrent
  <2>1. id \in pending[b]
    BY <1>4 DEF Sends, Typed, StoresTyped
  <2>2. CASE id \in pending[b] /\ id[1] # c
    <3>1. id[1] \in Calls /\ id[1] \in Requesting /\ id = Id(id[1]) /\ call[id[1]].broker = b
      BY <2>2, PendingIs
    <3>2. OthersStay(c)
      BY <1>4 DEF Sends
    <3>3. Id(id[1])' = Id(id[1]) /\ id[1] \in Requesting'
      BY <2>2, <3>1, <3>2, OtherIdsStay
    <3> QED
      BY <2>2, <3>1, <3>2, <3>3 DEF IsCurrent, OthersStay
  <2>3. CASE id = Id(c) /\ call[c].broker = b
    <3>1. id[1] = c /\ call'[c].retry = call[c].retry /\ call'[c].broker = call[c].broker
      BY <1>4, <2>3, IdIsId DEF Sends, Typed
    <3>2. Id(c)' = Id(c) /\ c \in Requesting'
      BY <1>4, <3>1, IdStays DEF Sends, Requesting
    <3> QED
      BY <2>3, <3>1, <3>2 DEF IsCurrent
  <2> QED
    BY <2>1, <2>2, <2>3, PendingIs
<1>5. ASSUME NEW c \in Calls, Returns(c) PROVE PendingIsCurrent'
  <2> SUFFICES ASSUME NEW b \in Brokers, NEW id \in pending'[b]
               PROVE  IsCurrent(id)' /\ call'[id[1]].broker = b
    BY DEF PendingIsCurrent
  <2>1. id \in pending[b]
    BY <1>5 DEF Returns, Typed, StoresTyped
  <2>2. CASE id \in pending[b] /\ id[1] # c
    <3>1. id[1] \in Calls /\ id[1] \in Requesting /\ id = Id(id[1]) /\ call[id[1]].broker = b
      BY <2>2, PendingIs
    <3>2. OthersStay(c)
      BY <1>5 DEF Returns
    <3>3. Id(id[1])' = Id(id[1]) /\ id[1] \in Requesting'
      BY <2>2, <3>1, <3>2, OtherIdsStay
    <3> QED
      BY <2>2, <3>1, <3>2, <3>3 DEF IsCurrent, OthersStay
  <2>3. id[1] # c
    <3> SUFFICES ASSUME id[1] = c PROVE FALSE
      OBVIOUS
    <3>1. c \in Requesting /\ id = Id(c) /\ call[c].broker = b /\ Id(c) \in pending[b]
      BY <2>1, PendingIs
    <3>2. chan[c] = "none"
      BY <3>1 DEF ChannelIsEmpty
    <3>3. call[c].pc # "ready"
      BY <3>1 DEF Requesting
    <3>4. pending' = [pending EXCEPT ![call[c].broker] = @ \ {Id(c)}]
      BY <1>5, <3>2, <3>3 DEF Returns
    <3>5. id \notin pending'[b]
      BY <3>1, <3>4 DEF Typed, StoresTyped
    <3> QED
      BY <3>5
  <2> QED
    BY <2>1, <2>2, <2>3
<1>6. ASSUME NEW b \in Brokers, Fails(b) PROVE PendingIsCurrent'
  <2>1. UNCHANGED call
    BY <1>6 DEF Fails
  <2>2. \A a \in Brokers : pending'[a] \subseteq pending[a]
    BY <1>6 DEF Fails, Typed, StoresTyped
  <2> QED
    BY <2>1, <2>2, IdsStay DEF PendingIsCurrent
<1>7. ASSUME NEW w \in Conns, NEW id \in Ids, Takes(w, id) PROVE PendingIsCurrent'
  <2>1. UNCHANGED call
    BY <1>7 DEF Takes
  <2>2. \A b \in Brokers : pending'[b] \subseteq pending[b]
    BY <1>7 DEF Takes, Typed, StoresTyped
  <2> QED
    BY <2>1, <2>2, IdsStay DEF PendingIsCurrent
<1>8. ASSUME NEW w \in Conns, Delivers(w) PROVE PendingIsCurrent'
  <2>1. UNCHANGED <<pending, call>>
    BY <1>8 DEF Delivers
  <2> QED
    BY <2>1, IdsStay DEF PendingIsCurrent
<1> QED
  BY <1>1, <1>2, <1>3, <1>4, <1>5, <1>6, <1>7, <1>8 DEF RequestStep

LEMMA ChannelOf ==
  ASSUME ChannelIsEmpty, NEW c \in Requesting,
         (\E w \in Conns : sock[w].reply = Id(c)) \/ (\E b \in Brokers : Id(c) \in pending[b])
  PROVE  chan[c] = "none"
BY DEF ChannelIsEmpty

LEMMA NextChannel ==
  Typed /\ PendingIsCurrent /\ HeldOnce /\ IdleChannelsAreEmpty /\ ChannelIsEmpty /\
  RequestStep => ChannelIsEmpty'
<1> SUFFICES ASSUME Typed, PendingIsCurrent, HeldOnce, IdleChannelsAreEmpty, ChannelIsEmpty,
                    RequestStep PROVE ChannelIsEmpty'
  OBVIOUS
<1>1. CASE Quiet
  <2>1. UNCHANGED <<pending, call, chan>> /\ RepliesStay
    BY <1>1 DEF Quiet
  <2> SUFFICES ASSUME NEW d \in Calls, d \in Requesting,
                      \/ \E w \in Conns : sock'[w].reply = Id(d)
                      \/ \E b \in Brokers : Id(d) \in pending[b]
               PROVE  chan[d] = "none"
    BY <2>1, IdsStay DEF ChannelIsEmpty, Requesting
  <2> QED
    BY <2>1, ChannelOf DEF RepliesStay
<1>2. ASSUME NEW c \in Calls, Moves(c) PROVE ChannelIsEmpty'
  <2> SUFFICES ASSUME NEW d \in Calls, d \in Requesting',
                      \/ \E w \in Conns : sock'[w].reply = Id(d)'
                      \/ \E b \in Brokers : Id(d)' \in pending'[b]
               PROVE  chan'[d] = "none"
    BY DEF ChannelIsEmpty, Requesting
  <2>1. CASE d # c
    <3>1. OthersStay(c) /\ RepliesStay /\ chan'[d] = chan[d]
      BY <1>2, <2>1 DEF Moves, Typed, StoresTyped
    <3>2. Id(d)' = Id(d) /\ d \in Requesting
      BY <2>1, <3>1, OtherIdsStay
    <3>3. \A b \in Brokers : Id(d) \in pending'[b] => Id(d) \in pending[b]
      BY <1>2, <2>1 DEF Moves, Typed, StoresTyped
    <3> QED
      BY <3>1, <3>2, <3>3, ChannelOf DEF RepliesStay
  <2>2. d # c
    BY <1>2 DEF Moves, Requesting
  <2> QED
    BY <2>1, <2>2
<1>3. ASSUME NEW c \in Calls, Enters(c) PROVE ChannelIsEmpty'
  <2> SUFFICES ASSUME NEW d \in Calls, d \in Requesting',
                      \/ \E w \in Conns : sock'[w].reply = Id(d)'
                      \/ \E b \in Brokers : Id(d)' \in pending'[b]
               PROVE  chan'[d] = "none"
    BY DEF ChannelIsEmpty, Requesting
  <2>1. CASE d # c
    <3>1. OthersStay(c) /\ RepliesStay /\ chan'[d] = chan[d]
      BY <1>3, <2>1 DEF Enters, Typed, StoresTyped
    <3>2. Id(d)' = Id(d) /\ d \in Requesting
      BY <2>1, <3>1, OtherIdsStay
    <3>3. \A b \in Brokers : Id(d) \in pending'[b] => Id(d) \in pending[b]
      BY <1>3, <2>1, IdsDiffer DEF Enters, Typed, StoresTyped
    <3> QED
      BY <3>1, <3>2, <3>3, ChannelOf DEF RepliesStay
  <2>2. CASE d = c
    BY <1>3, <2>2 DEF Enters, IdleChannelsAreEmpty, Requesting
  <2> QED
    BY <2>1, <2>2
<1>4. ASSUME NEW c \in Calls, Sends(c) PROVE ChannelIsEmpty'
  <2> SUFFICES ASSUME NEW d \in Calls, d \in Requesting',
                      \/ \E w \in Conns : sock'[w].reply = Id(d)'
                      \/ \E b \in Brokers : Id(d)' \in pending'[b]
               PROVE  chan'[d] = "none"
    BY DEF ChannelIsEmpty, Requesting
  <2>1. CASE d # c
    <3>1. OthersStay(c) /\ RepliesStay /\ chan'[d] = chan[d]
      BY <1>4, <2>1 DEF Sends, Typed, StoresTyped
    <3>2. Id(d)' = Id(d) /\ d \in Requesting
      BY <2>1, <3>1, OtherIdsStay
    <3>3. \A b \in Brokers : Id(d) \in pending'[b] => Id(d) \in pending[b]
      BY <1>4, <2>1 DEF Sends, Typed, StoresTyped
    <3> QED
      BY <3>1, <3>2, <3>3, ChannelOf DEF RepliesStay
  <2>2. CASE d = c
    <3>1. Id(c)' = Id(c) /\ c \in Requesting
      BY <1>4, IdStays DEF Sends, Requesting
    <3>2. RepliesStay /\ UNCHANGED <<pending, chan>>
      BY <1>4 DEF Sends
    <3> QED
      BY <2>2, <3>1, <3>2, ChannelOf DEF RepliesStay
  <2> QED
    BY <2>1, <2>2
<1>5. ASSUME NEW c \in Calls, Returns(c) PROVE ChannelIsEmpty'
  <2> SUFFICES ASSUME NEW d \in Calls, d \in Requesting',
                      \/ \E w \in Conns : sock'[w].reply = Id(d)'
                      \/ \E b \in Brokers : Id(d)' \in pending'[b]
               PROVE  chan'[d] = "none"
    BY DEF ChannelIsEmpty, Requesting
  <2>1. CASE d # c
    <3>1. OthersStay(c) /\ RepliesStay /\ chan'[d] = chan[d]
      BY <1>5, <2>1 DEF Returns, Typed, StoresTyped
    <3>2. Id(d)' = Id(d) /\ d \in Requesting
      BY <2>1, <3>1, OtherIdsStay
    <3>3. \A b \in Brokers : Id(d) \in pending'[b] => Id(d) \in pending[b]
      BY <1>5, <2>1 DEF Returns, Typed, StoresTyped
    <3> QED
      BY <3>1, <3>2, <3>3, ChannelOf DEF RepliesStay
  <2>2. d # c
    BY <1>5 DEF Returns, Requesting
  <2> QED
    BY <2>1, <2>2
<1>6. ASSUME NEW b \in Brokers, Fails(b) PROVE ChannelIsEmpty'
  <2> SUFFICES ASSUME NEW d \in Calls, d \in Requesting',
                      \/ \E w \in Conns : sock'[w].reply = Id(d)'
                      \/ \E a \in Brokers : Id(d)' \in pending'[a]
               PROVE  chan'[d] = "none"
    BY DEF ChannelIsEmpty, Requesting
  <2>1. UNCHANGED call /\ RepliesStay
    BY <1>6 DEF Fails
  <2>2. Id(d)' = Id(d) /\ d \in Requesting
    BY <2>1, IdsStay
  <2>3. \A a \in Brokers : Id(d) \in pending'[a] => a # b /\ Id(d) \in pending[a]
    BY <1>6 DEF Fails, Typed, StoresTyped
  <2>4. Id(d) \notin pending[b]
    <3>1. CASE \E w \in Conns : sock[w].reply = Id(d)
      BY <3>1, IdIsId DEF HeldOnce, Typed
    <3>2. CASE \E a \in Brokers : Id(d) \in pending'[a]
      BY <2>3, <3>2, PendingIs
    <3> QED
      BY <2>1, <2>2, <3>1, <3>2 DEF RepliesStay
  <2>5. chan'[d] = chan[d]
    BY <1>6, <2>4 DEF Fails
  <2> QED
    BY <2>1, <2>2, <2>3, <2>5, ChannelOf DEF RepliesStay
<1>7. ASSUME NEW w \in Conns, NEW id \in Ids, Takes(w, id) PROVE ChannelIsEmpty'
  <2> SUFFICES ASSUME NEW d \in Calls, d \in Requesting',
                      \/ \E v \in Conns : sock'[v].reply = Id(d)'
                      \/ \E b \in Brokers : Id(d)' \in pending'[b]
               PROVE  chan'[d] = "none"
    BY DEF ChannelIsEmpty, Requesting
  <2>1. UNCHANGED <<call, chan>>
    BY <1>7 DEF Takes
  <2>2. Id(d)' = Id(d) /\ d \in Requesting
    BY <2>1, IdsStay
  <2>3. \A b \in Brokers : Id(d) \in pending'[b] => Id(d) \in pending[b]
    BY <1>7 DEF Takes, Typed, StoresTyped
  <2>4. ASSUME NEW v \in Conns, sock'[v].reply = Id(d)
        PROVE  sock[v].reply = Id(d) \/ \E b \in Brokers : Id(d) \in pending[b]
    BY <1>7, <2>4 DEF Takes
  <2> QED
    BY <2>1, <2>2, <2>3, <2>4, ChannelOf
<1>8. ASSUME NEW w \in Conns, Delivers(w) PROVE ChannelIsEmpty'
  <2> SUFFICES ASSUME NEW d \in Calls, d \in Requesting',
                      \/ \E v \in Conns : sock'[v].reply = Id(d)'
                      \/ \E b \in Brokers : Id(d)' \in pending'[b]
               PROVE  chan'[d] = "none"
    BY DEF ChannelIsEmpty, Requesting
  <2>1. UNCHANGED <<call, pending>>
    BY <1>8 DEF Delivers
  <2>2. Id(d)' = Id(d) /\ d \in Requesting
    BY <2>1, IdsStay
  <2>3. /\ sock[w].reply # Id(d)
        /\ \/ \E v \in Conns : sock[v].reply = Id(d)
           \/ \E b \in Brokers : Id(d) \in pending[b]
    <3>1. sock[w].reply # <<>>
      BY <1>8, NoIdIsEmpty DEF Delivers
    <3>2. CASE \E v \in Conns : sock'[v].reply = Id(d)
      <4>1. PICK v \in Conns : sock'[v].reply = Id(d)
        BY <3>2
      <4>2. v # w /\ sock[v].reply = Id(d)
        BY <1>8, <4>1, IdIsId DEF Delivers, Typed
      <4> QED
        BY <3>1, <4>2 DEF HeldOnce
    <3>3. CASE \E b \in Brokers : Id(d) \in pending'[b]
      BY <2>1, <3>1, <3>3 DEF HeldOnce
    <3> QED
      BY <2>2, <3>2, <3>3
  <2>4. chan[d] = "none"
    BY <2>2, <2>3, ChannelOf
  <2>5. chan'[d] = chan[d]
    <3>1. CASE IsCurrent(sock[w].reply)
      <4>1. sock[w].reply[1] # d
        BY <2>3, <3>1, CurrentIs DEF Typed
      <4> QED
        BY <1>8, <3>1, <4>1 DEF Delivers, Typed, StoresTyped
    <3> QED
      BY <1>8, <3>1 DEF Delivers
  <2> QED
    BY <2>4, <2>5
<1> QED
  BY <1>1, <1>2, <1>3, <1>4, <1>5, <1>6, <1>7, <1>8 DEF RequestStep

LEMMA NextIdle ==
  Typed /\ PendingIsCurrent /\ IdleChannelsAreEmpty /\ RequestStep => IdleChannelsAreEmpty'
<1> SUFFICES ASSUME Typed, PendingIsCurrent, IdleChannelsAreEmpty, RequestStep PROVE
                    IdleChannelsAreEmpty'
  OBVIOUS
<1>1. CASE Quiet
  <2>1. UNCHANGED <<call, chan>>
    BY <1>1 DEF Quiet
  <2> QED
    BY <2>1, IdsStay DEF IdleChannelsAreEmpty
<1>2. ASSUME NEW c \in Calls, Moves(c) PROVE IdleChannelsAreEmpty'
  <2>1. OthersStay(c) /\ UNCHANGED chan
    BY <1>2 DEF Moves
  <2>2. c \notin Requesting' => c \notin Requesting
    BY <1>2 DEF Moves, Requesting
  <2> QED
    BY <2>1, <2>2, OtherIdsStay DEF IdleChannelsAreEmpty
<1>3. ASSUME NEW c \in Calls, Enters(c) PROVE IdleChannelsAreEmpty'
  <2>1. OthersStay(c) /\ UNCHANGED chan
    BY <1>3 DEF Enters
  <2>2. c \notin Requesting' => c \notin Requesting
    BY <1>3 DEF Enters, Requesting
  <2> QED
    BY <2>1, <2>2, OtherIdsStay DEF IdleChannelsAreEmpty
<1>4. ASSUME NEW c \in Calls, Sends(c) PROVE IdleChannelsAreEmpty'
  <2>1. OthersStay(c) /\ UNCHANGED chan
    BY <1>4 DEF Sends
  <2>2. c \notin Requesting' => c \notin Requesting
    BY <1>4 DEF Sends, Requesting
  <2> QED
    BY <2>1, <2>2, OtherIdsStay DEF IdleChannelsAreEmpty
<1>5. ASSUME NEW c \in Calls, Returns(c) PROVE IdleChannelsAreEmpty'
  <2>1. OthersStay(c) /\ chan' = [chan EXCEPT ![c] = "none"]
    BY <1>5 DEF Returns
  <2> QED
    BY <2>1, OtherIdsStay DEF IdleChannelsAreEmpty, Typed, StoresTyped
<1>6. ASSUME NEW b \in Brokers, Fails(b) PROVE IdleChannelsAreEmpty'
  <2>1. UNCHANGED call
    BY <1>6 DEF Fails
  <2> SUFFICES ASSUME NEW c \in Calls, c \notin Requesting PROVE chan'[c] = "none"
    BY <2>1, IdsStay DEF IdleChannelsAreEmpty
  <2>2. Id(c) \notin pending[b]
    BY PendingIs, IdIsId DEF Typed
  <2> QED
    BY <1>6, <2>2 DEF Fails, IdleChannelsAreEmpty
<1>7. ASSUME NEW w \in Conns, NEW id \in Ids, Takes(w, id) PROVE IdleChannelsAreEmpty'
  <2>1. UNCHANGED <<call, chan>>
    BY <1>7 DEF Takes
  <2> QED
    BY <2>1, IdsStay DEF IdleChannelsAreEmpty
<1>8. ASSUME NEW w \in Conns, Delivers(w) PROVE IdleChannelsAreEmpty'
  <2>1. UNCHANGED call
    BY <1>8 DEF Delivers
  <2> SUFFICES ASSUME NEW c \in Calls, c \notin Requesting PROVE chan'[c] = "none"
    BY <2>1, IdsStay DEF IdleChannelsAreEmpty
  <2>2. IsCurrent(sock[w].reply) => sock[w].reply[1] # c
    BY CurrentIs DEF Typed
  <2>3. chan'[c] = chan[c]
    BY <1>8, <2>2 DEF Delivers, Typed, StoresTyped
  <2> QED
    BY <2>3 DEF IdleChannelsAreEmpty
<1> QED
  BY <1>1, <1>2, <1>3, <1>4, <1>5, <1>6, <1>7, <1>8 DEF RequestStep

LEMMA NextAnswerable ==
  Typed /\ StepsKnow /\ WaitIsAnswerable /\ RequestStep => WaitIsAnswerable'
<1> SUFFICES ASSUME Typed, StepsKnow, WaitIsAnswerable, RequestStep PROVE WaitIsAnswerable'
  OBVIOUS
<1>1. CASE Quiet
  <2> SUFFICES ASSUME NEW d \in Calls, d \in Requesting' PROVE HasPlace(d)'
    BY AnswerableIs DEF WaitIsAnswerable, HasPlace, Requesting
  <2>1. UNCHANGED <<conn, pending, call, chan>> /\ RepliesStay
    BY <1>1 DEF Quiet
  <2>2. Id(d)' = Id(d) /\ d \in Requesting /\ HasPlace(d)
    BY <2>1, IdsStay, AnswerableIs
  <2> QED
    BY <2>1, <2>2 DEF HasPlace, RepliesStay
<1>2. ASSUME NEW c \in Calls, Moves(c) PROVE WaitIsAnswerable'
  <2> SUFFICES ASSUME NEW d \in Calls, d \in Requesting' PROVE HasPlace(d)'
    BY AnswerableIs DEF WaitIsAnswerable, HasPlace, Requesting
  <2>1. CASE d # c
    <3>1. /\ OthersStay(c) /\ RepliesStay /\ conn' = conn /\ chan'[d] = chan[d]
      BY <1>2, <2>1 DEF Moves, Typed, StoresTyped
    <3>2. Id(d)' = Id(d) /\ d \in Requesting /\ HasPlace(d) /\ call'[d] = call[d]
      BY <2>1, <3>1, OtherIdsStay, AnswerableIs DEF OthersStay
    <3>3. call[d].broker \in Brokers /\ Id(d) # Id(c)
      BY <2>1, <3>2, IdsDiffer DEF StepsKnow, Requesting, Typed
    <3>4. Id(d) \in pending[call[d].broker] => Id(d) \in pending'[call[d].broker]
      BY <1>2, <3>3 DEF Moves, Typed, StoresTyped
    <3> QED
      BY <3>1, <3>2, <3>4 DEF HasPlace, RepliesStay
  <2>2. d # c
    BY <1>2 DEF Moves, Requesting
  <2> QED
    BY <2>1, <2>2
<1>3. ASSUME NEW c \in Calls, Enters(c) PROVE WaitIsAnswerable'
  <2> SUFFICES ASSUME NEW d \in Calls, d \in Requesting' PROVE HasPlace(d)'
    BY AnswerableIs DEF WaitIsAnswerable, HasPlace, Requesting
  <2>1. CASE d # c
    <3>1. /\ OthersStay(c) /\ RepliesStay /\ conn' = conn /\ chan'[d] = chan[d]
      BY <1>3, <2>1 DEF Enters, Typed, StoresTyped
    <3>2. Id(d)' = Id(d) /\ d \in Requesting /\ HasPlace(d) /\ call'[d] = call[d]
      BY <2>1, <3>1, OtherIdsStay, AnswerableIs DEF OthersStay
    <3>3. call[d].broker \in Brokers /\ Id(d) # Id(c)
      BY <2>1, <3>2, IdsDiffer DEF StepsKnow, Requesting, Typed
    <3>4. Id(d) \in pending[call[d].broker] => Id(d) \in pending'[call[d].broker]
      BY <1>3, <3>3 DEF Enters, Typed, StoresTyped
    <3> QED
      BY <3>1, <3>2, <3>4 DEF HasPlace, RepliesStay
  <2>2. CASE d = c
    <3>1. call[c].broker \in Brokers
      BY <1>3 DEF Enters, StepsKnow
    <3>2. Id(c)' = Id(c) /\ Id(c) \in pending'[call[c].broker]
      BY <1>3, <3>1, IdStays DEF Enters, Typed, StoresTyped
    <3>3. /\ call'[c].broker = call[c].broker /\ call'[c].conn = call[c].conn
          /\ conn' = conn /\ call'[c].late = (conn[call[c].broker] # call[c].conn)
      BY <1>3 DEF Enters
    <3> QED
      BY <2>2, <3>2, <3>3 DEF HasPlace
  <2> QED
    BY <2>1, <2>2
<1>4. ASSUME NEW c \in Calls, Sends(c) PROVE WaitIsAnswerable'
  <2> SUFFICES ASSUME NEW d \in Calls, d \in Requesting' PROVE HasPlace(d)'
    BY AnswerableIs DEF WaitIsAnswerable, HasPlace, Requesting
  <2>1. CASE d # c
    <3>1. /\ OthersStay(c) /\ RepliesStay /\ conn' = conn /\ chan'[d] = chan[d]
      BY <1>4, <2>1 DEF Sends, Typed, StoresTyped
    <3>2. Id(d)' = Id(d) /\ d \in Requesting /\ HasPlace(d) /\ call'[d] = call[d]
      BY <2>1, <3>1, OtherIdsStay, AnswerableIs DEF OthersStay
    <3>3. call[d].broker \in Brokers /\ Id(d) # Id(c)
      BY <2>1, <3>2, IdsDiffer DEF StepsKnow, Requesting, Typed
    <3>4. Id(d) \in pending[call[d].broker] => Id(d) \in pending'[call[d].broker]
      BY <1>4, <3>3 DEF Sends, Typed, StoresTyped
    <3> QED
      BY <3>1, <3>2, <3>4 DEF HasPlace, RepliesStay
  <2>2. CASE d = c
    <3>1. Id(c)' = Id(c) /\ c \in Requesting
      BY <1>4, IdStays DEF Sends, Requesting
    <3>2. /\ call'[c].broker = call[c].broker /\ call'[c].conn = call[c].conn
          /\ call'[c].late = call[c].late /\ RepliesStay /\ UNCHANGED <<conn, pending, chan>>
      BY <1>4 DEF Sends
    <3>3. HasPlace(c)
      BY <3>1, AnswerableIs
    <3> QED
      BY <2>2, <3>1, <3>2, <3>3 DEF HasPlace, RepliesStay
  <2> QED
    BY <2>1, <2>2
<1>5. ASSUME NEW c \in Calls, Returns(c) PROVE WaitIsAnswerable'
  <2> SUFFICES ASSUME NEW d \in Calls, d \in Requesting' PROVE HasPlace(d)'
    BY AnswerableIs DEF WaitIsAnswerable, HasPlace, Requesting
  <2>1. CASE d # c
    <3>1. /\ OthersStay(c) /\ RepliesStay /\ conn' = conn /\ chan'[d] = chan[d]
      BY <1>5, <2>1 DEF Returns, Typed, StoresTyped
    <3>2. Id(d)' = Id(d) /\ d \in Requesting /\ HasPlace(d) /\ call'[d] = call[d]
      BY <2>1, <3>1, OtherIdsStay, AnswerableIs DEF OthersStay
    <3>3. call[d].broker \in Brokers /\ Id(d) # Id(c)
      BY <2>1, <3>2, IdsDiffer DEF StepsKnow, Requesting, Typed
    <3>4. Id(d) \in pending[call[d].broker] => Id(d) \in pending'[call[d].broker]
      BY <1>5, <3>3 DEF Returns, Typed, StoresTyped
    <3> QED
      BY <3>1, <3>2, <3>4 DEF HasPlace, RepliesStay
  <2>2. d # c
    BY <1>5 DEF Returns, Requesting
  <2> QED
    BY <2>1, <2>2
<1>6. ASSUME NEW b \in Brokers, Fails(b) PROVE WaitIsAnswerable'
  <2> SUFFICES ASSUME NEW d \in Calls, d \in Requesting' PROVE HasPlace(d)'
    BY AnswerableIs DEF WaitIsAnswerable, HasPlace, Requesting
  <2>1. UNCHANGED call /\ RepliesStay
    BY <1>6 DEF Fails
  <2>2. Id(d)' = Id(d) /\ d \in Requesting /\ HasPlace(d)
    BY <2>1, IdsStay, AnswerableIs
  <2>3. PICK error \in Outcomes \ {"none"} :
          chan' = [e \in Calls |-> IF Id(e) \in pending[b] THEN error ELSE chan[e]]
    BY <1>6 DEF Fails
  <2>4. CASE Id(d) \in pending[b]
    BY <2>3, <2>4 DEF HasPlace
  <2>5. CASE Id(d) \notin pending[b]
    <3>1. chan'[d] = chan[d]
      BY <2>3, <2>5
    <3>2. call[d].broker \in Brokers
      BY <2>2 DEF StepsKnow, Requesting
    <3>3. Id(d) \in pending[call[d].broker] =>
            /\ Id(d) \in pending'[call[d].broker]
            /\ conn'[call[d].broker] = conn[call[d].broker]
      BY <1>6, <2>5, <3>2 DEF Fails, Typed, StoresTyped
    <3> QED
      BY <2>1, <2>2, <3>1, <3>3 DEF HasPlace, RepliesStay
  <2> QED
    BY <2>4, <2>5
<1>7. ASSUME NEW w \in Conns, NEW id \in Ids, Takes(w, id) PROVE WaitIsAnswerable'
  <2> SUFFICES ASSUME NEW d \in Calls, d \in Requesting' PROVE HasPlace(d)'
    BY AnswerableIs DEF WaitIsAnswerable, HasPlace, Requesting
  <2>1. UNCHANGED <<conn, call, chan>>
    BY <1>7 DEF Takes
  <2>2. Id(d)' = Id(d) /\ d \in Requesting /\ HasPlace(d)
    BY <2>1, IdsStay, AnswerableIs
  <2>3. CASE Id(d) = id
    BY <1>7, <2>2, <2>3 DEF Takes, HasPlace
  <2>4. CASE Id(d) # id
    <3>1. call[d].broker \in Brokers
      BY <2>2 DEF StepsKnow, Requesting
    <3>2. Id(d) \in pending[call[d].broker] => Id(d) \in pending'[call[d].broker]
      BY <1>7, <2>4, <3>1 DEF Takes, Typed, StoresTyped
    <3>3. ASSUME NEW v \in Conns, sock[v].reply = Id(d)
          PROVE  sock'[v].reply = Id(d)
      BY <1>7, <3>3, IdIsId DEF Takes, Typed
    <3> QED
      BY <2>1, <2>2, <3>2, <3>3 DEF HasPlace
  <2> QED
    BY <2>3, <2>4
<1>8. ASSUME NEW w \in Conns, Delivers(w) PROVE WaitIsAnswerable'
  <2> SUFFICES ASSUME NEW d \in Calls, d \in Requesting' PROVE HasPlace(d)'
    BY AnswerableIs DEF WaitIsAnswerable, HasPlace, Requesting
  <2>1. UNCHANGED <<conn, pending, call>>
    BY <1>8 DEF Delivers
  <2>2. Id(d)' = Id(d) /\ d \in Requesting /\ HasPlace(d)
    BY <2>1, IdsStay, AnswerableIs
  <2>3. CASE sock[w].reply = Id(d)
    <3>1. IsCurrent(sock[w].reply) /\ sock[w].reply[1] = d
      BY <2>2, <2>3, IdIsId DEF IsCurrent, Typed
    <3>2. \E answer \in Outcomes \ {"none"} : chan' = [chan EXCEPT ![d] = answer]
      BY <1>8, <3>1 DEF Delivers
    <3>3. chan'[d] # "none"
      BY <3>2 DEF Typed, StoresTyped
    <3> QED
      BY <3>3 DEF HasPlace
  <2>4. CASE sock[w].reply # Id(d)
    <3>1. ASSUME NEW v \in Conns, sock[v].reply = Id(d)
          PROVE  sock'[v].reply = Id(d)
      BY <1>8, <2>4, <3>1 DEF Delivers
    <3>2. chan[d] # "none" => chan'[d] # "none"
      BY <1>8 DEF Delivers, Typed, StoresTyped
    <3> QED
      BY <2>1, <2>2, <3>1, <3>2 DEF HasPlace
  <2> QED
    BY <2>3, <2>4
<1> QED
  BY <1>1, <1>2, <1>3, <1>4, <1>5, <1>6, <1>7, <1>8 DEF RequestStep

-----------------------------------------------------------------------------
(* The theorems *)

LEMMA InitIInv == Init => IInv
<1> SUFFICES ASSUME Init PROVE IInv
  OBVIOUS
<1>1. SocksTyped
  BY DEF Init, SocksTyped, SockRecords, SockPcs
<1>2. CallsTyped
  BY ConstantsAre, OutcomesAre DEF Init, CallsTyped, CallRecords, CallPcs
<1>3. StoresTyped
  BY OutcomesAre DEF Init, StoresTyped
<1>4. /\ \A w \in Conns : sock[w].pc = "unopened" /\ sock[w].reply = <<>>
      /\ \A c \in Calls : call[c].pc = "idle" /\ chan[c] = "none"
      /\ \A b \in Brokers : pending[b] = {}
  BY DEF Init
<1>5. Requesting = {}
  BY <1>4 DEF Requesting
<1>6. StepsKnow /\ ReadersHold
  BY <1>4 DEF StepsKnow, ReadersHold
<1>7. HeldIsWritten /\ HeldIsPast /\ HeldOnce
  <2>1. \A c \in Calls : Id(c) # <<>>
    BY <1>2, IdIsId
  <2>2. \A c \in Calls, n \in Nat : <<c, n>> # <<>>
    BY SMT
  <2> QED
    BY <1>4, <2>1, <2>2 DEF HeldIsWritten, HeldIsPast, HeldOnce
<1>8. PendingIsCurrent /\ ChannelIsEmpty /\ IdleChannelsAreEmpty
  BY <1>4, <1>5 DEF PendingIsCurrent, ChannelIsEmpty, IdleChannelsAreEmpty
<1>9. WaitIsAnswerable /\ NoMissedConnection
  BY <1>4, <1>5 DEF WaitIsAnswerable, NoMissedConnection
<1> QED
  BY <1>1, <1>2, <1>3, <1>6, <1>7, <1>8, <1>9 DEF IInv, Typed

LEMMA NextIInv == IInv /\ [Next]_vars => IInv'
<1> SUFFICES ASSUME IInv, [Next]_vars PROVE IInv'
  OBVIOUS
<1>1. Typed' /\ StepsKnow' /\ ReadersHold' /\ NoMissedConnection'
  BY NextSocks, NextCalls, NextStores, NextSteps, NextReaders, NextMissed DEF IInv, Typed
<1>2. RequestStep
  BY NextRequest DEF IInv
<1>3. HeldIsWritten' /\ HeldIsPast' /\ HeldOnce'
  BY <1>2, NextWritten, NextPast, NextHeldOnce DEF IInv
<1>4. PendingIsCurrent' /\ ChannelIsEmpty' /\ IdleChannelsAreEmpty' /\ WaitIsAnswerable'
  BY <1>2, NextPending, NextChannel, NextIdle, NextAnswerable DEF IInv
<1> QED
  BY <1>1, <1>3, <1>4 DEF IInv

LEMMA SpecIInv == Spec => []IInv
BY InitIInv, NextIInv, PTL DEF Spec

\* Brokers, registry, connections and calls (broker.go, frontend_clients.go,
\* frontend.go) keep their types; a call retries MaxRetries times at most.
THEOREM FrontendTypes == Spec => []TypeOK
<1>1. IInv => TypeOK
  BY DEF IInv, Typed, SocksTyped, CallsTyped, StoresTyped, SockRecords, SockPcs, CallRecords,
         TypeOK
<1> QED
  BY <1>1, SpecIInv, PTL

\* One at most may send to the channel of a request, and finds it empty.
LEMMA OneSender == IInv => SendNeverBlocks
<1> SUFFICES ASSUME IInv, NEW id \in Ids
             PROVE  LET senders == {w \in Conns : sock[w].reply = id}
                                     \cup {b \in Brokers : id \in pending[b]} IN
                    /\ Cardinality(senders) <= 1
                    /\ senders # {} /\ IsCurrent(id) => chan[id[1]] = "none"
  BY DEF SendNeverBlocks
<1> DEFINE senders == {w \in Conns : sock[w].reply = id}
                        \cup {b \in Brokers : id \in pending[b]}
<1>1. \A x, y \in senders : x = y
  <2>1. id # <<>>
    BY NoIdIsEmpty
  <2>2. \A b, a \in Brokers : id \in pending[a] /\ id \in pending[b] => a = b
    BY PendingIs DEF IInv
  <2>3. \A w \in Conns : sock[w].reply = id =>
          /\ \A v \in Conns : sock[v].reply = id => v = w
          /\ \A b \in Brokers : id \notin pending[b]
    BY <2>1 DEF IInv, HeldOnce
  <2> QED
    BY <2>2, <2>3
<1>2. Cardinality(senders) <= 1
  <2>1. CASE senders = {}
    BY <2>1, FS_EmptySet
  <2>2. CASE senders # {}
    <3>1. PICK x : senders = {x}
      BY <1>1, <2>2
    <3> QED
      BY <3>1, FS_Singleton
  <2> QED
    BY <2>1, <2>2
<1>3. senders # {} /\ IsCurrent(id) => chan[id[1]] = "none"
  BY CurrentIs, ChannelOf DEF IInv, Typed
<1> QED
  BY <1>2, <1>3

\* A request is in pending only while it is written or waited for (broker.go:182-216);
\* one at most may send to its channel, and that send never blocks (broker.go:130-136,
\* 261-266); and somebody can still answer a request that waits, unless it entered
\* pending after its connection had been replaced.
THEOREM RequestsKeepTheirPlace == Spec => []RequestHasItsPlace
<1>1. IInv => RequestHasItsPlace
  BY OneSender DEF IInv, RequestHasItsPlace
<1> QED
  BY <1>1, SpecIInv, PTL

\* waitConn reads the connection and the ready channel under one lock
\* (broker.go:233-254): nobody waits for a connection that is there.
THEOREM ConnectionsAreNotMissed == Spec => []NoMissedConnection
<1>1. IInv => NoMissedConnection
  BY DEF IInv
<1> QED
  BY <1>1, SpecIInv, PTL
=============================================================================
