-------------------------- MODULE DispatcherProofs --------------------------
(***************************************************************************)
(* The safety properties of Dispatcher for any calls, users, keys,         *)
(* dispatchers, pool and bounds, though every dispatcher built over the    *)
(* same options shares the queue, the pool and the cache.                  *)
(***************************************************************************)
EXTENDS Dispatcher, FiniteSetTheorems, TLAPS

-----------------------------------------------------------------------------
(* The inductive invariant *)

\* The counter of the queue is exact.
CountIsExact == IsFiniteSet(Q!Waiting) /\ pendingCount = Cardinality(Q!Waiting)

\* A dispatcher whose flag is up has a drain that will look at the queue again.
Draining(d, g) == drain[g].owner = d /\ drain[g].pc \in {"loop", "submit", "exit"}
FlagHasDrain == \A d \in Dispatchers : draining[d] => \E g \in Drains : Draining(d, g)
DrainsAreWhole ==
  \A g \in Drains :
    /\ drain[g].pc = "off" => drain[g] = Off
    /\ drain[g].pc # "off" => drain[g].owner \in Dispatchers
    /\ drain[g].pc = "submit" <=> drain[g].job # NoCall

\* Where the closure of a call is: at position i of u's FIFO, in the hand of a
\* drain, or with the pool.
Holds(u, i, c) == i \in 1..Len(queues[u]) /\ queues[u][i] = c
Queued == {c \in Calls : \E u \in Users, i \in Nat : Holds(u, i, c)}
Held == {c \in Calls : \E g \in Drains : drain[g].job = c}

QueuedOnce ==
  \A c \in Calls, u, v \in Users, i, j \in Nat :
    Holds(u, i, c) /\ Holds(v, j, c) => u = v /\ i = j
HeldOnce == \A c \in Calls, g, h \in Drains : drain[g].job = c /\ drain[h].job = c => g = h
OnePlace ==
  \A c \in Calls :
    /\ c \in Queued => c \notin Held /\ worker[c] = "none"
    /\ c \in Held => worker[c] = "none"
    /\ caller[c] \in {"idle", "flight", "recheck", "follow", "enqueue"} =>
         c \notin Queued \cup Held /\ worker[c] = "none"
    /\ caller[c] \in {"signal", "wait"} => c \in Queued \cup Held \/ worker[c] # "none"

\* Only a query is in a flight, and it holds the key until it leaves.
FlightIsHeld ==
  \A c \in Calls :
    /\ caller[c] \in {"flight", "recheck", "follow", "store", "leave"} => Kind[c] = "query"
    /\ Kind[c] = "query" /\ caller[c] \in {"recheck", "enqueue", "signal", "wait", "store", "leave"}
         => flight[Key[c]] = c

\* An outcome is in the channel after the closure has ended, with its cause.
OutcomeFollows ==
  \A c \in Calls : done[c] # Nothing =>
    \/ done[c] = Ok(c) /\ worker[c] = "succeeded"
    \/ done[c] = Failed /\ worker[c] \in {"failed", "rejected"}

\* A closure that has not ended has a caller that waits for it or was cancelled.
CallerWaits ==
  \A c \in Calls :
    c \in Queued \cup Held \cup Running => caller[c] \in {"signal", "wait"} \/ c \in ctxDone

\* What is, or may still be, stored in the cache is the result of a query that
\* has succeeded.
LoadsHaveSucceeded ==
  /\ \A k \in Keys : cache[k] # NoCall =>
       /\ cache[k] \in Calls /\ Kind[cache[k]] = "query" /\ Key[cache[k]] = k
       /\ worker[cache[k]] = "succeeded"
  /\ \A c \in Calls : caller[c] = "store" => reply[c] = Ok(c) /\ worker[c] = "succeeded"
  /\ \A c \in Calls : worker[c] = "clear" => Kind[c] = "mutation"
  /\ \A c \in Calls : Kind[c] = "mutation" /\ reply[c].status = "ok" => worker[c] = "succeeded"

\* A mutation that has cleared the cache: its data is what others have to show.
Cleared(m) == Kind[m] = "mutation" /\ worker[m] = "succeeded"
Shows(d, m) == seen[m] <= seen[d] \/ d \in open[m]

\* No load that is cached, or may still be, is older than such a mutation, unless
\* its call was under way then.
HasRead(c) == worker[c] \in {"returning", "clear", "succeeded"}
LoadsAreFresh ==
  /\ \A c \in Calls : seen[c] <= version
  /\ \A m, c \in Calls :
       Cleared(m) /\ HasRead(c) /\ caller[c] # "returned" => Shows(c, m)
  /\ \A m \in Calls, k \in Keys :
       Cleared(m) /\ cache[k] # NoCall => Shows(cache[k], m)

\* What a call returns, or is about to hand to its flight: the result of its own
\* closure or of another query of its key.
SameLoad(c, d) == c = d \/ (Kind[c] = "query" /\ Kind[d] = "query" /\ Key[c] = Key[d])
ResultOf(c, d) == reply[c] = Ok(d) /\ worker[d] = "succeeded" /\ SameLoad(c, d)
AnswersAreResults ==
  \A c \in Calls : caller[c] \in {"leave", "returned"} =>
    reply[c] = Failed \/ \E d \in Calls : ResultOf(c, d)

\* While a flight is open its result may grow old: the call that leads it is then
\* under way.
FlightsAreFresh ==
  \A m, c, d \in Calls : Cleared(m) /\ caller[c] = "leave" /\ reply[c] = Ok(d) =>
    Shows(d, m) \/ c \in open[m]

BeforeHasCleared == \A c \in Calls : \A m \in before[c] : Cleared(m)

IInv ==
  /\ TypeOK /\ CountIsExact
  /\ FlagHasDrain /\ DrainsAreWhole /\ SomeoneWillDrain
  /\ QueuedOnce /\ HeldOnce /\ OnePlace
  /\ FlightIsHeld /\ OutcomeFollows /\ CallerWaits /\ ErrorHasCause
  /\ LoadsHaveSucceeded /\ LoadsAreFresh
  /\ AnswersAreResults /\ FlightsAreFresh /\ BeforeHasCleared

-----------------------------------------------------------------------------
(* The queue *)

LEMMA WaitingGrows ==
  ASSUME Q!QueueTypeOK, IsFiniteSet(Q!Waiting), NEW u \in Users, NEW job \in Calls,
         queues' = [queues EXCEPT ![u] = Append(@, job)]
  PROVE  IsFiniteSet(Q!Waiting)' /\ Cardinality(Q!Waiting)' = Cardinality(Q!Waiting) + 1
<1> USE DEF Q!QueueTypeOK
<1> DEFINE last == <<u, Len(queues[u]) + 1>>
<1>1. DOMAIN queues[u] = 1..Len(queues[u]) /\ Len(queues[u]) \in Nat
  OBVIOUS
<1>2. DOMAIN queues'[u] = 1..(Len(queues[u]) + 1)
  OBVIOUS
<1>3. \A v \in Users \ {u} : queues'[v] = queues[v]
  OBVIOUS
<1>4. Q!Waiting' = Q!Waiting \cup {last}
  BY <1>1, <1>2, <1>3 DEF Q!Waiting
<1>5. last \notin Q!Waiting
  BY <1>1 DEF Q!Waiting
<1> QED
  BY <1>4, <1>5, FS_AddElement

LEMMA WaitingShrinks ==
  ASSUME Q!QueueTypeOK, IsFiniteSet(Q!Waiting), NEW u \in Users, queues[u] # <<>>,
         queues' = [queues EXCEPT ![u] = Tail(@)]
  PROVE  /\ IsFiniteSet(Q!Waiting)' /\ Cardinality(Q!Waiting)' = Cardinality(Q!Waiting) - 1
         /\ Cardinality(Q!Waiting) \in Nat \ {0}
<1> USE DEF Q!QueueTypeOK
<1> DEFINE last == <<u, Len(queues[u])>>
<1>1. /\ DOMAIN queues[u] = 1..Len(queues[u])
      /\ Len(queues[u]) \in Nat /\ Len(queues[u]) # 0
  OBVIOUS
<1>2. DOMAIN queues'[u] = 1..(Len(queues[u]) - 1)
  OBVIOUS
<1>3. \A v \in Users \ {u} : queues'[v] = queues[v]
  OBVIOUS
<1>4. Q!Waiting' = Q!Waiting \ {last}
  BY <1>1, <1>2, <1>3 DEF Q!Waiting
<1>5. last \in Q!Waiting
  BY <1>1 DEF Q!Waiting
<1>6. Cardinality(Q!Waiting) \in Nat /\ Cardinality(Q!Waiting) # 0
  BY <1>5, FS_CardinalityType, FS_EmptySet
<1> HIDE DEF last
<1>7. /\ IsFiniteSet(Q!Waiting \ {last})
      /\ Cardinality(Q!Waiting \ {last})
           = IF last \in Q!Waiting THEN Cardinality(Q!Waiting) - 1 ELSE Cardinality(Q!Waiting)
  BY FS_RemoveElement
<1> QED
  BY <1>4, <1>5, <1>6, <1>7

LEMMA AppendIsSeq ==
  ASSUME NEW S, NEW s \in Seq(S), NEW x \in S
  PROVE  Append(s, x) \in Seq(S)
OBVIOUS

LEMMA EnqueueIsCounted ==
  ASSUME TypeOK, CountIsExact, NEW c \in Calls, Q!EnqueueJob(CallerName[c], c)
  PROVE  /\ Q!QueueTypeOK' /\ CountIsExact' /\ pendingCount' > 0
         /\ \E u \in Users : queues' = [queues EXCEPT ![u] = Append(@, c)]
<1> USE DispatcherAssumption DEF TypeOK
<1> DEFINE user == Q!normalizeUserName(CallerName[c])
<1>1. user \in Users
  BY DEF Q!normalizeUserName
<1>2. /\ queues' = [queues EXCEPT ![user] = Append(@, c)]
      /\ pendingCount' = pendingCount + 1
      /\ readyUsers' = IF inReady[user] THEN readyUsers ELSE Append(readyUsers, user)
      /\ inReady' = [inReady EXCEPT ![user] = TRUE]
  BY DEF Q!EnqueueJob
<1> HIDE DEF user
<1>3. Q!QueueTypeOK' /\ pendingCount' > 0
  BY <1>1, <1>2 DEF Q!QueueTypeOK
<1>4. CountIsExact'
  BY <1>1, <1>2, WaitingGrows DEF CountIsExact
<1> QED
  BY <1>1, <1>2, <1>3, <1>4

LEMMA DequeueIsCounted ==
  ASSUME TypeOK, CountIsExact, NEW user \in Users, NEW job \in Calls, Q!Dequeue(user, job)
  PROVE  /\ Q!QueueTypeOK' /\ CountIsExact'
         /\ queues[user] # <<>> /\ job = Head(queues[user])
         /\ queues' = [queues EXCEPT ![user] = Tail(@)]
<1> USE DEF TypeOK
<1>1. PICK i \in DOMAIN readyUsers :
        /\ Q!StopsAt(i) /\ user = readyUsers[i]
        /\ job = Head(queues[user])
        /\ queues' = [queues EXCEPT ![user] = Tail(@)]
        /\ pendingCount' = pendingCount - 1
        /\ readyUsers' = IF Tail(queues[user]) # <<>>
                         THEN Append(SubSeq(readyUsers, i + 1, Len(readyUsers)), user)
                         ELSE SubSeq(readyUsers, i + 1, Len(readyUsers))
        /\ inReady' = [u \in Users |-> /\ inReady[u]
                                       /\ u \notin Q!DroppedBefore(i)
                                       /\ u = user => Tail(queues[user]) # <<>>]
  BY DEF Q!Dequeue
<1>2. queues[user] # <<>>
  BY <1>1 DEF Q!StopsAt
<1>3. CountIsExact' /\ pendingCount' \in Nat
  <2>1. queues' = [queues EXCEPT ![user] = Tail(@)] /\ pendingCount' = pendingCount - 1
    BY <1>1
  <2>2. /\ IsFiniteSet(Q!Waiting)' /\ Cardinality(Q!Waiting)' = Cardinality(Q!Waiting) - 1
        /\ Cardinality(Q!Waiting) \in Nat \ {0}
    BY <1>2, <2>1, WaitingShrinks DEF CountIsExact
  <2> QED
    BY <2>1, <2>2 DEF CountIsExact
<1>4. SubSeq(readyUsers, i + 1, Len(readyUsers)) \in Seq(Users)
  BY <1>1 DEF Q!QueueTypeOK
<1>5. readyUsers' \in Seq(Users) /\ inReady' \in [Users -> BOOLEAN]
  <2>1. inReady' \in [Users -> BOOLEAN]
    BY <1>1
  <2>2. readyUsers' \in Seq(Users)
    <3> DEFINE rest == SubSeq(readyUsers, i + 1, Len(readyUsers))
    <3>1. readyUsers' = Append(rest, user) \/ readyUsers' = rest
      BY <1>1
    <3>2. rest \in Seq(Users)
      BY <1>4
    <3>3. Append(rest, user) \in Seq(Users)
      BY <3>2, AppendIsSeq
    <3> QED
      BY <3>1, <3>2, <3>3
  <2> QED
    BY <2>1, <2>2
<1>6. queues' \in [Users -> Seq(Calls)]
  BY <1>1, <1>2 DEF Q!QueueTypeOK
<1> QED
  BY <1>1, <1>2, <1>3, <1>5, <1>6 DEF Q!QueueTypeOK

LEMMA NothingIsCounted ==
  ASSUME TypeOK, CountIsExact, Q!DequeueNothing
  PROVE  Q!QueueTypeOK' /\ CountIsExact' /\ queues' = queues /\ pendingCount' = pendingCount
<1>1. queues' = queues /\ pendingCount' = pendingCount /\ readyUsers' = <<>>
  BY DEF Q!DequeueNothing
<1>2. inReady' \in [Users -> BOOLEAN]
  BY DEF TypeOK, Q!QueueTypeOK, Q!DequeueNothing
<1>3. Q!QueueTypeOK'
  BY <1>1, <1>2 DEF TypeOK, Q!QueueTypeOK
<1> QED
  BY <1>1, <1>3 DEF CountIsExact, Q!Waiting

LEMMA QueueStays ==
  ASSUME UNCHANGED queueVars
  PROVE  /\ Queued' = Queued /\ pendingCount' = pendingCount
         /\ CountIsExact => CountIsExact'
         /\ QueuedOnce => QueuedOnce'
BY DEF queueVars, Queued, Holds, CountIsExact, QueuedOnce, Q!Waiting

\* One more job is held at the end of one FIFO.
LEMMA QueuedGrows ==
  ASSUME TypeOK, QueuedOnce, NEW u \in Users, NEW c \in Calls, c \notin Queued,
         queues' = [queues EXCEPT ![u] = Append(@, c)]
  PROVE  Queued' = Queued \cup {c} /\ QueuedOnce'
<1> USE DEF TypeOK, Q!QueueTypeOK
<1>1. \A v \in Users, i \in Nat, x \in Calls :
        Holds(v, i, x)' <=> Holds(v, i, x) \/ (v = u /\ i = Len(queues[u]) + 1 /\ x = c)
  <2> SUFFICES ASSUME NEW v \in Users, NEW i \in Nat, NEW x \in Calls
               PROVE  Holds(v, i, x)' <=> Holds(v, i, x) \/ (v = u /\ i = Len(queues[u]) + 1 /\ x = c)
    OBVIOUS
  <2>1. CASE v # u
    BY <2>1 DEF Holds
  <2>2. CASE v = u
    <3>1. /\ queues'[u] = Append(queues[u], c) /\ queues[u] \in Seq(Calls)
          /\ Len(queues[u]) \in Nat /\ Len(queues'[u]) = Len(queues[u]) + 1
          /\ \A j \in 1..Len(queues[u]) : queues'[u][j] = queues[u][j]
          /\ queues'[u][Len(queues[u]) + 1] = c
      OBVIOUS
    <3> QED
      BY <2>2, <3>1 DEF Holds
  <2> QED
    BY <2>1, <2>2
<1>2. Len(queues[u]) + 1 \in Nat
  OBVIOUS
<1>3. \A v \in Users, i \in Nat : ~Holds(v, i, c)
  BY DEF Queued
<1>4. Queued' = Queued \cup {c}
  BY <1>1, <1>2 DEF Queued
<1>5. QueuedOnce'
  <2> SUFFICES ASSUME NEW x \in Calls, NEW v \in Users, NEW w \in Users, NEW i \in Nat, NEW j \in Nat,
                      Holds(v, i, x)', Holds(w, j, x)'
               PROVE  v = w /\ i = j
    BY DEF QueuedOnce
  <2>1. CASE x = c
    BY <1>1, <1>3, <2>1
  <2>2. CASE x # c
    BY <1>1, <2>2 DEF QueuedOnce
  <2> QED
    BY <2>1, <2>2
<1> QED
  BY <1>4, <1>5

\* The first job of one FIFO goes and the others move up.
LEMMA QueuedShrinks ==
  ASSUME TypeOK, QueuedOnce, NEW u \in Users, NEW c \in Calls,
         queues[u] # <<>>, c = Head(queues[u]),
         queues' = [queues EXCEPT ![u] = Tail(@)]
  PROVE  c \in Queued /\ Queued' = Queued \ {c} /\ QueuedOnce'
<1> USE DEF TypeOK, Q!QueueTypeOK
<1>1. \A v \in Users, i \in Nat, x \in Calls :
        Holds(v, i, x)' <=> (v # u /\ Holds(v, i, x)) \/ (v = u /\ i > 0 /\ Holds(v, i + 1, x))
  <2> SUFFICES ASSUME NEW v \in Users, NEW i \in Nat, NEW x \in Calls
               PROVE  Holds(v, i, x)' <=>
                        (v # u /\ Holds(v, i, x)) \/ (v = u /\ i > 0 /\ Holds(v, i + 1, x))
    OBVIOUS
  <2>1. CASE v # u
    BY <2>1 DEF Holds
  <2>2. CASE v = u
    <3>1. /\ queues'[u] = Tail(queues[u]) /\ queues[u] \in Seq(Calls)
          /\ Len(queues[u]) \in Nat /\ Len(queues'[u]) = Len(queues[u]) - 1
          /\ \A j \in 1..(Len(queues[u]) - 1) : queues'[u][j] = queues[u][j + 1]
      OBVIOUS
    <3> QED
      BY <2>2, <3>1 DEF Holds
  <2> QED
    BY <2>1, <2>2
<1>2. Holds(u, 1, c)
  <2>1. queues[u] \in Seq(Calls) /\ Len(queues[u]) \in Nat /\ Len(queues[u]) # 0
    OBVIOUS
  <2> QED
    BY <2>1 DEF Holds
<1>3. c \in Queued
  BY <1>2 DEF Queued
<1>4. \A v \in Users, i \in Nat : Holds(v, i, c) => v = u /\ i = 1
  BY <1>2 DEF QueuedOnce
<1>5. \A i \in Nat, x \in Calls : Holds(u, i, x) => i # 0 /\ (x # c => i # 1)
  BY <1>2 DEF Holds
<1>6. \A x \in Queued' : x \in Queued /\ x # c
  <2> SUFFICES ASSUME NEW x \in Queued' PROVE x \in Queued /\ x # c
    OBVIOUS
  <2>1. PICK v \in Users, i \in Nat : Holds(v, i, x)' /\ x \in Calls
    BY DEF Queued
  <2>2. CASE v # u
    BY <1>1, <1>4, <2>1, <2>2 DEF Queued
  <2>3. CASE v = u
    <3>1. i > 0 /\ Holds(u, i + 1, x) /\ i + 1 \in Nat /\ i + 1 # 1
      BY <1>1, <2>1, <2>3
    <3> QED
      BY <1>4, <2>1, <3>1 DEF Queued
  <2> QED
    BY <2>2, <2>3
<1>7. \A x \in Queued : x # c => x \in Queued'
  <2> SUFFICES ASSUME NEW x \in Queued, x # c PROVE x \in Queued'
    OBVIOUS
  <2>1. PICK v \in Users, i \in Nat : Holds(v, i, x) /\ x \in Calls
    BY DEF Queued
  <2>2. CASE v # u
    <3>1. Holds(v, i, x)'
      BY <1>1, <2>1, <2>2
    <3> QED
      BY <2>1, <3>1 DEF Queued
  <2>3. CASE v = u
    <3>1. i \in Nat \ {0, 1}
      BY <1>5, <2>1, <2>3
    <3>2. i - 1 \in Nat /\ i - 1 > 0 /\ (i - 1) + 1 = i
      BY <3>1
    <3>3. Holds(u, i - 1, x)'
      BY <1>1, <2>1, <2>3, <3>2
    <3> QED
      BY <2>1, <3>2, <3>3 DEF Queued
  <2> QED
    BY <2>2, <2>3
<1>8. QueuedOnce'
  <2> SUFFICES ASSUME NEW x \in Calls, NEW v \in Users, NEW w \in Users, NEW i \in Nat, NEW j \in Nat,
                      Holds(v, i, x)', Holds(w, j, x)'
               PROVE  v = w /\ i = j
    BY DEF QueuedOnce
  <2> DEFINE at(y, n) == IF y = u THEN n + 1 ELSE n
  <2>1. at(v, i) \in Nat /\ at(w, j) \in Nat
    OBVIOUS
  <2>2. Holds(v, at(v, i), x) /\ Holds(w, at(w, j), x)
    BY <1>1
  <2>3. v = w /\ at(v, i) = at(w, j)
    BY <2>1, <2>2 DEF QueuedOnce
  <2> QED
    BY <2>3
<1> QED
  BY <1>3, <1>6, <1>7, <1>8 DEF Queued

-----------------------------------------------------------------------------
(* What the steps change *)

\* As TypeOK has them.
DrainRecords == [pc : {"off", "loop", "submit", "exit", "rearm"},
                 owner : Dispatchers \cup {NoCall}, job : Calls \cup {NoCall}]

CallerPcs == {"idle", "flight", "recheck", "follow", "enqueue", "signal", "wait", "store",
              "leave", "returned"}

WorkerPcs == {"none", "started", "handler", "returning", "clear", "succeeded", "failed",
              "rejected"}

\* One call moves and the others stay.
CallerMoves(c, pc) ==
  /\ caller' \in [Calls -> CallerPcs] /\ caller'[c] = pc
  /\ \A f \in Calls : f # c => caller'[f] = caller[f]
WorkerMoves(c, pc) ==
  /\ worker' \in [Calls -> WorkerPcs] /\ worker'[c] = pc
  /\ \A f \in Calls : f # c => worker'[f] = worker[f]
Replies(c, outcome) ==
  /\ reply' \in [Calls -> Outcomes] /\ reply'[c] = outcome
  /\ \A f \in Calls : f # c => reply'[f] = reply[f]
Takes(c) ==
  /\ done' \in [Calls -> Outcomes] /\ done'[c] = Nothing
  /\ \A f \in Calls : f # c => done'[f] = done[f]
Finishes(c, outcome) ==
  /\ done' \in [Calls -> Outcomes]
  /\ done[c] = Nothing => done'[c] = outcome
  /\ done[c] # Nothing => done'[c] = done[c]
  /\ \A f \in Calls : f # c => done'[f] = done[f]

LEMMA OutcomesAre ==
  /\ Nothing \in Outcomes /\ Nothing.status = "none"
  /\ Failed \in Outcomes /\ Failed.status = "error" /\ Failed # Nothing
  /\ \A c \in Calls \cup {NoCall} :
       Ok(c) \in Outcomes /\ Ok(c).status = "ok" /\ Ok(c).by = c /\ Ok(c) # Nothing /\ Ok(c) # Failed
BY DEF Outcomes, Nothing, Failed, Ok

LEMMA MovesCaller ==
  ASSUME TypeOK, NEW c \in Calls, NEW pc \in CallerPcs, Goto(c, pc)
  PROVE  CallerMoves(c, pc)
BY DEF Goto, CallerMoves, TypeOK, CallerPcs

LEMMA MovesWorker ==
  ASSUME TypeOK, NEW c \in Calls, NEW pc \in WorkerPcs, worker' = [worker EXCEPT ![c] = pc]
  PROVE  WorkerMoves(c, pc)
BY DEF WorkerMoves, TypeOK, WorkerPcs

LEMMA MovesReply ==
  ASSUME TypeOK, NEW c \in Calls, NEW outcome \in Outcomes, Answer(c, outcome)
  PROVE  Replies(c, outcome)
<1>1. reply \in [Calls -> Outcomes]
  BY DEF TypeOK
<1> QED
  BY <1>1 DEF Answer, Replies

LEMMA MovesDone ==
  ASSUME TypeOK, NEW c \in Calls, NEW outcome \in Outcomes
  PROVE  /\ done' = [done EXCEPT ![c] = Nothing] => Takes(c)
         /\ finish(c, outcome) => Finishes(c, outcome)
<1>1. done \in [Calls -> Outcomes]
  BY DEF TypeOK
<1> QED
  BY <1>1, OutcomesAre DEF Takes, Finishes, finish

\* The drain g is the only one that changes.
Alone(g) == \A h \in Drains : h # g => drain'[h] = drain[h]

LEMMA OneDrain ==
  ASSUME drain \in [Drains -> DrainRecords], NEW g \in Drains, NEW x \in DrainRecords,
         drain' = [drain EXCEPT ![g] = x]
  PROVE  drain' \in [Drains -> DrainRecords] /\ Alone(g) /\ drain'[g] = x
BY DEF Alone

LEMMA DrainGoes ==
  ASSUME drain \in [Drains -> DrainRecords], NEW g \in Drains,
         NEW pc \in {"off", "loop", "submit", "exit", "rearm"}, NEW job \in Calls \cup {NoCall},
         drain' = [drain EXCEPT ![g] = [drain[g] EXCEPT !.pc = pc, !.job = job]]
  PROVE  /\ drain' \in [Drains -> DrainRecords] /\ Alone(g)
         /\ drain'[g].pc = pc /\ drain'[g].job = job /\ drain'[g].owner = drain[g].owner
<1>1. [drain[g] EXCEPT !.pc = pc, !.job = job] \in DrainRecords
  BY DEF DrainRecords
<1>2. drain' \in [Drains -> DrainRecords] /\ Alone(g)
      /\ drain'[g] = [drain[g] EXCEPT !.pc = pc, !.job = job]
  BY <1>1, OneDrain
<1> QED
  BY <1>2 DEF DrainRecords

LEMMA DrainStays ==
  ASSUME drain \in [Drains -> DrainRecords], NEW g \in Drains,
         NEW pc \in {"off", "loop", "submit", "exit", "rearm"},
         drain' = [drain EXCEPT ![g] = [drain[g] EXCEPT !.pc = pc]]
  PROVE  /\ drain' \in [Drains -> DrainRecords] /\ Alone(g)
         /\ drain'[g].pc = pc /\ drain'[g].job = drain[g].job /\ drain'[g].owner = drain[g].owner
<1>1. [drain[g] EXCEPT !.pc = pc] \in DrainRecords
  BY DEF DrainRecords
<1>2. drain' \in [Drains -> DrainRecords] /\ Alone(g) /\ drain'[g] = [drain[g] EXCEPT !.pc = pc]
  BY <1>1, OneDrain
<1> QED
  BY <1>2 DEF DrainRecords

LEMMA OffIs == Off.pc = "off" /\ Off.job = NoCall /\ Off \in DrainRecords
BY DEF Off, DrainRecords

LEMMA DrainsTyped == TypeOK => drain \in [Drains -> DrainRecords]
BY DEF TypeOK, DrainRecords

LEMMA EnqueueEffect ==
  ASSUME TypeOK, CountIsExact, QueuedOnce, OnePlace, NEW c \in Calls, EnqueueCall(c)
  PROVE  /\ caller[c] = "enqueue" /\ CallerMoves(c, "signal")
         /\ Queued' = Queued \cup {c} /\ QueuedOnce'
         /\ Q!QueueTypeOK' /\ CountIsExact' /\ pendingCount' > 0
         /\ UNCHANGED <<reply, draining, drain, version, seen, ctxDone, done, flight, cache,
                        worker, poolOpen, before, open>>
<1>1. Q!QueueTypeOK' /\ CountIsExact' /\ pendingCount' > 0
  BY EnqueueIsCounted DEF EnqueueCall
<1>2. PICK u \in Users : queues' = [queues EXCEPT ![u] = Append(@, c)]
  BY EnqueueIsCounted DEF EnqueueCall
<1>3. c \notin Queued
  BY DEF EnqueueCall, OnePlace
<1>4. Queued' = Queued \cup {c} /\ QueuedOnce'
  BY <1>2, <1>3, QueuedGrows
<1> QED
  BY <1>1, <1>4, MovesCaller DEF EnqueueCall, CallerPcs, drainVars, dataVars

LEMMA SignalEffect ==
  ASSUME TypeOK, NEW c \in Calls, Signal(c)
  PROVE  /\ caller[c] = "signal" /\ CallerMoves(c, "wait")
         /\ \/ draining[DispatcherOf[c]] /\ UNCHANGED <<draining, drain>>
            \/ /\ draining' = [draining EXCEPT ![DispatcherOf[c]] = TRUE]
               /\ \E g \in Drains :
                    /\ Alone(g) /\ drain[g] = Off /\ drain[g].pc = "off" /\ drain[g].job = NoCall
                    /\ drain' \in [Drains -> DrainRecords]
                    /\ drain'[g].pc = "loop" /\ drain'[g].owner = DispatcherOf[c]
                    /\ drain'[g].job = NoCall
         /\ UNCHANGED <<queueVars, reply, version, seen, ctxDone, done, flight, cache,
                        worker, poolOpen, before, open>>
<1>1. CASE draining[DispatcherOf[c]] /\ UNCHANGED drainVars
  BY <1>1, MovesCaller DEF Signal, CallerPcs, dataVars, drainVars
<1>2. CASE ~(draining[DispatcherOf[c]] /\ UNCHANGED drainVars)
  <2>1. PICK g \in Drains :
          /\ drain[g] = Off
          /\ drain' = [drain EXCEPT ![g] = [pc |-> "loop", owner |-> DispatcherOf[c], job |-> NoCall]]
    BY <1>2 DEF Signal, startDraining
  <2>0. [pc |-> "loop", owner |-> DispatcherOf[c], job |-> NoCall] \in DrainRecords
    BY DispatcherAssumption DEF DrainRecords
  <2>2. /\ drain'[g] = [pc |-> "loop", owner |-> DispatcherOf[c], job |-> NoCall]
        /\ drain' \in [Drains -> DrainRecords] /\ Alone(g)
    BY <2>0, <2>1, OneDrain, DrainsTyped
  <2>3. draining' = [draining EXCEPT ![DispatcherOf[c]] = TRUE]
    BY <1>2 DEF Signal, startDraining
  <2> QED
    <3>1. /\ drain'[g].pc = "loop" /\ drain'[g].owner = DispatcherOf[c]
          /\ drain'[g].job = NoCall
      BY <2>2
    <3>2. drain[g].pc = "off" /\ drain[g].job = NoCall
      BY <2>1, OffIs
    <3>3. /\ caller[c] = "signal" /\ CallerMoves(c, "wait")
          /\ UNCHANGED <<queueVars, reply, version, seen, ctxDone, done, flight, cache,
                         worker, poolOpen, before, open>>
      BY MovesCaller DEF Signal, CallerPcs, dataVars
    <3> QED
      BY <2>1, <2>2, <2>3, <3>1, <3>2, <3>3
<1> QED
  BY <1>1, <1>2

LEMMA ReceiveEffect ==
  ASSUME TypeOK, NEW c \in Calls, Receive(c)
  PROVE  /\ caller[c] = "wait" /\ done[c] # Nothing
         /\ Takes(c)
         /\ \/ Replies(c, done[c]) /\ Kind[c] # "query" /\ CallerMoves(c, "returned")
            \/ /\ Replies(c, done[c]) /\ Kind[c] = "query" /\ done[c].status = "ok"
               /\ CallerMoves(c, "store")
            \/ /\ Replies(c, done[c]) /\ Kind[c] = "query" /\ done[c].status # "ok"
               /\ CallerMoves(c, "leave")
            \/ /\ Replies(c, Failed) /\ Kind[c] = "query" /\ done[c].status = "ok"
               /\ c \in Unencodable /\ CallerMoves(c, "leave")
         /\ UNCHANGED <<queueVars, draining, drain, version, seen, ctxDone, flight, cache,
                        worker, poolOpen, before, open>>
<1> DEFINE next == CASE Kind[c] # "query" -> "returned"
                     [] Kind[c] = "query" /\ done[c].status = "ok" -> "store"
                     [] OTHER -> "leave"
<1>1. \/ caller' = [caller EXCEPT ![c] = next] /\ Answer(c, done[c])
      \/ /\ Kind[c] = "query" /\ done[c].status = "ok" /\ c \in Unencodable
         /\ Answer(c, Failed) /\ Goto(c, "leave")
  BY DispatcherAssumption DEF Receive, Conclude, Goto
<1>2. \/ Kind[c] # "query" /\ next = "returned"
      \/ Kind[c] = "query" /\ done[c].status = "ok" /\ next = "store"
      \/ Kind[c] = "query" /\ done[c].status # "ok" /\ next = "leave"
  OBVIOUS
<1> HIDE DEF next
<1>3. next \in CallerPcs
  BY <1>2 DEF CallerPcs
<1>4. \/ CallerMoves(c, next) /\ Replies(c, done[c])
      \/ /\ Kind[c] = "query" /\ done[c].status = "ok" /\ c \in Unencodable
         /\ Replies(c, Failed) /\ CallerMoves(c, "leave")
  <2>1. done[c] \in Outcomes /\ "leave" \in CallerPcs
    BY DEF TypeOK, CallerPcs
  <2> QED
    BY <1>1, <1>3, <2>1, OutcomesAre, MovesCaller, MovesReply DEF Goto
<1>5. Takes(c)
  BY MovesDone, OutcomesAre DEF Receive
<1> QED
  BY <1>2, <1>4, <1>5 DEF Receive, drainVars, dataVars

LEMMA GiveUpEffect ==
  ASSUME TypeOK, NEW c \in Calls, GiveUp(c)
  PROVE  /\ caller[c] = "wait" /\ c \in ctxDone
         /\ Replies(c, Failed)
         /\ \/ Kind[c] # "query" /\ CallerMoves(c, "returned")
            \/ Kind[c] = "query" /\ CallerMoves(c, "leave")
         /\ UNCHANGED <<queueVars, draining, drain, version, seen, ctxDone, done, flight, cache,
                        worker, poolOpen, before, open>>
<1> DEFINE next == CASE Kind[c] # "query" -> "returned"
                     [] Kind[c] = "query" /\ Failed.status = "ok" -> "store"
                     [] OTHER -> "leave"
<1>0. Failed.status # "ok"
  BY DEF Failed
<1>1. caller' = [caller EXCEPT ![c] = next] /\ Answer(c, Failed)
  BY <1>0 DEF GiveUp, Conclude, Goto
<1>2. (Kind[c] # "query" /\ next = "returned") \/ (Kind[c] = "query" /\ next = "leave")
  <2>1. Failed.status # "ok"
    BY DEF Failed
  <2> QED
    BY <2>1
<1> HIDE DEF next
<1>3. next \in CallerPcs
  BY <1>2 DEF CallerPcs
<1>4. CallerMoves(c, next)
  BY <1>1, <1>3, MovesCaller DEF Goto
<1>5. Replies(c, Failed)
  BY <1>1, OutcomesAre, MovesReply
<1> QED
  BY <1>2, <1>4, <1>5 DEF GiveUp, drainVars, dataVars

LEMMA LeaveEffect ==
  ASSUME TypeOK, NEW c \in Calls, LeaveFlight(c)
  PROVE  /\ caller[c] = "leave" /\ flight' = [flight EXCEPT ![Key[c]] = NoCall]
         /\ caller'[c] = "returned" /\ reply'[c] = reply[c]
         /\ \A f \in Calls : f # c =>
              \/ /\ caller[f] = "follow" /\ Key[f] = Key[c]
                 /\ caller'[f] = "returned" /\ reply'[f] = reply[c]
              \/ caller'[f] = caller[f] /\ reply'[f] = reply[f]
         /\ caller' \in [Calls -> CallerPcs]
         /\ reply' \in [Calls -> Outcomes]
         /\ UNCHANGED <<queueVars, draining, drain, version, seen, ctxDone, done, cache,
                        worker, poolOpen, before, open>>
<1> DEFINE followers == {f \in Calls : caller[f] = "follow" /\ Key[f] = Key[c]}
<1>1. /\ caller[c] = "leave"
      /\ caller' = [f \in Calls |-> IF f = c \/ f \in followers THEN "returned" ELSE caller[f]]
      /\ reply' = [f \in Calls |-> IF f \in followers THEN reply[c] ELSE reply[f]]
  BY DEF LeaveFlight
<1>2. c \notin followers
  BY <1>1
<1>3. reply' \in [Calls -> Outcomes] /\ caller' \in [Calls -> CallerPcs]
  BY <1>1 DEF TypeOK, CallerPcs
<1> QED
  BY <1>1, <1>2, <1>3 DEF LeaveFlight, drainVars, dataVars

LEMMA DrainDequeueEffect ==
  ASSUME TypeOK, CountIsExact, QueuedOnce, DrainsAreWhole, NEW g \in Drains, DrainDequeue(g)
  PROVE  /\ Alone(g) /\ drain' \in [Drains -> DrainRecords]
         /\ drain[g].pc = "loop" /\ drain[g].job = NoCall /\ drain'[g].owner = drain[g].owner
         /\ Q!QueueTypeOK' /\ CountIsExact' /\ QueuedOnce'
         /\ \/ /\ drain'[g].pc = "submit" /\ drain'[g].job \in Queued
               /\ Queued' = Queued \ {drain'[g].job}
            \/ /\ drain'[g].pc = "exit" /\ drain'[g].job = NoCall
               /\ Queued' = Queued /\ pendingCount' = pendingCount
         /\ UNCHANGED <<caller, reply, draining, version, seen, ctxDone, done, flight, cache,
                        worker, poolOpen, before, open>>
<1>1. drain[g].pc = "loop" /\ drain[g].job = NoCall /\ drain \in [Drains -> DrainRecords]
  <2>1. drain[g].pc = "loop"
    BY DEF DrainDequeue
  <2> QED
    BY <2>1, DrainsTyped DEF DrainsAreWhole
<1>2. ASSUME NEW user \in Users, NEW job \in Calls, Q!Dequeue(user, job),
             drain' = [drain EXCEPT ![g] = [drain[g] EXCEPT !.pc = "submit", !.job = job]]
      PROVE  /\ Alone(g) /\ drain' \in [Drains -> DrainRecords]
             /\ drain'[g].owner = drain[g].owner
             /\ Q!QueueTypeOK' /\ CountIsExact' /\ QueuedOnce'
             /\ drain'[g].pc = "submit" /\ drain'[g].job \in Queued
             /\ Queued' = Queued \ {drain'[g].job}
  <2>1. /\ drain' \in [Drains -> DrainRecords] /\ Alone(g)
        /\ drain'[g].pc = "submit" /\ drain'[g].job = job /\ drain'[g].owner = drain[g].owner
    BY <1>1, <1>2, DrainGoes
  <2>2. /\ Q!QueueTypeOK' /\ CountIsExact'
        /\ queues[user] # <<>> /\ job = Head(queues[user])
        /\ queues' = [queues EXCEPT ![user] = Tail(@)]
    BY <1>2, DequeueIsCounted
  <2>3. job \in Queued /\ Queued' = Queued \ {job} /\ QueuedOnce'
    BY <2>2, QueuedShrinks
  <2> QED
    BY <2>1, <2>2, <2>3
<1>3. ASSUME Q!DequeueNothing, drain' = [drain EXCEPT ![g] = [drain[g] EXCEPT !.pc = "exit"]]
      PROVE  /\ Alone(g) /\ drain' \in [Drains -> DrainRecords]
             /\ drain'[g].owner = drain[g].owner /\ drain'[g].job = drain[g].job
             /\ Q!QueueTypeOK' /\ CountIsExact' /\ QueuedOnce'
             /\ drain'[g].pc = "exit"
             /\ Queued' = Queued /\ pendingCount' = pendingCount
  <2>1. /\ drain' \in [Drains -> DrainRecords] /\ Alone(g)
        /\ drain'[g].pc = "exit" /\ drain'[g].job = drain[g].job /\ drain'[g].owner = drain[g].owner
    BY <1>1, <1>3, DrainStays
  <2>2. Q!QueueTypeOK' /\ CountIsExact' /\ queues' = queues /\ pendingCount' = pendingCount
    BY <1>3, NothingIsCounted
  <2>3. Queued' = Queued /\ QueuedOnce'
    BY <2>2 DEF Queued, QueuedOnce, Holds
  <2> QED
    BY <2>1, <2>2, <2>3
<1>4. UNCHANGED <<caller, reply, draining, version, seen, ctxDone, done, flight, cache,
                  worker, poolOpen, before, open>>
  BY DEF DrainDequeue, callerVars, dataVars
<1>5. CASE \E user \in Users, job \in Calls :
             /\ Q!Dequeue(user, job)
             /\ drain' = [drain EXCEPT ![g] = [drain[g] EXCEPT !.pc = "submit", !.job = job]]
  BY <1>1, <1>2, <1>4, <1>5
<1>6. CASE Q!DequeueNothing /\ drain' = [drain EXCEPT ![g] = [drain[g] EXCEPT !.pc = "exit"]]
  BY <1>1, <1>3, <1>4, <1>6
<1> QED
  BY <1>5, <1>6 DEF DrainDequeue

LEMMA DrainSubmitEffect ==
  ASSUME TypeOK, DrainsAreWhole, NEW g \in Drains, DrainSubmit(g)
  PROVE  /\ Alone(g) /\ drain' \in [Drains -> DrainRecords]
         /\ drain[g].pc = "submit" /\ drain[g].job \in Calls
         /\ drain'[g].pc = "loop" /\ drain'[g].job = NoCall /\ drain'[g].owner = drain[g].owner
         /\ WorkerMoves(drain[g].job, "started")
         /\ UNCHANGED <<queueVars, caller, reply, draining, version, seen, ctxDone, done, flight,
                        cache, poolOpen, before, open>>
<1>1. /\ drain[g].pc = "submit" /\ drain \in [Drains -> DrainRecords]
      /\ drain' = [drain EXCEPT ![g] = [drain[g] EXCEPT !.pc = "loop", !.job = NoCall]]
  BY DrainsTyped DEF DrainSubmit
<1>2. /\ drain' \in [Drains -> DrainRecords] /\ Alone(g)
      /\ drain'[g].pc = "loop" /\ drain'[g].job = NoCall /\ drain'[g].owner = drain[g].owner
  BY <1>1, DrainGoes
<1>3. drain[g].job \in Calls
  BY <1>1 DEF DrainsAreWhole, DrainRecords
<1> QED
  BY <1>1, <1>2, <1>3, MovesWorker DEF DrainSubmit, WorkerPcs, callerVars, dataVars

LEMMA DrainRejectEffect ==
  ASSUME TypeOK, DrainsAreWhole, NEW g \in Drains, DrainReject(g)
  PROVE  /\ Alone(g) /\ drain' \in [Drains -> DrainRecords]
         /\ drain[g].pc = "submit" /\ drain[g].job \in Calls
         /\ drain'[g].pc = "loop" /\ drain'[g].job = NoCall /\ drain'[g].owner = drain[g].owner
         /\ WorkerMoves(drain[g].job, "rejected") /\ Finishes(drain[g].job, Failed)
         /\ UNCHANGED <<queueVars, caller, reply, draining, version, seen, ctxDone, flight,
                        cache, poolOpen, before, open>>
<1>1. /\ drain[g].pc = "submit" /\ drain \in [Drains -> DrainRecords]
      /\ drain' = [drain EXCEPT ![g] = [drain[g] EXCEPT !.pc = "loop", !.job = NoCall]]
  BY DrainsTyped DEF DrainReject
<1>2. /\ drain' \in [Drains -> DrainRecords] /\ Alone(g)
      /\ drain'[g].pc = "loop" /\ drain'[g].job = NoCall /\ drain'[g].owner = drain[g].owner
  BY <1>1, DrainGoes
<1>3. drain[g].job \in Calls
  BY <1>1 DEF DrainsAreWhole, DrainRecords
<1> QED
  <2>1. WorkerMoves(drain[g].job, "rejected")
    BY <1>3, MovesWorker DEF DrainReject, WorkerPcs
  <2>2. Finishes(drain[g].job, Failed)
    BY <1>3, MovesDone, OutcomesAre DEF DrainReject
  <2> QED
    BY <1>1, <1>2, <1>3, <2>1, <2>2 DEF DrainReject, callerVars, dataVars

LEMMA DrainExitEffect ==
  ASSUME TypeOK, DrainsAreWhole, NEW g \in Drains, DrainExit(g)
  PROVE  /\ Alone(g) /\ drain' \in [Drains -> DrainRecords]
         /\ drain[g].pc = "exit" /\ drain[g].owner \in Dispatchers /\ drain[g].job = NoCall
         /\ draining' = [draining EXCEPT ![drain[g].owner] = FALSE]
         /\ \/ /\ drain'[g].pc = "rearm" /\ drain'[g].owner = drain[g].owner
               /\ drain'[g].job = NoCall
            \/ /\ ~(pendingCount > 0) /\ drain'[g] = Off
               /\ drain'[g].pc = "off" /\ drain'[g].job = NoCall
         /\ UNCHANGED <<queueVars, caller, reply, version, seen, ctxDone, done, flight, cache,
                        worker, poolOpen, before, open>>
<1>1. drain[g].pc = "exit" /\ drain \in [Drains -> DrainRecords]
  BY DrainsTyped DEF DrainExit
<1>2. drain[g].owner \in Dispatchers /\ drain[g].job = NoCall
  BY <1>1 DEF DrainsAreWhole
<1>3. /\ draining' = [draining EXCEPT ![drain[g].owner] = FALSE]
      /\ UNCHANGED <<queueVars, caller, reply, version, seen, ctxDone, done, flight, cache,
                     worker, poolOpen, before, open>>
  BY DEF DrainExit, callerVars, dataVars
<1>4. CASE pendingCount > 0
  <2>1. drain' = [drain EXCEPT ![g] = [drain[g] EXCEPT !.pc = "rearm"]]
    BY <1>4 DEF DrainExit, Q!Pending, drainVars
  <2>2. /\ drain' \in [Drains -> DrainRecords] /\ Alone(g)
        /\ drain'[g].pc = "rearm" /\ drain'[g].job = drain[g].job
        /\ drain'[g].owner = drain[g].owner
    BY <1>1, <2>1, DrainStays
  <2> QED
    BY <1>1, <1>2, <1>3, <2>2
<1>5. CASE ~(pendingCount > 0)
  <2>1. drain' = [drain EXCEPT ![g] = Off]
    BY <1>5 DEF DrainExit, Q!Pending, drainVars
  <2>2. drain' \in [Drains -> DrainRecords] /\ Alone(g) /\ drain'[g] = Off
    BY <1>1, <2>1, OneDrain, OffIs
  <2> QED
    BY <1>1, <1>2, <1>3, <1>5, <2>2, OffIs
<1> QED
  BY <1>4, <1>5

LEMMA DrainRearmEffect ==
  ASSUME TypeOK, DrainsAreWhole, NEW g \in Drains, DrainRearm(g)
  PROVE  /\ Alone(g) /\ drain' \in [Drains -> DrainRecords]
         /\ drain[g].pc = "rearm" /\ drain[g].owner \in Dispatchers /\ drain[g].job = NoCall
         /\ draining' = [draining EXCEPT ![drain[g].owner] = TRUE]
         /\ \/ /\ drain'[g].pc = "loop" /\ drain'[g].owner = drain[g].owner
               /\ drain'[g].job = NoCall
            \/ /\ draining[drain[g].owner] /\ drain'[g] = Off
               /\ drain'[g].pc = "off" /\ drain'[g].job = NoCall
         /\ UNCHANGED <<queueVars, caller, reply, version, seen, ctxDone, done, flight, cache,
                        worker, poolOpen, before, open>>
<1>1. drain[g].pc = "rearm" /\ drain \in [Drains -> DrainRecords]
  BY DrainsTyped DEF DrainRearm
<1>2. drain[g].owner \in Dispatchers /\ drain[g].job = NoCall
  BY <1>1 DEF DrainsAreWhole
<1>3. /\ draining' = [draining EXCEPT ![drain[g].owner] = TRUE]
      /\ UNCHANGED <<queueVars, caller, reply, version, seen, ctxDone, done, flight, cache,
                     worker, poolOpen, before, open>>
  BY DEF DrainRearm, callerVars, dataVars
<1>4. CASE ~draining[drain[g].owner]
  <2>1. drain' = [drain EXCEPT ![g] = [drain[g] EXCEPT !.pc = "loop"]]
    BY <1>4 DEF DrainRearm, drainVars
  <2>2. /\ drain' \in [Drains -> DrainRecords] /\ Alone(g)
        /\ drain'[g].pc = "loop" /\ drain'[g].job = drain[g].job
        /\ drain'[g].owner = drain[g].owner
    BY <1>1, <2>1, DrainStays
  <2> QED
    BY <1>1, <1>2, <1>3, <2>2
<1>5. CASE draining[drain[g].owner]
  <2>1. drain' = [drain EXCEPT ![g] = Off]
    BY <1>5 DEF DrainRearm, drainVars
  <2>2. drain' \in [Drains -> DrainRecords] /\ Alone(g) /\ drain'[g] = Off
    BY <1>1, <2>1, OneDrain, OffIs
  <2> QED
    BY <1>1, <1>2, <1>3, <1>5, <2>2, OffIs
<1> QED
  BY <1>4, <1>5

LEMMA ExecuteEffect ==
  ASSUME TypeOK, NEW c \in Calls, Execute(c)
  PROVE  /\ caller[c] = "idle"
         /\ \/ /\ Kind[c] = "query" /\ cache[Key[c]] # NoCall
               /\ CallerMoves(c, "returned") /\ Replies(c, Ok(cache[Key[c]]))
            \/ Kind[c] = "query" /\ CallerMoves(c, "flight") /\ reply' = reply
            \/ Kind[c] # "query" /\ CallerMoves(c, "enqueue") /\ reply' = reply
         /\ before' = [before EXCEPT ![c] = ReturnedMutations]
         /\ UNCHANGED <<queueVars, draining, drain, version, seen, ctxDone, done, flight, cache,
                        worker, poolOpen, open>>
<1>1. /\ caller[c] = "idle"
      /\ before' = [before EXCEPT ![c] = ReturnedMutations]
      /\ UNCHANGED <<queueVars, draining, drain, version, seen, ctxDone, done, flight, cache,
                     worker, poolOpen, open>>
  BY DEF Execute, drainVars, dataVars
<1>2. cache[Key[c]] \in Calls \cup {NoCall}
  BY DispatcherAssumption DEF TypeOK
<1>3. \A r \in CallerPcs : Goto(c, r) => CallerMoves(c, r)
  BY MovesCaller
<1>4. {"returned", "flight", "enqueue"} \subseteq CallerPcs
  BY DEF CallerPcs
<1>5. CASE Kind[c] = "query" /\ cache[Key[c]] # NoCall
  <2>1. Goto(c, "returned") /\ Answer(c, Ok(cache[Key[c]]))
    BY <1>5 DEF Execute
  <2>2. Ok(cache[Key[c]]) \in Outcomes
    BY <1>2, OutcomesAre
  <2> QED
    BY <1>1, <1>3, <1>4, <1>5, <2>1, <2>2, MovesReply
<1>6. CASE ~(Kind[c] = "query" /\ cache[Key[c]] # NoCall)
  <2>1. Goto(c, IF Kind[c] = "query" THEN "flight" ELSE "enqueue") /\ reply' = reply
    BY <1>6 DEF Execute
  <2> QED
    BY <1>1, <1>3, <1>4, <2>1
<1> QED
  BY <1>5, <1>6

LEMMA JoinFlightEffect ==
  ASSUME TypeOK, NEW c \in Calls, JoinFlight(c)
  PROVE  /\ caller[c] = "flight"
         /\ \/ /\ flight[Key[c]] = NoCall /\ CallerMoves(c, "recheck")
               /\ flight' = [flight EXCEPT ![Key[c]] = c]
            \/ flight[Key[c]] # NoCall /\ CallerMoves(c, "follow") /\ flight' = flight
         /\ UNCHANGED <<queueVars, draining, drain, version, seen, reply, ctxDone, done, cache,
                        worker, poolOpen, before, open>>
BY MovesCaller DEF JoinFlight, CallerPcs, drainVars, dataVars

LEMMA RecheckEffect ==
  ASSUME TypeOK, NEW c \in Calls, Recheck(c)
  PROVE  /\ caller[c] = "recheck"
         /\ \/ /\ cache[Key[c]] # NoCall
               /\ CallerMoves(c, "leave") /\ Replies(c, Ok(cache[Key[c]]))
            \/ CallerMoves(c, "enqueue") /\ reply' = reply
         /\ UNCHANGED <<queueVars, draining, drain, version, seen, ctxDone, done, flight, cache,
                        worker, poolOpen, before, open>>
<1>1. cache[Key[c]] \in Calls \cup {NoCall}
  BY DispatcherAssumption DEF TypeOK
<1>2. Ok(cache[Key[c]]) \in Outcomes
  BY <1>1, OutcomesAre
<1> QED
  BY <1>2, MovesCaller, MovesReply DEF Recheck, CallerPcs, drainVars, dataVars

LEMMA StoreEffect ==
  ASSUME TypeOK, NEW c \in Calls, Store(c)
  PROVE  /\ caller[c] = "store" /\ CallerMoves(c, "leave")
         /\ cache' = [cache EXCEPT ![Key[c]] = reply[c].by]
         /\ UNCHANGED <<queueVars, draining, drain, version, seen, reply, ctxDone, done, flight,
                        worker, poolOpen, before, open>>
BY MovesCaller DEF Store, CallerPcs, drainVars, dataVars

LEMMA RunChecksEffect ==
  ASSUME TypeOK, NEW c \in Calls, RunChecks(c)
  PROVE  /\ worker[c] = "started"
         /\ \/ WorkerMoves(c, "handler") /\ done' = done
            \/ WorkerMoves(c, "failed") /\ Finishes(c, Failed)
         /\ UNCHANGED <<queueVars, draining, drain, version, seen, caller, reply, ctxDone, flight,
                        cache, poolOpen, before, open>>
BY MovesWorker, MovesDone, OutcomesAre DEF RunChecks, End, WorkerPcs, callerVars, drainVars, dataVars

LEMMA HandleEffect ==
  ASSUME TypeOK, NEW c \in Calls, Handle(c)
  PROVE  /\ worker[c] = "handler" /\ WorkerMoves(c, "returning")
         /\ version' \in Nat /\ version <= version' /\ (Kind[c] # "mutation" => version' = version)
         /\ seen' = [seen EXCEPT ![c] = version']
         /\ UNCHANGED <<queueVars, draining, drain, caller, reply, ctxDone, done, flight,
                        cache, poolOpen, before, open>>
<1>1. version' \in Nat /\ version <= version' /\ (Kind[c] # "mutation" => version' = version)
  BY DEF Handle, TypeOK
<1> QED
  BY <1>1, MovesWorker DEF Handle, WorkerPcs, callerVars, drainVars

LEMMA HandlerReturnsEffect ==
  ASSUME TypeOK, NEW c \in Calls, HandlerReturns(c)
  PROVE  /\ worker[c] = "returning"
         /\ \/ Kind[c] = "mutation" /\ WorkerMoves(c, "clear") /\ done' = done
            \/ Kind[c] # "mutation" /\ WorkerMoves(c, "succeeded") /\ Finishes(c, Ok(c))
         /\ UNCHANGED <<queueVars, draining, drain, version, seen, caller, reply, ctxDone, flight,
                        cache, poolOpen, before, open>>
<1>1. Ok(c) \in Outcomes
  BY OutcomesAre
<1> QED
  BY <1>1, MovesWorker, MovesDone DEF HandlerReturns, End, WorkerPcs, callerVars, drainVars, dataVars

LEMMA HandlerFailsEffect ==
  ASSUME TypeOK, NEW c \in Calls, HandlerFails(c)
  PROVE  /\ worker[c] \in {"handler", "returning"}
         /\ WorkerMoves(c, "failed") /\ Finishes(c, Failed)
         /\ UNCHANGED <<queueVars, draining, drain, version, seen, caller, reply, ctxDone, flight,
                        cache, poolOpen, before, open>>
BY MovesWorker, MovesDone, OutcomesAre DEF HandlerFails, End, WorkerPcs, callerVars, drainVars, dataVars

LEMMA ClearCacheEffect ==
  ASSUME TypeOK, NEW c \in Calls, ClearCache(c)
  PROVE  /\ worker[c] = "clear"
         /\ cache' = [k \in Keys |-> NoCall] /\ open' = [open EXCEPT ![c] = UnderWay]
         /\ WorkerMoves(c, "succeeded") /\ Finishes(c, Ok(c))
         /\ UNCHANGED <<queueVars, draining, drain, version, seen, caller, reply, ctxDone, flight,
                        poolOpen, before>>
<1>1. Ok(c) \in Outcomes
  BY OutcomesAre
<1> QED
  BY <1>1, MovesWorker, MovesDone DEF ClearCache, End, WorkerPcs, callerVars, drainVars, dataVars

LEMMA CancelEffect ==
  ASSUME TypeOK, NEW c \in Calls, Cancel(c)
  PROVE  /\ ctxDone' = ctxDone \cup {c}
         /\ UNCHANGED <<queueVars, draining, drain, version, seen, caller, reply, done, flight,
                        cache, worker, poolOpen, before, open>>
BY DEF Cancel, callerVars, drainVars, dataVars

LEMMA ExpireEffect ==
  ASSUME TypeOK, NEW k \in Keys, Expire(k)
  PROVE  /\ cache' = [cache EXCEPT ![k] = NoCall]
         /\ UNCHANGED <<queueVars, draining, drain, version, seen, caller, reply, ctxDone, done,
                        flight, worker, poolOpen, before, open>>
BY DEF Expire, callerVars, drainVars, dataVars

LEMMA ReleaseEffect ==
  ASSUME ReleasePool
  PROVE  /\ poolOpen' \in BOOLEAN
         /\ UNCHANGED <<queueVars, draining, drain, version, seen, caller, reply, ctxDone, done,
                        flight, cache, worker, before, open>>
BY DEF ReleasePool, callerVars, drainVars, dataVars

LEMMA StutterEffect ==
  ASSUME UNCHANGED vars
  PROVE  UNCHANGED <<queueVars, draining, drain, version, seen, caller, reply, ctxDone, done,
                     flight, cache, worker, poolOpen, before, open>>
BY DEF vars, callerVars, drainVars, dataVars

\* A job is in the hand of a drain from Dequeue to Submit.
LEMMA HeldStays ==
  ASSUME drain' = drain
  PROVE  Held' = Held /\ (HeldOnce => HeldOnce')
BY DEF Held, HeldOnce

LEMMA HeldElsewhere ==
  ASSUME NEW g \in Drains, Alone(g), drain[g].job = NoCall, drain'[g].job = NoCall
  PROVE  Held' = Held /\ (HeldOnce => HeldOnce')
BY DispatcherAssumption DEF Held, HeldOnce, Alone

LEMMA HeldGrows ==
  ASSUME NEW g \in Drains, Alone(g), drain[g].job = NoCall, drain'[g].job \in Calls
  PROVE  /\ Held' = Held \cup {drain'[g].job}
         /\ HeldOnce /\ drain'[g].job \notin Held => HeldOnce'
BY DispatcherAssumption DEF Held, HeldOnce, Alone

LEMMA HeldShrinks ==
  ASSUME HeldOnce, NEW g \in Drains, Alone(g), drain[g].job \in Calls, drain'[g].job = NoCall
  PROVE  Held' = Held \ {drain[g].job} /\ HeldOnce' /\ drain[g].job \in Held
BY DispatcherAssumption DEF Held, HeldOnce, Alone

-----------------------------------------------------------------------------
(* Every step keeps the invariant *)

LEMMA KeysAre == Key \in [Calls -> Keys] /\ NoCall \notin Calls
BY DispatcherAssumption

\* TypeOK with the sets named.
LEMMA TypeParts ==
  /\ TypeOK <=>
       /\ Q!QueueTypeOK /\ caller \in [Calls -> CallerPcs] /\ ctxDone \subseteq Calls
       /\ reply \in [Calls -> Outcomes] /\ done \in [Calls -> Outcomes]
       /\ flight \in [Keys -> Calls \cup {NoCall}] /\ cache \in [Keys -> Calls \cup {NoCall}]
       /\ draining \in [Dispatchers -> BOOLEAN] /\ drain \in [Drains -> DrainRecords]
       /\ worker \in [Calls -> WorkerPcs] /\ poolOpen \in BOOLEAN
       /\ version \in Nat /\ seen \in [Calls -> Nat]
       /\ before \in [Calls -> SUBSET Calls] /\ open \in [Calls -> SUBSET Calls]
  /\ TypeOK' <=>
       /\ Q!QueueTypeOK' /\ caller' \in [Calls -> CallerPcs] /\ ctxDone' \subseteq Calls
       /\ reply' \in [Calls -> Outcomes] /\ done' \in [Calls -> Outcomes]
       /\ flight' \in [Keys -> Calls \cup {NoCall}] /\ cache' \in [Keys -> Calls \cup {NoCall}]
       /\ draining' \in [Dispatchers -> BOOLEAN] /\ drain' \in [Drains -> DrainRecords]
       /\ worker' \in [Calls -> WorkerPcs] /\ poolOpen' \in BOOLEAN
       /\ version' \in Nat /\ seen' \in [Calls -> Nat]
       /\ before' \in [Calls -> SUBSET Calls] /\ open' \in [Calls -> SUBSET Calls]
BY DEF TypeOK, CallerPcs, WorkerPcs, DrainRecords

LEMMA PlacesAreOfCalls == Queued \subseteq Calls /\ Held \subseteq Calls /\ Running \subseteq Calls
BY DEF Queued, Held, Running

LEMMA QueueTypeStays ==
  ASSUME UNCHANGED queueVars, Q!QueueTypeOK
  PROVE  Q!QueueTypeOK'
BY DEF queueVars, Q!QueueTypeOK

LEMMA UpdateIsTyped ==
  ASSUME NEW S, NEW T, NEW f \in [S -> T], NEW x \in S, NEW y \in T
  PROVE  [f EXCEPT ![x] = y] \in [S -> T]
OBVIOUS

LEMMA NextTypes ==
  TypeOK /\ CountIsExact /\ QueuedOnce /\ DrainsAreWhole /\ OnePlace /\ [Next]_vars =>
  TypeOK'
<1> SUFFICES ASSUME TypeOK, CountIsExact, QueuedOnce, DrainsAreWhole, OnePlace, [Next]_vars
                    PROVE TypeOK'
  OBVIOUS
<1>1. ASSUME NEW c \in Calls, Execute(c) PROVE TypeOK'
  <2>1. before' \in [Calls -> SUBSET Calls]
    BY <1>1, ExecuteEffect, TypeParts DEF ReturnedMutations
  <2> QED
    BY <1>1, <2>1, ExecuteEffect, TypeParts, QueueTypeStays DEF CallerMoves, Replies
<1>2. ASSUME NEW c \in Calls, JoinFlight(c) PROVE TypeOK'
  <2>1. flight' \in [Keys -> Calls \cup {NoCall}]
    BY <1>2, JoinFlightEffect, TypeParts, DispatcherAssumption
  <2> QED
    BY <1>2, <2>1, JoinFlightEffect, QueueTypeStays, TypeParts DEF CallerMoves
<1>3. ASSUME NEW c \in Calls, Recheck(c) PROVE TypeOK'
  BY <1>3, RecheckEffect, TypeParts, QueueTypeStays DEF CallerMoves, Replies
<1>4. ASSUME NEW c \in Calls, Store(c) PROVE TypeOK'
  <2>1. Key[c] \in Keys /\ reply[c].by \in Calls \cup {NoCall}
    BY <1>4, TypeParts, DispatcherAssumption DEF Outcomes
  <2>2. cache' = [cache EXCEPT ![Key[c]] = reply[c].by] /\ cache \in [Keys -> Calls \cup {NoCall}]
    BY <1>4, StoreEffect, TypeParts
  <2>3. cache' \in [Keys -> Calls \cup {NoCall}]
    BY <2>1, <2>2, UpdateIsTyped
  <2> QED
    BY <1>4, <2>3, StoreEffect, QueueTypeStays, TypeParts DEF CallerMoves
<1>5. ASSUME NEW c \in Calls, LeaveFlight(c) PROVE TypeOK'
  <2>1. flight' \in [Keys -> Calls \cup {NoCall}]
    BY <1>5, LeaveEffect, TypeParts, DispatcherAssumption
  <2> QED
    BY <1>5, <2>1, LeaveEffect, QueueTypeStays, TypeParts
<1>6. ASSUME NEW c \in Calls, EnqueueCall(c) PROVE TypeOK'
  BY <1>6, EnqueueEffect, TypeParts, QueueTypeStays DEF CallerMoves
<1>7. ASSUME NEW c \in Calls, Signal(c) PROVE TypeOK'
  BY <1>7, SignalEffect, TypeParts, QueueTypeStays DEF CallerMoves
<1>8. ASSUME NEW c \in Calls, Receive(c) PROVE TypeOK'
  BY <1>8, ReceiveEffect, TypeParts, QueueTypeStays DEF CallerMoves, Replies, Takes
<1>9. ASSUME NEW c \in Calls, GiveUp(c) PROVE TypeOK'
  BY <1>9, GiveUpEffect, TypeParts, QueueTypeStays DEF CallerMoves, Replies
<1>10. ASSUME NEW c \in Calls, RunChecks(c) PROVE TypeOK'
  BY <1>10, RunChecksEffect, TypeParts, QueueTypeStays DEF WorkerMoves, Finishes
<1>11. ASSUME NEW c \in Calls, Handle(c) PROVE TypeOK'
  BY <1>11, HandleEffect, TypeParts, QueueTypeStays DEF WorkerMoves
<1>12. ASSUME NEW c \in Calls, HandlerReturns(c) PROVE TypeOK'
  BY <1>12, HandlerReturnsEffect, TypeParts, QueueTypeStays DEF WorkerMoves, Finishes
<1>13. ASSUME NEW c \in Calls, HandlerFails(c) PROVE TypeOK'
  BY <1>13, HandlerFailsEffect, TypeParts, QueueTypeStays DEF WorkerMoves, Finishes
<1>14. ASSUME NEW c \in Calls, ClearCache(c) PROVE TypeOK'
  <2>1. cache' \in [Keys -> Calls \cup {NoCall}] /\ open' \in [Calls -> SUBSET Calls]
    BY <1>14, ClearCacheEffect, TypeParts DEF UnderWay
  <2> QED
    BY <1>14, <2>1, ClearCacheEffect, QueueTypeStays, TypeParts DEF WorkerMoves, Finishes
<1>15. ASSUME NEW c \in Calls, Cancel(c) PROVE TypeOK'
  BY <1>15, CancelEffect, TypeParts, QueueTypeStays
<1>16. ASSUME NEW g \in Drains, DrainDequeue(g) PROVE TypeOK'
  BY <1>16, DrainDequeueEffect, TypeParts, QueueTypeStays
<1>17. ASSUME NEW g \in Drains, DrainSubmit(g) PROVE TypeOK'
  BY <1>17, DrainSubmitEffect, TypeParts, QueueTypeStays DEF WorkerMoves
<1>18. ASSUME NEW g \in Drains, DrainReject(g) PROVE TypeOK'
  BY <1>18, DrainRejectEffect, TypeParts, QueueTypeStays DEF WorkerMoves, Finishes
<1>19. ASSUME NEW g \in Drains, DrainExit(g) PROVE TypeOK'
  BY <1>19, DrainExitEffect, TypeParts, QueueTypeStays
<1>20. ASSUME NEW g \in Drains, DrainRearm(g) PROVE TypeOK'
  BY <1>20, DrainRearmEffect, TypeParts, QueueTypeStays
<1>21. ASSUME NEW k \in Keys, Expire(k) PROVE TypeOK'
  BY <1>21, ExpireEffect, TypeParts, QueueTypeStays
<1>22. CASE ReleasePool
  BY <1>22, ReleaseEffect, TypeParts, QueueTypeStays
<1>23. CASE UNCHANGED vars
  BY <1>23, StutterEffect, TypeParts, QueueTypeStays
<1> QED
  BY <1>1, <1>2, <1>3, <1>4, <1>5, <1>6, <1>7, <1>8, <1>9, <1>10, <1>11,
     <1>12, <1>13, <1>14, <1>15, <1>16, <1>17, <1>18, <1>19, <1>20, <1>21,
     <1>22, <1>23
  DEF Next, CallerStep, WorkerStep, DrainStep

LEMMA NextCount ==
  TypeOK /\ CountIsExact /\ QueuedOnce /\ DrainsAreWhole /\ OnePlace /\ [Next]_vars =>
  (CountIsExact /\ QueuedOnce)'
<1> SUFFICES ASSUME TypeOK, CountIsExact, QueuedOnce, DrainsAreWhole, OnePlace, [Next]_vars
                    PROVE (CountIsExact /\ QueuedOnce)'
  OBVIOUS
<1>1. ASSUME NEW c \in Calls, Execute(c) PROVE (CountIsExact /\ QueuedOnce)'
  BY <1>1, ExecuteEffect, QueueStays
<1>2. ASSUME NEW c \in Calls, JoinFlight(c) PROVE (CountIsExact /\ QueuedOnce)'
  BY <1>2, JoinFlightEffect, QueueStays
<1>3. ASSUME NEW c \in Calls, Recheck(c) PROVE (CountIsExact /\ QueuedOnce)'
  BY <1>3, RecheckEffect, QueueStays
<1>4. ASSUME NEW c \in Calls, Store(c) PROVE (CountIsExact /\ QueuedOnce)'
  BY <1>4, StoreEffect, QueueStays
<1>5. ASSUME NEW c \in Calls, LeaveFlight(c) PROVE (CountIsExact /\ QueuedOnce)'
  BY <1>5, LeaveEffect, QueueStays
<1>6. ASSUME NEW c \in Calls, EnqueueCall(c) PROVE (CountIsExact /\ QueuedOnce)'
  BY <1>6, EnqueueEffect
<1>7. ASSUME NEW c \in Calls, Signal(c) PROVE (CountIsExact /\ QueuedOnce)'
  BY <1>7, SignalEffect, QueueStays
<1>8. ASSUME NEW c \in Calls, Receive(c) PROVE (CountIsExact /\ QueuedOnce)'
  BY <1>8, ReceiveEffect, QueueStays
<1>9. ASSUME NEW c \in Calls, GiveUp(c) PROVE (CountIsExact /\ QueuedOnce)'
  BY <1>9, GiveUpEffect, QueueStays
<1>10. ASSUME NEW c \in Calls, RunChecks(c) PROVE (CountIsExact /\ QueuedOnce)'
  BY <1>10, RunChecksEffect, QueueStays
<1>11. ASSUME NEW c \in Calls, Handle(c) PROVE (CountIsExact /\ QueuedOnce)'
  BY <1>11, HandleEffect, QueueStays
<1>12. ASSUME NEW c \in Calls, HandlerReturns(c) PROVE (CountIsExact /\ QueuedOnce)'
  BY <1>12, HandlerReturnsEffect, QueueStays
<1>13. ASSUME NEW c \in Calls, HandlerFails(c) PROVE (CountIsExact /\ QueuedOnce)'
  BY <1>13, HandlerFailsEffect, QueueStays
<1>14. ASSUME NEW c \in Calls, ClearCache(c) PROVE (CountIsExact /\ QueuedOnce)'
  BY <1>14, ClearCacheEffect, QueueStays
<1>15. ASSUME NEW c \in Calls, Cancel(c) PROVE (CountIsExact /\ QueuedOnce)'
  BY <1>15, CancelEffect, QueueStays
<1>16. ASSUME NEW g \in Drains, DrainDequeue(g) PROVE (CountIsExact /\ QueuedOnce)'
  BY <1>16, DrainDequeueEffect
<1>17. ASSUME NEW g \in Drains, DrainSubmit(g) PROVE (CountIsExact /\ QueuedOnce)'
  BY <1>17, DrainSubmitEffect, QueueStays
<1>18. ASSUME NEW g \in Drains, DrainReject(g) PROVE (CountIsExact /\ QueuedOnce)'
  BY <1>18, DrainRejectEffect, QueueStays
<1>19. ASSUME NEW g \in Drains, DrainExit(g) PROVE (CountIsExact /\ QueuedOnce)'
  BY <1>19, DrainExitEffect, QueueStays
<1>20. ASSUME NEW g \in Drains, DrainRearm(g) PROVE (CountIsExact /\ QueuedOnce)'
  BY <1>20, DrainRearmEffect, QueueStays
<1>21. ASSUME NEW k \in Keys, Expire(k) PROVE (CountIsExact /\ QueuedOnce)'
  BY <1>21, ExpireEffect, QueueStays
<1>22. CASE ReleasePool
  BY <1>22, ReleaseEffect, QueueStays
<1>23. CASE UNCHANGED vars
  BY <1>23, StutterEffect, QueueStays
<1> QED
  BY <1>1, <1>2, <1>3, <1>4, <1>5, <1>6, <1>7, <1>8, <1>9, <1>10, <1>11,
     <1>12, <1>13, <1>14, <1>15, <1>16, <1>17, <1>18, <1>19, <1>20, <1>21,
     <1>22, <1>23
  DEF Next, CallerStep, WorkerStep, DrainStep

\* DrainsAreWhole of one drain.
Whole(record) ==
  /\ record.pc = "off" => record = Off
  /\ record.pc # "off" => record.owner \in Dispatchers
  /\ record.pc = "submit" <=> record.job # NoCall

LEMMA WholeOnes == (DrainsAreWhole <=> \A g \in Drains : Whole(drain[g]))
                   /\ (DrainsAreWhole' <=> \A g \in Drains : Whole(drain'[g]))
BY DEF DrainsAreWhole, Whole

LEMMA WholeStays ==
  ASSUME DrainsAreWhole, NEW g \in Drains, Alone(g), Whole(drain'[g])
  PROVE  DrainsAreWhole'
BY WholeOnes DEF Alone

LEMMA NextDrains ==
  TypeOK /\ CountIsExact /\ QueuedOnce /\ OnePlace /\ DrainsAreWhole /\ [Next]_vars =>
  DrainsAreWhole'
<1> SUFFICES ASSUME TypeOK, CountIsExact, QueuedOnce, OnePlace, DrainsAreWhole, [Next]_vars
                    PROVE DrainsAreWhole'
  OBVIOUS
<1>1. ASSUME NEW c \in Calls, Execute(c) PROVE DrainsAreWhole'
  BY <1>1, ExecuteEffect DEF DrainsAreWhole
<1>2. ASSUME NEW c \in Calls, JoinFlight(c) PROVE DrainsAreWhole'
  BY <1>2, JoinFlightEffect DEF DrainsAreWhole
<1>3. ASSUME NEW c \in Calls, Recheck(c) PROVE DrainsAreWhole'
  BY <1>3, RecheckEffect DEF DrainsAreWhole
<1>4. ASSUME NEW c \in Calls, Store(c) PROVE DrainsAreWhole'
  BY <1>4, StoreEffect DEF DrainsAreWhole
<1>5. ASSUME NEW c \in Calls, LeaveFlight(c) PROVE DrainsAreWhole'
  BY <1>5, LeaveEffect DEF DrainsAreWhole
<1>6. ASSUME NEW c \in Calls, EnqueueCall(c) PROVE DrainsAreWhole'
  BY <1>6, EnqueueEffect DEF DrainsAreWhole
<1>7. ASSUME NEW c \in Calls, Signal(c) PROVE DrainsAreWhole'
  <2>1. CASE drain' = drain
    BY <2>1 DEF DrainsAreWhole
  <2>2. CASE drain' # drain
    <3>1. PICK g \in Drains : /\ Alone(g) /\ drain'[g].pc = "loop" /\ drain'[g].job = NoCall
                             /\ drain'[g].owner = DispatcherOf[c]
      BY <1>7, <2>2, SignalEffect
    <3>2. Whole(drain'[g])
      BY <3>1, DispatcherAssumption DEF Whole
    <3> QED
      BY <3>1, <3>2, WholeStays
  <2> QED
    BY <2>1, <2>2
<1>8. ASSUME NEW c \in Calls, Receive(c) PROVE DrainsAreWhole'
  BY <1>8, ReceiveEffect DEF DrainsAreWhole
<1>9. ASSUME NEW c \in Calls, GiveUp(c) PROVE DrainsAreWhole'
  BY <1>9, GiveUpEffect DEF DrainsAreWhole
<1>10. ASSUME NEW c \in Calls, RunChecks(c) PROVE DrainsAreWhole'
  BY <1>10, RunChecksEffect DEF DrainsAreWhole
<1>11. ASSUME NEW c \in Calls, Handle(c) PROVE DrainsAreWhole'
  BY <1>11, HandleEffect DEF DrainsAreWhole
<1>12. ASSUME NEW c \in Calls, HandlerReturns(c) PROVE DrainsAreWhole'
  BY <1>12, HandlerReturnsEffect DEF DrainsAreWhole
<1>13. ASSUME NEW c \in Calls, HandlerFails(c) PROVE DrainsAreWhole'
  BY <1>13, HandlerFailsEffect DEF DrainsAreWhole
<1>14. ASSUME NEW c \in Calls, ClearCache(c) PROVE DrainsAreWhole'
  BY <1>14, ClearCacheEffect DEF DrainsAreWhole
<1>15. ASSUME NEW c \in Calls, Cancel(c) PROVE DrainsAreWhole'
  BY <1>15, CancelEffect DEF DrainsAreWhole
<1>16. ASSUME NEW g \in Drains, DrainDequeue(g) PROVE DrainsAreWhole'
  <2>1. Alone(g)
    BY <1>16, DrainDequeueEffect
  <2>2. Whole(drain'[g])
    BY <1>16, DrainDequeueEffect, WholeOnes, PlacesAreOfCalls, DispatcherAssumption DEF Whole
  <2> QED
    BY <2>1, <2>2, WholeStays
<1>17. ASSUME NEW g \in Drains, DrainSubmit(g) PROVE DrainsAreWhole'
  <2>1. Alone(g)
    BY <1>17, DrainSubmitEffect
  <2>2. Whole(drain'[g])
    BY <1>17, DrainSubmitEffect, WholeOnes DEF Whole
  <2> QED
    BY <2>1, <2>2, WholeStays
<1>18. ASSUME NEW g \in Drains, DrainReject(g) PROVE DrainsAreWhole'
  <2>1. Alone(g)
    BY <1>18, DrainRejectEffect
  <2>2. Whole(drain'[g])
    BY <1>18, DrainRejectEffect, WholeOnes DEF Whole
  <2> QED
    BY <2>1, <2>2, WholeStays
<1>19. ASSUME NEW g \in Drains, DrainExit(g) PROVE DrainsAreWhole'
  <2>1. Alone(g)
    BY <1>19, DrainExitEffect
  <2>2. Whole(drain'[g])
    BY <1>19, DrainExitEffect, WholeOnes DEF Whole
  <2> QED
    BY <2>1, <2>2, WholeStays
<1>20. ASSUME NEW g \in Drains, DrainRearm(g) PROVE DrainsAreWhole'
  <2>1. Alone(g)
    BY <1>20, DrainRearmEffect
  <2>2. Whole(drain'[g])
    BY <1>20, DrainRearmEffect, WholeOnes DEF Whole
  <2> QED
    BY <2>1, <2>2, WholeStays
<1>21. ASSUME NEW k \in Keys, Expire(k) PROVE DrainsAreWhole'
  BY <1>21, ExpireEffect DEF DrainsAreWhole
<1>22. CASE ReleasePool
  BY <1>22, ReleaseEffect DEF DrainsAreWhole
<1>23. CASE UNCHANGED vars
  BY <1>23, StutterEffect DEF DrainsAreWhole
<1> QED
  BY <1>1, <1>2, <1>3, <1>4, <1>5, <1>6, <1>7, <1>8, <1>9, <1>10, <1>11,
     <1>12, <1>13, <1>14, <1>15, <1>16, <1>17, <1>18, <1>19, <1>20, <1>21,
     <1>22, <1>23
  DEF Next, CallerStep, WorkerStep, DrainStep

LEMMA NextFlags ==
  TypeOK /\ CountIsExact /\ QueuedOnce /\ OnePlace /\ DrainsAreWhole /\ FlagHasDrain /\
  [Next]_vars => FlagHasDrain'
<1> SUFFICES ASSUME TypeOK, CountIsExact, QueuedOnce, OnePlace, DrainsAreWhole,
                    FlagHasDrain, [Next]_vars PROVE FlagHasDrain'
  OBVIOUS
<1>1. ASSUME NEW c \in Calls, Execute(c) PROVE FlagHasDrain'
  BY <1>1, ExecuteEffect DEF FlagHasDrain, Draining
<1>2. ASSUME NEW c \in Calls, JoinFlight(c) PROVE FlagHasDrain'
  BY <1>2, JoinFlightEffect DEF FlagHasDrain, Draining
<1>3. ASSUME NEW c \in Calls, Recheck(c) PROVE FlagHasDrain'
  BY <1>3, RecheckEffect DEF FlagHasDrain, Draining
<1>4. ASSUME NEW c \in Calls, Store(c) PROVE FlagHasDrain'
  BY <1>4, StoreEffect DEF FlagHasDrain, Draining
<1>5. ASSUME NEW c \in Calls, LeaveFlight(c) PROVE FlagHasDrain'
  BY <1>5, LeaveEffect DEF FlagHasDrain, Draining
<1>6. ASSUME NEW c \in Calls, EnqueueCall(c) PROVE FlagHasDrain'
  BY <1>6, EnqueueEffect DEF FlagHasDrain, Draining
<1>7. ASSUME NEW c \in Calls, Signal(c) PROVE FlagHasDrain'
  BY <1>7, SignalEffect, TypeParts DEF FlagHasDrain, Draining, CallerMoves, Alone
<1>8. ASSUME NEW c \in Calls, Receive(c) PROVE FlagHasDrain'
  BY <1>8, ReceiveEffect DEF FlagHasDrain, Draining
<1>9. ASSUME NEW c \in Calls, GiveUp(c) PROVE FlagHasDrain'
  BY <1>9, GiveUpEffect DEF FlagHasDrain, Draining
<1>10. ASSUME NEW c \in Calls, RunChecks(c) PROVE FlagHasDrain'
  BY <1>10, RunChecksEffect DEF FlagHasDrain, Draining
<1>11. ASSUME NEW c \in Calls, Handle(c) PROVE FlagHasDrain'
  BY <1>11, HandleEffect DEF FlagHasDrain, Draining
<1>12. ASSUME NEW c \in Calls, HandlerReturns(c) PROVE FlagHasDrain'
  BY <1>12, HandlerReturnsEffect DEF FlagHasDrain, Draining
<1>13. ASSUME NEW c \in Calls, HandlerFails(c) PROVE FlagHasDrain'
  BY <1>13, HandlerFailsEffect DEF FlagHasDrain, Draining
<1>14. ASSUME NEW c \in Calls, ClearCache(c) PROVE FlagHasDrain'
  BY <1>14, ClearCacheEffect DEF FlagHasDrain, Draining
<1>15. ASSUME NEW c \in Calls, Cancel(c) PROVE FlagHasDrain'
  BY <1>15, CancelEffect DEF FlagHasDrain, Draining
<1>16. ASSUME NEW g \in Drains, DrainDequeue(g) PROVE FlagHasDrain'
  BY <1>16, DrainDequeueEffect, TypeParts DEF FlagHasDrain, Draining, Alone
<1>17. ASSUME NEW g \in Drains, DrainSubmit(g) PROVE FlagHasDrain'
  BY <1>17, DrainSubmitEffect, TypeParts DEF FlagHasDrain, Draining, WorkerMoves, Alone
<1>18. ASSUME NEW g \in Drains, DrainReject(g) PROVE FlagHasDrain'
  BY <1>18, DrainRejectEffect, TypeParts DEF FlagHasDrain, Draining, WorkerMoves, Finishes,
     Alone
<1>19. ASSUME NEW g \in Drains, DrainExit(g) PROVE FlagHasDrain'
  BY <1>19, DrainExitEffect, TypeParts DEF FlagHasDrain, Draining, Alone
<1>20. ASSUME NEW g \in Drains, DrainRearm(g) PROVE FlagHasDrain'
  BY <1>20, DrainRearmEffect, TypeParts DEF FlagHasDrain, Draining, Alone
<1>21. ASSUME NEW k \in Keys, Expire(k) PROVE FlagHasDrain'
  BY <1>21, ExpireEffect DEF FlagHasDrain, Draining
<1>22. CASE ReleasePool
  BY <1>22, ReleaseEffect, TypeParts DEF FlagHasDrain, Draining
<1>23. CASE UNCHANGED vars
  BY <1>23, StutterEffect, TypeParts DEF FlagHasDrain, Draining
<1> QED
  BY <1>1, <1>2, <1>3, <1>4, <1>5, <1>6, <1>7, <1>8, <1>9, <1>10, <1>11,
     <1>12, <1>13, <1>14, <1>15, <1>16, <1>17, <1>18, <1>19, <1>20, <1>21,
     <1>22, <1>23
  DEF Next, CallerStep, WorkerStep, DrainStep

LEMMA NextSomeone ==
  TypeOK /\ CountIsExact /\ QueuedOnce /\ OnePlace /\ DrainsAreWhole /\ FlagHasDrain /\
  SomeoneWillDrain /\ [Next]_vars => SomeoneWillDrain'
<1> SUFFICES ASSUME TypeOK, CountIsExact, QueuedOnce, OnePlace, DrainsAreWhole,
                    FlagHasDrain, SomeoneWillDrain, [Next]_vars PROVE SomeoneWillDrain'
  OBVIOUS
<1>1. ASSUME NEW c \in Calls, Execute(c) PROVE SomeoneWillDrain'
  BY <1>1, ExecuteEffect, OffIs, QueueStays DEF SomeoneWillDrain, CallerMoves, Replies
<1>2. ASSUME NEW c \in Calls, JoinFlight(c) PROVE SomeoneWillDrain'
  BY <1>2, JoinFlightEffect, OffIs, QueueStays DEF SomeoneWillDrain, CallerMoves
<1>3. ASSUME NEW c \in Calls, Recheck(c) PROVE SomeoneWillDrain'
  BY <1>3, RecheckEffect, OffIs, QueueStays DEF SomeoneWillDrain, CallerMoves, Replies
<1>4. ASSUME NEW c \in Calls, Store(c) PROVE SomeoneWillDrain'
  BY <1>4, StoreEffect, OffIs, QueueStays DEF SomeoneWillDrain, CallerMoves
<1>5. ASSUME NEW c \in Calls, LeaveFlight(c) PROVE SomeoneWillDrain'
  BY <1>5, LeaveEffect, OffIs, QueueStays DEF SomeoneWillDrain
<1>6. ASSUME NEW c \in Calls, EnqueueCall(c) PROVE SomeoneWillDrain'
  BY <1>6, EnqueueEffect, OffIs DEF SomeoneWillDrain, CallerMoves
<1>7. ASSUME NEW c \in Calls, Signal(c) PROVE SomeoneWillDrain'
  <2>1. \E g \in Drains : drain'[g].pc # "off"
    <3>1. CASE draining[DispatcherOf[c]] /\ drain' = drain
      BY <3>1, DispatcherAssumption DEF FlagHasDrain, Draining
    <3> QED
      BY <1>7, SignalEffect, <3>1
  <2> QED
    BY <2>1, OffIs DEF SomeoneWillDrain
<1>8. ASSUME NEW c \in Calls, Receive(c) PROVE SomeoneWillDrain'
  BY <1>8, ReceiveEffect, OffIs, QueueStays DEF SomeoneWillDrain, CallerMoves, Replies,
     Takes
<1>9. ASSUME NEW c \in Calls, GiveUp(c) PROVE SomeoneWillDrain'
  BY <1>9, GiveUpEffect, OffIs, QueueStays DEF SomeoneWillDrain, CallerMoves, Replies
<1>10. ASSUME NEW c \in Calls, RunChecks(c) PROVE SomeoneWillDrain'
  BY <1>10, RunChecksEffect, OffIs, QueueStays DEF SomeoneWillDrain, WorkerMoves, Finishes
<1>11. ASSUME NEW c \in Calls, Handle(c) PROVE SomeoneWillDrain'
  BY <1>11, HandleEffect, OffIs, QueueStays DEF SomeoneWillDrain, WorkerMoves
<1>12. ASSUME NEW c \in Calls, HandlerReturns(c) PROVE SomeoneWillDrain'
  BY <1>12, HandlerReturnsEffect, OffIs, QueueStays DEF SomeoneWillDrain, WorkerMoves,
     Finishes
<1>13. ASSUME NEW c \in Calls, HandlerFails(c) PROVE SomeoneWillDrain'
  BY <1>13, HandlerFailsEffect, OffIs, QueueStays DEF SomeoneWillDrain, WorkerMoves,
     Finishes
<1>14. ASSUME NEW c \in Calls, ClearCache(c) PROVE SomeoneWillDrain'
  BY <1>14, ClearCacheEffect, OffIs, QueueStays DEF SomeoneWillDrain, WorkerMoves, Finishes
<1>15. ASSUME NEW c \in Calls, Cancel(c) PROVE SomeoneWillDrain'
  BY <1>15, CancelEffect, OffIs, QueueStays DEF SomeoneWillDrain
<1>16. ASSUME NEW g \in Drains, DrainDequeue(g) PROVE SomeoneWillDrain'
  BY <1>16, DrainDequeueEffect, OffIs DEF SomeoneWillDrain, Alone
<1>17. ASSUME NEW g \in Drains, DrainSubmit(g) PROVE SomeoneWillDrain'
  BY <1>17, DrainSubmitEffect, OffIs, QueueStays DEF SomeoneWillDrain, WorkerMoves, Alone
<1>18. ASSUME NEW g \in Drains, DrainReject(g) PROVE SomeoneWillDrain'
  BY <1>18, DrainRejectEffect, OffIs, QueueStays DEF SomeoneWillDrain, WorkerMoves,
     Finishes, Alone
<1>19. ASSUME NEW g \in Drains, DrainExit(g) PROVE SomeoneWillDrain'
  BY <1>19, DrainExitEffect, OffIs, QueueStays DEF SomeoneWillDrain, Alone
<1>20. ASSUME NEW g \in Drains, DrainRearm(g) PROVE SomeoneWillDrain'
  BY <1>20, DrainRearmEffect, OffIs, QueueStays DEF SomeoneWillDrain, Alone, FlagHasDrain,
     Draining
<1>21. ASSUME NEW k \in Keys, Expire(k) PROVE SomeoneWillDrain'
  BY <1>21, ExpireEffect, OffIs, QueueStays DEF SomeoneWillDrain
<1>22. CASE ReleasePool
  BY <1>22, ReleaseEffect, OffIs, QueueStays DEF SomeoneWillDrain
<1>23. CASE UNCHANGED vars
  BY <1>23, StutterEffect, OffIs, QueueStays DEF SomeoneWillDrain
<1> QED
  BY <1>1, <1>2, <1>3, <1>4, <1>5, <1>6, <1>7, <1>8, <1>9, <1>10, <1>11,
     <1>12, <1>13, <1>14, <1>15, <1>16, <1>17, <1>18, <1>19, <1>20, <1>21,
     <1>22, <1>23
  DEF Next, CallerStep, WorkerStep, DrainStep

LEMMA NextHeldOnce ==
  TypeOK /\ CountIsExact /\ QueuedOnce /\ OnePlace /\ DrainsAreWhole /\ HeldOnce /\
  [Next]_vars => HeldOnce'
<1> SUFFICES ASSUME TypeOK, CountIsExact, QueuedOnce, OnePlace, DrainsAreWhole, HeldOnce,
                    [Next]_vars PROVE HeldOnce'
  OBVIOUS
<1>1. ASSUME NEW c \in Calls, Execute(c) PROVE HeldOnce'
  BY <1>1, ExecuteEffect, HeldStays
<1>2. ASSUME NEW c \in Calls, JoinFlight(c) PROVE HeldOnce'
  BY <1>2, JoinFlightEffect, HeldStays
<1>3. ASSUME NEW c \in Calls, Recheck(c) PROVE HeldOnce'
  BY <1>3, RecheckEffect, HeldStays
<1>4. ASSUME NEW c \in Calls, Store(c) PROVE HeldOnce'
  BY <1>4, StoreEffect, HeldStays
<1>5. ASSUME NEW c \in Calls, LeaveFlight(c) PROVE HeldOnce'
  BY <1>5, LeaveEffect, HeldStays
<1>6. ASSUME NEW c \in Calls, EnqueueCall(c) PROVE HeldOnce'
  BY <1>6, EnqueueEffect, HeldStays
<1>7. ASSUME NEW c \in Calls, Signal(c) PROVE HeldOnce'
  BY <1>7, SignalEffect, HeldStays, HeldElsewhere
<1>8. ASSUME NEW c \in Calls, Receive(c) PROVE HeldOnce'
  BY <1>8, ReceiveEffect, HeldStays
<1>9. ASSUME NEW c \in Calls, GiveUp(c) PROVE HeldOnce'
  BY <1>9, GiveUpEffect, HeldStays
<1>10. ASSUME NEW c \in Calls, RunChecks(c) PROVE HeldOnce'
  BY <1>10, RunChecksEffect, HeldStays
<1>11. ASSUME NEW c \in Calls, Handle(c) PROVE HeldOnce'
  BY <1>11, HandleEffect, HeldStays
<1>12. ASSUME NEW c \in Calls, HandlerReturns(c) PROVE HeldOnce'
  BY <1>12, HandlerReturnsEffect, HeldStays
<1>13. ASSUME NEW c \in Calls, HandlerFails(c) PROVE HeldOnce'
  BY <1>13, HandlerFailsEffect, HeldStays
<1>14. ASSUME NEW c \in Calls, ClearCache(c) PROVE HeldOnce'
  BY <1>14, ClearCacheEffect, HeldStays
<1>15. ASSUME NEW c \in Calls, Cancel(c) PROVE HeldOnce'
  BY <1>15, CancelEffect, HeldStays
<1>16. ASSUME NEW g \in Drains, DrainDequeue(g) PROVE HeldOnce'
  BY <1>16, DrainDequeueEffect, HeldGrows, HeldElsewhere DEF OnePlace, Queued
<1>17. ASSUME NEW g \in Drains, DrainSubmit(g) PROVE HeldOnce'
  BY <1>17, DrainSubmitEffect, HeldShrinks
<1>18. ASSUME NEW g \in Drains, DrainReject(g) PROVE HeldOnce'
  BY <1>18, DrainRejectEffect, HeldShrinks
<1>19. ASSUME NEW g \in Drains, DrainExit(g) PROVE HeldOnce'
  BY <1>19, DrainExitEffect, HeldElsewhere
<1>20. ASSUME NEW g \in Drains, DrainRearm(g) PROVE HeldOnce'
  BY <1>20, DrainRearmEffect, HeldElsewhere
<1>21. ASSUME NEW k \in Keys, Expire(k) PROVE HeldOnce'
  BY <1>21, ExpireEffect, HeldStays
<1>22. CASE ReleasePool
  BY <1>22, ReleaseEffect, HeldStays
<1>23. CASE UNCHANGED vars
  BY <1>23, StutterEffect, HeldStays
<1> QED
  BY <1>1, <1>2, <1>3, <1>4, <1>5, <1>6, <1>7, <1>8, <1>9, <1>10, <1>11,
     <1>12, <1>13, <1>14, <1>15, <1>16, <1>17, <1>18, <1>19, <1>20, <1>21,
     <1>22, <1>23
  DEF Next, CallerStep, WorkerStep, DrainStep

LEMMA NextOnePlace ==
  TypeOK /\ CountIsExact /\ QueuedOnce /\ DrainsAreWhole /\ HeldOnce /\ OnePlace /\
  [Next]_vars => OnePlace'
<1> SUFFICES ASSUME TypeOK, CountIsExact, QueuedOnce, DrainsAreWhole, HeldOnce, OnePlace,
                    [Next]_vars PROVE OnePlace'
  OBVIOUS
<1>1. ASSUME NEW c \in Calls, Execute(c) PROVE OnePlace'
  BY <1>1, ExecuteEffect, QueueStays, HeldStays DEF OnePlace, CallerMoves, Replies
<1>2. ASSUME NEW c \in Calls, JoinFlight(c) PROVE OnePlace'
  BY <1>2, JoinFlightEffect, QueueStays, HeldStays DEF OnePlace, CallerMoves
<1>3. ASSUME NEW c \in Calls, Recheck(c) PROVE OnePlace'
  BY <1>3, RecheckEffect, QueueStays, HeldStays DEF OnePlace, CallerMoves, Replies
<1>4. ASSUME NEW c \in Calls, Store(c) PROVE OnePlace'
  BY <1>4, StoreEffect, QueueStays, HeldStays DEF OnePlace, CallerMoves
<1>5. ASSUME NEW c \in Calls, LeaveFlight(c) PROVE OnePlace'
  BY <1>5, LeaveEffect, QueueStays, HeldStays DEF OnePlace
<1>6. ASSUME NEW c \in Calls, EnqueueCall(c) PROVE OnePlace'
  BY <1>6, EnqueueEffect, HeldStays DEF OnePlace, CallerMoves
<1>7. ASSUME NEW c \in Calls, Signal(c) PROVE OnePlace'
  BY <1>7, SignalEffect, QueueStays, HeldStays, HeldElsewhere DEF OnePlace, CallerMoves
<1>8. ASSUME NEW c \in Calls, Receive(c) PROVE OnePlace'
  BY <1>8, ReceiveEffect, QueueStays, HeldStays DEF OnePlace, CallerMoves, Replies, Takes
<1>9. ASSUME NEW c \in Calls, GiveUp(c) PROVE OnePlace'
  BY <1>9, GiveUpEffect, QueueStays, HeldStays DEF OnePlace, CallerMoves, Replies
<1>10. ASSUME NEW c \in Calls, RunChecks(c) PROVE OnePlace'
  BY <1>10, RunChecksEffect, QueueStays, HeldStays DEF OnePlace, WorkerMoves, Finishes
<1>11. ASSUME NEW c \in Calls, Handle(c) PROVE OnePlace'
  BY <1>11, HandleEffect, QueueStays, HeldStays DEF OnePlace, WorkerMoves
<1>12. ASSUME NEW c \in Calls, HandlerReturns(c) PROVE OnePlace'
  BY <1>12, HandlerReturnsEffect, QueueStays, HeldStays DEF OnePlace, WorkerMoves, Finishes
<1>13. ASSUME NEW c \in Calls, HandlerFails(c) PROVE OnePlace'
  BY <1>13, HandlerFailsEffect, QueueStays, HeldStays DEF OnePlace, WorkerMoves, Finishes
<1>14. ASSUME NEW c \in Calls, ClearCache(c) PROVE OnePlace'
  BY <1>14, ClearCacheEffect, QueueStays, HeldStays DEF OnePlace, WorkerMoves, Finishes
<1>15. ASSUME NEW c \in Calls, Cancel(c) PROVE OnePlace'
  BY <1>15, CancelEffect, QueueStays, HeldStays DEF OnePlace
<1>16. ASSUME NEW g \in Drains, DrainDequeue(g) PROVE OnePlace'
  BY <1>16, DrainDequeueEffect, HeldGrows, HeldElsewhere, PlacesAreOfCalls DEF OnePlace
<1>17. ASSUME NEW g \in Drains, DrainSubmit(g) PROVE OnePlace'
  BY <1>17, DrainSubmitEffect, QueueStays, HeldShrinks DEF OnePlace, WorkerMoves
<1>18. ASSUME NEW g \in Drains, DrainReject(g) PROVE OnePlace'
  BY <1>18, DrainRejectEffect, QueueStays, HeldShrinks DEF OnePlace, WorkerMoves, Finishes
<1>19. ASSUME NEW g \in Drains, DrainExit(g) PROVE OnePlace'
  BY <1>19, DrainExitEffect, QueueStays, HeldElsewhere DEF OnePlace
<1>20. ASSUME NEW g \in Drains, DrainRearm(g) PROVE OnePlace'
  BY <1>20, DrainRearmEffect, QueueStays, HeldElsewhere DEF OnePlace
<1>21. ASSUME NEW k \in Keys, Expire(k) PROVE OnePlace'
  BY <1>21, ExpireEffect, QueueStays, HeldStays DEF OnePlace
<1>22. CASE ReleasePool
  BY <1>22, ReleaseEffect, QueueStays, HeldStays DEF OnePlace
<1>23. CASE UNCHANGED vars
  BY <1>23, StutterEffect, QueueStays, HeldStays DEF OnePlace
<1> QED
  BY <1>1, <1>2, <1>3, <1>4, <1>5, <1>6, <1>7, <1>8, <1>9, <1>10, <1>11,
     <1>12, <1>13, <1>14, <1>15, <1>16, <1>17, <1>18, <1>19, <1>20, <1>21,
     <1>22, <1>23
  DEF Next, CallerStep, WorkerStep, DrainStep

LEMMA NextFlight ==
  TypeOK /\ CountIsExact /\ QueuedOnce /\ DrainsAreWhole /\ OnePlace /\ FlightIsHeld /\
  [Next]_vars => FlightIsHeld'
<1> SUFFICES ASSUME TypeOK, CountIsExact, QueuedOnce, DrainsAreWhole, OnePlace,
                    FlightIsHeld, [Next]_vars PROVE FlightIsHeld'
  OBVIOUS
<1>1. ASSUME NEW c \in Calls, Execute(c) PROVE FlightIsHeld'
  BY <1>1, ExecuteEffect DEF FlightIsHeld, CallerMoves, Replies
<1>2. ASSUME NEW c \in Calls, JoinFlight(c) PROVE FlightIsHeld'
  BY <1>2, JoinFlightEffect, TypeParts, DispatcherAssumption DEF FlightIsHeld, CallerMoves
<1>3. ASSUME NEW c \in Calls, Recheck(c) PROVE FlightIsHeld'
  BY <1>3, RecheckEffect DEF FlightIsHeld, CallerMoves, Replies
<1>4. ASSUME NEW c \in Calls, Store(c) PROVE FlightIsHeld'
  BY <1>4, StoreEffect DEF FlightIsHeld, CallerMoves
<1>5. ASSUME NEW c \in Calls, LeaveFlight(c) PROVE FlightIsHeld'
  BY <1>5, LeaveEffect, TypeParts, DispatcherAssumption DEF FlightIsHeld
<1>6. ASSUME NEW c \in Calls, EnqueueCall(c) PROVE FlightIsHeld'
  BY <1>6, EnqueueEffect DEF FlightIsHeld, CallerMoves
<1>7. ASSUME NEW c \in Calls, Signal(c) PROVE FlightIsHeld'
  BY <1>7, SignalEffect DEF FlightIsHeld, CallerMoves
<1>8. ASSUME NEW c \in Calls, Receive(c) PROVE FlightIsHeld'
  BY <1>8, ReceiveEffect DEF FlightIsHeld, CallerMoves, Replies, Takes
<1>9. ASSUME NEW c \in Calls, GiveUp(c) PROVE FlightIsHeld'
  BY <1>9, GiveUpEffect DEF FlightIsHeld, CallerMoves, Replies
<1>10. ASSUME NEW c \in Calls, RunChecks(c) PROVE FlightIsHeld'
  BY <1>10, RunChecksEffect DEF FlightIsHeld, WorkerMoves, Finishes
<1>11. ASSUME NEW c \in Calls, Handle(c) PROVE FlightIsHeld'
  BY <1>11, HandleEffect DEF FlightIsHeld, WorkerMoves
<1>12. ASSUME NEW c \in Calls, HandlerReturns(c) PROVE FlightIsHeld'
  BY <1>12, HandlerReturnsEffect DEF FlightIsHeld, WorkerMoves, Finishes
<1>13. ASSUME NEW c \in Calls, HandlerFails(c) PROVE FlightIsHeld'
  BY <1>13, HandlerFailsEffect DEF FlightIsHeld, WorkerMoves, Finishes
<1>14. ASSUME NEW c \in Calls, ClearCache(c) PROVE FlightIsHeld'
  BY <1>14, ClearCacheEffect DEF FlightIsHeld, WorkerMoves, Finishes
<1>15. ASSUME NEW c \in Calls, Cancel(c) PROVE FlightIsHeld'
  BY <1>15, CancelEffect DEF FlightIsHeld
<1>16. ASSUME NEW g \in Drains, DrainDequeue(g) PROVE FlightIsHeld'
  BY <1>16, DrainDequeueEffect DEF FlightIsHeld
<1>17. ASSUME NEW g \in Drains, DrainSubmit(g) PROVE FlightIsHeld'
  BY <1>17, DrainSubmitEffect DEF FlightIsHeld, WorkerMoves
<1>18. ASSUME NEW g \in Drains, DrainReject(g) PROVE FlightIsHeld'
  BY <1>18, DrainRejectEffect DEF FlightIsHeld, WorkerMoves, Finishes
<1>19. ASSUME NEW g \in Drains, DrainExit(g) PROVE FlightIsHeld'
  BY <1>19, DrainExitEffect DEF FlightIsHeld
<1>20. ASSUME NEW g \in Drains, DrainRearm(g) PROVE FlightIsHeld'
  BY <1>20, DrainRearmEffect DEF FlightIsHeld
<1>21. ASSUME NEW k \in Keys, Expire(k) PROVE FlightIsHeld'
  BY <1>21, ExpireEffect DEF FlightIsHeld
<1>22. CASE ReleasePool
  BY <1>22, ReleaseEffect DEF FlightIsHeld
<1>23. CASE UNCHANGED vars
  BY <1>23, StutterEffect DEF FlightIsHeld
<1> QED
  BY <1>1, <1>2, <1>3, <1>4, <1>5, <1>6, <1>7, <1>8, <1>9, <1>10, <1>11,
     <1>12, <1>13, <1>14, <1>15, <1>16, <1>17, <1>18, <1>19, <1>20, <1>21,
     <1>22, <1>23
  DEF Next, CallerStep, WorkerStep, DrainStep

LEMMA NextOutcome ==
  TypeOK /\ CountIsExact /\ QueuedOnce /\ DrainsAreWhole /\ HeldOnce /\ OnePlace /\
  OutcomeFollows /\ [Next]_vars => OutcomeFollows'
<1> SUFFICES ASSUME TypeOK, CountIsExact, QueuedOnce, DrainsAreWhole, HeldOnce, OnePlace,
                    OutcomeFollows, [Next]_vars PROVE OutcomeFollows'
  OBVIOUS
<1>1. ASSUME NEW c \in Calls, Execute(c) PROVE OutcomeFollows'
  BY <1>1, ExecuteEffect DEF OutcomeFollows, CallerMoves, Replies
<1>2. ASSUME NEW c \in Calls, JoinFlight(c) PROVE OutcomeFollows'
  BY <1>2, JoinFlightEffect DEF OutcomeFollows, CallerMoves
<1>3. ASSUME NEW c \in Calls, Recheck(c) PROVE OutcomeFollows'
  BY <1>3, RecheckEffect DEF OutcomeFollows, CallerMoves, Replies
<1>4. ASSUME NEW c \in Calls, Store(c) PROVE OutcomeFollows'
  BY <1>4, StoreEffect DEF OutcomeFollows, CallerMoves
<1>5. ASSUME NEW c \in Calls, LeaveFlight(c) PROVE OutcomeFollows'
  BY <1>5, LeaveEffect DEF OutcomeFollows
<1>6. ASSUME NEW c \in Calls, EnqueueCall(c) PROVE OutcomeFollows'
  BY <1>6, EnqueueEffect DEF OutcomeFollows, CallerMoves
<1>7. ASSUME NEW c \in Calls, Signal(c) PROVE OutcomeFollows'
  BY <1>7, SignalEffect DEF OutcomeFollows, CallerMoves
<1>8. ASSUME NEW c \in Calls, Receive(c) PROVE OutcomeFollows'
  BY <1>8, ReceiveEffect, OutcomesAre DEF OutcomeFollows, CallerMoves, Replies, Takes
<1>9. ASSUME NEW c \in Calls, GiveUp(c) PROVE OutcomeFollows'
  BY <1>9, GiveUpEffect DEF OutcomeFollows, CallerMoves, Replies
<1>10. ASSUME NEW c \in Calls, RunChecks(c) PROVE OutcomeFollows'
  BY <1>10, RunChecksEffect, OutcomesAre DEF OutcomeFollows, WorkerMoves, Finishes
<1>11. ASSUME NEW c \in Calls, Handle(c) PROVE OutcomeFollows'
  BY <1>11, HandleEffect, OutcomesAre DEF OutcomeFollows, WorkerMoves
<1>12. ASSUME NEW c \in Calls, HandlerReturns(c) PROVE OutcomeFollows'
  BY <1>12, HandlerReturnsEffect, OutcomesAre DEF OutcomeFollows, WorkerMoves, Finishes
<1>13. ASSUME NEW c \in Calls, HandlerFails(c) PROVE OutcomeFollows'
  BY <1>13, HandlerFailsEffect, OutcomesAre DEF OutcomeFollows, WorkerMoves, Finishes
<1>14. ASSUME NEW c \in Calls, ClearCache(c) PROVE OutcomeFollows'
  BY <1>14, ClearCacheEffect, OutcomesAre DEF OutcomeFollows, WorkerMoves, Finishes
<1>15. ASSUME NEW c \in Calls, Cancel(c) PROVE OutcomeFollows'
  BY <1>15, CancelEffect DEF OutcomeFollows
<1>16. ASSUME NEW g \in Drains, DrainDequeue(g) PROVE OutcomeFollows'
  BY <1>16, DrainDequeueEffect DEF OutcomeFollows
<1>17. ASSUME NEW g \in Drains, DrainSubmit(g) PROVE OutcomeFollows'
  BY <1>17, DrainSubmitEffect, HeldShrinks DEF OutcomeFollows, WorkerMoves, OnePlace
<1>18. ASSUME NEW g \in Drains, DrainReject(g) PROVE OutcomeFollows'
  BY <1>18, DrainRejectEffect, HeldShrinks, OutcomesAre DEF OutcomeFollows, WorkerMoves,
     Finishes, OnePlace
<1>19. ASSUME NEW g \in Drains, DrainExit(g) PROVE OutcomeFollows'
  BY <1>19, DrainExitEffect DEF OutcomeFollows
<1>20. ASSUME NEW g \in Drains, DrainRearm(g) PROVE OutcomeFollows'
  BY <1>20, DrainRearmEffect DEF OutcomeFollows
<1>21. ASSUME NEW k \in Keys, Expire(k) PROVE OutcomeFollows'
  BY <1>21, ExpireEffect DEF OutcomeFollows
<1>22. CASE ReleasePool
  BY <1>22, ReleaseEffect DEF OutcomeFollows
<1>23. CASE UNCHANGED vars
  BY <1>23, StutterEffect DEF OutcomeFollows
<1> QED
  BY <1>1, <1>2, <1>3, <1>4, <1>5, <1>6, <1>7, <1>8, <1>9, <1>10, <1>11,
     <1>12, <1>13, <1>14, <1>15, <1>16, <1>17, <1>18, <1>19, <1>20, <1>21,
     <1>22, <1>23
  DEF Next, CallerStep, WorkerStep, DrainStep

LEMMA NextCallerWaits ==
  TypeOK /\ CountIsExact /\ QueuedOnce /\ DrainsAreWhole /\ HeldOnce /\ OnePlace /\
  OutcomeFollows /\ CallerWaits /\ [Next]_vars => CallerWaits'
<1> SUFFICES ASSUME TypeOK, CountIsExact, QueuedOnce, DrainsAreWhole, HeldOnce, OnePlace,
                    OutcomeFollows, CallerWaits, [Next]_vars PROVE CallerWaits'
  OBVIOUS
<1>1. ASSUME NEW c \in Calls, Execute(c) PROVE CallerWaits'
  BY <1>1, ExecuteEffect, QueueStays, HeldStays DEF CallerWaits, Running, CallerMoves,
     Replies
<1>2. ASSUME NEW c \in Calls, JoinFlight(c) PROVE CallerWaits'
  BY <1>2, JoinFlightEffect, QueueStays, HeldStays DEF CallerWaits, Running, CallerMoves
<1>3. ASSUME NEW c \in Calls, Recheck(c) PROVE CallerWaits'
  BY <1>3, RecheckEffect, QueueStays, HeldStays DEF CallerWaits, Running, CallerMoves,
     Replies
<1>4. ASSUME NEW c \in Calls, Store(c) PROVE CallerWaits'
  BY <1>4, StoreEffect, QueueStays, HeldStays DEF CallerWaits, Running, CallerMoves
<1>5. ASSUME NEW c \in Calls, LeaveFlight(c) PROVE CallerWaits'
  BY <1>5, LeaveEffect, QueueStays, HeldStays DEF CallerWaits, Running
<1>6. ASSUME NEW c \in Calls, EnqueueCall(c) PROVE CallerWaits'
  BY <1>6, EnqueueEffect, HeldStays DEF CallerWaits, Running, CallerMoves
<1>7. ASSUME NEW c \in Calls, Signal(c) PROVE CallerWaits'
  BY <1>7, SignalEffect, QueueStays, HeldStays, HeldElsewhere DEF CallerWaits, Running,
     CallerMoves
<1>8. ASSUME NEW c \in Calls, Receive(c) PROVE CallerWaits'
  BY <1>8, ReceiveEffect, QueueStays, HeldStays DEF CallerWaits, Running, CallerMoves,
     Replies, Takes, OutcomeFollows, OnePlace
<1>9. ASSUME NEW c \in Calls, GiveUp(c) PROVE CallerWaits'
  BY <1>9, GiveUpEffect, QueueStays, HeldStays DEF CallerWaits, Running, CallerMoves,
     Replies
<1>10. ASSUME NEW c \in Calls, RunChecks(c) PROVE CallerWaits'
  BY <1>10, RunChecksEffect, QueueStays, HeldStays DEF CallerWaits, Running, WorkerMoves,
     Finishes
<1>11. ASSUME NEW c \in Calls, Handle(c) PROVE CallerWaits'
  BY <1>11, HandleEffect, QueueStays, HeldStays DEF CallerWaits, Running, WorkerMoves
<1>12. ASSUME NEW c \in Calls, HandlerReturns(c) PROVE CallerWaits'
  BY <1>12, HandlerReturnsEffect, QueueStays, HeldStays DEF CallerWaits, Running,
     WorkerMoves, Finishes
<1>13. ASSUME NEW c \in Calls, HandlerFails(c) PROVE CallerWaits'
  BY <1>13, HandlerFailsEffect, QueueStays, HeldStays DEF CallerWaits, Running, WorkerMoves,
     Finishes
<1>14. ASSUME NEW c \in Calls, ClearCache(c) PROVE CallerWaits'
  BY <1>14, ClearCacheEffect, QueueStays, HeldStays DEF CallerWaits, Running, WorkerMoves,
     Finishes
<1>15. ASSUME NEW c \in Calls, Cancel(c) PROVE CallerWaits'
  BY <1>15, CancelEffect, QueueStays, HeldStays DEF CallerWaits, Running
<1>16. ASSUME NEW g \in Drains, DrainDequeue(g) PROVE CallerWaits'
  BY <1>16, DrainDequeueEffect, HeldGrows, HeldElsewhere, PlacesAreOfCalls DEF CallerWaits,
     Running
<1>17. ASSUME NEW g \in Drains, DrainSubmit(g) PROVE CallerWaits'
  BY <1>17, DrainSubmitEffect, QueueStays, HeldShrinks DEF CallerWaits, Running, WorkerMoves
<1>18. ASSUME NEW g \in Drains, DrainReject(g) PROVE CallerWaits'
  BY <1>18, DrainRejectEffect, QueueStays, HeldShrinks DEF CallerWaits, Running,
     WorkerMoves, Finishes
<1>19. ASSUME NEW g \in Drains, DrainExit(g) PROVE CallerWaits'
  BY <1>19, DrainExitEffect, QueueStays, HeldElsewhere DEF CallerWaits, Running
<1>20. ASSUME NEW g \in Drains, DrainRearm(g) PROVE CallerWaits'
  BY <1>20, DrainRearmEffect, QueueStays, HeldElsewhere DEF CallerWaits, Running
<1>21. ASSUME NEW k \in Keys, Expire(k) PROVE CallerWaits'
  BY <1>21, ExpireEffect, QueueStays, HeldStays DEF CallerWaits, Running
<1>22. CASE ReleasePool
  BY <1>22, ReleaseEffect, QueueStays, HeldStays DEF CallerWaits, Running
<1>23. CASE UNCHANGED vars
  BY <1>23, StutterEffect, QueueStays, HeldStays DEF CallerWaits, Running
<1> QED
  BY <1>1, <1>2, <1>3, <1>4, <1>5, <1>6, <1>7, <1>8, <1>9, <1>10, <1>11,
     <1>12, <1>13, <1>14, <1>15, <1>16, <1>17, <1>18, <1>19, <1>20, <1>21,
     <1>22, <1>23
  DEF Next, CallerStep, WorkerStep, DrainStep

LEMMA NextErrorHasCause ==
  TypeOK /\ CountIsExact /\ QueuedOnce /\ DrainsAreWhole /\ HeldOnce /\ OnePlace /\
  FlightIsHeld /\ OutcomeFollows /\ ErrorHasCause /\ [Next]_vars => ErrorHasCause'
<1> SUFFICES ASSUME TypeOK, CountIsExact, QueuedOnce, DrainsAreWhole, HeldOnce, OnePlace,
                    FlightIsHeld, OutcomeFollows, ErrorHasCause, [Next]_vars PROVE
                    ErrorHasCause'
  OBVIOUS
<1>1. ASSUME NEW c \in Calls, Execute(c) PROVE ErrorHasCause'
  BY <1>1, ExecuteEffect, OutcomesAre, TypeParts, KeysAre DEF ErrorHasCause,
     CallerMoves, Replies
<1>2. ASSUME NEW c \in Calls, JoinFlight(c) PROVE ErrorHasCause'
  BY <1>2, JoinFlightEffect, OutcomesAre DEF ErrorHasCause, CallerMoves
<1>3. ASSUME NEW c \in Calls, Recheck(c) PROVE ErrorHasCause'
  BY <1>3, RecheckEffect, OutcomesAre, TypeParts, KeysAre DEF ErrorHasCause,
     CallerMoves, Replies
<1>4. ASSUME NEW c \in Calls, Store(c) PROVE ErrorHasCause'
  BY <1>4, StoreEffect, OutcomesAre DEF ErrorHasCause, CallerMoves
<1>5. ASSUME NEW c \in Calls, LeaveFlight(c) PROVE ErrorHasCause'
  BY <1>5, LeaveEffect, OutcomesAre DEF ErrorHasCause, FlightIsHeld
<1>6. ASSUME NEW c \in Calls, EnqueueCall(c) PROVE ErrorHasCause'
  BY <1>6, EnqueueEffect, OutcomesAre DEF ErrorHasCause, CallerMoves
<1>7. ASSUME NEW c \in Calls, Signal(c) PROVE ErrorHasCause'
  BY <1>7, SignalEffect, OutcomesAre DEF ErrorHasCause, CallerMoves
<1>8. ASSUME NEW c \in Calls, Receive(c) PROVE ErrorHasCause'
  BY <1>8, ReceiveEffect, OutcomesAre DEF ErrorHasCause, CallerMoves, Replies, Takes,
     OutcomeFollows
<1>9. ASSUME NEW c \in Calls, GiveUp(c) PROVE ErrorHasCause'
  BY <1>9, GiveUpEffect, OutcomesAre DEF ErrorHasCause, CallerMoves, Replies
<1>10. ASSUME NEW c \in Calls, RunChecks(c) PROVE ErrorHasCause'
  BY <1>10, RunChecksEffect, OutcomesAre DEF ErrorHasCause, WorkerMoves, Finishes
<1>11. ASSUME NEW c \in Calls, Handle(c) PROVE ErrorHasCause'
  BY <1>11, HandleEffect, OutcomesAre DEF ErrorHasCause, WorkerMoves
<1>12. ASSUME NEW c \in Calls, HandlerReturns(c) PROVE ErrorHasCause'
  BY <1>12, HandlerReturnsEffect, OutcomesAre DEF ErrorHasCause, WorkerMoves, Finishes
<1>13. ASSUME NEW c \in Calls, HandlerFails(c) PROVE ErrorHasCause'
  BY <1>13, HandlerFailsEffect, OutcomesAre DEF ErrorHasCause, WorkerMoves, Finishes
<1>14. ASSUME NEW c \in Calls, ClearCache(c) PROVE ErrorHasCause'
  BY <1>14, ClearCacheEffect, OutcomesAre DEF ErrorHasCause, WorkerMoves, Finishes
<1>15. ASSUME NEW c \in Calls, Cancel(c) PROVE ErrorHasCause'
  BY <1>15, CancelEffect, OutcomesAre DEF ErrorHasCause
<1>16. ASSUME NEW g \in Drains, DrainDequeue(g) PROVE ErrorHasCause'
  BY <1>16, DrainDequeueEffect, OutcomesAre DEF ErrorHasCause
<1>17. ASSUME NEW g \in Drains, DrainSubmit(g) PROVE ErrorHasCause'
  BY <1>17, DrainSubmitEffect, HeldShrinks DEF ErrorHasCause, WorkerMoves, OnePlace
<1>18. ASSUME NEW g \in Drains, DrainReject(g) PROVE ErrorHasCause'
  BY <1>18, DrainRejectEffect, HeldShrinks DEF ErrorHasCause, WorkerMoves, Finishes,
     OnePlace
<1>19. ASSUME NEW g \in Drains, DrainExit(g) PROVE ErrorHasCause'
  BY <1>19, DrainExitEffect, OutcomesAre DEF ErrorHasCause
<1>20. ASSUME NEW g \in Drains, DrainRearm(g) PROVE ErrorHasCause'
  BY <1>20, DrainRearmEffect, OutcomesAre DEF ErrorHasCause
<1>21. ASSUME NEW k \in Keys, Expire(k) PROVE ErrorHasCause'
  BY <1>21, ExpireEffect DEF ErrorHasCause
<1>22. CASE ReleasePool
  BY <1>22, ReleaseEffect DEF ErrorHasCause
<1>23. CASE UNCHANGED vars
  BY <1>23, StutterEffect DEF ErrorHasCause
<1> QED
  BY <1>1, <1>2, <1>3, <1>4, <1>5, <1>6, <1>7, <1>8, <1>9, <1>10, <1>11,
     <1>12, <1>13, <1>14, <1>15, <1>16, <1>17, <1>18, <1>19, <1>20, <1>21,
     <1>22, <1>23
  DEF Next, CallerStep, WorkerStep, DrainStep

LEMMA NextLoadsHaveSucceeded ==
  TypeOK /\ CountIsExact /\ QueuedOnce /\ DrainsAreWhole /\ HeldOnce /\ OnePlace /\
  FlightIsHeld /\ OutcomeFollows /\ LoadsHaveSucceeded /\ [Next]_vars => LoadsHaveSucceeded'
<1> SUFFICES ASSUME TypeOK, CountIsExact, QueuedOnce, DrainsAreWhole, HeldOnce, OnePlace,
                    FlightIsHeld, OutcomeFollows, LoadsHaveSucceeded, [Next]_vars PROVE
                    LoadsHaveSucceeded'
  OBVIOUS
<1>1. ASSUME NEW c \in Calls, Execute(c) PROVE LoadsHaveSucceeded'
  BY <1>1, ExecuteEffect, OutcomesAre, KeysAre, TypeParts DEF
     LoadsHaveSucceeded, CallerMoves, Replies
<1>2. ASSUME NEW c \in Calls, JoinFlight(c) PROVE LoadsHaveSucceeded'
  BY <1>2, JoinFlightEffect, OutcomesAre DEF LoadsHaveSucceeded, CallerMoves
<1>3. ASSUME NEW c \in Calls, Recheck(c) PROVE LoadsHaveSucceeded'
  BY <1>3, RecheckEffect, OutcomesAre, KeysAre, TypeParts DEF
     LoadsHaveSucceeded, CallerMoves, Replies, FlightIsHeld
<1>4. ASSUME NEW c \in Calls, Store(c) PROVE LoadsHaveSucceeded'
  BY <1>4, StoreEffect, OutcomesAre, KeysAre, TypeParts DEF LoadsHaveSucceeded,
     CallerMoves, FlightIsHeld
<1>5. ASSUME NEW c \in Calls, LeaveFlight(c) PROVE LoadsHaveSucceeded'
  <2>1. \A f \in Calls : caller'[f] = "store" => caller[f] = "store" /\ reply'[f] = reply[f]
    BY <1>5, LeaveEffect
  <2>2. \A f \in Calls : Kind[f] = "mutation" => reply'[f] = reply[f]
    BY <1>5, LeaveEffect DEF FlightIsHeld
  <2>3. worker' = worker /\ cache' = cache
    BY <1>5, LeaveEffect
  <2> QED
    BY <2>1, <2>2, <2>3 DEF LoadsHaveSucceeded
<1>6. ASSUME NEW c \in Calls, EnqueueCall(c) PROVE LoadsHaveSucceeded'
  BY <1>6, EnqueueEffect, OutcomesAre DEF LoadsHaveSucceeded, CallerMoves
<1>7. ASSUME NEW c \in Calls, Signal(c) PROVE LoadsHaveSucceeded'
  BY <1>7, SignalEffect, OutcomesAre DEF LoadsHaveSucceeded, CallerMoves
<1>8. ASSUME NEW c \in Calls, Receive(c) PROVE LoadsHaveSucceeded'
  BY <1>8, ReceiveEffect, OutcomesAre DEF LoadsHaveSucceeded, CallerMoves, Replies, Takes,
     LoadsHaveSucceeded, OutcomeFollows
<1>9. ASSUME NEW c \in Calls, GiveUp(c) PROVE LoadsHaveSucceeded'
  BY <1>9, GiveUpEffect, OutcomesAre DEF LoadsHaveSucceeded, CallerMoves, Replies
<1>10. ASSUME NEW c \in Calls, RunChecks(c) PROVE LoadsHaveSucceeded'
  BY <1>10, RunChecksEffect, OutcomesAre DEF LoadsHaveSucceeded, WorkerMoves, Finishes
<1>11. ASSUME NEW c \in Calls, Handle(c) PROVE LoadsHaveSucceeded'
  BY <1>11, HandleEffect, OutcomesAre DEF LoadsHaveSucceeded, WorkerMoves
<1>12. ASSUME NEW c \in Calls, HandlerReturns(c) PROVE LoadsHaveSucceeded'
  BY <1>12, HandlerReturnsEffect, OutcomesAre DEF LoadsHaveSucceeded, WorkerMoves, Finishes
<1>13. ASSUME NEW c \in Calls, HandlerFails(c) PROVE LoadsHaveSucceeded'
  BY <1>13, HandlerFailsEffect, OutcomesAre DEF LoadsHaveSucceeded, WorkerMoves, Finishes
<1>14. ASSUME NEW c \in Calls, ClearCache(c) PROVE LoadsHaveSucceeded'
  BY <1>14, ClearCacheEffect, OutcomesAre, KeysAre, TypeParts DEF
     LoadsHaveSucceeded, WorkerMoves, Finishes
<1>15. ASSUME NEW c \in Calls, Cancel(c) PROVE LoadsHaveSucceeded'
  BY <1>15, CancelEffect, OutcomesAre DEF LoadsHaveSucceeded
<1>16. ASSUME NEW g \in Drains, DrainDequeue(g) PROVE LoadsHaveSucceeded'
  BY <1>16, DrainDequeueEffect DEF LoadsHaveSucceeded
<1>17. ASSUME NEW g \in Drains, DrainSubmit(g) PROVE LoadsHaveSucceeded'
  BY <1>17, DrainSubmitEffect, HeldShrinks DEF LoadsHaveSucceeded, WorkerMoves, OnePlace
<1>18. ASSUME NEW g \in Drains, DrainReject(g) PROVE LoadsHaveSucceeded'
  BY <1>18, DrainRejectEffect, HeldShrinks DEF LoadsHaveSucceeded, WorkerMoves, Finishes,
     OnePlace
<1>19. ASSUME NEW g \in Drains, DrainExit(g) PROVE LoadsHaveSucceeded'
  BY <1>19, DrainExitEffect DEF LoadsHaveSucceeded
<1>20. ASSUME NEW g \in Drains, DrainRearm(g) PROVE LoadsHaveSucceeded'
  BY <1>20, DrainRearmEffect DEF LoadsHaveSucceeded
<1>21. ASSUME NEW k \in Keys, Expire(k) PROVE LoadsHaveSucceeded'
  BY <1>21, ExpireEffect, OutcomesAre, KeysAre, TypeParts DEF
     LoadsHaveSucceeded
<1>22. CASE ReleasePool
  BY <1>22, ReleaseEffect DEF LoadsHaveSucceeded
<1>23. CASE UNCHANGED vars
  BY <1>23, StutterEffect DEF LoadsHaveSucceeded
<1> QED
  BY <1>1, <1>2, <1>3, <1>4, <1>5, <1>6, <1>7, <1>8, <1>9, <1>10, <1>11,
     <1>12, <1>13, <1>14, <1>15, <1>16, <1>17, <1>18, <1>19, <1>20, <1>21,
     <1>22, <1>23
  DEF Next, CallerStep, WorkerStep, DrainStep

LEMMA NextLoadsAreFresh ==
  TypeOK /\ CountIsExact /\ QueuedOnce /\ DrainsAreWhole /\ HeldOnce /\ OnePlace /\
  FlightIsHeld /\ OutcomeFollows /\ LoadsHaveSucceeded /\ LoadsAreFresh /\ [Next]_vars =>
  LoadsAreFresh'
<1> SUFFICES ASSUME TypeOK, CountIsExact, QueuedOnce, DrainsAreWhole, HeldOnce, OnePlace,
                    FlightIsHeld, OutcomeFollows, LoadsHaveSucceeded, LoadsAreFresh, [Next]_vars
             PROVE  LoadsAreFresh'
  OBVIOUS
<1>1. ASSUME NEW c \in Calls, Execute(c) PROVE LoadsAreFresh'
  BY <1>1, ExecuteEffect, TypeParts DEF LoadsAreFresh, Cleared, HasRead, Shows, CallerMoves,
     Replies, OnePlace
<1>2. ASSUME NEW c \in Calls, JoinFlight(c) PROVE LoadsAreFresh'
  BY <1>2, JoinFlightEffect, TypeParts DEF LoadsAreFresh, Cleared, HasRead, Shows, CallerMoves
<1>3. ASSUME NEW c \in Calls, Recheck(c) PROVE LoadsAreFresh'
  BY <1>3, RecheckEffect, TypeParts DEF LoadsAreFresh, Cleared, HasRead, Shows, CallerMoves,
     Replies
<1>4. ASSUME NEW c \in Calls, Store(c) PROVE LoadsAreFresh'
  BY <1>4, StoreEffect, TypeParts, OutcomesAre, KeysAre DEF LoadsAreFresh,
     Cleared, HasRead, Shows, CallerMoves, LoadsHaveSucceeded, FlightIsHeld
<1>5. ASSUME NEW c \in Calls, LeaveFlight(c) PROVE LoadsAreFresh'
  BY <1>5, LeaveEffect, TypeParts DEF LoadsAreFresh, Cleared, HasRead, Shows
<1>6. ASSUME NEW c \in Calls, EnqueueCall(c) PROVE LoadsAreFresh'
  BY <1>6, EnqueueEffect, TypeParts DEF LoadsAreFresh, Cleared, HasRead, Shows, CallerMoves,
     OnePlace
<1>7. ASSUME NEW c \in Calls, Signal(c) PROVE LoadsAreFresh'
  BY <1>7, SignalEffect, TypeParts DEF LoadsAreFresh, Cleared, HasRead, Shows, CallerMoves
<1>8. ASSUME NEW c \in Calls, Receive(c) PROVE LoadsAreFresh'
  BY <1>8, ReceiveEffect, TypeParts DEF LoadsAreFresh, Cleared, HasRead, Shows, CallerMoves,
     Replies, Takes
<1>9. ASSUME NEW c \in Calls, GiveUp(c) PROVE LoadsAreFresh'
  BY <1>9, GiveUpEffect, TypeParts DEF LoadsAreFresh, Cleared, HasRead, Shows, CallerMoves,
     Replies
<1>10. ASSUME NEW c \in Calls, RunChecks(c) PROVE LoadsAreFresh'
  BY <1>10, RunChecksEffect, TypeParts DEF LoadsAreFresh, Cleared, HasRead, Shows,
     WorkerMoves, Finishes
<1>11. ASSUME NEW c \in Calls, Handle(c) PROVE LoadsAreFresh'
  <2>1. /\ worker[c] = "handler" /\ WorkerMoves(c, "returning")
        /\ version <= version' /\ version' \in Nat
        /\ seen' = [seen EXCEPT ![c] = version']
        /\ cache' = cache /\ caller' = caller /\ open' = open
    BY <1>11, HandleEffect, TypeParts
  <2>2. seen \in [Calls -> Nat] /\ version \in Nat
    BY TypeParts
  <2>3. seen'[c] = version' /\ \A d \in Calls : d # c => seen'[d] = seen[d]
    BY <2>1, <2>2
  <2>4. \A d \in Calls : d # c => worker'[d] = worker[d]
    BY <2>1 DEF WorkerMoves
  <2>5. \A d \in Calls : seen'[d] <= version'
    BY <2>1, <2>2, <2>3 DEF LoadsAreFresh
  <2>6. worker'[c] = "returning"
    BY <2>1 DEF WorkerMoves
  <2>7. ASSUME NEW m \in Calls, NEW d \in Calls, Cleared(m)', HasRead(d)', caller'[d] # "returned"
        PROVE  Shows(d, m)'
    <3>1. m # c /\ Cleared(m)
      BY <2>4, <2>6, <2>7 DEF Cleared
    <3>2. CASE d = c
      BY <2>3, <2>5, <3>2 DEF Shows
    <3>3. CASE d # c
      BY <2>1, <2>3, <2>4, <2>7, <3>1, <3>3 DEF LoadsAreFresh, Shows, HasRead
    <3> QED
      BY <3>2, <3>3
  <2>8. ASSUME NEW m \in Calls, NEW k \in Keys, Cleared(m)', cache'[k] # NoCall
        PROVE  Shows(cache[k], m)'
    <3>1. m # c /\ Cleared(m)
      BY <2>4, <2>6, <2>8 DEF Cleared
    <3>2. cache[k] \in Calls /\ cache[k] # c
      BY <2>1, <2>8 DEF LoadsHaveSucceeded
    <3> QED
      BY <2>1, <2>3, <2>8, <3>1, <3>2 DEF LoadsAreFresh, Shows
  <2> QED
    BY <2>1, <2>5, <2>7, <2>8 DEF LoadsAreFresh
<1>12. ASSUME NEW c \in Calls, HandlerReturns(c) PROVE LoadsAreFresh'
  BY <1>12, HandlerReturnsEffect, TypeParts, KeysAre DEF LoadsAreFresh, Cleared,
     HasRead, Shows, WorkerMoves, Finishes, LoadsHaveSucceeded
<1>13. ASSUME NEW c \in Calls, HandlerFails(c) PROVE LoadsAreFresh'
  BY <1>13, HandlerFailsEffect, TypeParts, KeysAre DEF LoadsAreFresh, Cleared,
     HasRead, Shows, WorkerMoves, Finishes, LoadsHaveSucceeded
<1>14. ASSUME NEW c \in Calls, ClearCache(c) PROVE LoadsAreFresh'
  <2>1. /\ worker[c] = "clear" /\ cache' = [k \in Keys |-> NoCall]
        /\ open' = [open EXCEPT ![c] = UnderWay] /\ WorkerMoves(c, "succeeded")
        /\ version' = version /\ seen' = seen /\ caller' = caller
    BY <1>14, ClearCacheEffect
  <2>2. open'[c] = UnderWay /\ \A m \in Calls : m # c => open'[m] = open[m]
    BY <2>1, TypeParts
  <2>3. \A m \in Calls : m # c => worker'[m] = worker[m]
    BY <2>1 DEF WorkerMoves
  <2>4. ASSUME NEW m \in Calls, NEW d \in Calls, Cleared(m)', HasRead(d)', caller'[d] # "returned"
        PROVE  Shows(d, m)'
    <3>1. HasRead(d)
      BY <2>1, <2>3, <2>4 DEF HasRead
    <3>2. CASE m = c
      BY <2>1, <2>2, <2>4, <3>1, <3>2 DEF OnePlace, HasRead, UnderWay, Shows
    <3>3. CASE m # c
      BY <2>1, <2>2, <2>3, <2>4, <3>1, <3>3 DEF LoadsAreFresh, Cleared, Shows
    <3> QED
      BY <3>2, <3>3
  <2> QED
    BY <2>1, <2>4 DEF LoadsAreFresh
<1>15. ASSUME NEW c \in Calls, Cancel(c) PROVE LoadsAreFresh'
  BY <1>15, CancelEffect, TypeParts DEF LoadsAreFresh, Cleared, HasRead, Shows
<1>16. ASSUME NEW g \in Drains, DrainDequeue(g) PROVE LoadsAreFresh'
  BY <1>16, DrainDequeueEffect, TypeParts DEF LoadsAreFresh, Cleared, HasRead, Shows
<1>17. ASSUME NEW g \in Drains, DrainSubmit(g) PROVE LoadsAreFresh'
  BY <1>17, DrainSubmitEffect, TypeParts, HeldShrinks DEF LoadsAreFresh, Cleared, HasRead,
     Shows, WorkerMoves, OnePlace
<1>18. ASSUME NEW g \in Drains, DrainReject(g) PROVE LoadsAreFresh'
  <2>1. /\ WorkerMoves(drain[g].job, "rejected") /\ drain[g].job \in Calls
        /\ UNCHANGED <<cache, caller, version, seen, open>>
    BY <1>18, DrainRejectEffect
  <2>2. \A c \in Calls : (Cleared(c)' => Cleared(c)) /\ (HasRead(c)' => HasRead(c))
    BY <2>1 DEF WorkerMoves, Cleared, HasRead
  <2>3. cache' = cache /\ caller' = caller /\ version' = version /\ seen' = seen /\ open' = open
    BY <2>1
  <2> QED
    BY <2>2, <2>3, TypeParts DEF LoadsAreFresh, Shows
<1>19. ASSUME NEW g \in Drains, DrainExit(g) PROVE LoadsAreFresh'
  BY <1>19, DrainExitEffect, TypeParts DEF LoadsAreFresh, Cleared, HasRead, Shows
<1>20. ASSUME NEW g \in Drains, DrainRearm(g) PROVE LoadsAreFresh'
  BY <1>20, DrainRearmEffect, TypeParts DEF LoadsAreFresh, Cleared, HasRead, Shows
<1>21. ASSUME NEW k \in Keys, Expire(k) PROVE LoadsAreFresh'
  BY <1>21, ExpireEffect, TypeParts DEF LoadsAreFresh, Cleared, HasRead, Shows
<1>22. CASE ReleasePool
  BY <1>22, ReleaseEffect, TypeParts DEF LoadsAreFresh, Cleared, HasRead, Shows
<1>23. CASE UNCHANGED vars
  BY <1>23, StutterEffect, TypeParts DEF LoadsAreFresh, Cleared, HasRead, Shows
<1> QED
  BY <1>1, <1>2, <1>3, <1>4, <1>5, <1>6, <1>7, <1>8, <1>9, <1>10, <1>11,
     <1>12, <1>13, <1>14, <1>15, <1>16, <1>17, <1>18, <1>19, <1>20, <1>21,
     <1>22, <1>23
  DEF Next, CallerStep, WorkerStep, DrainStep


LEMMA NextAnswers ==
  TypeOK /\ CountIsExact /\ QueuedOnce /\ DrainsAreWhole /\ HeldOnce /\ OnePlace /\
  FlightIsHeld /\ OutcomeFollows /\ LoadsHaveSucceeded /\ AnswersAreResults /\ [Next]_vars
  => AnswersAreResults'
<1> SUFFICES ASSUME TypeOK, CountIsExact, QueuedOnce, DrainsAreWhole, HeldOnce, OnePlace,
                    FlightIsHeld, OutcomeFollows, LoadsHaveSucceeded, AnswersAreResults, [Next]_vars
             PROVE  AnswersAreResults'
  OBVIOUS
<1>1. ASSUME NEW c \in Calls, Execute(c) PROVE AnswersAreResults'
  <2>1. /\ caller[c] = "idle" /\ worker' = worker
        /\ \A d \in Calls : d # c => caller'[d] = caller[d] /\ reply'[d] = reply[d]
    BY <1>1, ExecuteEffect DEF CallerMoves, Replies
  <2>2. ASSUME NEW d \in Calls, d # c, caller'[d] \in {"leave", "returned"}
        PROVE  reply'[d] = Failed \/ \E e \in Calls : ResultOf(d, e)'
    BY <2>1, <2>2 DEF AnswersAreResults, ResultOf
  <2>3. ASSUME caller'[c] \in {"leave", "returned"}
        PROVE  ResultOf(c, cache[Key[c]])' /\ cache[Key[c]] \in Calls
    <3>1. /\ Kind[c] = "query" /\ cache[Key[c]] # NoCall /\ reply'[c] = Ok(cache[Key[c]])
          /\ cache' = cache
      BY <1>1, <2>3, ExecuteEffect DEF CallerMoves, Replies
    <3> QED
      BY <2>1, <3>1, KeysAre DEF LoadsHaveSucceeded, ResultOf, SameLoad
  <2>4. cache' = cache
    BY <1>1, ExecuteEffect
  <2> QED
    BY <2>2, <2>3, <2>4 DEF AnswersAreResults
<1>2. ASSUME NEW c \in Calls, JoinFlight(c) PROVE AnswersAreResults'
  BY <1>2, JoinFlightEffect, TypeParts, OutcomesAre DEF AnswersAreResults, ResultOf, SameLoad,
     CallerMoves
<1>3. ASSUME NEW c \in Calls, Recheck(c) PROVE AnswersAreResults'
  BY <1>3, RecheckEffect, TypeParts, OutcomesAre, KeysAre DEF AnswersAreResults,
     ResultOf, SameLoad, CallerMoves, Replies, LoadsHaveSucceeded, FlightIsHeld
<1>4. ASSUME NEW c \in Calls, Store(c) PROVE AnswersAreResults'
  BY <1>4, StoreEffect, TypeParts, OutcomesAre DEF AnswersAreResults, ResultOf, SameLoad,
     CallerMoves, LoadsHaveSucceeded
<1>5. ASSUME NEW c \in Calls, LeaveFlight(c) PROVE AnswersAreResults'
  BY <1>5, LeaveEffect, TypeParts, OutcomesAre DEF AnswersAreResults, ResultOf, SameLoad,
     FlightIsHeld
<1>6. ASSUME NEW c \in Calls, EnqueueCall(c) PROVE AnswersAreResults'
  BY <1>6, EnqueueEffect, TypeParts, OutcomesAre DEF AnswersAreResults, ResultOf, SameLoad,
     CallerMoves
<1>7. ASSUME NEW c \in Calls, Signal(c) PROVE AnswersAreResults'
  BY <1>7, SignalEffect, TypeParts, OutcomesAre DEF AnswersAreResults, ResultOf, SameLoad,
     CallerMoves
<1>8. ASSUME NEW c \in Calls, Receive(c) PROVE AnswersAreResults'
  BY <1>8, ReceiveEffect, TypeParts, OutcomesAre DEF AnswersAreResults, ResultOf, SameLoad,
     CallerMoves, Replies, Takes, OutcomeFollows
<1>9. ASSUME NEW c \in Calls, GiveUp(c) PROVE AnswersAreResults'
  BY <1>9, GiveUpEffect, TypeParts, OutcomesAre DEF AnswersAreResults, ResultOf, SameLoad,
     CallerMoves, Replies
<1>10. ASSUME NEW c \in Calls, RunChecks(c) PROVE AnswersAreResults'
  BY <1>10, RunChecksEffect, TypeParts, OutcomesAre DEF AnswersAreResults, ResultOf, SameLoad,
     WorkerMoves, Finishes
<1>11. ASSUME NEW c \in Calls, Handle(c) PROVE AnswersAreResults'
  BY <1>11, HandleEffect, TypeParts, OutcomesAre DEF AnswersAreResults, ResultOf, SameLoad,
     WorkerMoves
<1>12. ASSUME NEW c \in Calls, HandlerReturns(c) PROVE AnswersAreResults'
  BY <1>12, HandlerReturnsEffect, TypeParts, OutcomesAre DEF AnswersAreResults, ResultOf,
     SameLoad, WorkerMoves, Finishes
<1>13. ASSUME NEW c \in Calls, HandlerFails(c) PROVE AnswersAreResults'
  BY <1>13, HandlerFailsEffect, TypeParts, OutcomesAre DEF AnswersAreResults, ResultOf,
     SameLoad, WorkerMoves, Finishes
<1>14. ASSUME NEW c \in Calls, ClearCache(c) PROVE AnswersAreResults'
  BY <1>14, ClearCacheEffect, TypeParts, OutcomesAre DEF AnswersAreResults, ResultOf,
     SameLoad, WorkerMoves, Finishes
<1>15. ASSUME NEW c \in Calls, Cancel(c) PROVE AnswersAreResults'
  BY <1>15, CancelEffect, TypeParts, OutcomesAre DEF AnswersAreResults, ResultOf, SameLoad
<1>16. ASSUME NEW g \in Drains, DrainDequeue(g) PROVE AnswersAreResults'
  BY <1>16, DrainDequeueEffect, TypeParts, OutcomesAre DEF AnswersAreResults, ResultOf,
     SameLoad
<1>17. ASSUME NEW g \in Drains, DrainSubmit(g) PROVE AnswersAreResults'
  BY <1>17, DrainSubmitEffect, TypeParts, OutcomesAre, HeldShrinks DEF AnswersAreResults,
     ResultOf, SameLoad, WorkerMoves, OnePlace
<1>18. ASSUME NEW g \in Drains, DrainReject(g) PROVE AnswersAreResults'
  BY <1>18, DrainRejectEffect, TypeParts, OutcomesAre, HeldShrinks DEF AnswersAreResults,
     ResultOf, SameLoad, WorkerMoves, Finishes, OnePlace
<1>19. ASSUME NEW g \in Drains, DrainExit(g) PROVE AnswersAreResults'
  BY <1>19, DrainExitEffect, TypeParts, OutcomesAre DEF AnswersAreResults, ResultOf, SameLoad
<1>20. ASSUME NEW g \in Drains, DrainRearm(g) PROVE AnswersAreResults'
  BY <1>20, DrainRearmEffect, TypeParts, OutcomesAre DEF AnswersAreResults, ResultOf, SameLoad
<1>21. ASSUME NEW k \in Keys, Expire(k) PROVE AnswersAreResults'
  BY <1>21, ExpireEffect, TypeParts, OutcomesAre DEF AnswersAreResults, ResultOf, SameLoad
<1>22. CASE ReleasePool
  BY <1>22, ReleaseEffect, TypeParts, OutcomesAre DEF AnswersAreResults, ResultOf, SameLoad
<1>23. CASE UNCHANGED vars
  BY <1>23, StutterEffect, TypeParts, OutcomesAre DEF AnswersAreResults, ResultOf, SameLoad
<1> QED
  BY <1>1, <1>2, <1>3, <1>4, <1>5, <1>6, <1>7, <1>8, <1>9, <1>10, <1>11,
     <1>12, <1>13, <1>14, <1>15, <1>16, <1>17, <1>18, <1>19, <1>20, <1>21,
     <1>22, <1>23
  DEF Next, CallerStep, WorkerStep, DrainStep


LEMMA NextFlights ==
  TypeOK /\ CountIsExact /\ QueuedOnce /\ DrainsAreWhole /\ HeldOnce /\ OnePlace /\
  FlightIsHeld /\ OutcomeFollows /\ LoadsHaveSucceeded /\ LoadsAreFresh /\ AnswersAreResults
  /\ FlightsAreFresh /\ [Next]_vars => FlightsAreFresh'
<1> SUFFICES ASSUME TypeOK, CountIsExact, QueuedOnce, DrainsAreWhole, HeldOnce, OnePlace,
                    FlightIsHeld, OutcomeFollows, LoadsHaveSucceeded, LoadsAreFresh, AnswersAreResults,
                    FlightsAreFresh, [Next]_vars
             PROVE  FlightsAreFresh'
  OBVIOUS
<1>1. ASSUME NEW c \in Calls, Execute(c) PROVE FlightsAreFresh'
  BY <1>1, ExecuteEffect, TypeParts, OutcomesAre DEF FlightsAreFresh, Cleared, Shows,
     CallerMoves, Replies
<1>2. ASSUME NEW c \in Calls, JoinFlight(c) PROVE FlightsAreFresh'
  BY <1>2, JoinFlightEffect, TypeParts, OutcomesAre DEF FlightsAreFresh, Cleared, Shows,
     CallerMoves
<1>3. ASSUME NEW c \in Calls, Recheck(c) PROVE FlightsAreFresh'
  <2>1. /\ UNCHANGED <<worker, seen, open, cache>>
        /\ \A d \in Calls : d # c => caller'[d] = caller[d] /\ reply'[d] = reply[d]
    BY <1>3, RecheckEffect DEF CallerMoves, Replies
  <2>2. ASSUME caller'[c] = "leave"
        PROVE  reply'[c] = Ok(cache[Key[c]]) /\ cache[Key[c]] # NoCall /\ Key[c] \in Keys
    BY <1>3, <2>2, RecheckEffect, KeysAre DEF CallerMoves, Replies
  <2>3. ASSUME NEW m \in Calls, NEW d \in Calls, Cleared(m)', caller'[c] = "leave", reply'[c] = Ok(d)
        PROVE  Shows(d, m)'
    <3>1. d = cache[Key[c]]
      BY <2>2, <2>3, OutcomesAre, TypeParts
    <3> QED
      BY <2>1, <2>2, <2>3, <3>1 DEF LoadsAreFresh, Cleared, Shows
  <2> QED
    BY <2>1, <2>3 DEF FlightsAreFresh, Cleared, Shows
<1>4. ASSUME NEW c \in Calls, Store(c) PROVE FlightsAreFresh'
  BY <1>4, StoreEffect, TypeParts, OutcomesAre DEF FlightsAreFresh, Cleared, Shows,
     CallerMoves, LoadsHaveSucceeded, LoadsAreFresh, HasRead
<1>5. ASSUME NEW c \in Calls, LeaveFlight(c) PROVE FlightsAreFresh'
  BY <1>5, LeaveEffect, TypeParts, OutcomesAre DEF FlightsAreFresh, Cleared, Shows
<1>6. ASSUME NEW c \in Calls, EnqueueCall(c) PROVE FlightsAreFresh'
  BY <1>6, EnqueueEffect, TypeParts, OutcomesAre DEF FlightsAreFresh, Cleared, Shows,
     CallerMoves
<1>7. ASSUME NEW c \in Calls, Signal(c) PROVE FlightsAreFresh'
  BY <1>7, SignalEffect, TypeParts, OutcomesAre DEF FlightsAreFresh, Cleared, Shows,
     CallerMoves
<1>8. ASSUME NEW c \in Calls, Receive(c) PROVE FlightsAreFresh'
  BY <1>8, ReceiveEffect, TypeParts, OutcomesAre DEF FlightsAreFresh, Cleared, Shows,
     CallerMoves, Replies, Takes, OutcomeFollows
<1>9. ASSUME NEW c \in Calls, GiveUp(c) PROVE FlightsAreFresh'
  BY <1>9, GiveUpEffect, TypeParts, OutcomesAre DEF FlightsAreFresh, Cleared, Shows,
     CallerMoves, Replies
<1>10. ASSUME NEW c \in Calls, RunChecks(c) PROVE FlightsAreFresh'
  BY <1>10, RunChecksEffect, TypeParts, OutcomesAre DEF FlightsAreFresh, Cleared, Shows,
     WorkerMoves, Finishes
<1>11. ASSUME NEW c \in Calls, Handle(c) PROVE FlightsAreFresh'
  BY <1>11, HandleEffect, TypeParts, OutcomesAre DEF FlightsAreFresh, Cleared, Shows,
     WorkerMoves, AnswersAreResults, ResultOf
<1>12. ASSUME NEW c \in Calls, HandlerReturns(c) PROVE FlightsAreFresh'
  BY <1>12, HandlerReturnsEffect, TypeParts, OutcomesAre DEF FlightsAreFresh, Cleared, Shows,
     WorkerMoves, Finishes, LoadsHaveSucceeded
<1>13. ASSUME NEW c \in Calls, HandlerFails(c) PROVE FlightsAreFresh'
  BY <1>13, HandlerFailsEffect, TypeParts, OutcomesAre DEF FlightsAreFresh, Cleared, Shows,
     WorkerMoves, Finishes
<1>14. ASSUME NEW c \in Calls, ClearCache(c) PROVE FlightsAreFresh'
  <2>1. /\ open' = [open EXCEPT ![c] = UnderWay] /\ WorkerMoves(c, "succeeded")
        /\ UNCHANGED <<seen, caller, reply>>
    BY <1>14, ClearCacheEffect
  <2>2. open'[c] = UnderWay /\ \A m \in Calls : m # c => open'[m] = open[m]
    BY <2>1, TypeParts
  <2>3. \A m \in Calls : m # c /\ Cleared(m)' => Cleared(m)
    BY <2>1 DEF WorkerMoves, Cleared
  <2>4. \A d \in Calls : caller[d] = "leave" => d \in open'[c]
    BY <2>2 DEF UnderWay
  <2> QED
    BY <2>1, <2>2, <2>3, <2>4 DEF FlightsAreFresh, Shows
<1>15. ASSUME NEW c \in Calls, Cancel(c) PROVE FlightsAreFresh'
  BY <1>15, CancelEffect, TypeParts, OutcomesAre DEF FlightsAreFresh, Cleared, Shows
<1>16. ASSUME NEW g \in Drains, DrainDequeue(g) PROVE FlightsAreFresh'
  BY <1>16, DrainDequeueEffect, TypeParts, OutcomesAre DEF FlightsAreFresh, Cleared, Shows
<1>17. ASSUME NEW g \in Drains, DrainSubmit(g) PROVE FlightsAreFresh'
  BY <1>17, DrainSubmitEffect, TypeParts, OutcomesAre, HeldShrinks DEF FlightsAreFresh,
     Cleared, Shows, WorkerMoves, OnePlace
<1>18. ASSUME NEW g \in Drains, DrainReject(g) PROVE FlightsAreFresh'
  BY <1>18, DrainRejectEffect, TypeParts, OutcomesAre, HeldShrinks DEF FlightsAreFresh,
     Cleared, Shows, WorkerMoves, Finishes, OnePlace
<1>19. ASSUME NEW g \in Drains, DrainExit(g) PROVE FlightsAreFresh'
  BY <1>19, DrainExitEffect, TypeParts, OutcomesAre DEF FlightsAreFresh, Cleared, Shows
<1>20. ASSUME NEW g \in Drains, DrainRearm(g) PROVE FlightsAreFresh'
  BY <1>20, DrainRearmEffect, TypeParts, OutcomesAre DEF FlightsAreFresh, Cleared, Shows
<1>21. ASSUME NEW k \in Keys, Expire(k) PROVE FlightsAreFresh'
  BY <1>21, ExpireEffect, TypeParts, OutcomesAre DEF FlightsAreFresh, Cleared, Shows
<1>22. CASE ReleasePool
  BY <1>22, ReleaseEffect, TypeParts, OutcomesAre DEF FlightsAreFresh, Cleared, Shows
<1>23. CASE UNCHANGED vars
  BY <1>23, StutterEffect, TypeParts, OutcomesAre DEF FlightsAreFresh, Cleared, Shows
<1> QED
  BY <1>1, <1>2, <1>3, <1>4, <1>5, <1>6, <1>7, <1>8, <1>9, <1>10, <1>11,
     <1>12, <1>13, <1>14, <1>15, <1>16, <1>17, <1>18, <1>19, <1>20, <1>21,
     <1>22, <1>23
  DEF Next, CallerStep, WorkerStep, DrainStep


LEMMA NextBefore ==
  TypeOK /\ CountIsExact /\ QueuedOnce /\ DrainsAreWhole /\ HeldOnce /\ OnePlace /\
  FlightIsHeld /\ OutcomeFollows /\ LoadsHaveSucceeded /\ BeforeHasCleared /\ [Next]_vars =>
  BeforeHasCleared'
<1> SUFFICES ASSUME TypeOK, CountIsExact, QueuedOnce, DrainsAreWhole, HeldOnce, OnePlace,
                    FlightIsHeld, OutcomeFollows, LoadsHaveSucceeded, BeforeHasCleared, [Next]_vars
             PROVE  BeforeHasCleared'
  OBVIOUS
<1>1. ASSUME NEW c \in Calls, Execute(c) PROVE BeforeHasCleared'
  BY <1>1, ExecuteEffect, TypeParts DEF BeforeHasCleared, Cleared, CallerMoves, Replies,
     ReturnedMutations, LoadsHaveSucceeded
<1>2. ASSUME NEW c \in Calls, JoinFlight(c) PROVE BeforeHasCleared'
  BY <1>2, JoinFlightEffect, TypeParts DEF BeforeHasCleared, Cleared, CallerMoves
<1>3. ASSUME NEW c \in Calls, Recheck(c) PROVE BeforeHasCleared'
  BY <1>3, RecheckEffect, TypeParts DEF BeforeHasCleared, Cleared, CallerMoves, Replies
<1>4. ASSUME NEW c \in Calls, Store(c) PROVE BeforeHasCleared'
  BY <1>4, StoreEffect, TypeParts DEF BeforeHasCleared, Cleared, CallerMoves
<1>5. ASSUME NEW c \in Calls, LeaveFlight(c) PROVE BeforeHasCleared'
  BY <1>5, LeaveEffect, TypeParts DEF BeforeHasCleared, Cleared
<1>6. ASSUME NEW c \in Calls, EnqueueCall(c) PROVE BeforeHasCleared'
  BY <1>6, EnqueueEffect, TypeParts DEF BeforeHasCleared, Cleared, CallerMoves
<1>7. ASSUME NEW c \in Calls, Signal(c) PROVE BeforeHasCleared'
  BY <1>7, SignalEffect, TypeParts DEF BeforeHasCleared, Cleared, CallerMoves
<1>8. ASSUME NEW c \in Calls, Receive(c) PROVE BeforeHasCleared'
  BY <1>8, ReceiveEffect, TypeParts DEF BeforeHasCleared, Cleared, CallerMoves, Replies, Takes
<1>9. ASSUME NEW c \in Calls, GiveUp(c) PROVE BeforeHasCleared'
  BY <1>9, GiveUpEffect, TypeParts DEF BeforeHasCleared, Cleared, CallerMoves, Replies
<1>10. ASSUME NEW c \in Calls, RunChecks(c) PROVE BeforeHasCleared'
  BY <1>10, RunChecksEffect, TypeParts DEF BeforeHasCleared, Cleared, WorkerMoves, Finishes
<1>11. ASSUME NEW c \in Calls, Handle(c) PROVE BeforeHasCleared'
  BY <1>11, HandleEffect, TypeParts DEF BeforeHasCleared, Cleared, WorkerMoves
<1>12. ASSUME NEW c \in Calls, HandlerReturns(c) PROVE BeforeHasCleared'
  BY <1>12, HandlerReturnsEffect, TypeParts DEF BeforeHasCleared, Cleared, WorkerMoves,
     Finishes
<1>13. ASSUME NEW c \in Calls, HandlerFails(c) PROVE BeforeHasCleared'
  BY <1>13, HandlerFailsEffect, TypeParts DEF BeforeHasCleared, Cleared, WorkerMoves, Finishes
<1>14. ASSUME NEW c \in Calls, ClearCache(c) PROVE BeforeHasCleared'
  BY <1>14, ClearCacheEffect, TypeParts DEF BeforeHasCleared, Cleared, WorkerMoves, Finishes
<1>15. ASSUME NEW c \in Calls, Cancel(c) PROVE BeforeHasCleared'
  BY <1>15, CancelEffect, TypeParts DEF BeforeHasCleared, Cleared
<1>16. ASSUME NEW g \in Drains, DrainDequeue(g) PROVE BeforeHasCleared'
  BY <1>16, DrainDequeueEffect, TypeParts DEF BeforeHasCleared, Cleared
<1>17. ASSUME NEW g \in Drains, DrainSubmit(g) PROVE BeforeHasCleared'
  BY <1>17, DrainSubmitEffect, TypeParts, HeldShrinks DEF BeforeHasCleared, Cleared,
     WorkerMoves, OnePlace
<1>18. ASSUME NEW g \in Drains, DrainReject(g) PROVE BeforeHasCleared'
  BY <1>18, DrainRejectEffect, TypeParts, HeldShrinks DEF BeforeHasCleared, Cleared,
     WorkerMoves, Finishes, OnePlace
<1>19. ASSUME NEW g \in Drains, DrainExit(g) PROVE BeforeHasCleared'
  BY <1>19, DrainExitEffect, TypeParts DEF BeforeHasCleared, Cleared
<1>20. ASSUME NEW g \in Drains, DrainRearm(g) PROVE BeforeHasCleared'
  BY <1>20, DrainRearmEffect, TypeParts DEF BeforeHasCleared, Cleared
<1>21. ASSUME NEW k \in Keys, Expire(k) PROVE BeforeHasCleared'
  BY <1>21, ExpireEffect, TypeParts DEF BeforeHasCleared, Cleared
<1>22. CASE ReleasePool
  BY <1>22, ReleaseEffect, TypeParts DEF BeforeHasCleared, Cleared
<1>23. CASE UNCHANGED vars
  BY <1>23, StutterEffect, TypeParts DEF BeforeHasCleared, Cleared
<1> QED
  BY <1>1, <1>2, <1>3, <1>4, <1>5, <1>6, <1>7, <1>8, <1>9, <1>10, <1>11,
     <1>12, <1>13, <1>14, <1>15, <1>16, <1>17, <1>18, <1>19, <1>20, <1>21,
     <1>22, <1>23
  DEF Next, CallerStep, WorkerStep, DrainStep


LEMMA InitIInv == Init => IInv
<1> SUFFICES ASSUME Init PROVE IInv
  OBVIOUS
<1> USE DispatcherAssumption
<1>1. \A u \in Users : queues[u] = <<>>
  BY DEF Init, Q!QueueInit
<1>2. Q!Waiting = {} /\ pendingCount = 0
  BY <1>1 DEF Init, Q!QueueInit, Q!Waiting
<1>3. CountIsExact
  BY <1>2, FS_EmptySet DEF CountIsExact
<1>4. Queued = {} /\ QueuedOnce
  BY <1>1 DEF Queued, QueuedOnce, Holds
<1>5. \A g \in Drains : drain[g] = Off
  BY DEF Init
<1>6. Held = {} /\ HeldOnce /\ DrainsAreWhole
  BY <1>5, OffIs DEF Held, HeldOnce, DrainsAreWhole
<1>7. /\ \A d \in Dispatchers : ~draining[d]
      /\ \A c \in Calls : /\ caller[c] = "idle" /\ worker[c] = "none"
                          /\ done[c] = Nothing /\ reply[c] = Nothing /\ seen[c] = 0
      /\ \A k \in Keys : cache[k] = NoCall
      /\ version = 0
  BY DEF Init
<1>8. FlagHasDrain /\ SomeoneWillDrain
  BY <1>2, <1>7 DEF FlagHasDrain, SomeoneWillDrain
<1>9. OnePlace /\ FlightIsHeld /\ OutcomeFollows /\ CallerWaits
  BY <1>4, <1>6, <1>7 DEF OnePlace, FlightIsHeld, OutcomeFollows, CallerWaits, Running
<1>10. ErrorHasCause /\ LoadsHaveSucceeded
  BY <1>7, OutcomesAre DEF ErrorHasCause, LoadsHaveSucceeded
<1>11. LoadsAreFresh /\ FlightsAreFresh
  BY <1>7 DEF LoadsAreFresh, FlightsAreFresh, Cleared
<1>16. AnswersAreResults /\ BeforeHasCleared
  BY <1>7 DEF Init, AnswersAreResults, BeforeHasCleared
<1>12. Q!QueueTypeOK
  BY DEF Init, Q!QueueInit, Q!QueueTypeOK
<1>13. drain \in [Drains -> DrainRecords]
  BY OffIs DEF Init
<1>14. reply \in [Calls -> Outcomes] /\ done \in [Calls -> Outcomes]
  BY OutcomesAre DEF Init
<1>15. TypeOK
  BY <1>12, <1>13, <1>14, TypeParts DEF Init, CallerPcs, WorkerPcs
<1> QED
  BY <1>3, <1>4, <1>6, <1>8, <1>9, <1>10, <1>11, <1>15, <1>16 DEF IInv

LEMMA NextIInv == IInv /\ [Next]_vars => IInv'
<1> SUFFICES ASSUME IInv, [Next]_vars PROVE IInv'
  OBVIOUS
<1>1. TypeOK' /\ CountIsExact' /\ QueuedOnce'
  BY NextTypes, NextCount DEF IInv
<1>2. DrainsAreWhole' /\ FlagHasDrain' /\ SomeoneWillDrain'
  BY NextDrains, NextFlags, NextSomeone DEF IInv
<1>3. HeldOnce' /\ OnePlace'
  BY NextHeldOnce, NextOnePlace DEF IInv
<1>4. FlightIsHeld' /\ OutcomeFollows' /\ CallerWaits' /\ ErrorHasCause'
  BY NextFlight, NextOutcome, NextCallerWaits, NextErrorHasCause DEF IInv
<1>5. LoadsHaveSucceeded' /\ LoadsAreFresh'
  BY NextLoadsHaveSucceeded, NextLoadsAreFresh DEF IInv
<1>6. AnswersAreResults' /\ FlightsAreFresh' /\ BeforeHasCleared'
  BY NextAnswers, NextFlights, NextBefore DEF IInv
<1> QED
  BY <1>1, <1>2, <1>3, <1>4, <1>5, <1>6 DEF IInv

LEMMA SpecIInv == Spec => []IInv
BY InitIInv, NextIInv, PTL DEF Spec

\* What IInv says of the places of a closure, one by one.
LEMMA PlacesAreOne ==
  ASSUME IInv, NEW c \in Calls
  PROVE  /\ Cardinality(PlacesOf(c)) <= 1
         /\ caller[c] \in {"signal", "wait"} => PlacesOf(c) # {}
<1> DEFINE inQueue == {p \in Q!Waiting : queues[p[1]][p[2]] = c}
           inHand == {g \in Drains : drain[g].job = c}
           inPool == {w \in {c} : worker[c] # "none"}
<1>1. PlacesOf(c) = inQueue \cup inHand \cup inPool
  BY DEF PlacesOf
<1>2. \A p \in inQueue : \E u \in Users, i \in Nat : p = <<u, i>> /\ Holds(u, i, c)
  <2>1. \A u \in Users : queues[u] \in Seq(Calls)
    BY DEF IInv, TypeOK, Q!QueueTypeOK
  <2> QED
    BY <2>1 DEF Q!Waiting, Holds
<1>3. \A u \in Users, i \in Nat : Holds(u, i, c) => <<u, i>> \in inQueue
  <2>1. \A u \in Users : queues[u] \in Seq(Calls)
    BY DEF IInv, TypeOK, Q!QueueTypeOK
  <2> QED
    BY <2>1 DEF Q!Waiting, Holds
<1>4. c \in Queued <=> inQueue # {}
  BY <1>2, <1>3 DEF Queued
<1>5. c \in Held <=> inHand # {}
  BY DEF Held
<1>6. worker[c] # "none" <=> inPool # {}
  OBVIOUS
<1>7. \A p, q \in inQueue : p = q
  BY <1>2 DEF IInv, QueuedOnce
<1>8. \A g, h \in inHand : g = h
  BY DEF IInv, HeldOnce
<1>9. \A w, v \in inPool : w = v
  OBVIOUS
<1> HIDE DEF inQueue, inHand, inPool
<1>10. /\ inQueue # {} => inHand = {} /\ inPool = {}
       /\ inHand # {} => inPool = {}
       /\ caller[c] \in {"signal", "wait"} => inQueue # {} \/ inHand # {} \/ inPool # {}
  BY <1>4, <1>5, <1>6 DEF IInv, OnePlace
<1>11. \A x, y \in PlacesOf(c) : x = y
  BY <1>1, <1>7, <1>8, <1>9, <1>10
<1>12. PlacesOf(c) = {} \/ \E x : PlacesOf(c) = {x}
  BY <1>11
<1>13. Cardinality(PlacesOf(c)) <= 1
  BY <1>12, FS_EmptySet, FS_Singleton
<1> QED
  BY <1>1, <1>10, <1>13

-----------------------------------------------------------------------------
(* The theorems *)

\* Queue, cache, channels, workers and drains keep their types through every
\* step of Execute, drain and job.Run (dispatcher.go).
THEOREM DispatcherTypes == Spec => []TypeOK
<1>1. IInv => TypeOK
  BY DEF IInv
<1> QED
  BY <1>1, SpecIInv, PTL

\* No wake-up is lost: the flag of startDraining falls under schedulerMu with a
\* second look at the queue (dispatcher.go:194-216), so a job that waits always
\* has a drain that will come to it or a caller about to start one.
THEOREM NoLostWakeup == Spec => []SomeoneWillDrain
<1>1. IInv => SomeoneWillDrain
  BY DEF IInv
<1> QED
  BY <1>1, SpecIInv, PTL

\* Every closure of enqueueAndWait (dispatcher.go:150-192) is in one place, and in some place while its
\* caller waits, whichever dispatcher's drain takes it from the shared queue.
THEOREM NeverLostNorTwice == Spec => []JobIsInOnePlace
<1>1. IInv => JobIsInOnePlace
  BY PlacesAreOne DEF JobIsInOnePlace
<1> QED
  BY <1>1, SpecIInv, PTL

\* singleflight (dispatcher.go:126) lets one live call of a key load: of all the
\* closures in the pool, one.
THEOREM OneLoadOfAKey == Spec => []OneLoadPerKey
<1>1. IInv => OneLoadPerKey
  <2> SUFFICES ASSUME IInv, NEW c \in Running \ ctxDone, NEW d \in Running \ ctxDone,
                      Kind[c] = "query", Kind[d] = "query", Key[c] = Key[d]
               PROVE  c = d
    BY DEF OneLoadPerKey
  <2>1. caller[c] \in {"signal", "wait"} /\ caller[d] \in {"signal", "wait"}
    BY PlacesAreOfCalls DEF IInv, CallerWaits
  <2>2. flight[Key[c]] = c /\ flight[Key[d]] = d
    BY <2>1, PlacesAreOfCalls DEF IInv, FlightIsHeld
  <2> QED
    BY <2>2
<1> QED
  BY <1>1, SpecIInv, PTL

\* A cached result older than a mutation that has returned success is that of a
\* call which was under way at the mutation's Clear and stored after it
\* (dispatcher.go:122-148, 172).
THEOREM StaleByOverlapOnly == Spec => []StaleOnlyByOverlap
<1>1. IInv => StaleOnlyByOverlap
  <2> SUFFICES ASSUME IInv, NEW m \in Calls, NEW k \in Keys,
                      Kind[m] = "mutation", reply[m].status = "ok",
                      cache[k] # NoCall, seen[cache[k]] < seen[m]
               PROVE  cache[k] \in open[m]
    BY DEF StaleOnlyByOverlap
  <2>1. Cleared(m) /\ cache[k] \in Calls
    BY DEF IInv, LoadsHaveSucceeded, Cleared
  <2>2. Shows(cache[k], m)
    BY <2>1 DEF IInv, LoadsAreFresh
  <2>3. seen[m] \in Nat /\ seen[cache[k]] \in Nat
    BY <2>1 DEF IInv, TypeOK
  <2> QED
    BY <2>2, <2>3 DEF Shows
<1> QED
  BY <1>1, SpecIInv, PTL

\* An error that Execute returns comes from a cancelled context, a failed
\* handler or a refused job (dispatcher.go:150-192), of the call itself or of one
\* whose flight it shared.
THEOREM ErrorsHaveCauses == Spec => []ErrorHasCause
<1>1. IInv => ErrorHasCause
  BY DEF IInv
<1> QED
  BY <1>1, SpecIInv, PTL

-----------------------------------------------------------------------------
(* What the callers see *)

LEMMA StagesAre ==
  /\ \A pc \in {"none", "started", "handler"} : Stage(pc) = "none"
  /\ \A pc \in {"returning", "clear"} : Stage(pc) = "reached"
  /\ Stage("succeeded") = "succeeded"
  /\ \A pc \in {"failed", "rejected"} : Stage(pc) = "failed"
BY DEF Stage

\* Nothing is seen of a step that leaves the data alone, moves no call into or
\* out of Execute and no handler to another stage.
LEMMA UnseenStep ==
  ASSUME UNCHANGED <<ctxDone, version, seen, before, open>>,
         \A c \in Calls : Stage(worker'[c]) = Stage(worker[c]),
         \A c \in Calls :
           \/ caller'[c] = caller[c] /\ reply'[c] = reply[c]
           \/ caller[c] \notin {"idle", "returned"} /\ caller'[c] \notin {"idle", "returned"}
  PROVE  UNCHANGED Promise!vars
<1>1. Asked' = Asked
  BY DEF Asked
<1>2. Answers' = Answers
  BY DEF Answers
<1>3. Work' = Work
  BY DEF Work
<1> QED
  BY <1>1, <1>2, <1>3 DEF Promise!vars

\* One call moves on inside Execute.
LEMMA CallerGoesOn ==
  ASSUME NEW c \in Calls, NEW pc, CallerMoves(c, pc), caller[c] \notin {"idle", "returned"},
         pc \notin {"idle", "returned"}, \A f \in Calls : f # c => reply'[f] = reply[f],
         UNCHANGED <<ctxDone, worker, version, seen, before, open>>
  PROVE  UNCHANGED Promise!vars
BY UnseenStep DEF CallerMoves

\* The handler of one call moves within its stage.
LEMMA WorkerGoesOn ==
  ASSUME NEW c \in Calls, NEW pc, WorkerMoves(c, pc), Stage(pc) = Stage(worker[c]),
         UNCHANGED <<caller, reply, ctxDone, version, seen, before, open>>
  PROVE  UNCHANGED Promise!vars
BY UnseenStep DEF WorkerMoves

LEMMA DrainsAreUnseen ==
  ASSUME UNCHANGED <<caller, reply, ctxDone, worker, version, seen, before, open>>
  PROVE  UNCHANGED Promise!vars
BY UnseenStep

\* The handler of one call enters another stage.
LEMMA WorkerEnters ==
  ASSUME TypeOK, NEW c \in Calls, NEW pc, WorkerMoves(c, pc), UNCHANGED <<caller, reply>>
  PROVE  /\ Work' = [Work EXCEPT ![c] = Stage(pc)] /\ Work[c] = Stage(worker[c])
         /\ Asked' = Asked /\ Answers' = Answers
<1>1. Work' = [Work EXCEPT ![c] = Stage(pc)] /\ Work[c] = Stage(worker[c])
  BY DEF Work, WorkerMoves
<1> QED
  BY <1>1 DEF Asked, Answers

\* Whoever is queued, held or run has been asked for.
LEMMA WorkIsAskedFor ==
  ASSUME OnePlace, NEW c \in Calls, worker[c] # "none" \/ c \in Held
  PROVE  c \in Asked
BY DEF OnePlace, Asked

LEMMA FailedStep ==
  ASSUME TypeOK, OnePlace, NEW c \in Calls, NEW pc \in {"failed", "rejected"}, WorkerMoves(c, pc),
         worker[c] \in {"none", "started", "handler", "returning"},
         worker[c] # "none" \/ c \in Held,
         UNCHANGED <<caller, reply, ctxDone, version, seen, before, open>>
  PROVE  Promise!Fail(c)
<1>1. Work[c] \in {"none", "reached"}
  BY WorkerEnters, StagesAre
<1>2. Work' = [Work EXCEPT ![c] = "failed"]
  BY WorkerEnters, StagesAre
<1> QED
  BY <1>1, <1>2, WorkerEnters, WorkIsAskedFor DEF Promise!Fail

\* Those that return together have one outcome.
LEMMA ReturnStep ==
  ASSUME NEW sharers \in SUBSET Calls, NEW d \in Calls, NEW outcome,
         \A c \in sharers : /\ caller[c] \notin {"idle", "returned"}
                            /\ caller'[c] = "returned" /\ reply'[c] = outcome,
         \A c \in Calls \ sharers : caller'[c] = caller[c] /\ reply'[c] = reply[c],
         UNCHANGED <<ctxDone, worker, version, seen, before, open>>,
         \/ outcome = Ok(d) /\ Promise!Succeeded(sharers, d, before)
         \/ outcome = Failed /\ Promise!Broke(sharers, d)
  PROVE  Promise!Return(sharers)
<1>1. Asked' = Asked /\ Work' = Work
  BY DEF Asked, Work
<1>2. sharers \subseteq Promise!Waiting
  BY DEF Promise!Waiting, Promise!Nothing, Nothing, Asked, Answers
<1>3. Answers' = [c \in Calls |-> IF c \in sharers THEN outcome ELSE Answers[c]]
  BY DEF Answers
<1>4. Promise!Give(sharers, outcome)
  BY <1>3 DEF Promise!Give
<1>5. Promise!Ok(d) = Ok(d) /\ Promise!Failed = Failed
  BY DEF Promise!Ok, Ok, Promise!Failed, Failed
<1> QED
  BY <1>1, <1>2, <1>4, <1>5 DEF Promise!Return

LEMMA AlikeIsSameLoad ==
  \A c, d \in Calls : Promise!Alike(c, d) <=> SameLoad(c, d)
BY DEF Promise!Alike, SameLoad

\* A result may be given to those who share it, if what they may expect is shown.
LEMMA ResultIsGood ==
  ASSUME TypeOK, BeforeHasCleared, NEW sharers \in SUBSET Calls, NEW d \in Calls, worker[d] = "succeeded",
         \A c \in sharers : SameLoad(c, d),
         \A m \in Calls : Cleared(m) => Shows(d, m) \/ sharers \cap open[m] # {}
  PROVE  Promise!Succeeded(sharers, d, before)
<1>1. Work[d] = "succeeded"
  BY StagesAre DEF Work
<1>2. \A c \in sharers : Promise!Alike(c, d)
  BY AlikeIsSameLoad
<1>3. ASSUME NEW c \in sharers, NEW m \in before[c] PROVE Promise!Fresh(d, m, sharers)
  <2>1. m \in Calls /\ Cleared(m)
    BY <1>3, TypeParts DEF BeforeHasCleared
  <2> QED
    BY <2>1 DEF Promise!Fresh, Shows
<1> QED
  BY <1>1, <1>2, <1>3 DEF Promise!Succeeded

\* So may an error whose cause is a call of the same load.
LEMMA ErrorIsGood ==
  ASSUME ErrorHasCause, NEW sharers \in SUBSET Calls, NEW c \in Calls, reply[c] = Failed,
         \A f \in sharers : f = c \/ (Kind[f] = "query" /\ Kind[c] = "query" /\ Key[f] = Key[c])
  PROVE  \E d \in Calls : Promise!Broke(sharers, d)
<1>1. reply[c].status = "error"
  BY OutcomesAre
<1>2. PICK d \in Calls :
        /\ d = c \/ (Kind[c] = "query" /\ Kind[d] = "query" /\ Key[d] = Key[c])
        /\ \/ d \in ctxDone \/ worker[d] \in {"failed", "rejected"}
           \/ d \in Unencodable /\ worker[d] = "succeeded"
  BY <1>1 DEF ErrorHasCause
<1>3. \/ d \in ctxDone \/ Work[d] = "failed"
      \/ d \in Unencodable /\ Work[d] = "succeeded"
  BY <1>2, StagesAre DEF Work
<1>4. \A f \in sharers : Promise!Alike(f, d)
  BY <1>2 DEF Promise!Alike
<1> QED
  BY <1>3, <1>4 DEF Promise!Broke

\* The own outcome of a call that is not shared.
LEMMA OwnOutcome ==
  ASSUME IInv, NEW c \in Calls, caller[c] = "wait", CallerMoves(c, "returned"),
         NEW outcome, Replies(c, outcome),
         UNCHANGED <<ctxDone, worker, version, seen, before, open>>,
         \/ outcome = Ok(c) /\ worker[c] = "succeeded"
         \/ outcome = Failed /\ (c \in ctxDone \/ worker[c] \in {"failed", "rejected"})
  PROVE  Promise!Return({c})
<1>1. CASE outcome = Ok(c) /\ worker[c] = "succeeded"
  <2>1. \A m \in Calls : Cleared(m) => Shows(c, m)
    BY <1>1 DEF IInv, LoadsAreFresh, HasRead
  <2>2. Promise!Succeeded({c}, c, before)
    BY <1>1, <2>1, ResultIsGood DEF IInv, SameLoad
  <2> QED
    BY <1>1, <2>2, ReturnStep DEF CallerMoves, Replies
<1>2. CASE outcome = Failed /\ (c \in ctxDone \/ worker[c] \in {"failed", "rejected"})
  <2>1. c \in ctxDone \/ Work[c] = "failed"
    BY <1>2, StagesAre DEF Work
  <2>2. Promise!Broke({c}, c)
    BY <2>1 DEF Promise!Broke, Promise!Alike
  <2> QED
    BY <1>2, <2>2, ReturnStep DEF CallerMoves, Replies
<1> QED
  BY <1>1, <1>2

LEMMA ExecuteIsAsked ==
  ASSUME IInv, NEW c \in Calls, Execute(c)
  PROVE  Promise!Ask(c)
<1>1. /\ caller[c] = "idle" /\ before' = [before EXCEPT ![c] = ReturnedMutations]
      /\ UNCHANGED <<version, seen, ctxDone, worker, open>>
      /\ \A f \in Calls : f # c => caller'[f] = caller[f] /\ reply'[f] = reply[f]
      /\ caller'[c] # "idle"
      /\ \/ /\ Kind[c] = "query" /\ cache[Key[c]] # NoCall
            /\ caller'[c] = "returned" /\ reply'[c] = Ok(cache[Key[c]])
         \/ caller'[c] # "returned"
  BY ExecuteEffect DEF IInv, CallerMoves, Replies
<1>2. c \notin Asked /\ Asked' = Asked \cup {c}
  BY <1>1 DEF Asked
<1>3. Promise!Returned = ReturnedMutations
  BY OutcomesAre DEF Promise!Returned, ReturnedMutations, Answers
<1>4. Work' = Work
  BY <1>1 DEF Work
<1>5. CASE caller'[c] # "returned"
  <2>1. Answers' = Answers
    BY <1>1, <1>5 DEF Answers
  <2> QED
    BY <1>1, <1>2, <1>3, <1>4, <2>1 DEF Promise!Ask
<1>6. CASE caller'[c] = "returned"
  <2> DEFINE d == cache[Key[c]]
  <2>1. /\ Kind[c] = "query" /\ d # NoCall /\ reply'[c] = Ok(d) /\ Key[c] \in Keys
    BY <1>1, <1>6, DispatcherAssumption
  <2>2. d \in Calls /\ Kind[d] = "query" /\ Key[d] = Key[c] /\ worker[d] = "succeeded"
    BY <2>1 DEF IInv, LoadsHaveSucceeded
  <2>3. \A m \in Calls : Cleared(m) => Shows(d, m)
    BY <2>1 DEF IInv, LoadsAreFresh
  <2>4. before'[c] = ReturnedMutations
    BY <1>1, TypeParts DEF IInv
  <2>5. \A m \in ReturnedMutations : m \in Calls /\ Cleared(m)
    BY DEF ReturnedMutations, IInv, LoadsHaveSucceeded, Cleared
  <2> HIDE DEF d
  <2>6. Work[d] = "succeeded"
    BY <2>2, StagesAre DEF Work
  <2>7. Promise!Succeeded({c}, d, before')
    BY <2>1, <2>2, <2>3, <2>4, <2>5, <2>6 DEF Promise!Succeeded, Promise!Alike, Promise!Fresh, Shows
  <2>8. Answers' = [f \in Calls |-> IF f \in {c} THEN Ok(d) ELSE Answers[f]]
    BY <1>1, <1>6, <2>1 DEF Answers
  <2>9. Promise!Give({c}, Promise!Ok(d))
    BY <2>8 DEF Promise!Give, Promise!Ok, Ok
  <2> QED
    BY <1>1, <1>2, <1>3, <1>4, <2>2, <2>7, <2>9 DEF Promise!Ask
<1> QED
  BY <1>5, <1>6

LEMMA LeaveIsReturn ==
  ASSUME IInv, NEW c \in Calls, LeaveFlight(c)
  PROVE  \E sharers \in SUBSET Calls : Promise!Return(sharers)
<1> DEFINE sharers == {f \in Calls : f = c \/ (caller[f] = "follow" /\ Key[f] = Key[c])}
<1>1. caller[c] = "leave" /\ UNCHANGED <<ctxDone, worker, version, seen, before, open>>
  BY LeaveEffect DEF IInv
<1>2. \A f \in sharers : /\ caller[f] \notin {"idle", "returned"}
                         /\ caller'[f] = "returned" /\ reply'[f] = reply[c]
  BY <1>1 DEF LeaveFlight, IInv, TypeOK
<1>3. \A f \in Calls \ sharers : caller'[f] = caller[f] /\ reply'[f] = reply[f]
  BY DEF LeaveFlight, IInv, TypeOK
<1>4. \A f \in sharers : f = c \/ (Kind[f] = "query" /\ Kind[c] = "query" /\ Key[f] = Key[c])
  BY <1>1 DEF IInv, FlightIsHeld
<1>5. sharers \in SUBSET Calls /\ c \in sharers
  OBVIOUS
<1> HIDE DEF sharers
<1>6. CASE reply[c] = Failed
  <2>1. PICK d \in Calls : Promise!Broke(sharers, d)
    BY <1>4, <1>5, <1>6, ErrorIsGood DEF IInv
  <2> QED
    BY <1>1, <1>2, <1>3, <1>5, <1>6, <2>1, ReturnStep
<1>7. CASE reply[c] # Failed
  <2>1. PICK d \in Calls : ResultOf(c, d)
    BY <1>1, <1>7 DEF IInv, AnswersAreResults
  <2>2. \A f \in sharers : SameLoad(f, d)
    BY <1>4, <2>1 DEF ResultOf, SameLoad
  <2>3. \A m \in Calls : Cleared(m) => Shows(d, m) \/ sharers \cap open[m] # {}
    BY <1>1, <1>5, <2>1 DEF IInv, FlightsAreFresh, ResultOf
  <2>4. Promise!Succeeded(sharers, d, before)
    BY <1>5, <2>1, <2>2, <2>3, ResultIsGood DEF IInv, ResultOf
  <2> QED
    BY <1>1, <1>2, <1>3, <1>5, <2>1, <2>4, ReturnStep DEF ResultOf
<1> QED
  BY <1>6, <1>7

LEMMA ReceiveIsReturn ==
  ASSUME IInv, NEW c \in Calls, Receive(c)
  PROVE  Promise!Return({c}) \/ UNCHANGED Promise!vars
<1>1. /\ caller[c] = "wait" /\ done[c] # Nothing
      /\ UNCHANGED <<ctxDone, worker, version, seen, before, open>>
      /\ \/ CallerMoves(c, "returned") /\ Replies(c, done[c])
         \/ /\ Replies(c, done[c]) \/ Replies(c, Failed)
            /\ CallerMoves(c, "store") \/ CallerMoves(c, "leave")
  BY ReceiveEffect DEF IInv
<1>2. \/ done[c] = Ok(c) /\ worker[c] = "succeeded"
      \/ done[c] = Failed /\ worker[c] \in {"failed", "rejected"}
  BY <1>1 DEF IInv, OutcomeFollows
<1>3. CASE CallerMoves(c, "returned") /\ Replies(c, done[c])
  BY <1>1, <1>2, <1>3, OwnOutcome
<1>4. CASE /\ Replies(c, done[c]) \/ Replies(c, Failed)
           /\ CallerMoves(c, "store") \/ CallerMoves(c, "leave")
  BY <1>1, <1>4, CallerGoesOn DEF Replies
<1> QED
  BY <1>1, <1>3, <1>4

LEMMA GiveUpIsReturn ==
  ASSUME IInv, NEW c \in Calls, GiveUp(c)
  PROVE  Promise!Return({c}) \/ UNCHANGED Promise!vars
<1>1. /\ caller[c] = "wait" /\ c \in ctxDone /\ Replies(c, Failed)
      /\ UNCHANGED <<ctxDone, worker, version, seen, before, open>>
      /\ CallerMoves(c, "returned") \/ CallerMoves(c, "leave")
  BY GiveUpEffect DEF IInv
<1>2. CASE CallerMoves(c, "returned")
  BY <1>1, <1>2, OwnOutcome
<1>3. CASE CallerMoves(c, "leave")
  BY <1>1, <1>3, CallerGoesOn DEF Replies
<1> QED
  BY <1>1, <1>2, <1>3

LEMMA HandleIsReach ==
  ASSUME IInv, NEW c \in Calls, Handle(c)
  PROVE  Promise!Reach(c)
<1>1. /\ worker[c] = "handler" /\ WorkerMoves(c, "returning")
      /\ UNCHANGED <<caller, reply, ctxDone, before, open>>
  BY HandleEffect DEF IInv
<1>2. Work[c] = "none" /\ Work' = [Work EXCEPT ![c] = "reached"]
      /\ Asked' = Asked /\ Answers' = Answers
  BY <1>1, WorkerEnters, StagesAre DEF IInv
<1>3. c \in Asked
  BY <1>1, WorkIsAskedFor DEF IInv
<1> QED
  BY <1>1, <1>2, <1>3 DEF Promise!Reach, Handle

LEMMA WaitingIsUnderWay ==
  ASSUME AnswersAreResults
  PROVE  Promise!Waiting = UnderWay
<1>1. \A c \in Calls : caller[c] = "returned" => reply[c] # Nothing
  <2> SUFFICES ASSUME NEW c \in Calls, caller[c] = "returned" PROVE reply[c] # Nothing
    OBVIOUS
  <2>1. reply[c] = Failed \/ \E d \in Calls : reply[c] = Ok(d)
    BY DEF AnswersAreResults, ResultOf
  <2> QED
    BY <2>1, OutcomesAre
<1>2. Promise!Nothing = Nothing
  BY DEF Promise!Nothing, Nothing
<1> QED
  BY <1>1, <1>2 DEF Promise!Waiting, UnderWay, Asked, Answers

LEMMA HandlerReturnsIsSeen ==
  ASSUME IInv, NEW c \in Calls, HandlerReturns(c)
  PROVE  Promise!Succeed(c) \/ UNCHANGED Promise!vars
<1>1. /\ worker[c] = "returning"
      /\ \/ WorkerMoves(c, "clear")
         \/ Kind[c] # "mutation" /\ WorkerMoves(c, "succeeded")
      /\ UNCHANGED <<caller, reply, ctxDone, version, seen, before, open>>
  BY HandlerReturnsEffect DEF IInv
<1>2. CASE WorkerMoves(c, "clear")
  BY <1>1, <1>2, WorkerGoesOn, StagesAre
<1>3. CASE Kind[c] # "mutation" /\ WorkerMoves(c, "succeeded")
  <2>1. Work[c] = "reached" /\ Work' = [Work EXCEPT ![c] = "succeeded"]
        /\ Asked' = Asked /\ Answers' = Answers
    BY <1>1, <1>3, WorkerEnters, StagesAre DEF IInv
  <2> QED
    BY <1>1, <1>3, <2>1 DEF Promise!Succeed
<1> QED
  BY <1>1, <1>2, <1>3

LEMMA ClearIsSucceed ==
  ASSUME IInv, NEW c \in Calls, ClearCache(c)
  PROVE  Promise!Succeed(c)
<1>1. /\ worker[c] = "clear" /\ WorkerMoves(c, "succeeded")
      /\ open' = [open EXCEPT ![c] = UnderWay]
      /\ UNCHANGED <<caller, reply, ctxDone, version, seen, before>>
  BY ClearCacheEffect DEF IInv
<1>2. Work[c] = "reached" /\ Work' = [Work EXCEPT ![c] = "succeeded"]
      /\ Asked' = Asked /\ Answers' = Answers
  BY <1>1, WorkerEnters, StagesAre DEF IInv
<1>3. Kind[c] = "mutation" /\ Promise!Waiting = UnderWay
  BY <1>1, WaitingIsUnderWay DEF IInv, LoadsHaveSucceeded
<1> QED
  BY <1>1, <1>2, <1>3 DEF Promise!Succeed

LEMMA CancelIsSeen ==
  ASSUME IInv, NEW c \in Calls, Cancel(c)
  PROVE  Promise!Cancel(c)
<1>1. c \in UnderWay /\ ctxDone' = ctxDone \cup {c}
  BY DEF Cancel, UnderWay
<1>2. UNCHANGED <<caller, reply, worker, version, seen, before, open>>
  BY CancelEffect DEF IInv
<1>3. Asked' = Asked /\ Answers' = Answers /\ Work' = Work
  BY <1>2 DEF Asked, Answers, Work
<1> QED
  BY <1>1, <1>2, <1>3, WaitingIsUnderWay DEF IInv, Promise!Cancel

LEMMA StepKeepsPromise ==
  ASSUME IInv, [Next]_vars
  PROVE  [Promise!Next]_(Promise!vars)
<1> USE DEF Promise!Next
<1>1. ASSUME NEW c \in Calls, Execute(c) PROVE Promise!Next
  BY <1>1, ExecuteIsAsked
<1>2. ASSUME NEW c \in Calls, JoinFlight(c) PROVE UNCHANGED Promise!vars
  BY <1>2, JoinFlightEffect, CallerGoesOn DEF IInv
<1>3. ASSUME NEW c \in Calls, Recheck(c) PROVE UNCHANGED Promise!vars
  BY <1>3, RecheckEffect, CallerGoesOn DEF IInv, Replies
<1>4. ASSUME NEW c \in Calls, Store(c) PROVE UNCHANGED Promise!vars
  BY <1>4, StoreEffect, CallerGoesOn DEF IInv
<1>5. ASSUME NEW c \in Calls, LeaveFlight(c) PROVE Promise!Next
  BY <1>5, LeaveIsReturn
<1>6. ASSUME NEW c \in Calls, EnqueueCall(c) PROVE UNCHANGED Promise!vars
  BY <1>6, EnqueueEffect, CallerGoesOn DEF IInv
<1>7. ASSUME NEW c \in Calls, Signal(c) PROVE UNCHANGED Promise!vars
  BY <1>7, SignalEffect, CallerGoesOn DEF IInv
<1>8. ASSUME NEW c \in Calls, Receive(c) PROVE Promise!Next \/ UNCHANGED Promise!vars
  BY <1>8, ReceiveIsReturn
<1>9. ASSUME NEW c \in Calls, GiveUp(c) PROVE Promise!Next \/ UNCHANGED Promise!vars
  BY <1>9, GiveUpIsReturn
<1>10. ASSUME NEW c \in Calls, RunChecks(c) PROVE Promise!Next \/ UNCHANGED Promise!vars
  <2>1. /\ WorkerMoves(c, "handler") \/ WorkerMoves(c, "failed")
        /\ UNCHANGED <<caller, reply, ctxDone, version, seen, before, open>>
    BY <1>10, RunChecksEffect DEF IInv
  <2>2. worker[c] = "started"
    BY <1>10 DEF RunChecks
  <2>3. CASE WorkerMoves(c, "handler")
    BY <2>1, <2>2, <2>3, WorkerGoesOn, StagesAre
  <2>4. CASE WorkerMoves(c, "failed")
    BY <2>1, <2>2, <2>4, FailedStep DEF IInv
  <2> QED
    BY <2>1, <2>3, <2>4
<1>11. ASSUME NEW c \in Calls, Handle(c) PROVE Promise!Next
  BY <1>11, HandleIsReach
<1>12. ASSUME NEW c \in Calls, HandlerReturns(c) PROVE Promise!Next \/ UNCHANGED Promise!vars
  BY <1>12, HandlerReturnsIsSeen
<1>13. ASSUME NEW c \in Calls, HandlerFails(c) PROVE Promise!Next
  BY <1>13, HandlerFailsEffect, FailedStep DEF IInv
<1>14. ASSUME NEW c \in Calls, ClearCache(c) PROVE Promise!Next
  BY <1>14, ClearIsSucceed
<1>15. ASSUME NEW c \in Calls, Cancel(c) PROVE Promise!Next
  BY <1>15, CancelIsSeen
<1>16. ASSUME NEW g \in Drains, DrainDequeue(g) PROVE UNCHANGED Promise!vars
  BY <1>16, DrainDequeueEffect, DrainsAreUnseen DEF IInv
<1>17. ASSUME NEW g \in Drains, DrainSubmit(g) PROVE UNCHANGED Promise!vars
  <2>1. /\ drain[g].job \in Calls /\ WorkerMoves(drain[g].job, "started")
        /\ UNCHANGED <<caller, reply, ctxDone, version, seen, before, open>>
    BY <1>17, DrainSubmitEffect DEF IInv
  <2>2. worker[drain[g].job] = "none"
    BY <2>1 DEF IInv, OnePlace, Held
  <2> QED
    BY <2>1, <2>2, WorkerGoesOn, StagesAre
<1>18. ASSUME NEW g \in Drains, DrainReject(g) PROVE Promise!Next
  <2>1. /\ drain[g].job \in Calls /\ WorkerMoves(drain[g].job, "rejected")
        /\ UNCHANGED <<caller, reply, ctxDone, version, seen, before, open>>
    BY <1>18, DrainRejectEffect DEF IInv
  <2>2. drain[g].job \in Held /\ worker[drain[g].job] = "none"
    BY <2>1 DEF IInv, OnePlace, Held
  <2> QED
    BY <2>1, <2>2, FailedStep DEF IInv
<1>19. ASSUME NEW g \in Drains, DrainExit(g) PROVE UNCHANGED Promise!vars
  BY <1>19, DrainExitEffect, DrainsAreUnseen DEF IInv
<1>20. ASSUME NEW g \in Drains, DrainRearm(g) PROVE UNCHANGED Promise!vars
  BY <1>20, DrainRearmEffect, DrainsAreUnseen DEF IInv
<1>21. ASSUME NEW k \in Keys, Expire(k) PROVE UNCHANGED Promise!vars
  BY <1>21, ExpireEffect, DrainsAreUnseen DEF IInv
<1>22. CASE ReleasePool
  BY <1>22, ReleaseEffect, DrainsAreUnseen
<1>23. CASE UNCHANGED vars
  BY <1>23, StutterEffect, DrainsAreUnseen
<1> QED
  BY <1>1, <1>2, <1>3, <1>4, <1>5, <1>6, <1>7, <1>8, <1>9, <1>10, <1>11,
     <1>12, <1>13, <1>14, <1>15, <1>16, <1>17, <1>18, <1>19, <1>20, <1>21,
     <1>22, <1>23
  DEF Next, CallerStep, WorkerStep, DrainStep

\* However queue, drains, pool, flights and cache interleave, a call of Execute
\* (dispatcher.go:73-192) returns once, with the result of its own handler or of
\* another query of its key, no older than the mutations that had returned before it,
\* unless that result, or one who shares it, was under way when they cleared the cache.
THEOREM DispatcherKeepsItsPromise == Spec => KeepsItsPromise
<1>1. Init => Promise!Init
  <2> SUFFICES ASSUME Init PROVE Promise!Init
    OBVIOUS
  <2>1. Asked = {} /\ Answers = [c \in Calls |-> Promise!Nothing]
    BY DEF Init, Asked, Answers, Promise!Nothing, Nothing
  <2>2. Work = [c \in Calls |-> "none"]
    BY StagesAre DEF Init, Work
  <2> QED
    BY <2>1, <2>2 DEF Init, Promise!Init
<1>2. IInv /\ [Next]_vars => [Promise!Next]_(Promise!vars)
  BY StepKeepsPromise
<1> QED
  BY <1>1, <1>2, SpecIInv, PTL DEF Spec, KeepsItsPromise, Promise!Spec
=============================================================================
