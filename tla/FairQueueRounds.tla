-------------------------- MODULE FairQueueRounds --------------------------
(***************************************************************************)
(* The fair queue on its own, driven by any callers of Enqueue and by the  *)
(* schedulers that call Dequeue, with two history variables that record    *)
(* the rounds: who has been served since each waiting user's last turn.    *)
(***************************************************************************)
EXTENDS FairQueue

CONSTANT MaxWaiting  \* bound: jobs one user may have waiting

ASSUME RoundsAssumption == MaxWaiting \in Nat

VARIABLES
  passed,  \* history: the users served since u began to wait for its turn
  served   \* history: whom the last Dequeue served, {} if it found nothing

vars == <<queues, readyUsers, inReady, pendingCount, passed, served>>

Init ==
  /\ QueueInit
  /\ passed = [u \in Users |-> {}]
  /\ served = {}

Submit(name, job) ==
  /\ Len(queues[normalizeUserName(name)]) < MaxWaiting
  /\ EnqueueJob(name, job)
  /\ UNCHANGED <<passed, served>>

Serve(user, job) ==
  /\ Dequeue(user, job)
  /\ served' = {user}
  /\ passed' = [v \in Users |->
                  IF v = user \/ queues[v] = <<>> THEN {}
                  ELSE passed[v] \cup {user}]

ServeNothing == DequeueNothing /\ served' = {} /\ UNCHANGED passed

Next ==
  \/ \E name \in RawNames, job \in Jobs : Submit(name, job)
  \/ \E user \in Users, job \in Jobs : Serve(user, job)
  \/ ServeNothing

\* A scheduler keeps calling Dequeue while anything is pending
\* (dispatcher.go:206-226); Dispatcher.tla shows that one always does.
Fairness == WF_vars(\E user \in Users, job \in Jobs : Serve(user, job))

Spec == Init /\ [][Next]_vars
FairSpec == Spec /\ Fairness

-----------------------------------------------------------------------------
TypeOK ==
  /\ QueueTypeOK
  /\ passed \in [Users -> SUBSET Users]
  /\ served \in SUBSET Users

\* The counter that decides whether a drain goroutine is restarted
\* (dispatcher.go:210) is the number of jobs really waiting.
PendingIsExact == pendingCount = Cardinality(Waiting)

\* What the queue keeps beside the FIFOs agrees with them: the ring with who has
\* a job waiting, and the counter with how many wait.
QueueIsExact == RingIsWaitingUsers /\ PendingIsExact

\* A user that waits sees every other user served at most once before its own
\* turn: whoever was served since it began to wait is behind it in the ring.
PassedAreBehind ==
  \A i, k \in DOMAIN readyUsers :
    readyUsers[k] \in passed[readyUsers[i]] => i < k

\* The promise of queue.go:21-22.
Promise == INSTANCE RoundRobin WITH waiting <- queues
RoundRobinPromise == Promise!Spec

\* Liveness: whoever has a job waiting is served, however fast others submit.
EveryWaiterIsServed ==
  \A u \in Users : (queues[u] # <<>>) ~> (u \in served)
=============================================================================
