----------------------------- MODULE FairQueue -----------------------------
(***************************************************************************)
(* utils/fairness/queue.go: one FIFO of jobs per user and a ring of the    *)
(* users that have something waiting.  Every method runs under queue.mu,   *)
(* so each operation is one atomic step.                                   *)
(*                                                                         *)
(* The Go maps are total functions here: a user whose key was deleted from *)
(* queue.queues has the empty sequence, one whose key was deleted from     *)
(* queue.inReady has FALSE.                                                *)
(***************************************************************************)
EXTENDS Naturals, Sequences, FiniteSets

CONSTANTS
  Users,      \* user names after normalizeUserName
  Anonymous,  \* the name of a caller that gave a blank one
  Blank,      \* what strings.TrimSpace leaves of a blank name
  RawNames,   \* user names as callers write them
  TrimSpace,  \* RawNames -> Users \cup {Blank}: strings.TrimSpace
  Jobs        \* jobs with a non-nil Run; a nil Run is refused with no effect

ASSUME FairQueueAssumption ==
  /\ Anonymous \in Users
  /\ Blank \notin Users
  /\ TrimSpace \in [RawNames -> Users \cup {Blank}]

VARIABLES
  queues,       \* queue.queues: the jobs of each user, oldest first
  readyUsers,   \* queue.readyUsers: the ring, next user to serve first
  inReady,      \* queue.inReady: who is in the ring
  pendingCount  \* queue.pendingCount

queueVars == <<queues, readyUsers, inReady, pendingCount>>

QueueInit ==
  /\ queues = [u \in Users |-> <<>>]
  /\ readyUsers = <<>>
  /\ inReady = [u \in Users |-> FALSE]
  /\ pendingCount = 0

normalizeUserName(name) ==
  IF TrimSpace[name] = Blank THEN Anonymous ELSE TrimSpace[name]

\* Mutation: Enqueue forgets pendingCount.
EnqueueUncounted(name, job) ==
  LET user == normalizeUserName(name) IN
  /\ queues' = [queues EXCEPT ![user] = Append(@, job)]
  /\ pendingCount' = pendingCount
  /\ readyUsers' = IF inReady[user] THEN readyUsers ELSE Append(readyUsers, user)
  /\ inReady' = [inReady EXCEPT ![user] = TRUE]

\* The job goes behind the jobs of its own user; the user joins the end of
\* the ring unless it is already in it.
EnqueueJob(name, job) ==
  LET user == normalizeUserName(name) IN
  /\ queues' = [queues EXCEPT ![user] = Append(@, job)]
  /\ pendingCount' = pendingCount + 1
  /\ readyUsers' = IF inReady[user] THEN readyUsers ELSE Append(readyUsers, user)
  /\ inReady' = [inReady EXCEPT ![user] = TRUE]

\* The loop of Dequeue drops the users at the front that have no job and
\* stops at the first one that has: position i of the ring.
StopsAt(i) ==
  /\ queues[readyUsers[i]] # <<>>
  /\ \A k \in 1..(i - 1) : queues[readyUsers[k]] = <<>>

DroppedBefore(i) == {readyUsers[k] : k \in 1..(i - 1)}

\* Mutation: a user with more jobs keeps its turn.
DequeueKeepsTurn(user, job) ==
  \E i \in DOMAIN readyUsers :
    LET more == Tail(queues[user]) # <<>>
        rest == SubSeq(readyUsers, i + 1, Len(readyUsers))
    IN /\ StopsAt(i)
       /\ user = readyUsers[i]
       /\ job = Head(queues[user])
       /\ queues' = [queues EXCEPT ![user] = Tail(@)]
       /\ pendingCount' = pendingCount - 1
       /\ readyUsers' = IF more THEN <<user>> \o rest ELSE rest
       /\ inReady' = [u \in Users |-> inReady[u] /\ (u = user => more)]

\* Mutation: the newest job of the user first.
DequeueNewest(user, job) ==
  \E i \in DOMAIN readyUsers :
    LET kept == SubSeq(queues[user], 1, Len(queues[user]) - 1)
        rest == SubSeq(readyUsers, i + 1, Len(readyUsers))
    IN /\ StopsAt(i)
       /\ user = readyUsers[i]
       /\ job = queues[user][Len(queues[user])]
       /\ queues' = [queues EXCEPT ![user] = kept]
       /\ pendingCount' = pendingCount - 1
       /\ readyUsers' = IF kept # <<>> THEN Append(rest, user) ELSE rest
       /\ inReady' = [u \in Users |-> inReady[u] /\ (u = user => kept # <<>>)]

\* Dequeue returning (job, true): the user served goes to the end of the ring
\* if it has more jobs and leaves the ring otherwise.
Dequeue(user, job) ==
  \E i \in DOMAIN readyUsers :
    LET more == Tail(queues[user]) # <<>>
        rest == SubSeq(readyUsers, i + 1, Len(readyUsers))
    IN /\ StopsAt(i)
       /\ user = readyUsers[i]
       /\ job = Head(queues[user])
       /\ queues' = [queues EXCEPT ![user] = Tail(@)]
       /\ pendingCount' = pendingCount - 1
       /\ readyUsers' = IF more THEN Append(rest, user) ELSE rest
       /\ inReady' = [u \in Users |-> /\ inReady[u]
                                      /\ u \notin DroppedBefore(i)
                                      /\ u = user => more]

\* Mutation: the counter falls although nothing was taken.
DequeueNothingCounts ==
  /\ \A i \in DOMAIN readyUsers : ~StopsAt(i)
  /\ readyUsers' = <<>>
  /\ pendingCount' = pendingCount - 1
  /\ UNCHANGED <<queues, inReady>>

\* Dequeue returning (Job{}, false).
DequeueNothing ==
  /\ \A i \in DOMAIN readyUsers : ~StopsAt(i)
  /\ readyUsers' = <<>>
  /\ inReady' = [u \in Users |-> /\ inReady[u]
                                 /\ u \notin DroppedBefore(Len(readyUsers) + 1)]
  /\ UNCHANGED <<queues, pendingCount>>

Pending == pendingCount

-----------------------------------------------------------------------------
\* Positions in the users' FIFOs that hold a job.
Waiting == UNION {{u} \X DOMAIN queues[u] : u \in Users}

QueueTypeOK ==
  /\ queues \in [Users -> Seq(Jobs)]
  /\ readyUsers \in Seq(Users)
  /\ inReady \in [Users -> BOOLEAN]
  /\ pendingCount \in Nat

\* The ring holds each user at most once, and exactly the users with a job
\* waiting: a user left out would never be served, one entered twice would be
\* served twice a round (queue.go:55-58, 70-83).
RingIsWaitingUsers ==
  /\ \A i, j \in DOMAIN readyUsers : readyUsers[i] = readyUsers[j] => i = j
  /\ \A u \in Users : inReady[u] <=> \E i \in DOMAIN readyUsers : readyUsers[i] = u
  /\ \A u \in Users : inReady[u] <=> queues[u] # <<>>
=============================================================================
