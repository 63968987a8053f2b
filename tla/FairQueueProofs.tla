-------------------------- MODULE FairQueueProofs --------------------------
(***************************************************************************)
(* Proofs about FairQueueRounds for any set of users, spellings, jobs and  *)
(* any bound: the ring invariant, the exact counter, the order of the      *)
(* rounds, and the refinement of RoundRobin.                               *)
(***************************************************************************)
EXTENDS FairQueueRounds, FiniteSetTheorems, TLAPS

USE FairQueueAssumption DEF QueueTypeOK

LEMMA NormalizedIsUser ==
  ASSUME NEW name \in RawNames
  PROVE  normalizeUserName(name) \in Users
BY DEF normalizeUserName

LEMMA SubSeqIsTail ==
  ASSUME NEW S, NEW s \in Seq(S), s # <<>>
  PROVE  /\ SubSeq(s, 2, Len(s)) = Tail(s)
         /\ Tail(s) \in Seq(S)
         /\ Len(Tail(s)) = Len(s) - 1
         /\ \A i \in 1..(Len(s) - 1) : Tail(s)[i] = s[i + 1]
OBVIOUS

\* Under the ring invariant the loop of Dequeue stops at its first iteration:
\* the skip of a user without jobs (queue.go:70-73) is never taken.
LEMMA DequeueServesHead ==
  ASSUME QueueTypeOK, RingIsWaitingUsers,
         NEW user \in Users, NEW job \in Jobs, Dequeue(user, job)
  PROVE  /\ readyUsers # <<>>
         /\ user = readyUsers[1]
         /\ queues[user] # <<>>
         /\ job = Head(queues[user])
         /\ queues' = [queues EXCEPT ![user] = Tail(@)]
         /\ pendingCount' = pendingCount - 1
         /\ readyUsers' = IF Tail(queues[user]) # <<>>
                          THEN Append(Tail(readyUsers), user)
                          ELSE Tail(readyUsers)
         /\ inReady' = [u \in Users |->
                          inReady[u] /\ (u = user => Tail(queues[user]) # <<>>)]
<1>1. PICK i \in DOMAIN readyUsers :
        /\ StopsAt(i)
        /\ user = readyUsers[i]
        /\ job = Head(queues[user])
        /\ queues' = [queues EXCEPT ![user] = Tail(@)]
        /\ pendingCount' = pendingCount - 1
        /\ readyUsers' = IF Tail(queues[user]) # <<>>
                         THEN Append(SubSeq(readyUsers, i + 1, Len(readyUsers)), user)
                         ELSE SubSeq(readyUsers, i + 1, Len(readyUsers))
        /\ inReady' = [u \in Users |-> /\ inReady[u]
                                       /\ u \notin DroppedBefore(i)
                                       /\ u = user => Tail(queues[user]) # <<>>]
  BY DEF Dequeue
<1>2. i \in Nat /\ 1 <= i /\ readyUsers # <<>> /\ 1 \in DOMAIN readyUsers
  OBVIOUS
<1>3. queues[readyUsers[1]] # <<>>
  BY <1>2 DEF RingIsWaitingUsers
<1>4. i = 1
  <2>1. ASSUME i > 1 PROVE 1 \in 1..(i - 1)
    BY <2>1, <1>2
  <2>2. \A k \in 1..(i - 1) : queues[readyUsers[k]] = <<>>
    BY <1>1 DEF StopsAt
  <2>3. QED
    BY <1>2, <1>3, <2>1, <2>2
<1>5. DroppedBefore(i) = {}
  BY <1>4 DEF DroppedBefore
<1>6. SubSeq(readyUsers, i + 1, Len(readyUsers)) = Tail(readyUsers)
  BY <1>2, <1>4, SubSeqIsTail
<1>7. QED
  BY <1>1, <1>2, <1>3, <1>4, <1>5, <1>6

-----------------------------------------------------------------------------
\* The inductive invariant: types, the exact counter, the ring, the order of
\* the rounds, and that nobody has been served "since u began to wait" when u
\* does not wait.
IdleIsUnpassed == \A u \in Users : queues[u] = <<>> => passed[u] = {}

IInv ==
  /\ TypeOK
  /\ IsFiniteSet(Waiting) /\ PendingIsExact
  /\ RingIsWaitingUsers
  /\ PassedAreBehind
  /\ IdleIsUnpassed

\* A job more in u's FIFO adds one position, a job less removes the last one.
LEMMA WaitingGrows ==
  ASSUME QueueTypeOK, IsFiniteSet(Waiting), NEW u \in Users, NEW job \in Jobs,
         queues' = [queues EXCEPT ![u] = Append(@, job)]
  PROVE  /\ IsFiniteSet(Waiting')
         /\ Cardinality(Waiting') = Cardinality(Waiting) + 1
<1> DEFINE last == <<u, Len(queues[u]) + 1>>
<1>1. DOMAIN queues[u] = 1..Len(queues[u]) /\ Len(queues[u]) \in Nat
  OBVIOUS
<1>2. DOMAIN queues'[u] = 1..(Len(queues[u]) + 1)
  OBVIOUS
<1>3. \A v \in Users \ {u} : queues'[v] = queues[v]
  OBVIOUS
<1>4. Waiting' = Waiting \cup {last}
  BY <1>1, <1>2, <1>3 DEF Waiting
<1>5. last \notin Waiting
  BY <1>1 DEF Waiting
<1>6. QED
  BY <1>4, <1>5, FS_AddElement

LEMMA WaitingShrinks ==
  ASSUME QueueTypeOK, IsFiniteSet(Waiting), NEW u \in Users, queues[u] # <<>>,
         queues' = [queues EXCEPT ![u] = Tail(@)]
  PROVE  /\ IsFiniteSet(Waiting')
         /\ Cardinality(Waiting') = Cardinality(Waiting) - 1
         /\ Cardinality(Waiting) \in Nat \ {0}
<1> DEFINE last == <<u, Len(queues[u])>>
<1>1. /\ DOMAIN queues[u] = 1..Len(queues[u])
      /\ Len(queues[u]) \in Nat /\ Len(queues[u]) # 0
  OBVIOUS
<1>2. DOMAIN queues'[u] = 1..(Len(queues[u]) - 1)
  OBVIOUS
<1>3. \A v \in Users \ {u} : queues'[v] = queues[v]
  OBVIOUS
<1>4. Waiting' = Waiting \ {last}
  BY <1>1, <1>2, <1>3 DEF Waiting
<1>5. last \in Waiting
  BY <1>1 DEF Waiting
<1>6. Cardinality(Waiting) \in Nat /\ Cardinality(Waiting) # 0
  BY <1>5, FS_CardinalityType, FS_EmptySet
<1> HIDE DEF last
<1>7. /\ IsFiniteSet(Waiting \ {last})
      /\ Cardinality(Waiting \ {last})
           = IF last \in Waiting THEN Cardinality(Waiting) - 1 ELSE Cardinality(Waiting)
  BY FS_RemoveElement
<1>8. QED
  BY <1>4, <1>5, <1>6, <1>7

LEMMA InitIInv == Init => IInv
<1> SUFFICES ASSUME Init PROVE IInv
  OBVIOUS
<1>1. Waiting = {}
  BY DEF Init, QueueInit, Waiting
<1>2. IsFiniteSet(Waiting) /\ PendingIsExact
  BY <1>1, FS_EmptySet DEF Init, QueueInit, PendingIsExact
<1>3. TypeOK /\ RingIsWaitingUsers /\ PassedAreBehind /\ IdleIsUnpassed
  BY DEF Init, QueueInit, TypeOK, RingIsWaitingUsers, PassedAreBehind,
         IdleIsUnpassed
<1>4. QED
  BY <1>2, <1>3 DEF IInv

LEMMA SubmitIInv ==
  ASSUME IInv, NEW name \in RawNames, NEW job \in Jobs, Submit(name, job)
  PROVE  IInv'
<1> DEFINE user == normalizeUserName(name)
<1>0. user \in Users
  BY NormalizedIsUser
<1>1. /\ queues' = [queues EXCEPT ![user] = Append(@, job)]
      /\ pendingCount' = pendingCount + 1
      /\ readyUsers' = IF inReady[user] THEN readyUsers ELSE Append(readyUsers, user)
      /\ inReady' = [inReady EXCEPT ![user] = TRUE]
      /\ passed' = passed /\ served' = served
  BY DEF Submit, EnqueueJob
<1> HIDE DEF user
<1>2. TypeOK'
  BY <1>0, <1>1 DEF IInv, TypeOK
<1>c. (IsFiniteSet(Waiting) /\ PendingIsExact)'
  BY <1>0, <1>1, WaitingGrows DEF IInv, TypeOK, PendingIsExact
<1>3. queues'[user] # <<>> /\ \A u \in Users \ {user} : queues'[u] = queues[u]
  <2>1. Len(queues'[user]) = Len(queues[user]) + 1 /\ Len(queues[user]) \in Nat
    BY <1>0, <1>1 DEF IInv, TypeOK
  <2>2. queues'[user] # <<>>
    BY <2>1
  <2>3. \A u \in Users \ {user} : queues'[u] = queues[u]
    BY <1>0, <1>1 DEF IInv, TypeOK
  <2>4. QED
    BY <2>2, <2>3
<1>4. CASE inReady[user]
  <2>1. readyUsers' = readyUsers /\ inReady' = inReady
    BY <1>0, <1>1, <1>4 DEF IInv, TypeOK
  <2>2. RingIsWaitingUsers'
    BY <1>0, <1>3, <1>4, <2>1 DEF IInv, RingIsWaitingUsers
  <2>3. PassedAreBehind' /\ IdleIsUnpassed'
    BY <1>0, <1>1, <1>3, <2>1 DEF IInv, PassedAreBehind, IdleIsUnpassed
  <2>4. QED
    BY <1>2, <1>c, <2>2, <2>3 DEF IInv
<1>5. CASE ~inReady[user]
  <2>1. /\ Len(readyUsers') = Len(readyUsers) + 1
        /\ \A i \in 1..Len(readyUsers) : readyUsers'[i] = readyUsers[i]
        /\ readyUsers'[Len(readyUsers) + 1] = user
        /\ DOMAIN readyUsers' = 1..(Len(readyUsers) + 1)
        /\ DOMAIN readyUsers = 1..Len(readyUsers)
        /\ Len(readyUsers) \in Nat
    BY <1>0, <1>1, <1>5 DEF IInv, TypeOK
  <2>2. \A i \in 1..Len(readyUsers) : readyUsers[i] # user
    BY <1>0, <1>5, <2>1 DEF IInv, RingIsWaitingUsers
  <2>3. inReady'[user] /\ \A u \in Users \ {user} : inReady'[u] = inReady[u]
    BY <1>0, <1>1 DEF IInv, TypeOK
  <2>4. RingIsWaitingUsers'
    BY <1>0, <1>3, <2>1, <2>2, <2>3 DEF IInv, RingIsWaitingUsers
  <2>5. PassedAreBehind'
    <3>1. passed[user] = {}
      BY <1>0, <1>5 DEF IInv, IdleIsUnpassed, RingIsWaitingUsers
    <3>2. QED
      BY <1>1, <2>1, <3>1 DEF IInv, PassedAreBehind
  <2>6. IdleIsUnpassed'
    BY <1>0, <1>1, <1>3 DEF IInv, IdleIsUnpassed
  <2>7. QED
    BY <1>2, <1>c, <2>4, <2>5, <2>6 DEF IInv
<1>6. QED
  BY <1>4, <1>5

LEMMA ServeIInv ==
  ASSUME IInv, NEW user \in Users, NEW job \in Jobs, Serve(user, job)
  PROVE  IInv'
<1> DEFINE n == Len(readyUsers)
           more == Tail(queues[user]) # <<>>
<1>1. /\ readyUsers # <<>>
      /\ user = readyUsers[1]
      /\ queues[user] # <<>>
      /\ queues' = [queues EXCEPT ![user] = Tail(@)]
      /\ pendingCount' = pendingCount - 1
      /\ readyUsers' = IF more THEN Append(Tail(readyUsers), user)
                       ELSE Tail(readyUsers)
      /\ inReady' = [u \in Users |-> inReady[u] /\ (u = user => more)]
  BY DequeueServesHead DEF Serve, IInv, TypeOK
<1>2. /\ served' = {user}
      /\ passed' = [v \in Users |->
                      IF v = user \/ queues[v] = <<>> THEN {}
                      ELSE passed[v] \cup {user}]
  BY DEF Serve
<1>3. n \in Nat /\ n >= 1 /\ DOMAIN readyUsers = 1..n
  BY <1>1 DEF IInv, TypeOK
<1>4. /\ queues'[user] = Tail(queues[user])
      /\ Tail(queues[user]) \in Seq(Jobs)
      /\ \A u \in Users \ {user} : queues'[u] = queues[u]
  BY <1>1 DEF IInv, TypeOK
<1>5. (IsFiniteSet(Waiting) /\ PendingIsExact)' /\ pendingCount' \in Nat
  <2>1. /\ IsFiniteSet(Waiting')
        /\ Cardinality(Waiting') = Cardinality(Waiting) - 1
        /\ Cardinality(Waiting) \in Nat \ {0}
    BY <1>1, WaitingShrinks DEF IInv, TypeOK
  <2>2. pendingCount = Cardinality(Waiting) /\ pendingCount' = pendingCount - 1
    BY <1>1 DEF IInv, PendingIsExact
  <2>3. QED
    BY <2>1, <2>2 DEF PendingIsExact
<1>6. /\ Tail(readyUsers) \in Seq(Users)
      /\ Len(Tail(readyUsers)) = n - 1
      /\ \A i \in 1..(n - 1) : Tail(readyUsers)[i] = readyUsers[i + 1]
  BY <1>1, SubSeqIsTail DEF IInv, TypeOK
<1>7. TypeOK'
  BY <1>1, <1>2, <1>4, <1>5, <1>6 DEF IInv, TypeOK
\* Position i of the new ring was position i + 1, and the user served, if it
\* has more jobs, is at position n.
<1>8. /\ DOMAIN readyUsers' = IF more THEN 1..n ELSE 1..(n - 1)
      /\ \A i \in 1..(n - 1) : readyUsers'[i] = readyUsers[i + 1]
      /\ more => readyUsers'[n] = user
  BY <1>1, <1>3, <1>6
<1>9. \A i \in 2..n : readyUsers[i] # user
  <2>1. \A i, j \in 1..n : readyUsers[i] = readyUsers[j] => i = j
    BY <1>3 DEF IInv, RingIsWaitingUsers
  <2>2. \A i \in 2..n : i \in 1..n /\ 1 \in 1..n /\ i # 1
    BY <1>3
  <2>3. QED
    BY <1>1, <2>1, <2>2
<1> HIDE DEF n, more
<1>10. RingIsWaitingUsers'
  <2>0. /\ \A i \in 1..(n - 1) : i + 1 \in 1..n /\ i + 1 \in 2..n
        /\ \A i \in 2..n : i - 1 \in 1..(n - 1) /\ (i - 1) + 1 = i
        /\ \A i \in 1..n : i = 1 \/ i \in 2..n
        /\ \A i \in 1..n : i = n \/ i \in 1..(n - 1)
    BY <1>3
  <2>1. \A i, j \in DOMAIN readyUsers' : readyUsers'[i] = readyUsers'[j] => i = j
    <3>1. \A i, j \in 1..n : readyUsers[i] = readyUsers[j] => i = j
      BY <1>3 DEF IInv, RingIsWaitingUsers
    <3>2. \A i, j \in 1..(n - 1) : readyUsers'[i] = readyUsers'[j] => i = j
      BY <1>3, <1>8, <2>0, <3>1
    <3>3. \A i \in 1..(n - 1) : readyUsers'[i] # user
      BY <1>8, <1>9, <2>0
    <3>4. QED
      BY <1>3, <1>8, <2>0, <3>2, <3>3
  <2>2. \A u \in Users : inReady'[u] <=> queues'[u] # <<>>
    <3>1. \A u \in Users : inReady[u] <=> queues[u] # <<>>
      BY DEF IInv, RingIsWaitingUsers
    <3>2. \A u \in Users : inReady'[u] <=> inReady[u] /\ (u = user => more)
      BY <1>1
    <3>3. more <=> queues'[user] # <<>>
      BY <1>4 DEF more
    <3>4. QED
      BY <1>1, <1>4, <3>1, <3>2, <3>3
  <2>3. \A u \in Users : inReady'[u] <=> \E i \in DOMAIN readyUsers' : readyUsers'[i] = u
    <3>1. \A u \in Users : inReady[u] <=> \E i \in 1..n : readyUsers[i] = u
      BY <1>3 DEF IInv, RingIsWaitingUsers
    <3>2. ASSUME NEW u \in Users \ {user}
          PROVE  inReady'[u] <=> \E i \in DOMAIN readyUsers' : readyUsers'[i] = u
      <4>1. (\E i \in 1..n : readyUsers[i] = u) <=> \E i \in 2..n : readyUsers[i] = u
        BY <1>1, <2>0, <3>2, <1>3
      <4>2. (\E i \in 2..n : readyUsers[i] = u)
              <=> \E i \in 1..(n - 1) : readyUsers'[i] = u
        BY <1>8, <2>0
      <4>3. (\E i \in 1..(n - 1) : readyUsers'[i] = u)
              <=> \E i \in DOMAIN readyUsers' : readyUsers'[i] = u
        BY <1>3, <1>8, <2>0, <3>2
      <4>4. inReady'[u] <=> inReady[u]
        BY <1>1, <3>2 DEF IInv, TypeOK
      <4>5. QED
        BY <3>1, <4>1, <4>2, <4>3, <4>4
    <3>3. inReady'[user] <=> \E i \in DOMAIN readyUsers' : readyUsers'[i] = user
      <4>1. \A i \in 1..(n - 1) : readyUsers'[i] # user
        BY <1>8, <1>9, <2>0
      <4>2. inReady'[user] <=> more
        BY <1>4, <2>2 DEF more
      <4>3. QED
        BY <1>3, <1>8, <2>0, <4>1, <4>2
    <3>4. QED
      BY <3>2, <3>3
  <2>4. QED
    BY <2>1, <2>2, <2>3 DEF RingIsWaitingUsers
<1>11. PassedAreBehind'
  <2>1. SUFFICES ASSUME NEW i \in DOMAIN readyUsers', NEW k \in DOMAIN readyUsers',
                        readyUsers'[k] \in passed'[readyUsers'[i]]
                 PROVE  i < k
    BY DEF PassedAreBehind
  <2>2. /\ i \in 1..n /\ k \in 1..n
        /\ readyUsers'[i] \in Users
    BY <1>1, <1>3, <1>7, <1>8 DEF TypeOK
  <2>3. /\ readyUsers'[i] # user
        /\ queues[readyUsers'[i]] # <<>>
        /\ readyUsers'[k] \in passed[readyUsers'[i]] \cup {user}
    BY <1>2, <2>1, <2>2
  <2>4. i \in 1..(n - 1) /\ i + 1 \in 1..n /\ readyUsers'[i] = readyUsers[i + 1]
    BY <1>3, <1>8, <2>2, <2>3
  <2>5. CASE k \in 1..(n - 1)
    <3>1. k + 1 \in 1..n /\ k + 1 \in 2..n /\ readyUsers'[k] = readyUsers[k + 1]
      BY <1>3, <1>8, <2>5
    <3>2. readyUsers[k + 1] \in passed[readyUsers[i + 1]]
      BY <1>9, <2>3, <2>4, <3>1
    <3>3. i + 1 < k + 1
      BY <1>3, <2>4, <3>1, <3>2 DEF IInv, PassedAreBehind
    <3>4. QED
      BY <2>2, <3>3
  <2>6. CASE k = n
    BY <1>3, <2>4, <2>6
  <2>7. QED
    BY <1>3, <2>2, <2>5, <2>6
<1>12. IdleIsUnpassed'
  BY <1>2, <1>4 DEF IInv, IdleIsUnpassed
<1>13. QED
  BY <1>5, <1>7, <1>10, <1>11, <1>12 DEF IInv

\* With the ring invariant an empty-handed Dequeue finds an empty ring and
\* leaves the queue as it was.
LEMMA NothingIsStutter ==
  ASSUME IInv, ServeNothing
  PROVE  UNCHANGED <<queues, readyUsers, inReady, pendingCount, passed>>
<1>1. readyUsers = <<>>
  <2>1. SUFFICES ASSUME readyUsers # <<>> PROVE FALSE
    OBVIOUS
  <2>2. 1 \in DOMAIN readyUsers /\ readyUsers[1] \in Users
    BY <2>1 DEF IInv, TypeOK
  <2>3. queues[readyUsers[1]] # <<>>
    BY <2>2 DEF IInv, RingIsWaitingUsers
  <2>4. StopsAt(1)
    BY <2>3 DEF StopsAt
  <2>5. QED
    BY <2>2, <2>4 DEF ServeNothing, DequeueNothing
<1>2. DroppedBefore(Len(readyUsers) + 1) = {}
  BY <1>1 DEF DroppedBefore
<1>3. inReady' = [u \in Users |-> inReady[u] /\ u \notin {}]
  BY <1>2 DEF ServeNothing, DequeueNothing
<1>4. inReady' = inReady
  <2>1. inReady \in [Users -> BOOLEAN]
    BY DEF IInv, TypeOK
  <2>2. \A u \in Users : (inReady[u] /\ u \notin {}) = inReady[u]
    BY <2>1
  <2>3. QED
    BY <1>3, <2>1, <2>2
<1>5. QED
  BY <1>1, <1>4 DEF ServeNothing, DequeueNothing

LEMMA NextIInv == IInv /\ [Next]_vars => IInv'
<1> SUFFICES ASSUME IInv, [Next]_vars PROVE IInv'
  OBVIOUS
<1>1. ASSUME NEW name \in RawNames, NEW job \in Jobs, Submit(name, job)
      PROVE  IInv'
  BY <1>1, SubmitIInv
<1>2. ASSUME NEW user \in Users, NEW job \in Jobs, Serve(user, job)
      PROVE  IInv'
  BY <1>2, ServeIInv
<1>3. CASE ServeNothing
  <2>1. UNCHANGED <<queues, readyUsers, inReady, pendingCount, passed>> /\ served' = {}
    BY <1>3, NothingIsStutter DEF ServeNothing
  <2>2. QED
    BY <2>1 DEF IInv, TypeOK, PendingIsExact, RingIsWaitingUsers, PassedAreBehind,
                IdleIsUnpassed, Waiting
<1>4. CASE UNCHANGED vars
  BY <1>4 DEF vars, IInv, TypeOK, PendingIsExact, RingIsWaitingUsers,
              PassedAreBehind, IdleIsUnpassed, Waiting
<1>5. QED
  BY <1>1, <1>2, <1>3, <1>4 DEF Next

LEMMA SpecIInv == Spec => []IInv
BY InitIInv, NextIInv, PTL DEF Spec

\* The queue's variables keep their types; in particular pendingCount never
\* goes below zero (queue.go:54, 76).
THEOREM QueueTypes == Spec => []TypeOK
<1>1. IInv => TypeOK
  BY DEF IInv
<1>2. QED
  BY <1>1, SpecIInv, PTL

\* The ring holds exactly the users with waiting jobs, each once, and Pending()
\* is the number of jobs waiting, for any users and any load: no user with a job
\* is ever forgotten, and no drain ends too early (queue.go:54-58, 70-94).
THEOREM QueueBookkeeping == Spec => []QueueIsExact
<1>1. IInv => QueueIsExact
  BY DEF IInv, QueueIsExact
<1>2. QED
  BY <1>1, SpecIInv, PTL

\* Whoever was served since u began to wait stands behind u in the ring.
THEOREM RoundsAreOrdered == Spec => []PassedAreBehind
<1>1. IInv => PassedAreBehind
  BY DEF IInv
<1>2. QED
  BY <1>1, SpecIInv, PTL

-----------------------------------------------------------------------------
LEMMA SubmitImplementsSubmit ==
  ASSUME NEW name \in RawNames, NEW job \in Jobs, Submit(name, job)
  PROVE  Promise!Submit(normalizeUserName(name), job)
BY DEF Submit, EnqueueJob, Promise!Submit

LEMMA ServeImplementsServe ==
  ASSUME IInv, NEW user \in Users, NEW job \in Jobs, Serve(user, job)
  PROVE  Promise!Serve(user, job)
<1>1. /\ readyUsers # <<>>
      /\ user = readyUsers[1]
      /\ queues[user] # <<>>
      /\ job = Head(queues[user])
      /\ queues' = [queues EXCEPT ![user] = Tail(@)]
  BY DequeueServesHead DEF Serve, IInv, TypeOK
<1>2. ASSUME NEW v \in Users \ {user}, user \in passed[v]
      PROVE  FALSE
  <2>1. PICK i \in DOMAIN readyUsers : readyUsers[i] = v
    BY <1>2 DEF IInv, IdleIsUnpassed, RingIsWaitingUsers
  <2>2. 1 \in DOMAIN readyUsers
    BY <1>1 DEF IInv, TypeOK
  <2>3. i < 1
    BY <1>1, <1>2, <2>1, <2>2 DEF IInv, PassedAreBehind
  <2>4. QED
    BY <2>1, <2>3 DEF IInv, TypeOK
<1>3. QED
  BY <1>1, <1>2 DEF Serve, Promise!Serve

\* The queue implements what its comment promises (queue.go:21-22), for any
\* number of users: FIFO per user, and no user served twice while another
\* waits.
THEOREM QueueKeepsPromise == Spec => RoundRobinPromise
<1>1. Init => Promise!Init
  BY DEF Init, QueueInit, Promise!Init
<1>2. IInv /\ [Next]_vars => [Promise!Next]_<<queues, passed>>
  <2> SUFFICES ASSUME IInv, [Next]_vars
               PROVE  [Promise!Next]_<<queues, passed>>
    OBVIOUS
  <2>1. ASSUME NEW name \in RawNames, NEW job \in Jobs, Submit(name, job)
        PROVE  Promise!Next
    BY <2>1, SubmitImplementsSubmit, NormalizedIsUser DEF Promise!Next
  <2>2. ASSUME NEW user \in Users, NEW job \in Jobs, Serve(user, job)
        PROVE  Promise!Next
    BY <2>2, ServeImplementsServe DEF Promise!Next
  <2>3. CASE ServeNothing
    BY <2>3, NothingIsStutter
  <2>4. CASE UNCHANGED vars
    BY <2>4 DEF vars
  <2>5. QED
    BY <2>1, <2>2, <2>3, <2>4 DEF Next
<1>3. QED
  BY <1>1, <1>2, SpecIInv, PTL DEF Spec, RoundRobinPromise, Promise!Spec
=============================================================================
