---------------------------- MODULE RoundRobin ----------------------------
(***************************************************************************)
(* What utils/fairness promises (queue.go:21-22): jobs of one user run in  *)
(* the order they came, and no user is served twice while another user     *)
(* waits.  No ring, no flags, no counter: only who waits with which jobs,  *)
(* and who has been served since a waiting user's last turn.               *)
(***************************************************************************)
EXTENDS Naturals, Sequences

CONSTANTS Users, Jobs

VARIABLES
  waiting,  \* waiting[u]: the jobs of u, oldest first
  passed    \* passed[u]: the users served since u began to wait for its turn

Init ==
  /\ waiting = [u \in Users |-> <<>>]
  /\ passed = [u \in Users |-> {}]

Submit(u, j) ==
  /\ waiting' = [waiting EXCEPT ![u] = Append(@, j)]
  /\ UNCHANGED passed

\* u may be served only if no other waiting user has seen u served already.
Serve(u, j) ==
  /\ waiting[u] # <<>>
  /\ j = Head(waiting[u])
  /\ \A v \in Users \ {u} : u \notin passed[v]
  /\ waiting' = [waiting EXCEPT ![u] = Tail(@)]
  /\ passed' = [v \in Users |->
                  IF v = u \/ waiting[v] = <<>> THEN {} ELSE passed[v] \cup {u}]

Next == \E u \in Users, j \in Jobs : Submit(u, j) \/ Serve(u, j)

Spec == Init /\ [][Next]_<<waiting, passed>>
=============================================================================
