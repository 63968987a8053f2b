----------------------------- MODULE ToolCalls -----------------------------
(***************************************************************************)
(* What dispatcher.go promises to those who call Execute: whose result an  *)
(* answer is, and how old it may be.  No queue, no drains, no pool, no     *)
(* cache and no flights.                                                   *)
(***************************************************************************)
EXTENDS Naturals

CONSTANTS Calls, Kind, Key, Unencodable, NoCall  \* as in Dispatcher

VARIABLES
  asked,      \* calls that have been made
  answer,     \* what each call has returned, once it has
  cancelled,  \* calls whose context is cancelled
  work,       \* where the handler of each call stands, if it runs at all
  version,    \* how many mutations have changed the data
  seen,       \* the version each handler read or produced
  before,     \* before[c]: the mutations that had returned when c was made
  open        \* open[m]: the calls that waited when mutation m succeeded

vars == <<asked, answer, cancelled, work, version, seen, before, open>>

Nothing == [status |-> "none", by |-> NoCall]
Failed == [status |-> "error", by |-> NoCall]
Ok(c) == [status |-> "ok", by |-> c]

Init ==
  /\ asked = {} /\ cancelled = {}
  /\ answer = [c \in Calls |-> Nothing]
  /\ work = [c \in Calls |-> "none"]
  /\ version = 0 /\ seen = [c \in Calls |-> 0]
  /\ before = [c \in Calls |-> {}] /\ open = [c \in Calls |-> {}]

Waiting == {c \in asked : answer[c] = Nothing}
Returned == {m \in Calls : Kind[m] = "mutation" /\ answer[m].status = "ok"}

\* Queries of one key may have each other's result.
Alike(c, d) == c = d \/ (Kind[c] = "query" /\ Kind[d] = "query" /\ Key[c] = Key[d])

\* d has seen what m did, unless d, or one of those who share its result,
\* was already waiting when m succeeded.
Fresh(d, m, sharers) == seen[m] <= seen[d] \/ ({d} \cup sharers) \cap open[m] # {}

Succeeded(sharers, d, since) ==
  /\ work[d] = "succeeded"
  /\ \A c \in sharers : Alike(c, d) /\ \A m \in since[c] : Fresh(d, m, sharers)

Broke(sharers, d) ==
  /\ \/ d \in cancelled \/ work[d] = "failed"
     \/ d \in Unencodable /\ work[d] = "succeeded"
  /\ \A c \in sharers : Alike(c, d)

Give(sharers, outcome) ==
  answer' = [c \in Calls |-> IF c \in sharers THEN outcome ELSE answer[c]]

\* A call that finds a result returns at once.
Ask(c) ==
  /\ c \notin asked
  /\ asked' = asked \cup {c}
  /\ before' = [before EXCEPT ![c] = Returned]
  /\ \/ UNCHANGED answer
     \/ \E d \in Calls : Succeeded({c}, d, before') /\ Give({c}, Ok(d))
  /\ UNCHANGED <<cancelled, work, version, seen, open>>

Return(sharers) ==
  /\ sharers \subseteq Waiting
  /\ \E d \in Calls :
       \/ Succeeded(sharers, d, before) /\ Give(sharers, Ok(d))
       \/ Broke(sharers, d) /\ Give(sharers, Failed)
  /\ UNCHANGED <<asked, cancelled, work, version, seen, before, open>>

Cancel(c) ==
  /\ c \in Waiting
  /\ cancelled' = cancelled \cup {c}
  /\ UNCHANGED <<asked, answer, work, version, seen, before, open>>

\* The handler of a call reaches the data once, though its caller may be gone.
Reach(c) ==
  /\ c \in asked /\ work[c] = "none"
  /\ work' = [work EXCEPT ![c] = "reached"]
  /\ version' = IF Kind[c] = "mutation" THEN version + 1 ELSE version
  /\ seen' = [seen EXCEPT ![c] = version']
  /\ UNCHANGED <<asked, answer, cancelled, before, open>>

Succeed(c) ==
  /\ work[c] = "reached"
  /\ work' = [work EXCEPT ![c] = "succeeded"]
  /\ open' = IF Kind[c] = "mutation" THEN [open EXCEPT ![c] = Waiting] ELSE open
  /\ UNCHANGED <<asked, answer, cancelled, version, seen, before>>

\* Before it has reached the data or after.
Fail(c) ==
  /\ c \in asked /\ work[c] \in {"none", "reached"}
  /\ work' = [work EXCEPT ![c] = "failed"]
  /\ UNCHANGED <<asked, answer, cancelled, version, seen, before, open>>

Next ==
  \/ \E c \in Calls : Ask(c) \/ Cancel(c) \/ Reach(c) \/ Succeed(c) \/ Fail(c)
  \/ \E sharers \in SUBSET Calls : Return(sharers)

Spec == Init /\ [][Next]_vars
=============================================================================
