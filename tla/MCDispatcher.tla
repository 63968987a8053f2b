---------------------------- MODULE MCDispatcher ----------------------------
(* Two users.  alice makes the same query twice (q1, q2: one cache key),   *)
(* bob runs a mutation (m1) and an LLM tool (l1).                          *)
EXTENDS Dispatcher

CONSTANTS alice, bob, none, q1, q2, m1, l1, ka, kb, d1, d2

MCUsers == {alice, bob}
MCTrimSpace == [name \in MCUsers |-> name]

\* One dispatcher, two queries of one key and a mutation.
QueryCalls == {q1, q2, m1}
CallerNameOf(calls) == [c \in calls |-> IF c \in {q1, q2} THEN alice ELSE bob]
KindOf(calls) ==
  [c \in calls |-> IF c = m1 THEN "mutation" ELSE IF c = l1 THEN "llm" ELSE "query"]
KeyOf(calls) == [c \in calls |-> IF c \in {q1, q2} THEN ka ELSE kb]

QueryCallerName == CallerNameOf(QueryCalls)
QueryKind == KindOf(QueryCalls)
QueryKey == KeyOf(QueryCalls)
QueryDispatcherOf == [c \in QueryCalls |-> d1]

\* Two dispatchers, two queries of one key, an LLM tool on the other one.
SharedCalls == {q1, q2, l1}
SharedCallerName == CallerNameOf(SharedCalls)
SharedKind == KindOf(SharedCalls)
SharedKey == KeyOf(SharedCalls)
SharedDispatcherOf == [c \in SharedCalls |-> IF c = l1 THEN d2 ELSE d1]
=============================================================================
