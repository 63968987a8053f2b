----------------------------- MODULE ToolBudget -----------------------------
(***************************************************************************)
(* What one run of the orchestrator promises to the tools it may call      *)
(* (registry.go:68-83, orchestrator.go:86-97): how often each of them may  *)
(* run and succeed, and what a run that ends with an answer has done.  No  *)
(* rounds, no batches, no messages, no cached results.                     *)
(***************************************************************************)
EXTENDS Naturals

CONSTANTS
  Tools, Kind, RunOnce, MaxCalls, Terminal,
  MaxLLMTools, MaxMutations,
  MaxTries       \* no call of a mutation is tried more often than this

VARIABLES
  succeeded,     \* how often each tool has succeeded
  llmCalls,      \* how often the LLM tools have succeeded, taken together
  mutations,     \* and the mutations
  mutationRuns,  \* executions of mutations, retries and failures included
  outcome,       \* "none" while the run goes on, then "result" or "error"
  need,          \* how often each tool must have succeeded before an answer
  any            \* and tools of which one must have succeeded, if there are any

vars == <<succeeded, llmCalls, mutations, mutationRuns, outcome, need, any>>

Running == outcome = "none"

Add(n, t, kind) == IF Kind[t] = kind THEN n + 1 ELSE n

\* A call that was admitted may run once more for each retry of its tool.
Runs(t) ==
  /\ Kind[t] = "mutation" => mutationRuns < MaxMutations * MaxTries
  /\ mutationRuns' = Add(mutationRuns, t, "mutation")

\* A terminal tool ends the run by itself.
Succeed(t) ==
  /\ Running
  /\ RunOnce[t] => succeeded[t] = 0
  /\ MaxCalls[t] > 0 => succeeded[t] < MaxCalls[t]
  /\ Kind[t] = "llm" => llmCalls < MaxLLMTools
  /\ Kind[t] = "mutation" => mutations < MaxMutations
  /\ Runs(t)
  /\ succeeded' = [succeeded EXCEPT ![t] = @ + 1]
  /\ llmCalls' = Add(llmCalls, t, "llm") /\ mutations' = Add(mutations, t, "mutation")
  /\ outcome' = IF Terminal[t] THEN "result" ELSE outcome
  /\ UNCHANGED <<need, any>>

\* The last of many failures ends the run.
Fail(t) ==
  /\ Running
  /\ Runs(t)
  /\ outcome' \in {"none", "error"}
  /\ UNCHANGED <<succeeded, llmCalls, mutations, need, any>>

\* Any other answer needs the required tools.
Answer ==
  /\ Running
  /\ \A t \in Tools : succeeded[t] >= need[t]
  /\ any = {} \/ \E t \in any : succeeded[t] > 0
  /\ outcome' = "result"
  /\ UNCHANGED <<succeeded, llmCalls, mutations, mutationRuns, need, any>>

GiveUp ==
  /\ Running
  /\ outcome' = "error"
  /\ UNCHANGED <<succeeded, llmCalls, mutations, mutationRuns, need, any>>

Init ==
  /\ succeeded = [t \in Tools |-> 0]
  /\ llmCalls = 0 /\ mutations = 0 /\ mutationRuns = 0
  /\ outcome = "none"
  /\ need \in [Tools -> Nat]
  /\ any \in SUBSET Tools

Next == (\E t \in Tools : Succeed(t) \/ Fail(t)) \/ Answer \/ GiveUp

Spec == Init /\ [][Next]_vars
=============================================================================
