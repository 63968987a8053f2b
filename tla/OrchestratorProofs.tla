------------------------- MODULE OrchestratorProofs -------------------------
(***************************************************************************)
(* The safety properties of Orchestrator for any tools, arguments,         *)
(* completion policies and limits, and for any model that decides.         *)
(***************************************************************************)
EXTENDS Orchestrator, TLAPS

-----------------------------------------------------------------------------
(* The inductive invariant *)

ControlTyped ==
  /\ config \in Configs
  /\ pc \in {"ask", "prepare", "run", "wait", "done"}
  /\ outcome \in {"none", "result", "error"} /\ (pc = "done" <=> outcome # "none")
  /\ step \in 0..MaxRounds

BatchTyped ==
  /\ batch \in 0..MaxBatch /\ handled \in 0..batch
  /\ answers \in [1..MaxBatch -> Nat]
  /\ pc \in {"run", "wait"} => call.tool \in Tools /\ call.arg \in Args /\ handled < batch

CountsTyped ==
  /\ succeeded \in Tooled(Nat) /\ attempted \in Tooled(Nat)
  /\ invalid \in Tooled(0..MaxInvalid) /\ failures \in Tooled(0..MaxRecoverable)

BudgetsTyped ==
  /\ mutationCalls \in 0..MaxMutations /\ mutationVersion \in 0..mutationCalls
  /\ llmCalls \in 0..MaxLLMTools

FlagsTyped ==
  /\ limitReached \in BOOLEAN /\ rewrites \in BOOLEAN /\ traced \in BOOLEAN
  /\ cancelled \in BOOLEAN /\ failedWithEffect \in BOOLEAN /\ staleReuse \in BOOLEAN

\* While the run goes on, no counter of errors is at its limit.
ErrorsLeft ==
  pc # "done" => \A t \in Tools : invalid[t] < MaxInvalid /\ failures[t] < MaxRecoverable

\* A tool that runs has its place in the budget.
HasPlace ==
  pc \in {"run", "wait"} =>
    /\ Kind[call.tool] = "mutation" => mutationVersion < mutationCalls
    /\ Kind[call.tool] = "llm" => llmCalls < MaxLLMTools

\* The loop answers the calls of a batch in their order, each once.
AnswersFollow ==
  pc # "done" =>
    /\ \A i \in 1..batch : answers[i] = IF i <= handled THEN 1 ELSE 0
    /\ pc = "ask" => handled = batch

\* The ledger's count of mutations is the version of the data, unless one
\* failed after it had changed them.
VersionsAgree ==
  ~failedWithEffect =>
    /\ data = mutationVersion /\ ~staleReuse
    /\ \A q \in queries : q.seen = q.version

\* A tool that runs was let through: it may still succeed once.
StaysFresh == pc \in {"run", "wait"} => Fresh(call.tool)

\* The executions a mutation that was charged still has.
TriesLeft ==
  IF pc \in {"run", "wait"} /\ Kind[call.tool] = "mutation"
  THEN MaxRetries[call.tool] + (IF pc = "run" THEN 2 ELSE 1) - attempt
  ELSE 0

\* The executions of mutations, and those to come, are paid by the calls charged.
RunsAreCharged ==
  /\ mutationRuns \in Nat /\ attempt \in Nat
  /\ pc = "run" => attempt <= MaxRetries[call.tool] + 1
  /\ pc = "wait" => attempt <= MaxRetries[call.tool]
  /\ mutationRuns + TriesLeft <= MaxTries * mutationCalls

Typed == ControlTyped /\ BatchTyped /\ CountsTyped /\ BudgetsTyped /\ FlagsTyped
IInv ==
  /\ Typed /\ ErrorsLeft /\ HasPlace /\ AnswersFollow /\ VersionsAgree
  /\ StaysFresh /\ RunsAreCharged

-----------------------------------------------------------------------------
LEMMA ConstantsAre ==
  /\ MaxRounds \in Nat \ {0} /\ MaxModelRetries \in Nat \ {0} /\ MaxLLMTools \in Nat \ {0}
  /\ MaxMutations \in Nat \ {0} /\ MaxInvalid \in Nat \ {0} /\ MaxRecoverable \in Nat \ {0}
  /\ MaxBatch \in Nat \ {0}
BY OrchestratorAssumption DEF OrchestratorAssumption

LEMMA AnsweredTyped ==
  ASSUME BatchTyped, handled < batch
  PROVE  handled + 1 \in 0..batch /\ Answered \in [1..MaxBatch -> Nat]
BY ConstantsAre DEF BatchTyped, Answered

LEMMA SkippedTyped ==
  ASSUME BatchTyped, SkipRest
  PROVE  answers' \in [1..MaxBatch -> Nat]
BY ConstantsAre DEF BatchTyped, SkipRest

LEMMA Raised ==
  ASSUME NEW S, NEW n \in Nat, NEW f \in [S -> 0..n], NEW s \in S, f[s] < n
  PROVE  [f EXCEPT ![s] = @ + 1] \in [S -> 0..n]
OBVIOUS

LEMMA Reset ==
  ASSUME NEW S, NEW n \in Nat, NEW f \in [S -> 0..n], NEW s \in S
  PROVE  [f EXCEPT ![s] = 0] \in [S -> 0..n]
OBVIOUS

LEMMA Counted ==
  ASSUME NEW S, NEW f \in [S -> Nat], NEW s \in S
  PROVE  [f EXCEPT ![s] = @ + 1] \in [S -> Nat]
OBVIOUS

-----------------------------------------------------------------------------
(* Every step keeps the invariant *)

LEMMA NextControl ==
  ControlTyped /\ [Next]_vars => ControlTyped'
<1> SUFFICES ASSUME ControlTyped, [Next]_vars PROVE ControlTyped'
  OBVIOUS
<1> USE ConstantsAre DEF ControlTyped
<1>1. CASE ModelFails
  BY <1>1 DEF ModelFails, Asking, Finish, progress, ledger, world
<1>2. CASE ModelTruncated
  BY <1>2 DEF ModelTruncated, Asking, Finish, progress, ledger, world
<1>3. CASE ModelSaysText
  BY <1>3 DEF ModelSaysText, Asking, Finish, NextRound, FinishIfComplete, progress, ledger,
     world
<1>4. CASE ModelCallsTools
  BY <1>4 DEF ModelCallsTools, Asking, progress, ledger, world
<1>5. CASE RefuseUnknown
  BY <1>5 DEF RefuseUnknown, Preparing, Refuse, Answered, progress, ledger, world
<1>6. ASSUME NEW t \in Tools, RefuseAtAttemptLimit(t) PROVE ControlTyped'
  BY <1>6 DEF RefuseAtAttemptLimit, Preparing, Refuse, Answered, progress, ledger, world
<1>7. ASSUME NEW t \in Tools, InvalidArguments(t) PROVE ControlTyped'
  BY <1>7 DEF InvalidArguments, Preparing, Refuse, Answered, Finish, progress, ledger, world
<1>8. ASSUME NEW t \in Tools, RefuseRepeated(t) PROVE ControlTyped'
  BY <1>8 DEF RefuseRepeated, Preparing, Refuse, Answered, Admit, progress, ledger, world
<1>9. ASSUME NEW t \in Tools, NEW a \in Args, ReuseQueryResult(t, a) PROVE ControlTyped'
  BY <1>9 DEF ReuseQueryResult, Preparing, Refuse, Answered, Admit, Finish, progress,
     ledger, world
<1>10. ASSUME NEW t \in Tools, NEW a \in Args, RefuseOverBudget(t, a) PROVE ControlTyped'
  BY <1>10 DEF RefuseOverBudget, Preparing, Refuse, Answered, Admit, progress, ledger, world
<1>11. ASSUME NEW t \in Tools, NEW a \in Args, StartTool(t, a) PROVE ControlTyped'
  BY <1>11 DEF StartTool, Preparing, Admit, OverBudget, progress, ledger, world
<1>12. CASE ToolSucceeds
  BY <1>12 DEF ToolSucceeds, Running, Executes, recordSuccessfulTool, Answered, Finish,
     progress, ledger, world
<1>13. ASSUME NEW retryable \in BOOLEAN, NEW effect \in BOOLEAN, ToolFails(retryable, effect) PROVE ControlTyped'
  BY <1>13 DEF ToolFails, Running, Executes, SettleError, SkipRest, Answered, Finish,
     progress, ledger, world
<1>14. CASE RetryTool
  BY <1>14 DEF RetryTool, Waiting, progress, ledger, world
<1>15. CASE StopRetrying
  BY <1>15 DEF StopRetrying, Waiting, SettleError, SkipRest, Answered, Finish, progress,
     ledger, world
<1>16. CASE EndAtLimit
  BY <1>16 DEF EndAtLimit, BatchEnds, Finish, FinishIfComplete, progress, ledger, world
<1>17. CASE CompactionFails
  BY <1>17 DEF CompactionFails, BatchEnds, Finish, progress, ledger, world
<1>18. ASSUME NEW compacted \in BOOLEAN, EndBatch(compacted) PROVE ControlTyped'
  BY <1>18 DEF EndBatch, BatchEnds, Finish, FinishIfComplete, NextRound, progress, ledger,
     world
<1>19. CASE Cancel
  BY <1>19 DEF Cancel, progress, ledger, world
<1>20. CASE UNCHANGED vars
  BY <1>20 DEF vars, progress, ledger, world
<1> QED
  BY <1>1, <1>2, <1>3, <1>4, <1>5, <1>6, <1>7, <1>8, <1>9, <1>10, <1>11,
     <1>12, <1>13, <1>14, <1>15, <1>16, <1>17, <1>18, <1>19, <1>20
  DEF Next, RunStep

LEMMA NextBatch ==
  ControlTyped /\ BatchTyped /\ [Next]_vars => BatchTyped'
<1> SUFFICES ASSUME ControlTyped, BatchTyped, [Next]_vars PROVE BatchTyped'
  OBVIOUS
<1> USE ConstantsAre DEF ControlTyped, BatchTyped
<1>1. CASE ModelFails
  BY <1>1 DEF ModelFails, Asking, Finish, progress, ledger, world
<1>2. CASE ModelTruncated
  BY <1>2 DEF ModelTruncated, Asking, Finish, progress, ledger, world
<1>3. CASE ModelSaysText
  BY <1>3 DEF ModelSaysText, Asking, Finish, NextRound, FinishIfComplete, progress, ledger,
     world
<1>4. CASE ModelCallsTools
  BY <1>4 DEF ModelCallsTools, Asking, progress, ledger, world, Unanswered
<1>5. CASE RefuseUnknown
  <2>1. handled < batch
    BY <1>5 DEF RefuseUnknown, Preparing
  <2> QED
    BY <1>5, <2>1, AnsweredTyped DEF RefuseUnknown, Preparing, Refuse, Admit, Finish
<1>6. ASSUME NEW t \in Tools, RefuseAtAttemptLimit(t) PROVE BatchTyped'
  <2>1. handled < batch
    BY <1>6 DEF RefuseAtAttemptLimit, Preparing
  <2> QED
    BY <1>6, <2>1, AnsweredTyped DEF RefuseAtAttemptLimit, Preparing, Refuse, Admit, Finish
<1>7. ASSUME NEW t \in Tools, InvalidArguments(t) PROVE BatchTyped'
  <2>1. handled < batch
    BY <1>7 DEF InvalidArguments, Preparing
  <2> QED
    BY <1>7, <2>1, AnsweredTyped DEF InvalidArguments, Preparing, Refuse, Admit, Finish
<1>8. ASSUME NEW t \in Tools, RefuseRepeated(t) PROVE BatchTyped'
  <2>1. handled < batch
    BY <1>8 DEF RefuseRepeated, Admit, Preparing
  <2> QED
    BY <1>8, <2>1, AnsweredTyped DEF RefuseRepeated, Preparing, Refuse, Admit, Finish
<1>9. ASSUME NEW t \in Tools, NEW a \in Args, ReuseQueryResult(t, a) PROVE BatchTyped'
  <2>1. handled < batch
    BY <1>9 DEF ReuseQueryResult, Admit, Preparing
  <2> QED
    BY <1>9, <2>1, AnsweredTyped DEF ReuseQueryResult, Preparing, Refuse, Admit, Finish
<1>10. ASSUME NEW t \in Tools, NEW a \in Args, RefuseOverBudget(t, a) PROVE BatchTyped'
  <2>1. handled < batch
    BY <1>10 DEF RefuseOverBudget, Admit, Preparing
  <2> QED
    BY <1>10, <2>1, AnsweredTyped DEF RefuseOverBudget, Preparing, Refuse, Admit, Finish
<1>11. ASSUME NEW t \in Tools, NEW a \in Args, StartTool(t, a) PROVE BatchTyped'
  BY <1>11 DEF StartTool, Preparing, Admit, OverBudget, progress, ledger, world
<1>12. CASE ToolSucceeds
  <2>1. handled < batch
    BY <1>12 DEF ToolSucceeds, Running
  <2>2. answers' = Answered /\ handled' = handled + 1 /\ batch' = batch /\ pc' \in {"prepare", "done"}
    BY <1>12 DEF ToolSucceeds, Finish
  <2> QED
    BY <2>1, <2>2, AnsweredTyped
<1>13. ASSUME NEW retryable \in BOOLEAN, NEW effect \in BOOLEAN, ToolFails(retryable, effect) PROVE BatchTyped'
  <2>1. handled < batch /\ call.tool \in Tools /\ call.arg \in Args
    BY <1>13 DEF ToolFails, Running, Waiting
  <2>2. answers' \in [1..MaxBatch -> Nat] /\ handled' \in 0..batch
    <3>1. CASE UNCHANGED <<answers, handled>>
      BY <3>1
    <3>2. CASE SettleError(call.tool)
      <4>1. \/ answers' = Answered /\ handled' = handled + 1
            \/ SkipRest /\ handled' = batch
        BY <3>2 DEF SettleError
      <4> QED
        BY <2>1, <4>1, AnsweredTyped, SkippedTyped
    <3> QED
      BY <1>13, <3>1, <3>2 DEF ToolFails
  <2>3. /\ UNCHANGED batch /\ pc' \in {"wait", "prepare", "done"}
        /\ pc' = "wait" => UNCHANGED <<call, handled>>
    BY <1>13 DEF ToolFails, SettleError, Finish
  <2> QED
    BY <2>1, <2>2, <2>3
<1>14. CASE RetryTool
  BY <1>14 DEF RetryTool, Waiting, progress, ledger, world
<1>15. CASE StopRetrying
  <2>1. handled < batch /\ call.tool \in Tools /\ call.arg \in Args
    BY <1>15 DEF StopRetrying, Running, Waiting
  <2>2. answers' \in [1..MaxBatch -> Nat] /\ handled' \in 0..batch
    <3>1. CASE UNCHANGED <<answers, handled>>
      BY <3>1
    <3>2. CASE SettleError(call.tool)
      <4>1. \/ answers' = Answered /\ handled' = handled + 1
            \/ SkipRest /\ handled' = batch
        BY <3>2 DEF SettleError
      <4> QED
        BY <2>1, <4>1, AnsweredTyped, SkippedTyped
    <3> QED
      BY <1>15, <3>1, <3>2 DEF StopRetrying
  <2>3. /\ UNCHANGED batch /\ pc' \in {"wait", "prepare", "done"}
        /\ pc' = "wait" => UNCHANGED <<call, handled>>
    BY <1>15 DEF StopRetrying, SettleError, Finish
  <2> QED
    BY <2>1, <2>2, <2>3
<1>16. CASE EndAtLimit
  BY <1>16 DEF EndAtLimit, BatchEnds, Finish, FinishIfComplete, progress, ledger, world
<1>17. CASE CompactionFails
  BY <1>17 DEF CompactionFails, BatchEnds, Finish, progress, ledger, world
<1>18. ASSUME NEW compacted \in BOOLEAN, EndBatch(compacted) PROVE BatchTyped'
  BY <1>18 DEF EndBatch, BatchEnds, Finish, FinishIfComplete, NextRound, progress, ledger,
     world, Unanswered
<1>19. CASE Cancel
  BY <1>19 DEF Cancel, progress, ledger, world
<1>20. CASE UNCHANGED vars
  BY <1>20 DEF vars, progress, ledger, world
<1> QED
  BY <1>1, <1>2, <1>3, <1>4, <1>5, <1>6, <1>7, <1>8, <1>9, <1>10, <1>11,
     <1>12, <1>13, <1>14, <1>15, <1>16, <1>17, <1>18, <1>19, <1>20
  DEF Next, RunStep

LEMMA NextCounts ==
  BatchTyped /\ CountsTyped /\ ErrorsLeft /\ [Next]_vars => CountsTyped'
<1> SUFFICES ASSUME BatchTyped, CountsTyped, ErrorsLeft, [Next]_vars PROVE CountsTyped'
  OBVIOUS
<1> USE ConstantsAre DEF CountsTyped, ErrorsLeft, BatchTyped, Tooled
<1>1. CASE ModelFails
  BY <1>1 DEF ModelFails, Asking, Finish, progress, ledger, world
<1>2. CASE ModelTruncated
  BY <1>2 DEF ModelTruncated, Asking, Finish, progress, ledger, world
<1>3. CASE ModelSaysText
  BY <1>3 DEF ModelSaysText, Asking, Finish, NextRound, FinishIfComplete, progress, ledger,
     world
<1>4. CASE ModelCallsTools
  BY <1>4 DEF ModelCallsTools, Asking, progress, ledger, world
<1>5. CASE RefuseUnknown
  BY <1>5 DEF RefuseUnknown, Preparing, Refuse, Answered, progress, ledger, world
<1>6. ASSUME NEW t \in Tools, RefuseAtAttemptLimit(t) PROVE CountsTyped'
  BY <1>6 DEF RefuseAtAttemptLimit, Preparing, Refuse, Answered, progress, ledger, world
<1>7. ASSUME NEW t \in Tools, InvalidArguments(t) PROVE CountsTyped'
  <2>1. attempted' = [attempted EXCEPT ![t] = @ + 1] /\ invalid' = [invalid EXCEPT ![t] = @ + 1]
    BY <1>7 DEF InvalidArguments
  <2>2. invalid[t] < MaxInvalid
    BY <1>7 DEF InvalidArguments, Preparing
  <2>3. attempted' \in [Tools -> Nat] /\ invalid' \in [Tools -> 0..MaxInvalid]
    BY <2>1, <2>2, Counted, Raised
  <2>4. UNCHANGED <<succeeded, failures>>
    BY <1>7 DEF InvalidArguments
  <2> QED
    BY <2>3, <2>4
<1>8. ASSUME NEW t \in Tools, RefuseRepeated(t) PROVE CountsTyped'
  <2>1. attempted' = [attempted EXCEPT ![t] = @ + 1] /\ invalid' = [invalid EXCEPT ![t] = 0]
    BY <1>8 DEF RefuseRepeated, Admit
  <2>2. attempted' \in [Tools -> Nat] /\ invalid' \in [Tools -> 0..MaxInvalid]
    BY <2>1, Counted, Reset
  <2>3. UNCHANGED <<succeeded, failures>>
    BY <1>8 DEF RefuseRepeated, Admit
  <2> QED
    BY <2>2, <2>3
<1>9. ASSUME NEW t \in Tools, NEW a \in Args, ReuseQueryResult(t, a) PROVE CountsTyped'
  <2>1. attempted' = [attempted EXCEPT ![t] = @ + 1] /\ invalid' = [invalid EXCEPT ![t] = 0]
    BY <1>9 DEF ReuseQueryResult, Admit
  <2>2. attempted' \in [Tools -> Nat] /\ invalid' \in [Tools -> 0..MaxInvalid]
    BY <2>1, Counted, Reset
  <2>3. UNCHANGED <<succeeded, failures>>
    BY <1>9 DEF ReuseQueryResult, Admit
  <2> QED
    BY <2>2, <2>3
<1>10. ASSUME NEW t \in Tools, NEW a \in Args, RefuseOverBudget(t, a) PROVE CountsTyped'
  <2>1. attempted' = [attempted EXCEPT ![t] = @ + 1] /\ invalid' = [invalid EXCEPT ![t] = 0]
    BY <1>10 DEF RefuseOverBudget, Admit
  <2>2. attempted' \in [Tools -> Nat] /\ invalid' \in [Tools -> 0..MaxInvalid]
    BY <2>1, Counted, Reset
  <2>3. UNCHANGED <<succeeded, failures>>
    BY <1>10 DEF RefuseOverBudget, Admit
  <2> QED
    BY <2>2, <2>3
<1>11. ASSUME NEW t \in Tools, NEW a \in Args, StartTool(t, a) PROVE CountsTyped'
  <2>1. attempted' = [attempted EXCEPT ![t] = @ + 1] /\ invalid' = [invalid EXCEPT ![t] = 0]
    BY <1>11 DEF StartTool, Admit
  <2>2. attempted' \in [Tools -> Nat] /\ invalid' \in [Tools -> 0..MaxInvalid]
    BY <2>1, Counted, Reset
  <2>3. UNCHANGED <<succeeded, failures>>
    BY <1>11 DEF StartTool, Admit
  <2> QED
    BY <2>2, <2>3
<1>12. CASE ToolSucceeds
  <2>1. call.tool \in Tools
    BY <1>12 DEF ToolSucceeds, Running
  <2>2. /\ succeeded' = [succeeded EXCEPT ![call.tool] = @ + 1]
        /\ failures' = [failures EXCEPT ![call.tool] = 0]
        /\ UNCHANGED <<attempted, invalid>>
    BY <1>12 DEF ToolSucceeds, recordSuccessfulTool
  <2>3. succeeded' \in [Tools -> Nat] /\ failures' \in [Tools -> 0..MaxRecoverable]
    BY <2>1, <2>2, Counted, Reset
  <2> QED
    BY <2>2, <2>3
<1>13. ASSUME NEW retryable \in BOOLEAN, NEW effect \in BOOLEAN, ToolFails(retryable, effect) PROVE CountsTyped'
  <2>1. call.tool \in Tools /\ failures[call.tool] < MaxRecoverable
    BY <1>13 DEF ToolFails, Running, Waiting
  <2>2. failures' = [failures EXCEPT ![call.tool] = @ + 1] \/ failures' = failures
    BY <1>13 DEF ToolFails, SettleError
  <2>3. [failures EXCEPT ![call.tool] = @ + 1] \in [Tools -> 0..MaxRecoverable]
    BY <2>1, Raised
  <2>4. UNCHANGED <<succeeded, attempted, invalid>>
    BY <1>13 DEF ToolFails
  <2> QED
    BY <2>2, <2>3, <2>4
<1>14. CASE RetryTool
  BY <1>14 DEF RetryTool, Waiting, progress, ledger, world
<1>15. CASE StopRetrying
  <2>1. call.tool \in Tools /\ failures[call.tool] < MaxRecoverable
    BY <1>15 DEF StopRetrying, Running, Waiting
  <2>2. failures' = [failures EXCEPT ![call.tool] = @ + 1] \/ failures' = failures
    BY <1>15 DEF StopRetrying, SettleError
  <2>3. [failures EXCEPT ![call.tool] = @ + 1] \in [Tools -> 0..MaxRecoverable]
    BY <2>1, Raised
  <2>4. UNCHANGED <<succeeded, attempted, invalid>>
    BY <1>15 DEF StopRetrying
  <2> QED
    BY <2>2, <2>3, <2>4
<1>16. CASE EndAtLimit
  BY <1>16 DEF EndAtLimit, BatchEnds, Finish, FinishIfComplete, progress, ledger, world
<1>17. CASE CompactionFails
  BY <1>17 DEF CompactionFails, BatchEnds, Finish, progress, ledger, world
<1>18. ASSUME NEW compacted \in BOOLEAN, EndBatch(compacted) PROVE CountsTyped'
  BY <1>18 DEF EndBatch, BatchEnds, Finish, FinishIfComplete, NextRound, progress, ledger,
     world
<1>19. CASE Cancel
  BY <1>19 DEF Cancel, progress, ledger, world
<1>20. CASE UNCHANGED vars
  BY <1>20 DEF vars, progress, ledger, world
<1> QED
  BY <1>1, <1>2, <1>3, <1>4, <1>5, <1>6, <1>7, <1>8, <1>9, <1>10, <1>11,
     <1>12, <1>13, <1>14, <1>15, <1>16, <1>17, <1>18, <1>19, <1>20
  DEF Next, RunStep

LEMMA NextBudgets ==
  BudgetsTyped /\ HasPlace /\ [Next]_vars => BudgetsTyped'
<1> SUFFICES ASSUME BudgetsTyped, HasPlace, [Next]_vars PROVE BudgetsTyped'
  OBVIOUS
<1> USE ConstantsAre DEF BudgetsTyped, HasPlace
<1>1. CASE ModelFails
  BY <1>1 DEF ModelFails, Asking, Finish, progress, ledger, world
<1>2. CASE ModelTruncated
  BY <1>2 DEF ModelTruncated, Asking, Finish, progress, ledger, world
<1>3. CASE ModelSaysText
  BY <1>3 DEF ModelSaysText, Asking, Finish, NextRound, FinishIfComplete, progress, ledger,
     world
<1>4. CASE ModelCallsTools
  BY <1>4 DEF ModelCallsTools, Asking, progress, ledger, world
<1>5. CASE RefuseUnknown
  BY <1>5 DEF RefuseUnknown, Preparing, Refuse, Answered, progress, ledger, world
<1>6. ASSUME NEW t \in Tools, RefuseAtAttemptLimit(t) PROVE BudgetsTyped'
  BY <1>6 DEF RefuseAtAttemptLimit, Preparing, Refuse, Answered, progress, ledger, world
<1>7. ASSUME NEW t \in Tools, InvalidArguments(t) PROVE BudgetsTyped'
  BY <1>7 DEF InvalidArguments, Preparing, Refuse, Answered, Finish, progress, ledger, world
<1>8. ASSUME NEW t \in Tools, RefuseRepeated(t) PROVE BudgetsTyped'
  BY <1>8 DEF RefuseRepeated, Preparing, Refuse, Answered, Admit, progress, ledger, world
<1>9. ASSUME NEW t \in Tools, NEW a \in Args, ReuseQueryResult(t, a) PROVE BudgetsTyped'
  BY <1>9 DEF ReuseQueryResult, Preparing, Refuse, Answered, Admit, Finish, progress,
     ledger, world
<1>10. ASSUME NEW t \in Tools, NEW a \in Args, RefuseOverBudget(t, a) PROVE BudgetsTyped'
  BY <1>10 DEF RefuseOverBudget, Preparing, Refuse, Answered, Admit, progress, ledger, world
<1>11. ASSUME NEW t \in Tools, NEW a \in Args, StartTool(t, a) PROVE BudgetsTyped'
  BY <1>11 DEF StartTool, Preparing, Admit, OverBudget, progress, ledger, world, OverBudget
<1>12. CASE ToolSucceeds
  BY <1>12 DEF ToolSucceeds, Running, Executes, recordSuccessfulTool, Answered, Finish,
     progress, ledger, world
<1>13. ASSUME NEW retryable \in BOOLEAN, NEW effect \in BOOLEAN, ToolFails(retryable, effect) PROVE BudgetsTyped'
  BY <1>13 DEF ToolFails, Running, Executes, SettleError, SkipRest, Answered, Finish,
     progress, ledger, world
<1>14. CASE RetryTool
  BY <1>14 DEF RetryTool, Waiting, progress, ledger, world
<1>15. CASE StopRetrying
  BY <1>15 DEF StopRetrying, Waiting, SettleError, SkipRest, Answered, Finish, progress,
     ledger, world
<1>16. CASE EndAtLimit
  BY <1>16 DEF EndAtLimit, BatchEnds, Finish, FinishIfComplete, progress, ledger, world
<1>17. CASE CompactionFails
  BY <1>17 DEF CompactionFails, BatchEnds, Finish, progress, ledger, world
<1>18. ASSUME NEW compacted \in BOOLEAN, EndBatch(compacted) PROVE BudgetsTyped'
  BY <1>18 DEF EndBatch, BatchEnds, Finish, FinishIfComplete, NextRound, progress, ledger,
     world
<1>19. CASE Cancel
  BY <1>19 DEF Cancel, progress, ledger, world
<1>20. CASE UNCHANGED vars
  BY <1>20 DEF vars, progress, ledger, world
<1> QED
  BY <1>1, <1>2, <1>3, <1>4, <1>5, <1>6, <1>7, <1>8, <1>9, <1>10, <1>11,
     <1>12, <1>13, <1>14, <1>15, <1>16, <1>17, <1>18, <1>19, <1>20
  DEF Next, RunStep

LEMMA NextFlags ==
  FlagsTyped /\ [Next]_vars => FlagsTyped'
<1> SUFFICES ASSUME FlagsTyped, [Next]_vars PROVE FlagsTyped'
  OBVIOUS
<1> USE ConstantsAre DEF FlagsTyped
<1>1. CASE ModelFails
  BY <1>1 DEF ModelFails, Asking, Finish, progress, ledger, world
<1>2. CASE ModelTruncated
  BY <1>2 DEF ModelTruncated, Asking, Finish, progress, ledger, world
<1>3. CASE ModelSaysText
  BY <1>3 DEF ModelSaysText, Asking, Finish, NextRound, FinishIfComplete, progress, ledger,
     world
<1>4. CASE ModelCallsTools
  BY <1>4 DEF ModelCallsTools, Asking, progress, ledger, world
<1>5. CASE RefuseUnknown
  BY <1>5 DEF RefuseUnknown, Preparing, Refuse, Answered, progress, ledger, world
<1>6. ASSUME NEW t \in Tools, RefuseAtAttemptLimit(t) PROVE FlagsTyped'
  BY <1>6 DEF RefuseAtAttemptLimit, Preparing, Refuse, Answered, progress, ledger, world
<1>7. ASSUME NEW t \in Tools, InvalidArguments(t) PROVE FlagsTyped'
  BY <1>7 DEF InvalidArguments, Preparing, Refuse, Answered, Finish, progress, ledger, world
<1>8. ASSUME NEW t \in Tools, RefuseRepeated(t) PROVE FlagsTyped'
  BY <1>8 DEF RefuseRepeated, Preparing, Refuse, Answered, Admit, progress, ledger, world
<1>9. ASSUME NEW t \in Tools, NEW a \in Args, ReuseQueryResult(t, a) PROVE FlagsTyped'
  BY <1>9 DEF ReuseQueryResult, Preparing, Refuse, Answered, Admit, Finish, progress,
     ledger, world
<1>10. ASSUME NEW t \in Tools, NEW a \in Args, RefuseOverBudget(t, a) PROVE FlagsTyped'
  BY <1>10 DEF RefuseOverBudget, Preparing, Refuse, Answered, Admit, progress, ledger, world
<1>11. ASSUME NEW t \in Tools, NEW a \in Args, StartTool(t, a) PROVE FlagsTyped'
  BY <1>11 DEF StartTool, Preparing, Admit, OverBudget, progress, ledger, world
<1>12. CASE ToolSucceeds
  BY <1>12 DEF ToolSucceeds, Running, Executes, recordSuccessfulTool, Answered, Finish,
     progress, ledger, world
<1>13. ASSUME NEW retryable \in BOOLEAN, NEW effect \in BOOLEAN, ToolFails(retryable, effect) PROVE FlagsTyped'
  BY <1>13 DEF ToolFails, Running, Executes, SettleError, SkipRest, Answered, Finish,
     progress, ledger, world
<1>14. CASE RetryTool
  BY <1>14 DEF RetryTool, Waiting, progress, ledger, world
<1>15. CASE StopRetrying
  BY <1>15 DEF StopRetrying, Waiting, SettleError, SkipRest, Answered, Finish, progress,
     ledger, world
<1>16. CASE EndAtLimit
  BY <1>16 DEF EndAtLimit, BatchEnds, Finish, FinishIfComplete, progress, ledger, world
<1>17. CASE CompactionFails
  BY <1>17 DEF CompactionFails, BatchEnds, Finish, progress, ledger, world
<1>18. ASSUME NEW compacted \in BOOLEAN, EndBatch(compacted) PROVE FlagsTyped'
  BY <1>18 DEF EndBatch, BatchEnds, Finish, FinishIfComplete, NextRound, progress, ledger,
     world
<1>19. CASE Cancel
  BY <1>19 DEF Cancel, progress, ledger, world
<1>20. CASE UNCHANGED vars
  BY <1>20 DEF vars, progress, ledger, world
<1> QED
  BY <1>1, <1>2, <1>3, <1>4, <1>5, <1>6, <1>7, <1>8, <1>9, <1>10, <1>11,
     <1>12, <1>13, <1>14, <1>15, <1>16, <1>17, <1>18, <1>19, <1>20
  DEF Next, RunStep

LEMMA NextErrors ==
  ControlTyped /\ BatchTyped /\ CountsTyped /\ ErrorsLeft /\ [Next]_vars => ErrorsLeft'
<1> SUFFICES ASSUME ControlTyped, BatchTyped, CountsTyped, ErrorsLeft, [Next]_vars PROVE
                    ErrorsLeft'
  OBVIOUS
<1> USE ConstantsAre DEF CountsTyped, ErrorsLeft, BatchTyped, Tooled
<1>1. CASE ModelFails
  BY <1>1 DEF ModelFails, Asking, Finish, progress, ledger, world
<1>2. CASE ModelTruncated
  BY <1>2 DEF ModelTruncated, Asking, Finish, progress, ledger, world
<1>3. CASE ModelSaysText
  BY <1>3 DEF ModelSaysText, Asking, Finish, NextRound, FinishIfComplete, progress, ledger,
     world
<1>4. CASE ModelCallsTools
  BY <1>4 DEF ModelCallsTools, Asking, progress, ledger, world
<1>5. CASE RefuseUnknown
  BY <1>5 DEF RefuseUnknown, Preparing, Refuse, Answered, progress, ledger, world
<1>6. ASSUME NEW t \in Tools, RefuseAtAttemptLimit(t) PROVE ErrorsLeft'
  BY <1>6 DEF RefuseAtAttemptLimit, Preparing, Refuse, Answered, progress, ledger, world
<1>7. ASSUME NEW t \in Tools, InvalidArguments(t) PROVE ErrorsLeft'
  BY <1>7 DEF InvalidArguments, Preparing, Refuse, Answered, Finish, progress, ledger, world
<1>8. ASSUME NEW t \in Tools, RefuseRepeated(t) PROVE ErrorsLeft'
  BY <1>8 DEF RefuseRepeated, Preparing, Refuse, Answered, Admit, progress, ledger, world
<1>9. ASSUME NEW t \in Tools, NEW a \in Args, ReuseQueryResult(t, a) PROVE ErrorsLeft'
  BY <1>9 DEF ReuseQueryResult, Preparing, Refuse, Answered, Admit, Finish, progress,
     ledger, world
<1>10. ASSUME NEW t \in Tools, NEW a \in Args, RefuseOverBudget(t, a) PROVE ErrorsLeft'
  BY <1>10 DEF RefuseOverBudget, Preparing, Refuse, Answered, Admit, progress, ledger, world
<1>11. ASSUME NEW t \in Tools, NEW a \in Args, StartTool(t, a) PROVE ErrorsLeft'
  BY <1>11 DEF StartTool, Preparing, Admit, OverBudget, progress, ledger, world
<1>12. CASE ToolSucceeds
  BY <1>12 DEF ToolSucceeds, Running, Executes, recordSuccessfulTool, Answered, Finish,
     progress, ledger, world
<1>13. ASSUME NEW retryable \in BOOLEAN, NEW effect \in BOOLEAN, ToolFails(retryable, effect) PROVE ErrorsLeft'
  <2>1. pc' # "done" => \/ failures' = failures
                        \/ /\ failures' = [failures EXCEPT ![call.tool] = @ + 1]
                           /\ failures'[call.tool] < MaxRecoverable
    <3>1. CASE pc' = "wait" /\ failures' = failures
      BY <3>1
    <3>2. CASE SettleError(call.tool)
      <4>1. CASE StopOnError[call.tool]
        BY <3>2, <4>1 DEF SettleError, Finish
      <4>2. CASE ~StopOnError[call.tool]
        <5>1. /\ failures' = [failures EXCEPT ![call.tool] = @ + 1]
              /\ pc' # "done" => ~(failures'[call.tool] >= MaxRecoverable)
          BY <3>2, <4>2 DEF SettleError, Finish
        <5>2. failures[call.tool] \in Nat /\ failures'[call.tool] = failures[call.tool] + 1
          BY <1>13, <5>1 DEF ToolFails, Running, Waiting
        <5> QED
          BY <5>1, <5>2
      <4> QED
        BY <4>1, <4>2
    <3> QED
      BY <1>13, <3>1, <3>2 DEF ToolFails
  <2>2. pc # "done" /\ call.tool \in Tools /\ invalid' = invalid
    BY <1>13 DEF ToolFails, Running, Waiting
  <2> QED
    BY <2>1, <2>2
<1>14. CASE RetryTool
  BY <1>14 DEF RetryTool, Waiting, progress, ledger, world
<1>15. CASE StopRetrying
  <2>1. pc' # "done" => \/ failures' = failures
                        \/ /\ failures' = [failures EXCEPT ![call.tool] = @ + 1]
                           /\ failures'[call.tool] < MaxRecoverable
    <3>1. CASE pc' = "wait" /\ failures' = failures
      BY <3>1
    <3>2. CASE SettleError(call.tool)
      <4>1. CASE StopOnError[call.tool]
        BY <3>2, <4>1 DEF SettleError, Finish
      <4>2. CASE ~StopOnError[call.tool]
        <5>1. /\ failures' = [failures EXCEPT ![call.tool] = @ + 1]
              /\ pc' # "done" => ~(failures'[call.tool] >= MaxRecoverable)
          BY <3>2, <4>2 DEF SettleError, Finish
        <5>2. failures[call.tool] \in Nat /\ failures'[call.tool] = failures[call.tool] + 1
          BY <1>15, <5>1 DEF StopRetrying, Running, Waiting
        <5> QED
          BY <5>1, <5>2
      <4> QED
        BY <4>1, <4>2
    <3> QED
      BY <1>15, <3>1, <3>2 DEF StopRetrying
  <2>2. pc # "done" /\ call.tool \in Tools /\ invalid' = invalid
    BY <1>15 DEF StopRetrying, Running, Waiting
  <2> QED
    BY <2>1, <2>2
<1>16. CASE EndAtLimit
  BY <1>16 DEF EndAtLimit, BatchEnds, Finish, FinishIfComplete, progress, ledger, world
<1>17. CASE CompactionFails
  BY <1>17 DEF CompactionFails, BatchEnds, Finish, progress, ledger, world
<1>18. ASSUME NEW compacted \in BOOLEAN, EndBatch(compacted) PROVE ErrorsLeft'
  BY <1>18 DEF EndBatch, BatchEnds, Finish, FinishIfComplete, NextRound, progress, ledger,
     world
<1>19. CASE Cancel
  BY <1>19 DEF Cancel, progress, ledger, world
<1>20. CASE UNCHANGED vars
  BY <1>20 DEF vars, progress, ledger, world
<1> QED
  BY <1>1, <1>2, <1>3, <1>4, <1>5, <1>6, <1>7, <1>8, <1>9, <1>10, <1>11,
     <1>12, <1>13, <1>14, <1>15, <1>16, <1>17, <1>18, <1>19, <1>20
  DEF Next, RunStep

LEMMA NextPlace ==
  BudgetsTyped /\ HasPlace /\ [Next]_vars => HasPlace'
<1> SUFFICES ASSUME BudgetsTyped, HasPlace, [Next]_vars PROVE HasPlace'
  OBVIOUS
<1> USE ConstantsAre DEF BudgetsTyped, HasPlace
<1>1. CASE ModelFails
  BY <1>1 DEF ModelFails, Asking, Finish, progress, ledger, world
<1>2. CASE ModelTruncated
  BY <1>2 DEF ModelTruncated, Asking, Finish, progress, ledger, world
<1>3. CASE ModelSaysText
  BY <1>3 DEF ModelSaysText, Asking, Finish, NextRound, FinishIfComplete, progress, ledger,
     world
<1>4. CASE ModelCallsTools
  BY <1>4 DEF ModelCallsTools, Asking, progress, ledger, world
<1>5. CASE RefuseUnknown
  BY <1>5 DEF RefuseUnknown, Preparing, Refuse, Answered, progress, ledger, world
<1>6. ASSUME NEW t \in Tools, RefuseAtAttemptLimit(t) PROVE HasPlace'
  BY <1>6 DEF RefuseAtAttemptLimit, Preparing, Refuse, Answered, progress, ledger, world
<1>7. ASSUME NEW t \in Tools, InvalidArguments(t) PROVE HasPlace'
  BY <1>7 DEF InvalidArguments, Preparing, Refuse, Answered, Finish, progress, ledger, world
<1>8. ASSUME NEW t \in Tools, RefuseRepeated(t) PROVE HasPlace'
  BY <1>8 DEF RefuseRepeated, Preparing, Refuse, Answered, Admit, progress, ledger, world
<1>9. ASSUME NEW t \in Tools, NEW a \in Args, ReuseQueryResult(t, a) PROVE HasPlace'
  BY <1>9 DEF ReuseQueryResult, Preparing, Refuse, Answered, Admit, Finish, progress,
     ledger, world
<1>10. ASSUME NEW t \in Tools, NEW a \in Args, RefuseOverBudget(t, a) PROVE HasPlace'
  BY <1>10 DEF RefuseOverBudget, Preparing, Refuse, Answered, Admit, progress, ledger, world
<1>11. ASSUME NEW t \in Tools, NEW a \in Args, StartTool(t, a) PROVE HasPlace'
  BY <1>11 DEF StartTool, Preparing, Admit, OverBudget, progress, ledger, world
<1>12. CASE ToolSucceeds
  BY <1>12 DEF ToolSucceeds, Running, Executes, recordSuccessfulTool, Answered, Finish,
     progress, ledger, world
<1>13. ASSUME NEW retryable \in BOOLEAN, NEW effect \in BOOLEAN, ToolFails(retryable, effect) PROVE HasPlace'
  BY <1>13 DEF ToolFails, Running, Executes, SettleError, SkipRest, Answered, Finish,
     progress, ledger, world
<1>14. CASE RetryTool
  BY <1>14 DEF RetryTool, Waiting, progress, ledger, world
<1>15. CASE StopRetrying
  BY <1>15 DEF StopRetrying, Waiting, SettleError, SkipRest, Answered, Finish, progress,
     ledger, world
<1>16. CASE EndAtLimit
  BY <1>16 DEF EndAtLimit, BatchEnds, Finish, FinishIfComplete, progress, ledger, world
<1>17. CASE CompactionFails
  BY <1>17 DEF CompactionFails, BatchEnds, Finish, progress, ledger, world
<1>18. ASSUME NEW compacted \in BOOLEAN, EndBatch(compacted) PROVE HasPlace'
  BY <1>18 DEF EndBatch, BatchEnds, Finish, FinishIfComplete, NextRound, progress, ledger,
     world
<1>19. CASE Cancel
  BY <1>19 DEF Cancel, progress, ledger, world
<1>20. CASE UNCHANGED vars
  BY <1>20 DEF vars, progress, ledger, world
<1> QED
  BY <1>1, <1>2, <1>3, <1>4, <1>5, <1>6, <1>7, <1>8, <1>9, <1>10, <1>11,
     <1>12, <1>13, <1>14, <1>15, <1>16, <1>17, <1>18, <1>19, <1>20
  DEF Next, RunStep

LEMMA NextAnswers ==
  ControlTyped /\ BatchTyped /\ AnswersFollow /\ [Next]_vars => AnswersFollow'
<1> SUFFICES ASSUME ControlTyped, BatchTyped, AnswersFollow, [Next]_vars PROVE
                    AnswersFollow'
  OBVIOUS
<1> USE ConstantsAre DEF BatchTyped, AnswersFollow
<1>1. CASE ModelFails
  BY <1>1 DEF ModelFails, Asking, Finish, progress, ledger, world
<1>2. CASE ModelTruncated
  BY <1>2 DEF ModelTruncated, Asking, Finish, progress, ledger, world
<1>3. CASE ModelSaysText
  BY <1>3 DEF ModelSaysText, Asking, Finish, NextRound, FinishIfComplete, progress, ledger,
     world
<1>4. CASE ModelCallsTools
  BY <1>4 DEF ModelCallsTools, Asking, progress, ledger, world, Unanswered
<1>5. CASE RefuseUnknown
  BY <1>5 DEF RefuseUnknown, Preparing, Refuse, Answered, progress, ledger, world
<1>6. ASSUME NEW t \in Tools, RefuseAtAttemptLimit(t) PROVE AnswersFollow'
  BY <1>6 DEF RefuseAtAttemptLimit, Preparing, Refuse, Answered, progress, ledger, world
<1>7. ASSUME NEW t \in Tools, InvalidArguments(t) PROVE AnswersFollow'
  BY <1>7 DEF InvalidArguments, Preparing, Refuse, Answered, Finish, progress, ledger, world
<1>8. ASSUME NEW t \in Tools, RefuseRepeated(t) PROVE AnswersFollow'
  BY <1>8 DEF RefuseRepeated, Preparing, Refuse, Answered, Admit, progress, ledger, world
<1>9. ASSUME NEW t \in Tools, NEW a \in Args, ReuseQueryResult(t, a) PROVE AnswersFollow'
  BY <1>9 DEF ReuseQueryResult, Preparing, Refuse, Answered, Admit, Finish, progress,
     ledger, world
<1>10. ASSUME NEW t \in Tools, NEW a \in Args, RefuseOverBudget(t, a) PROVE AnswersFollow'
  BY <1>10 DEF RefuseOverBudget, Preparing, Refuse, Answered, Admit, progress, ledger, world
<1>11. ASSUME NEW t \in Tools, NEW a \in Args, StartTool(t, a) PROVE AnswersFollow'
  BY <1>11 DEF StartTool, Preparing, Admit, OverBudget, progress, ledger, world
<1>12. CASE ToolSucceeds
  BY <1>12 DEF ToolSucceeds, Running, Executes, recordSuccessfulTool, Answered, Finish,
     progress, ledger, world
<1>13. ASSUME NEW retryable \in BOOLEAN, NEW effect \in BOOLEAN, ToolFails(retryable, effect) PROVE AnswersFollow'
  BY <1>13 DEF ToolFails, Running, Executes, SettleError, SkipRest, Answered, Finish,
     progress, ledger, world
<1>14. CASE RetryTool
  BY <1>14 DEF RetryTool, Waiting, progress, ledger, world
<1>15. CASE StopRetrying
  BY <1>15 DEF StopRetrying, Waiting, SettleError, SkipRest, Answered, Finish, progress,
     ledger, world
<1>16. CASE EndAtLimit
  BY <1>16 DEF EndAtLimit, BatchEnds, Finish, FinishIfComplete, progress, ledger, world
<1>17. CASE CompactionFails
  BY <1>17 DEF CompactionFails, BatchEnds, Finish, progress, ledger, world
<1>18. ASSUME NEW compacted \in BOOLEAN, EndBatch(compacted) PROVE AnswersFollow'
  BY <1>18 DEF EndBatch, BatchEnds, Finish, FinishIfComplete, NextRound, progress, ledger,
     world, Unanswered
<1>19. CASE Cancel
  BY <1>19 DEF Cancel, progress, ledger, world
<1>20. CASE UNCHANGED vars
  BY <1>20 DEF vars, progress, ledger, world
<1> QED
  BY <1>1, <1>2, <1>3, <1>4, <1>5, <1>6, <1>7, <1>8, <1>9, <1>10, <1>11,
     <1>12, <1>13, <1>14, <1>15, <1>16, <1>17, <1>18, <1>19, <1>20
  DEF Next, RunStep

LEMMA NextVersions ==
  BatchTyped /\ BudgetsTyped /\ HasPlace /\ FlagsTyped /\ VersionsAgree /\ [Next]_vars =>
  VersionsAgree'
<1> SUFFICES ASSUME BatchTyped, BudgetsTyped, HasPlace, FlagsTyped, VersionsAgree,
                    [Next]_vars PROVE VersionsAgree'
  OBVIOUS
<1> USE ConstantsAre DEF VersionsAgree
<1>1. CASE ModelFails
  BY <1>1 DEF ModelFails, Asking, Finish, progress, ledger, world
<1>2. CASE ModelTruncated
  BY <1>2 DEF ModelTruncated, Asking, Finish, progress, ledger, world
<1>3. CASE ModelSaysText
  BY <1>3 DEF ModelSaysText, Asking, Finish, NextRound, FinishIfComplete, progress, ledger,
     world
<1>4. CASE ModelCallsTools
  BY <1>4 DEF ModelCallsTools, Asking, progress, ledger, world
<1>5. CASE RefuseUnknown
  BY <1>5 DEF RefuseUnknown, Preparing, Refuse, Answered, progress, ledger, world
<1>6. ASSUME NEW t \in Tools, RefuseAtAttemptLimit(t) PROVE VersionsAgree'
  BY <1>6 DEF RefuseAtAttemptLimit, Preparing, Refuse, Answered, progress, ledger, world
<1>7. ASSUME NEW t \in Tools, InvalidArguments(t) PROVE VersionsAgree'
  BY <1>7 DEF InvalidArguments, Preparing, Refuse, Answered, Finish, progress, ledger, world
<1>8. ASSUME NEW t \in Tools, RefuseRepeated(t) PROVE VersionsAgree'
  BY <1>8 DEF RefuseRepeated, Preparing, Refuse, Answered, Admit, progress, ledger, world
<1>9. ASSUME NEW t \in Tools, NEW a \in Args, ReuseQueryResult(t, a) PROVE VersionsAgree'
  BY <1>9 DEF ReuseQueryResult, Preparing, Refuse, Answered, Admit, Finish, progress,
     ledger, world, Reusable
<1>10. ASSUME NEW t \in Tools, NEW a \in Args, RefuseOverBudget(t, a) PROVE VersionsAgree'
  BY <1>10 DEF RefuseOverBudget, Preparing, Refuse, Answered, Admit, progress, ledger, world
<1>11. ASSUME NEW t \in Tools, NEW a \in Args, StartTool(t, a) PROVE VersionsAgree'
  BY <1>11 DEF StartTool, Preparing, Admit, OverBudget, progress, ledger, world
<1>12. CASE ToolSucceeds
  BY <1>12 DEF ToolSucceeds, Running, Executes, recordSuccessfulTool, Answered, Finish,
     progress, ledger, world, BudgetsTyped
<1>13. ASSUME NEW retryable \in BOOLEAN, NEW effect \in BOOLEAN, ToolFails(retryable, effect) PROVE VersionsAgree'
  BY <1>13 DEF ToolFails, Running, Executes, SettleError, SkipRest, Answered, Finish,
     progress, ledger, world
<1>14. CASE RetryTool
  BY <1>14 DEF RetryTool, Waiting, progress, ledger, world
<1>15. CASE StopRetrying
  BY <1>15 DEF StopRetrying, Waiting, SettleError, SkipRest, Answered, Finish, progress,
     ledger, world
<1>16. CASE EndAtLimit
  BY <1>16 DEF EndAtLimit, BatchEnds, Finish, FinishIfComplete, progress, ledger, world
<1>17. CASE CompactionFails
  BY <1>17 DEF CompactionFails, BatchEnds, Finish, progress, ledger, world
<1>18. ASSUME NEW compacted \in BOOLEAN, EndBatch(compacted) PROVE VersionsAgree'
  BY <1>18 DEF EndBatch, BatchEnds, Finish, FinishIfComplete, NextRound, progress, ledger,
     world
<1>19. CASE Cancel
  BY <1>19 DEF Cancel, progress, ledger, world
<1>20. CASE UNCHANGED vars
  BY <1>20 DEF vars, progress, ledger, world
<1> QED
  BY <1>1, <1>2, <1>3, <1>4, <1>5, <1>6, <1>7, <1>8, <1>9, <1>10, <1>11,
     <1>12, <1>13, <1>14, <1>15, <1>16, <1>17, <1>18, <1>19, <1>20
  DEF Next, RunStep

LEMMA RetriesAre ==
  /\ MaxTries \in Nat /\ Kind \in [Tools -> {"query", "mutation", "llm"}]
  /\ MaxRetries \in [Tools -> Nat]
  /\ \A t \in Tools : Kind[t] = "mutation" => MaxRetries[t] + 1 <= MaxTries
BY OrchestratorAssumption DEF OrchestratorAssumption, Tooled

\* The steps in which no tool is started, run or retried.
NoToolRuns ==
  /\ pc \notin {"run", "wait"} /\ pc' \notin {"run", "wait"}
  /\ UNCHANGED <<mutationRuns, mutationCalls>>
  /\ attempt' \in {attempt, 1, attempt + 1}

ToolStops ==
  /\ pc \in {"run", "wait"} /\ pc' \notin {"run", "wait"}
  /\ UNCHANGED <<mutationCalls, attempt>>
  /\ \/ UNCHANGED mutationRuns
     \/ Kind[call.tool] = "mutation" /\ mutationRuns' = mutationRuns + 1

LEMMA NextKinds ==
  ASSUME ControlTyped, Next
  PROVE  \/ NoToolRuns \/ ToolStops
         \/ \E t \in Tools, a \in Args : StartTool(t, a)
         \/ \E retryable, effect \in BOOLEAN : ToolFails(retryable, effect) /\ pc' = "wait"
         \/ RetryTool
         \/ UNCHANGED <<pc, attempt, call, mutationRuns, mutationCalls>>
<1> USE DEF ControlTyped
<1>1. CASE ModelFails \/ ModelTruncated \/ ModelSaysText \/ ModelCallsTools
  BY <1>1 DEF NoToolRuns, ModelFails, ModelTruncated, ModelSaysText, ModelCallsTools, Asking,
     Finish, NextRound, FinishIfComplete, ledger, world
<1>2. CASE RefuseUnknown
  BY <1>2 DEF NoToolRuns, RefuseUnknown, Preparing, Refuse, ledger, world
<1>3. ASSUME NEW t \in Tools, RefuseAtAttemptLimit(t) \/ InvalidArguments(t) \/ RefuseRepeated(t)
      PROVE  NoToolRuns
  BY <1>3 DEF NoToolRuns, RefuseAtAttemptLimit, InvalidArguments, RefuseRepeated, Admit,
     Preparing, Refuse, Finish, ledger, world
<1>4. ASSUME NEW t \in Tools, NEW a \in Args, ReuseQueryResult(t, a) \/ RefuseOverBudget(t, a)
      PROVE  NoToolRuns
  BY <1>4 DEF NoToolRuns, ReuseQueryResult, RefuseOverBudget, Admit, Preparing, Refuse, Finish,
     ledger, world
<1>5. CASE ToolSucceeds
  BY <1>5 DEF ToolStops, ToolSucceeds, Running, Executes, Finish
<1>6. ASSUME NEW retryable \in BOOLEAN, NEW effect \in BOOLEAN, ToolFails(retryable, effect)
      PROVE  ToolStops \/ (ToolFails(retryable, effect) /\ pc' = "wait")
  BY <1>6 DEF ToolStops, ToolFails, Running, Executes, SettleError, Finish
<1>7. CASE StopRetrying
  BY <1>7 DEF ToolStops, StopRetrying, Waiting, SettleError, Finish, world
<1>8. CASE EndAtLimit \/ CompactionFails
  BY <1>8 DEF NoToolRuns, EndAtLimit, CompactionFails, BatchEnds, Finish, FinishIfComplete,
     ledger, world
<1>9. ASSUME NEW compacted \in BOOLEAN, EndBatch(compacted) PROVE NoToolRuns
  BY <1>9 DEF NoToolRuns, EndBatch, BatchEnds, Finish, FinishIfComplete, NextRound, ledger, world
<1>10. CASE Cancel
  BY <1>10 DEF Cancel, progress, ledger, world
<1> QED
  BY <1>1, <1>2, <1>3, <1>4, <1>5, <1>6, <1>7, <1>8, <1>9, <1>10 DEF Next, RunStep

LEMMA NextFresh ==
  ControlTyped /\ BatchTyped /\ StaysFresh /\ [Next]_vars => StaysFresh'
<1> SUFFICES ASSUME ControlTyped, BatchTyped, StaysFresh, [Next]_vars, pc' \in {"run", "wait"}
             PROVE  Fresh(call.tool)'
  BY DEF StaysFresh
<1>1. ASSUME UNCHANGED <<call, succeeded>>, pc \in {"run", "wait"} PROVE Fresh(call.tool)'
  BY <1>1 DEF StaysFresh, Fresh, CompletedRunOnce, AtCallLimit
<1>2. CASE UNCHANGED vars
  BY <1>1, <1>2 DEF vars, progress, ledger
<1>3. CASE NoToolRuns \/ ToolStops
  BY <1>3 DEF NoToolRuns, ToolStops
<1>4. ASSUME NEW t \in Tools, NEW a \in Args, StartTool(t, a) PROVE Fresh(call.tool)'
  BY <1>4 DEF StartTool, Admit, Fresh, CompletedRunOnce, AtCallLimit
<1>5. ASSUME NEW retryable \in BOOLEAN, NEW effect \in BOOLEAN, ToolFails(retryable, effect), pc' = "wait"
      PROVE  Fresh(call.tool)'
  BY <1>1, <1>5 DEF ToolFails, Running, SettleError, Finish
<1>6. CASE RetryTool
  BY <1>1, <1>6 DEF RetryTool, Waiting, progress, ledger
<1>7. CASE Cancel
  BY <1>1, <1>7 DEF Cancel, progress, ledger
<1> QED
  <2>1. CASE UNCHANGED <<pc, attempt, call, mutationRuns, mutationCalls>> /\ Next
    <3>1. UNCHANGED succeeded
      BY <2>1 DEF Next, RunStep, ModelFails, ModelTruncated, ModelSaysText, ModelCallsTools,
         RefuseUnknown, RefuseAtAttemptLimit, InvalidArguments, RefuseRepeated, Admit,
         ReuseQueryResult, RefuseOverBudget, StartTool, ToolSucceeds, Running, Finish,
         ToolFails, RetryTool, StopRetrying, EndAtLimit, CompactionFails, EndBatch, Cancel,
         ledger
    <3> QED
      BY <1>1, <2>1, <3>1
  <2> QED
    BY <1>2, <1>3, <1>4, <1>5, <1>6, <2>1, NextKinds

LEMMA OneMoreCharge ==
  ASSUME NEW n \in Nat, NEW m \in Nat
  PROVE  m * (n + 1) = m * n + m
OBVIOUS

LEMMA ChargesFit ==
  ASSUME NEW n \in Nat, NEW k \in Nat, NEW m \in Nat, n <= k
  PROVE  m * n <= k * m
OBVIOUS

LEMMA NextCharged ==
  ControlTyped /\ BatchTyped /\ BudgetsTyped /\ RunsAreCharged /\ [Next]_vars => RunsAreCharged'
<1> SUFFICES ASSUME ControlTyped, BatchTyped, BudgetsTyped, RunsAreCharged, [Next]_vars
             PROVE  RunsAreCharged'
  OBVIOUS
<1>1. /\ mutationCalls \in Nat /\ mutationRuns \in Nat /\ attempt \in Nat
      /\ MaxTries * mutationCalls \in Nat
  BY RetriesAre, ConstantsAre DEF BudgetsTyped, RunsAreCharged
<1>2. pc \in {"run", "wait"} => call.tool \in Tools /\ MaxRetries[call.tool] \in Nat
  BY RetriesAre DEF BatchTyped
<1> DEFINE paid == MaxTries * mutationCalls
<1>3. UNCHANGED mutationCalls => paid' = paid
  OBVIOUS
<1>4. paid \in Nat
  BY <1>1
<1>5. /\ mutationRuns + TriesLeft <= paid
      /\ pc = "run" => attempt <= MaxRetries[call.tool] + 1
      /\ pc = "wait" => attempt <= MaxRetries[call.tool]
  BY DEF RunsAreCharged
<1>6. SUFFICES /\ mutationRuns' \in Nat /\ attempt' \in Nat
               /\ pc' = "run" => attempt' <= MaxRetries[call.tool'] + 1
               /\ pc' = "wait" => attempt' <= MaxRetries[call.tool']
               /\ mutationRuns' + TriesLeft' <= paid'
  BY DEF RunsAreCharged
<1> HIDE DEF paid
<1>7. CASE UNCHANGED <<pc, attempt, call, mutationRuns, mutationCalls>>
  BY <1>1, <1>3, <1>5, <1>7 DEF TriesLeft
<1>8. CASE NoToolRuns
  BY <1>1, <1>3, <1>5, <1>8 DEF NoToolRuns, TriesLeft
<1>9. CASE ToolStops
  BY <1>1, <1>2, <1>3, <1>4, <1>5, <1>9 DEF ToolStops, TriesLeft
<1>10. ASSUME NEW t \in Tools, NEW a \in Args, StartTool(t, a)
       PROVE  /\ mutationRuns' \in Nat /\ attempt' \in Nat
              /\ pc' = "run" => attempt' <= MaxRetries[call.tool'] + 1
              /\ pc' = "wait" => attempt' <= MaxRetries[call.tool']
              /\ mutationRuns' + TriesLeft' <= paid'
  <2>1. /\ pc = "prepare" /\ pc' = "run" /\ attempt' = 1 /\ call'.tool = t
        /\ mutationRuns' = mutationRuns
        /\ mutationCalls' = IF Kind[t] = "mutation" THEN mutationCalls + 1 ELSE mutationCalls
    BY <1>10 DEF StartTool, Admit, Preparing, world
  <2>2. paid' = IF Kind[t] = "mutation" THEN paid + MaxTries ELSE paid
    BY <1>1, <2>1, RetriesAre, OneMoreCharge DEF paid
  <2>3. mutationRuns <= paid
    BY <1>1, <1>5, <2>1 DEF TriesLeft
  <2>4. MaxRetries[t] \in Nat /\ (Kind[t] = "mutation" => MaxRetries[t] + 1 <= MaxTries)
    BY RetriesAre
  <2>5. TriesLeft' = IF Kind[t] = "mutation" THEN MaxRetries[t] + 1 ELSE 0
    BY <2>1, <2>4 DEF TriesLeft
  <2> QED
    BY <1>1, <1>4, <2>1, <2>2, <2>3, <2>4, <2>5, RetriesAre
<1>11. ASSUME NEW retryable \in BOOLEAN, NEW effect \in BOOLEAN, ToolFails(retryable, effect), pc' = "wait"
       PROVE  /\ mutationRuns' \in Nat /\ attempt' \in Nat
              /\ pc' = "run" => attempt' <= MaxRetries[call.tool'] + 1
              /\ pc' = "wait" => attempt' <= MaxRetries[call.tool']
              /\ mutationRuns' + TriesLeft' <= paid'
  <2>1. /\ pc = "run" /\ attempt <= MaxRetries[call.tool]
        /\ UNCHANGED <<call, attempt, mutationCalls>>
        /\ mutationRuns' = IF Kind[call.tool] = "mutation" THEN mutationRuns + 1 ELSE mutationRuns
    BY <1>11 DEF ToolFails, Running, Executes, SettleError, Finish
  <2> QED
    BY <1>1, <1>2, <1>3, <1>4, <1>5, <1>11, <2>1 DEF TriesLeft
<1>12. CASE RetryTool
  <2>1. /\ pc = "wait" /\ pc' = "run" /\ attempt' = attempt + 1
        /\ UNCHANGED <<call, mutationRuns, mutationCalls>>
    BY <1>12 DEF RetryTool, Waiting, progress, ledger, world
  <2> QED
    BY <1>1, <1>2, <1>3, <1>4, <1>5, <2>1 DEF TriesLeft
<1> QED
  BY <1>7, <1>8, <1>9, <1>10, <1>11, <1>12, NextKinds DEF vars, progress, ledger, world

LEMMA InitIInv == Init => IInv
<1> SUFFICES ASSUME Init PROVE IInv
  OBVIOUS
<1> USE ConstantsAre DEF Init
<1>1. ControlTyped /\ BudgetsTyped
  BY DEF ControlTyped, BudgetsTyped
<1>2. BatchTyped
  BY DEF BatchTyped, Unanswered
<1>3. CountsTyped
  BY DEF CountsTyped, Tooled
<1>4. FlagsTyped
  BY DEF FlagsTyped
<1>5. ErrorsLeft /\ HasPlace /\ AnswersFollow
  BY DEF ErrorsLeft, HasPlace, AnswersFollow
<1>6. VersionsAgree
  BY DEF VersionsAgree
<1>7. StaysFresh
  BY DEF StaysFresh
<1>8. RunsAreCharged
  BY RetriesAre DEF RunsAreCharged, TriesLeft
<1> QED
  BY <1>1, <1>2, <1>3, <1>4, <1>5, <1>6, <1>7, <1>8 DEF IInv, Typed

LEMMA NextIInv == IInv /\ [Next]_vars => IInv'
<1> SUFFICES ASSUME IInv, [Next]_vars PROVE IInv'
  OBVIOUS
<1>1. ControlTyped' /\ BatchTyped' /\ CountsTyped'
  BY NextControl, NextBatch, NextCounts DEF IInv, Typed
<1>2. BudgetsTyped' /\ FlagsTyped'
  BY NextBudgets, NextFlags DEF IInv, Typed
<1>3. ErrorsLeft' /\ HasPlace' /\ AnswersFollow' /\ VersionsAgree'
  BY NextErrors, NextPlace, NextAnswers, NextVersions DEF IInv, Typed
<1>4. StaysFresh' /\ RunsAreCharged'
  BY NextFresh, NextCharged DEF IInv, Typed
<1> QED
  BY <1>1, <1>2, <1>3, <1>4 DEF IInv, Typed

LEMMA SpecIInv == Spec => []IInv
BY InitIInv, NextIInv, PTL DEF Spec

-----------------------------------------------------------------------------
(* The theorems *)

\* The ledger and the loop of run (orchestrator.go, tools.go) keep their types,
\* of which the budgets are a part: no more mutations and LLM tools succeed than
\* the policy allows, and the counters of errors end the run at their limits.
THEOREM OrchestratorTypes == Spec => []TypeOK
<1>1. IInv => TypeOK
  <2> SUFFICES ASSUME IInv PROVE TypeOK
    OBVIOUS
  <2>1. ControlTyped /\ BatchTyped /\ CountsTyped /\ BudgetsTyped
    BY DEF IInv, Typed
  <2>2. {limitReached, rewrites, traced, cancelled, failedWithEffect, staleReuse} \subseteq BOOLEAN
    BY DEF IInv, Typed, FlagsTyped
  <2> QED
    BY <2>1, <2>2 DEF TypeOK, ControlTyped, BatchTyped, CountsTyped, BudgetsTyped
<1> QED
  BY <1>1, SpecIInv, PTL

\* On whatever path a batch ended (tools.go:29-90, 313-324), the model is asked
\* again with one result for each of its calls.
THEOREM CallsAreAnswered == Spec => []EveryCallIsAnswered
<1>1. IInv => EveryCallIsAnswered
  <2> SUFFICES ASSUME IInv, pc = "ask", NEW i \in 1..batch PROVE answers[i] = 1
    BY DEF EveryCallIsAnswered
  <2>1. handled = batch /\ answers[i] = IF i <= handled THEN 1 ELSE 0
    BY DEF IInv, AnswersFollow
  <2>2. batch \in Nat
    BY ConstantsAre DEF IInv, Typed, BatchTyped
  <2> QED
    BY <2>1, <2>2
<1> QED
  BY <1>1, SpecIInv, PTL

\* The key of a query result has the number of successful mutations
\* (tools.go:118-123, 249): a stale result needs a mutation that failed after it
\* had changed the data.
THEOREM ReusedIsFresh == Spec => []StaleReuseOnlyAfterFailure
<1>1. IInv => StaleReuseOnlyAfterFailure
  BY DEF IInv, VersionsAgree, StaleReuseOnlyAfterFailure
<1> QED
  BY <1>1, SpecIInv, PTL

-----------------------------------------------------------------------------
(* The refinement of ToolBudget *)

\* What a run looks like from outside.
Outside == <<succeeded, llmCalls, mutationVersion, mutationRuns, outcome, config>>

LEMMA GivesUp ==
  ASSUME ControlTyped, pc # "done", Finish("error"),
         UNCHANGED <<succeeded, llmCalls, mutationVersion, mutationRuns, config>>
  PROVE  Promise!Next
<1>1. outcome = "none" /\ outcome' = "error"
  BY DEF ControlTyped, Finish
<1> QED
  BY <1>1 DEF Promise!Next, Promise!GiveUp, Promise!Running

LEMMA AnswersWhenComplete ==
  ASSUME ControlTyped, pc # "done", Finish("result"), completionRequirementSatisfied,
         UNCHANGED <<succeeded, llmCalls, mutationVersion, mutationRuns, config>>
  PROVE  Promise!Next
<1>1. outcome = "none" /\ outcome' = "result"
  BY DEF ControlTyped, Finish
<1>2. /\ \A t \in Tools : succeeded[t] >= config.need[t]
      /\ config.any = {} \/ \E t \in config.any : succeeded[t] > 0
  BY DEF completionRequirementSatisfied
<1>3. Promise!Answer
  BY <1>1, <1>2 DEF Promise!Answer, Promise!Running
<1> QED
  BY <1>3 DEF Promise!Next

\* A tool that runs has executions left, of the calls that were charged.
LEMMA MayRun ==
  ASSUME IInv, pc = "run", Kind[call.tool] = "mutation"
  PROVE  mutationRuns < MaxMutations * MaxTries
<1>1. /\ call.tool \in Tools /\ MaxRetries[call.tool] \in Nat
      /\ mutationCalls \in Nat /\ MaxMutations \in Nat /\ mutationCalls <= MaxMutations
      /\ MaxTries \in Nat
  BY RetriesAre, ConstantsAre DEF IInv, Typed, BatchTyped, BudgetsTyped
<1>2. MaxTries * mutationCalls <= MaxMutations * MaxTries
  BY <1>1, ChargesFit
<1>3. mutationRuns \in Nat /\ mutationRuns + 1 <= MaxTries * mutationCalls
  BY <1>1 DEF IInv, RunsAreCharged, TriesLeft
<1>4. MaxTries * mutationCalls \in Nat /\ MaxMutations * MaxTries \in Nat
  BY <1>1
<1> QED
  BY <1>2, <1>3, <1>4

LEMMA ExecutionIsARun ==
  ASSUME IInv, pc = "run", NEW effect, Executes(effect)
  PROVE  Promise!Runs(call.tool)
<1>1. mutationRuns' = IF Kind[call.tool] = "mutation" THEN mutationRuns + 1 ELSE mutationRuns
  BY DEF Executes
<1> QED
  BY <1>1, MayRun DEF Promise!Runs, Promise!Add

LEMMA SuccessIsASuccess ==
  ASSUME IInv, ToolSucceeds
  PROVE  Promise!Next
<1> DEFINE t == call.tool
<1>1. /\ pc = "run" /\ t \in Tools /\ outcome = "none"
      /\ recordSuccessfulTool(t) /\ Executes(Kind[t] = "mutation") /\ UNCHANGED config
  BY DEF IInv, Typed, ControlTyped, BatchTyped, ToolSucceeds, Running
<1>2. outcome' = IF Terminal[t] THEN "result" ELSE outcome
  BY DEF ToolSucceeds, Finish
<1>3. /\ RunOnce[t] => succeeded[t] = 0
      /\ MaxCalls[t] > 0 => succeeded[t] < MaxCalls[t]
  BY <1>1, OrchestratorAssumption
  DEF IInv, Typed, CountsTyped, StaysFresh, Fresh, CompletedRunOnce, AtCallLimit,
      OrchestratorAssumption, Tooled
<1>4. /\ Kind[t] = "llm" => llmCalls < MaxLLMTools
      /\ Kind[t] = "mutation" => mutationVersion < MaxMutations
  BY <1>1, ConstantsAre DEF IInv, Typed, BudgetsTyped, HasPlace
<1>5. /\ succeeded' = [succeeded EXCEPT ![t] = @ + 1]
      /\ mutationVersion' = IF Kind[t] = "mutation" THEN mutationVersion + 1 ELSE mutationVersion
      /\ llmCalls' = IF Kind[t] = "llm" THEN llmCalls + 1 ELSE llmCalls
  BY <1>1 DEF recordSuccessfulTool
<1>6. Promise!Runs(t)
  BY <1>1, ExecutionIsARun
<1> HIDE DEF t
<1>7. Promise!Succeed(t)
  BY <1>1, <1>2, <1>3, <1>4, <1>5, <1>6 DEF Promise!Succeed, Promise!Running, Promise!Add
<1> QED
  BY <1>1, <1>7 DEF Promise!Next

LEMMA FailureIsAFailure ==
  ASSUME IInv, NEW retryable, NEW effect, ToolFails(retryable, effect)
  PROVE  Promise!Next
<1>1. /\ pc = "run" /\ call.tool \in Tools /\ outcome = "none"
      /\ Executes(effect) /\ UNCHANGED <<config, succeeded, llmCalls, mutationVersion>>
  BY DEF IInv, Typed, ControlTyped, BatchTyped, ToolFails, Running
<1>2. outcome' \in {"none", "error"}
  BY <1>1 DEF ToolFails, SettleError, Finish
<1>3. Promise!Runs(call.tool)
  BY <1>1, ExecutionIsARun
<1>4. Promise!Fail(call.tool)
  BY <1>1, <1>2, <1>3 DEF Promise!Fail, Promise!Running
<1> QED
  BY <1>1, <1>4 DEF Promise!Next

LEMMA StepKeepsBudget ==
  ASSUME IInv, [Next]_vars
  PROVE  [Promise!Next]_Promise!vars
<1> DEFINE Kept == Promise!Next \/ UNCHANGED Outside
<1>1. SUFFICES Kept
  BY DEF Promise!vars, Outside
<1>2. ControlTyped
  BY DEF IInv, Typed
<1>3. ASSUME pc # "done", Finish("error"),
             UNCHANGED <<succeeded, llmCalls, mutationVersion, mutationRuns, config>>
      PROVE  Kept
  BY <1>2, <1>3, GivesUp
<1>4. ASSUME pc # "done", Finish("result"), completionRequirementSatisfied,
             UNCHANGED <<succeeded, llmCalls, mutationVersion, mutationRuns, config>>
      PROVE  Kept
  BY <1>2, <1>4, AnswersWhenComplete
<1>5. ASSUME pc # "done", FinishIfComplete,
             UNCHANGED <<succeeded, llmCalls, mutationVersion, mutationRuns, config>>
      PROVE  Kept
  BY <1>3, <1>4, <1>5 DEF FinishIfComplete
<1>6. ASSUME pc # "done", NextRound,
             UNCHANGED <<succeeded, llmCalls, mutationVersion, mutationRuns, config>>
      PROVE  Kept
  BY <1>5, <1>6 DEF NextRound, Outside
<1> HIDE DEF Kept
<1>7. ASSUME UNCHANGED Outside PROVE Kept
  BY <1>7 DEF Kept
<1>11. CASE ModelFails
  BY <1>3, <1>11 DEF ModelFails, Asking, ledger, world
<1>12. CASE ModelTruncated
  BY <1>3, <1>4, <1>7, <1>12 DEF ModelTruncated, Asking, ledger, world, Outside
<1>13. CASE ModelSaysText
  BY <1>4, <1>6, <1>13 DEF ModelSaysText, Asking, ledger, world
<1>14. CASE ModelCallsTools
  BY <1>7, <1>14 DEF ModelCallsTools, ledger, world, Outside
<1>15. CASE RefuseUnknown
  BY <1>7, <1>15 DEF RefuseUnknown, Refuse, ledger, world, Outside
<1>16. ASSUME NEW t \in Tools, RefuseAtAttemptLimit(t) PROVE Kept
  BY <1>7, <1>16 DEF RefuseAtAttemptLimit, Refuse, ledger, world, Outside
<1>17. ASSUME NEW t \in Tools, InvalidArguments(t) PROVE Kept
  BY <1>3, <1>7, <1>17 DEF InvalidArguments, Preparing, Refuse, world, Outside
<1>18. ASSUME NEW t \in Tools, RefuseRepeated(t) PROVE Kept
  BY <1>7, <1>18 DEF RefuseRepeated, Admit, Refuse, world, Outside
<1>19. ASSUME NEW t \in Tools, NEW a \in Args, ReuseQueryResult(t, a) PROVE Kept
  BY <1>4, <1>7, <1>19 DEF ReuseQueryResult, Admit, Preparing, Refuse, world, Outside
<1>20. ASSUME NEW t \in Tools, NEW a \in Args, RefuseOverBudget(t, a) PROVE Kept
  BY <1>7, <1>20 DEF RefuseOverBudget, Admit, Refuse, world, Outside
<1>21. ASSUME NEW t \in Tools, NEW a \in Args, StartTool(t, a) PROVE Kept
  BY <1>7, <1>21 DEF StartTool, Admit, world, Outside
<1>22. CASE ToolSucceeds
  BY <1>22, SuccessIsASuccess DEF Kept
<1>23. ASSUME NEW retryable \in BOOLEAN, NEW effect \in BOOLEAN, ToolFails(retryable, effect)
       PROVE  Kept
  BY <1>23, FailureIsAFailure DEF Kept
<1>24. CASE RetryTool
  BY <1>7, <1>24 DEF RetryTool, ledger, world, Outside
<1>25. CASE StopRetrying
  <2>1. /\ pc = "wait" /\ UNCHANGED <<succeeded, llmCalls, mutationVersion, mutationRuns, config>>
        /\ Finish("error") \/ UNCHANGED outcome
    BY <1>25 DEF StopRetrying, Waiting, SettleError, world
  <2> QED
    BY <1>3, <1>7, <2>1 DEF Outside
<1>26. CASE EndAtLimit
  BY <1>5, <1>26 DEF EndAtLimit, BatchEnds, ledger, world
<1>27. CASE CompactionFails
  BY <1>3, <1>27 DEF CompactionFails, BatchEnds, ledger, world
<1>28. ASSUME NEW compacted \in BOOLEAN, EndBatch(compacted) PROVE Kept
  BY <1>5, <1>6, <1>28 DEF EndBatch, BatchEnds, ledger, world
<1>29. CASE Cancel
  BY <1>7, <1>29 DEF Cancel, ledger, world, Outside
<1>30. CASE UNCHANGED vars
  BY <1>7, <1>30 DEF vars, ledger, world, Outside
<1> QED
  BY <1>11, <1>12, <1>13, <1>14, <1>15, <1>16, <1>17, <1>18, <1>19, <1>20, <1>21, <1>22,
     <1>23, <1>24, <1>25, <1>26, <1>27, <1>28, <1>29, <1>30
  DEF Next, RunStep

\* Whatever the model asks for and whatever fails and is retried, a run looks to its
\* tools as ToolBudget says (orchestrator.go:86-122, tools.go:91-139, 207-252): no
\* tool succeeds more often than its limits and the budgets allow, a mutation is
\* executed as often at most as the calls that were charged pay for, and
\* a run answers without a terminal tool only when the required tools succeeded.
THEOREM RunKeepsBudget == Spec => KeepsToolBudget
<1>1. Init => Promise!Init
  BY OrchestratorAssumption
  DEF Init, Promise!Init, OrchestratorAssumption, Tooled
<1>2. IInv /\ [Next]_vars => [Promise!Next]_Promise!vars
  BY StepKeepsBudget
<1> QED
  BY <1>1, <1>2, SpecIInv, PTL DEF Spec, KeepsToolBudget, Promise!Spec
=============================================================================
