---------------------------- MODULE Orchestrator ----------------------------
(***************************************************************************)
(* One run of utils/toolchain/orchestrator: the model is asked, its text   *)
(* or its batch of tool calls is handled, and so on for MaxRounds + 1      *)
(* rounds.  The model, the tools and the owner of the context decide       *)
(* freely; the ledger decides which calls are let through.  A call of the  *)
(* model or of a tool is one step.  What the model chose for the later     *)
(* calls of a batch is decided when their turn comes, since nothing looks  *)
(* at them before.                                                         *)
(***************************************************************************)
EXTENDS Naturals, FiniteSets

CONSTANTS
  Tools,             \* the registered tools
  Args,              \* valid arguments
  Kind,              \* Tool.Kind: "query", "mutation" or "llm"
  RunOnce,           \* Tool.RunOncePerRun
  MaxCalls,          \* Tool.MaxCallsPerRun, 0: no limit
  MaxAttempts,       \* Tool.MaxAttemptsPerRun, 0: no limit
  MaxRetries,        \* Tool.MaxRetries
  MaxTries,          \* of the executions of one call of a mutation, an upper bound
  StopOnError,       \* Tool.StopOnError
  Terminal,          \* Tool.TerminalOnSuccess
  Cached,            \* ~Tool.DisableCache
  NoArgument,        \* strictNoArgumentTool
  RewriteTool,       \* RunOptions.ContextRewriteTool
  Configs,           \* the completion policies and options of a run
  MaxRounds, MaxModelRetries, MaxLLMTools, MaxMutations, MaxIsolatedRounds,
  MaxInvalid,        \* maxInvalidToolArgumentCalls
  MaxRecoverable,    \* maxRecoverableToolErrors
  MaxBatch           \* bound: tool calls in one answer of the model

Tooled(S) == [Tools -> S]

ASSUME OrchestratorAssumption ==
  /\ Kind \in Tooled({"query", "mutation", "llm"})
  /\ {RunOnce, StopOnError, Terminal, Cached, NoArgument} \subseteq Tooled(BOOLEAN)
  /\ {MaxCalls, MaxAttempts, MaxRetries} \subseteq Tooled(Nat)
  /\ {MaxRounds, MaxModelRetries, MaxLLMTools, MaxMutations, MaxIsolatedRounds} \subseteq Nat \ {0}
  /\ {MaxInvalid, MaxRecoverable, MaxBatch} \subseteq Nat \ {0}
  /\ MaxTries \in Nat /\ \A t \in Tools : Kind[t] = "mutation" => MaxRetries[t] + 1 <= MaxTries
  /\ \A c \in Configs : c.need \in Tooled(Nat) /\ c.any \subseteq Tools
                        /\ c.isolated \in BOOLEAN /\ c.compacts \in BOOLEAN

VARIABLES
  config,           \* the RunConfig of this run
  pc,               \* what the run does next
  step,             \* the round
  attempt,          \* of the model decision or of the tool
  batch,            \* calls in the answer of the model
  handled,          \* how many of them the loop has passed
  answers,          \* tool results in the messages for each call, 0 if not answered yet
  call,             \* the prepared call
  limitReached, rewrites,
  succeeded,        \* ledger.SuccessfulCalls, and the traces with status ok
  attempted,        \* ledger.AttemptedCalls
  invalid,          \* ledger.InvalidArguments
  failures,         \* ledger.RecoverableErrors
  mutationCalls, mutationVersion, llmCalls,
  queries,          \* ledger.SuccessfulQueries: key and what the query read
  traced,           \* a trace exists
  cancelled,        \* the context has ended
  data,             \* the data the tools work on: the mutations that took effect
  mutationRuns,     \* history: executions of mutations
  failedWithEffect, \* history: a mutation changed the data and reported an error
  staleReuse,       \* history: a query result older than the data was reused
  outcome

ledger == <<succeeded, attempted, invalid, failures, mutationCalls, mutationVersion,
            llmCalls, queries, traced>>
world == <<data, mutationRuns, failedWithEffect>>
progress == <<step, batch, handled, answers, call, limitReached, rewrites>>
vars == <<config, pc, attempt, progress, ledger, world, cancelled, staleReuse, outcome>>

NoCall == [tool |-> "none", arg |-> "none"]
Unanswered == [i \in 1..MaxBatch |-> 0]

Init ==
  /\ config \in Configs
  /\ pc = "ask" /\ step = 0 /\ attempt = 1
  /\ batch = 0 /\ handled = 0 /\ answers = Unanswered /\ call = NoCall
  /\ limitReached = FALSE /\ rewrites = FALSE
  /\ succeeded = [t \in Tools |-> 0] /\ attempted = [t \in Tools |-> 0]
  /\ invalid = [t \in Tools |-> 0] /\ failures = [t \in Tools |-> 0]
  /\ mutationCalls = 0 /\ mutationVersion = 0 /\ llmCalls = 0
  /\ queries = {} /\ traced = FALSE /\ cancelled = FALSE
  /\ data = 0 /\ mutationRuns = 0 /\ failedWithEffect = FALSE /\ staleReuse = FALSE
  /\ outcome = "none"

-----------------------------------------------------------------------------
(* Completion *)

\* need stands for RequiredAll (once) and for RequiredCounts.
hasCompletionRequirement == config.any # {} \/ \E t \in Tools : config.need[t] > 0

completionRequirementSatisfied ==
  /\ \A t \in Tools : succeeded[t] >= config.need[t]
  /\ config.any = {} \/ \E t \in config.any : succeeded[t] > 0

Finish(how) == pc' = "done" /\ outcome' = how

\* The exits that answer only when the requirement is met, and fail otherwise.
FinishIfComplete ==
  Finish(IF completionRequirementSatisfied THEN "result" ELSE "error")

\* Mutation: a round is not counted.
NextRoundUncounted ==
  /\ pc' = "ask" /\ attempt' = 1
  /\ UNCHANGED <<step, outcome>>

\* The loop of run: another round, or finishAfterCallLimit.
NextRound ==
  IF step < MaxRounds
  THEN pc' = "ask" /\ step' = step + 1 /\ attempt' = 1 /\ UNCHANGED outcome
  ELSE FinishIfComplete /\ UNCHANGED <<step, attempt>>

-----------------------------------------------------------------------------
(* The model *)

Asking == pc = "ask"

ModelFails ==
  /\ Asking
  /\ Finish("error")
  /\ UNCHANGED <<config, attempt, progress, ledger, world, cancelled, staleReuse>>

\* The output limit: enough is known already, or the model is asked again, or
\* the run fails.
ModelTruncated ==
  /\ Asking /\ ~cancelled
  /\ IF traced /\ completionRequirementSatisfied
     THEN Finish("result") /\ UNCHANGED attempt
     ELSE IF attempt < MaxModelRetries + 1
     THEN attempt' = attempt + 1 /\ UNCHANGED <<pc, outcome>>
     ELSE Finish("error") /\ UNCHANGED attempt
  /\ UNCHANGED <<config, progress, ledger, world, cancelled, staleReuse>>

ModelSaysText ==
  /\ Asking /\ ~cancelled
  /\ IF completionRequirementSatisfied
     THEN Finish("result") /\ UNCHANGED <<step, attempt>>
     ELSE NextRound
  /\ UNCHANGED <<config, batch, handled, answers, call, limitReached, rewrites, ledger,
                 world, cancelled, staleReuse>>

ModelCallsTools ==
  /\ Asking /\ ~cancelled
  /\ pc' = "prepare"
  /\ batch' \in 1..MaxBatch
  /\ handled' = 0 /\ answers' = Unanswered
  /\ limitReached' = FALSE /\ rewrites' = FALSE
  /\ UNCHANGED <<config, step, attempt, call, ledger, world, cancelled, staleReuse, outcome>>

-----------------------------------------------------------------------------
(* prepareToolCall, in the order of its checks *)

Preparing == pc = "prepare" /\ handled < batch

\* toolResultMessage for the call at hand.
Answered == [answers EXCEPT ![handled + 1] = @ + 1]

\* The call gets its answer and the loop goes on to the next one.
Refuse ==
  /\ handled' = handled + 1 /\ answers' = Answered
  /\ UNCHANGED <<config, step, attempt, batch, call, rewrites, world, cancelled>>

AtAttemptLimit(t) == MaxAttempts[t] > 0 /\ attempted[t] >= MaxAttempts[t]
AtCallLimit(t) == MaxCalls[t] > 0 /\ succeeded[t] >= MaxCalls[t]
CompletedRunOnce(t) == RunOnce[t] /\ succeeded[t] > 0

\* Mutation: a mutation that failed is not charged.
OverBudgetBySuccess(t) ==
  \/ Kind[t] = "llm" /\ llmCalls >= MaxLLMTools
  \/ Kind[t] = "mutation" /\ mutationVersion >= MaxMutations

OverBudget(t) ==
  \/ Kind[t] = "llm" /\ llmCalls >= MaxLLMTools
  \/ Kind[t] = "mutation" /\ mutationCalls >= MaxMutations

RefuseUnknown ==
  /\ Preparing
  /\ Refuse
  /\ UNCHANGED <<pc, limitReached, ledger, staleReuse, outcome>>

RefuseAtAttemptLimit(t) ==
  /\ Preparing /\ AtAttemptLimit(t)
  /\ Refuse
  /\ UNCHANGED <<pc, limitReached, ledger, staleReuse, outcome>>

\* Mutation: the model may correct its arguments for ever.
InvalidArgumentsUnlimited(t) ==
  /\ Preparing /\ ~AtAttemptLimit(t) /\ ~NoArgument[t]
  /\ attempted' = [attempted EXCEPT ![t] = @ + 1]
  /\ invalid' = [invalid EXCEPT ![t] = @ + 1]
  /\ Refuse
  /\ UNCHANGED <<pc, outcome, limitReached, succeeded, failures, mutationCalls, mutationVersion,
                 llmCalls, queries, traced, staleReuse>>

InvalidArguments(t) ==
  /\ Preparing /\ ~AtAttemptLimit(t) /\ ~NoArgument[t]
  /\ attempted' = [attempted EXCEPT ![t] = @ + 1]
  /\ invalid' = [invalid EXCEPT ![t] = @ + 1]
  /\ Refuse
  /\ IF invalid'[t] < MaxInvalid THEN UNCHANGED <<pc, outcome>> ELSE Finish("error")
  /\ UNCHANGED <<limitReached, succeeded, failures, mutationCalls, mutationVersion, llmCalls,
                 queries, traced, staleReuse>>

\* The bookkeeping of a call whose arguments are valid.
Admit(t) ==
  /\ Preparing /\ ~AtAttemptLimit(t)
  /\ attempted' = [attempted EXCEPT ![t] = @ + 1]
  /\ invalid' = [invalid EXCEPT ![t] = 0]
  /\ UNCHANGED <<succeeded, failures, mutationVersion, llmCalls, queries, traced>>

RefuseRepeated(t) ==
  /\ Admit(t)
  /\ CompletedRunOnce(t) \/ AtCallLimit(t)
  /\ Refuse
  /\ UNCHANGED <<pc, limitReached, mutationCalls, staleReuse, outcome>>

\* Mutation: the key leaves the version out.
ReusableAtAnyVersion(t, a) ==
  IF Kind[t] = "query" /\ Cached[t]
  THEN {q \in queries : q.tool = t /\ q.arg = a}
  ELSE {}

\* toolQueryCacheKey: the arguments and the number of successful mutations.
Reusable(t, a) ==
  IF Kind[t] = "query" /\ Cached[t]
  THEN {q \in queries : q.version = mutationVersion /\ q.tool = t /\ q.arg = a}
  ELSE {}

Fresh(t) == ~CompletedRunOnce(t) /\ ~AtCallLimit(t)

ReuseQueryResult(t, a) ==
  /\ Admit(t) /\ Fresh(t)
  /\ \E q \in Reusable(t, a) : staleReuse' = (staleReuse \/ q.seen # data)
  /\ Refuse
  /\ IF hasCompletionRequirement /\ completionRequirementSatisfied
     THEN Finish("result")
     ELSE UNCHANGED <<pc, outcome>>
  /\ UNCHANGED <<limitReached, mutationCalls>>

RefuseOverBudget(t, a) ==
  /\ Admit(t) /\ Fresh(t) /\ Reusable(t, a) = {} /\ OverBudget(t)
  /\ limitReached' = TRUE
  /\ Refuse
  /\ UNCHANGED <<pc, mutationCalls, staleReuse, outcome>>

StartTool(t, a) ==
  /\ Admit(t) /\ Fresh(t) /\ Reusable(t, a) = {} /\ ~OverBudget(t)
  /\ mutationCalls' = IF Kind[t] = "mutation" THEN mutationCalls + 1 ELSE mutationCalls
  /\ pc' = "run" /\ attempt' = 1 /\ call' = [tool |-> t, arg |-> a]
  /\ UNCHANGED <<config, step, batch, handled, answers, limitReached, rewrites, world,
                 cancelled, staleReuse, outcome>>

-----------------------------------------------------------------------------
(* executePreparedToolCall and runToolWithRetry *)

Running == pc = "run"
Waiting == pc = "wait"

\* An execution of a mutation, which changes the data or does not.
Executes(effect) ==
  /\ traced' = TRUE
  /\ IF Kind[call.tool] = "mutation"
     THEN mutationRuns' = mutationRuns + 1 /\ data' = IF effect THEN data + 1 ELSE data
     ELSE ~effect /\ UNCHANGED <<data, mutationRuns>>

recordSuccessfulTool(t) ==
  /\ failures' = [failures EXCEPT ![t] = 0]
  /\ succeeded' = [succeeded EXCEPT ![t] = @ + 1]
  /\ queries' = IF Kind[t] = "query" /\ Cached[t]
                THEN queries \cup {[version |-> mutationVersion, tool |-> t,
                                    arg |-> call.arg, seen |-> data]}
                ELSE queries
  /\ mutationVersion' = IF Kind[t] = "mutation" THEN mutationVersion + 1 ELSE mutationVersion
  /\ llmCalls' = IF Kind[t] = "llm" THEN llmCalls + 1 ELSE llmCalls

ToolSucceeds ==
  /\ Running
  /\ Executes(Kind[call.tool] = "mutation")
  /\ recordSuccessfulTool(call.tool)
  /\ answers' = Answered
  /\ handled' = handled + 1
  /\ rewrites' = (rewrites \/ call.tool = RewriteTool)
  /\ call' = NoCall
  /\ IF Terminal[call.tool] THEN Finish("result") ELSE pc' = "prepare" /\ UNCHANGED outcome
  /\ UNCHANGED <<config, attempt, step, batch, limitReached, attempted, invalid,
                 mutationCalls, failedWithEffect, cancelled, staleReuse>>

\* Mutation: the calls after the failed one get no result.
SkipRestSilently ==
  answers' = [answers EXCEPT ![handled + 1] = @ + 1]

\* A recoverable error ends the batch: the calls left are answered as skipped.
SkipRest ==
  answers' = [i \in 1..MaxBatch |->
                IF i > handled /\ i <= batch THEN answers[i] + 1 ELSE answers[i]]

SettleError(t) ==
  /\ call' = NoCall
  /\ IF StopOnError[t]
     THEN Finish("error") /\ answers' = Answered /\ handled' = handled + 1
          /\ UNCHANGED failures
     ELSE /\ failures' = [failures EXCEPT ![t] = @ + 1]
          /\ IF failures'[t] >= MaxRecoverable
             THEN Finish("error") /\ answers' = Answered /\ handled' = handled + 1
             ELSE SkipRest /\ handled' = batch /\ pc' = "prepare" /\ UNCHANGED outcome

ToolFails(retryable, effect) ==
  /\ Running
  /\ Executes(effect)
  /\ failedWithEffect' = (failedWithEffect \/ effect)
  /\ IF retryable /\ attempt <= MaxRetries[call.tool]
     THEN pc' = "wait" /\ UNCHANGED <<call, answers, handled, failures, outcome>>
     ELSE SettleError(call.tool)
  /\ UNCHANGED <<config, attempt, step, batch, limitReached, rewrites, succeeded, attempted,
                 invalid, mutationCalls, mutationVersion, llmCalls, queries, cancelled,
                 staleReuse>>

RetryTool ==
  /\ Waiting
  /\ pc' = "run" /\ attempt' = attempt + 1
  /\ UNCHANGED <<config, progress, ledger, world, cancelled, staleReuse, outcome>>

\* The context ends during the delay: its error is a recoverable one.
StopRetrying ==
  /\ Waiting /\ cancelled
  /\ SettleError(call.tool)
  /\ UNCHANGED <<config, attempt, step, batch, limitReached, rewrites, succeeded, attempted,
                 invalid, mutationCalls, mutationVersion, llmCalls, queries, traced, world,
                 cancelled, staleReuse>>

-----------------------------------------------------------------------------
(* The end of a batch *)

BatchEnds == pc = "prepare" /\ handled = batch

EndAtLimit ==
  /\ BatchEnds /\ limitReached
  /\ FinishIfComplete
  /\ UNCHANGED <<config, attempt, progress, ledger, world, cancelled, staleReuse>>

\* Tool results are compacted when they are long; only queries and LLM tools have them.
Compactable == config.compacts /\ \E t \in Tools : Kind[t] # "mutation" /\ succeeded[t] > 0

CompactionFails ==
  /\ BatchEnds /\ ~limitReached /\ Compactable
  /\ Finish("error")
  /\ UNCHANGED <<config, attempt, progress, ledger, world, cancelled, staleReuse>>

\* The messages are rebuilt without the calls by a rewrite, by a compaction and
\* by an isolated round, which is also one of MaxIsolatedRounds only.
EndBatch(compacted) ==
  /\ BatchEnds /\ ~limitReached
  /\ compacted => Compactable
  /\ IF config.isolated /\ step + 1 >= MaxIsolatedRounds
     THEN FinishIfComplete /\ UNCHANGED <<step, attempt>>
     ELSE NextRound
  /\ IF rewrites \/ compacted \/ config.isolated
     THEN batch' = 0 /\ handled' = 0 /\ answers' = Unanswered
     ELSE UNCHANGED <<batch, handled, answers>>
  /\ UNCHANGED <<config, call, limitReached, rewrites, ledger, world, cancelled, staleReuse>>

\* The owner of the context cancels it.
Cancel ==
  /\ ~cancelled /\ pc # "done"
  /\ cancelled' = TRUE
  /\ UNCHANGED <<config, pc, attempt, progress, ledger, world, staleReuse, outcome>>

RunStep ==
  \/ ModelFails \/ ModelTruncated \/ ModelSaysText \/ ModelCallsTools
  \/ RefuseUnknown
  \/ \E t \in Tools : RefuseAtAttemptLimit(t) \/ InvalidArguments(t) \/ RefuseRepeated(t)
  \/ \E t \in Tools, a \in Args : ReuseQueryResult(t, a) \/ RefuseOverBudget(t, a) \/ StartTool(t, a)
  \/ ToolSucceeds
  \/ \E retryable, effect \in BOOLEAN : ToolFails(retryable, effect)
  \/ RetryTool \/ StopRetrying
  \/ EndAtLimit \/ CompactionFails
  \/ \E compacted \in BOOLEAN : EndBatch(compacted)

Next == RunStep \/ Cancel

Spec == Init /\ [][Next]_vars

\* The goroutine of the run goes on: calls of the model and of tools have timeouts.
FairSpec == Spec /\ WF_vars(RunStep)

-----------------------------------------------------------------------------
TypeOK ==
  /\ config \in Configs
  /\ pc \in {"ask", "prepare", "run", "wait", "done"}
  /\ outcome \in {"none", "result", "error"} /\ (pc = "done" <=> outcome # "none")
  /\ step \in 0..MaxRounds
  /\ batch \in 0..MaxBatch /\ handled \in 0..batch
  /\ answers \in [1..MaxBatch -> Nat]
  /\ pc \in {"run", "wait"} => call.tool \in Tools /\ call.arg \in Args /\ handled < batch
  /\ succeeded \in Tooled(Nat) /\ attempted \in Tooled(Nat)
  /\ invalid \in Tooled(0..MaxInvalid) /\ failures \in Tooled(0..MaxRecoverable)
  /\ mutationCalls \in 0..MaxMutations /\ mutationVersion \in 0..mutationCalls
  /\ llmCalls \in 0..MaxLLMTools
  /\ {limitReached, rewrites, traced, cancelled, failedWithEffect, staleReuse} \subseteq BOOLEAN

\* Whenever the model is asked, the messages hold exactly one result for every
\* tool call of its last answer, on whatever path the batch ended: refused,
\* reused, failed, or skipped after a failure (tools.go:313-324).  A provider
\* rejects a conversation with a call left open.
EveryCallIsAnswered ==
  pc = "ask" => \A i \in 1..batch : answers[i] = 1

\* A query result is reused only while it is what the query would read again
\* (orchestrator.go:90, tools.go:118-123); the one way round it is a mutation that changed
\* the data and reported an error all the same, which invalidates nothing.
StaleReuseOnlyAfterFailure == staleReuse => failedWithEffect

\* The run as its tools see it: limits, budgets, and what an answer requires.
Promise == INSTANCE ToolBudget WITH need <- config.need, any <- config.any,
                                    mutations <- mutationVersion
KeepsToolBudget == Promise!Spec

\* Liveness: every run ends, within its rounds and retries.
RunEnds == <>(pc = "done")
=============================================================================
