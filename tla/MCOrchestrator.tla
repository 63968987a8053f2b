--------------------------- MODULE MCOrchestrator ---------------------------
(* A cached query with limits, a mutation that may be retried, an LLM tool  *)
(* that runs once, and a mutation that ends the run; all limits small.      *)
EXTENDS Orchestrator

CONSTANTS search, save, judge, commit, a

MCTools == {search, save, judge, commit}
Only(tools) == [t \in MCTools |-> t \in tools]
Number(tools, n) == [t \in MCTools |-> IF t \in tools THEN n ELSE 0]

MCKind == [t \in MCTools |-> CASE t = search -> "query" [] t = judge -> "llm"
                               [] OTHER -> "mutation"]
MCRunOnce == Only({judge})
MCMaxCalls == [t \in MCTools |-> IF t = search THEN 2 ELSE IF t = save THEN 1 ELSE 0]
MCMaxAttempts == [t \in MCTools |-> IF t = search THEN 3 ELSE IF t = judge THEN 1 ELSE 0]
MCMaxRetries == Number({save}, 1)
MCStopOnError == Only({judge})
MCTerminal == Only({commit})
MCCached == Only({search})
MCNoArgument == Only({commit})

Config(need, any, isolated, compacts) ==
  [need |-> need, any |-> any, isolated |-> isolated, compacts |-> compacts]
MCConfigs ==
  {Config(Number({}, 0), {}, FALSE, FALSE),
   Config(Number({search}, 1), {save, commit}, FALSE, TRUE),
   Config(Number({search, save}, 1), {}, TRUE, FALSE)}
=============================================================================
