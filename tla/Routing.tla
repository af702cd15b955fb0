------------------------------- MODULE Routing -------------------------------
(***************************************************************************)
(* What a question is planned to be: the keyword table, the plan of every  *)
(* intent, and the collectors the planner makes of it.                     *)
(*                                                                         *)
(* A question is what the table tells apart: the services it names, the    *)
(* rules with a term in it, and whether a remedial or a definitional       *)
(* phrase is.  A tool is its server.                                       *)
(***************************************************************************)
EXTENDS SequencesExt

CONSTANT NoService

(* Tested in this order: the specific before the broad.                    *)
Rules ==
    <<"FULL_INVESTIGATION", "HISTORICAL_SIMILARITY", "DEPLOYMENT_CHECK", "DATABASE_HEALTH",
      "SERVICE_TOPOLOGY", "CONFIG_LOOKUP", "CODE_LOOKUP", "REMEDIATION_QUESTION",
      "KNOWLEDGE_QUESTION", "PERFORMANCE_ANALYSIS", "TRACE_QUERY", "METRIC_QUERY",
      "LOG_QUERY", "ERROR_ANALYSIS">>

Intents == ToSet(Rules) \cup {"GENERAL_QUESTION"}

Entry(rag, mcp, servers) == [requires_rag |-> rag, requires_mcp |-> mcp, servers |-> servers]

INTENT_PLANS == [intent \in Intents |->
    CASE intent = "FULL_INVESTIGATION" -> Entry(TRUE, TRUE, {"logs", "metrics", "traces", "git"})
      [] intent = "ERROR_ANALYSIS" -> Entry(TRUE, TRUE, {"logs"})
      [] intent = "LOG_QUERY" -> Entry(FALSE, TRUE, {"logs"})
      [] intent = "METRIC_QUERY" -> Entry(FALSE, TRUE, {"metrics"})
      [] intent = "TRACE_QUERY" -> Entry(FALSE, TRUE, {"traces"})
      [] intent = "PERFORMANCE_ANALYSIS" -> Entry(TRUE, TRUE, {"metrics", "traces"})
      [] intent = "DATABASE_HEALTH" -> Entry(TRUE, TRUE, {"database"})
      [] intent = "DEPLOYMENT_CHECK" -> Entry(FALSE, TRUE, {"git"})
      [] intent \in {"CODE_LOOKUP", "CONFIG_LOOKUP"} -> Entry(TRUE, TRUE, {"source-code"})
      [] intent = "SERVICE_TOPOLOGY" -> Entry(TRUE, TRUE, {"traces"})
      [] intent = "GENERAL_QUESTION" -> Entry(TRUE, TRUE, {"logs", "metrics"})
      [] OTHER -> Entry(TRUE, FALSE, {})]

(* The server each collector asks; SEARCH_HISTORY asks none.               *)
ServerOf ==
    [COLLECT_LOGS |-> "logs", COLLECT_METRICS |-> "metrics", COLLECT_TRACES |-> "traces",
     COLLECT_DATABASE |-> "database", CHECK_DEPLOYMENTS |-> "git",
     INSPECT_CODE |-> "source-code", SEARCH_HISTORY |-> "none"]

INTENT_COLLECTORS == [intent \in Intents |->
    CASE intent = "FULL_INVESTIGATION" ->
            <<"COLLECT_LOGS", "COLLECT_METRICS", "COLLECT_TRACES", "COLLECT_DATABASE",
              "CHECK_DEPLOYMENTS", "SEARCH_HISTORY">>
      [] intent \in {"ERROR_ANALYSIS", "GENERAL_QUESTION"} ->
            <<"COLLECT_LOGS", "COLLECT_METRICS", "SEARCH_HISTORY">>
      [] intent = "LOG_QUERY" -> <<"COLLECT_LOGS">>
      [] intent = "METRIC_QUERY" -> <<"COLLECT_METRICS">>
      [] intent = "TRACE_QUERY" -> <<"COLLECT_TRACES">>
      [] intent = "PERFORMANCE_ANALYSIS" ->
            <<"COLLECT_LOGS", "COLLECT_METRICS", "COLLECT_TRACES", "COLLECT_DATABASE",
              "SEARCH_HISTORY">>
      [] intent = "DATABASE_HEALTH" -> <<"COLLECT_DATABASE", "COLLECT_LOGS", "SEARCH_HISTORY">>
      [] intent = "DEPLOYMENT_CHECK" -> <<"CHECK_DEPLOYMENTS">>
      [] intent \in {"CODE_LOOKUP", "CONFIG_LOOKUP"} -> <<"INSPECT_CODE", "SEARCH_HISTORY">>
      [] intent = "SERVICE_TOPOLOGY" -> <<"COLLECT_TRACES", "SEARCH_HISTORY">>
      [] OTHER -> <<"SEARCH_HISTORY">>]

(* A decision: what an intent implies, whoever recognised it.              *)
Decide(intent, service) ==
    LET plan == INTENT_PLANS[intent]
    IN  [intent |-> intent, target_service |-> service, requires_rag |-> plan.requires_rag,
         requires_mcp |-> plan.requires_mcp, servers |-> plan.servers]

(* The rules, behind one gate: a remedial or definitional question that    *)
(* names no service is about the documentation.                            *)
Classify(q) ==
    IF q.services = {} /\ q.remedial THEN "REMEDIATION_QUESTION"
    ELSE IF q.services = {} /\ q.definitional THEN "KNOWLEDGE_QUESTION"
    ELSE IF q.matches # {} THEN Rules[Min({i \in DOMAIN Rules : Rules[i] \in q.matches})]
    ELSE "GENERAL_QUESTION"

(* Two services are none: the hint does not break the tie.                 *)
Service(services, hint) ==
    IF services = {} THEN hint
    ELSE IF \E s \in services : services = {s} THEN CHOOSE s \in services : TRUE
    ELSE NoService

(* RuleBasedRouter.route.                                                  *)
RuleRoute(q, hint) == Decide(Classify(q), Service(q.services, hint))

(* Bug: the model's flags and tools are taken for the plan.                *)
TakenAsSaid(said, hint) ==
    [said EXCEPT !.target_service = IF @ = NoService THEN hint ELSE @]

(* What leaves ModelRouter.route of a usable answer: its intent, with the  *)
(* plan of the table, and its service, or the hint where it said none.     *)
Settle(said, hint) ==
    Decide(said.intent, IF said.target_service = NoService THEN hint ELSE said.target_service)

(* The collectors of a decision, less what it says it does not need.       *)
Needs(d, s) == IF s = "SEARCH_HISTORY" THEN d.requires_rag ELSE d.requires_mcp

PlanFor(d) ==
    LET names == INTENT_COLLECTORS[d.intent]
        plan[i \in 0..Len(names)] ==
            IF i = 0 THEN <<>>
            ELSE IF Needs(d, names[i]) THEN Append(plan[i - 1], names[i]) ELSE plan[i - 1]
    IN  plan[Len(names)]
=============================================================================
