------------------------ MODULE InvestigationMachine ------------------------
(***************************************************************************)
(* The agent's state machine: the runner (agents/state_machine.py), the    *)
(* context its nodes share (agents/context.py) and the fifteen nodes       *)
(* (agents/nodes/), for one investigation.                                 *)
(*                                                                         *)
(* One action is one turn of the runner's loop: the visit is counted, the  *)
(* node runs to its transition or its exception, the step's events are     *)
(* emitted and the state advances.  A node awaits tools and models inside  *)
(* its turn, but nothing else touches its context meanwhile, so a turn is  *)
(* atomic.  What a tool, the router or the model answers is a              *)
(* nondeterministic choice.                                                *)
(*                                                                         *)
(* Abstractions.  A hypothesis is the collector that would settle its      *)
(* category (CATEGORY_SIGNALS), or NoSignal when it names none; of the      *)
(* evidence the nodes ask only whether there is any; a confidence score is *)
(* which side of CONFIDENCE_THRESHOLD it fell on.  Prompts, wording,       *)
(* notes, token counts and timings are left out.                           *)
(***************************************************************************)
EXTENDS Integers, Sequences, FiniteSets

CONSTANTS
    ToolBudgets,        \* the tool_budget values a start request may carry
    IterationLimits,    \* the max_iterations values it may carry
    TransitionCeilings, \* the max_transitions a machine may be built with
    MaxHypotheses       \* hypotheses per round (MAX_HYPOTHESES, 5 in the code)

ASSUME LimitsAssumption ==
    /\ ToolBudgets \subseteq 1 .. 200
    /\ IterationLimits \subseteq 1 .. 10
    /\ TransitionCeilings \subseteq Nat \ {0}
    /\ MaxHypotheses \in Nat \ {0}

-----------------------------------------------------------------------------
(* States and plans. *)

SignalCollectors ==
    {"COLLECT_LOGS", "COLLECT_METRICS", "COLLECT_TRACES", "COLLECT_DATABASE",
     "CHECK_DEPLOYMENTS", "INSPECT_CODE"}

Collectors == SignalCollectors \cup {"SEARCH_HISTORY"}

Reasoning ==
    {"GENERATE_HYPOTHESES", "COLLECT_ADDITIONAL_EVIDENCE", "RANK_HYPOTHESES",
     "SELECT_ROOT_CAUSE", "VALIDATE", "RECOMMEND_FIX"}

TERMINAL_STATES == {"COMPLETED", "NEEDS_HUMAN", "FAILED"}

States ==
    {"UNDERSTAND_INCIDENT", "PLAN"} \cup Collectors \cup Reasoning
        \cup TERMINAL_STATES

\* INTENT_COLLECTORS, in its two parts: the collectors that need a tool server
\* and, always last, the one that needs only the knowledge base.
ToolsFor(intent) ==
    CASE intent = "FULL_INVESTIGATION" ->
            <<"COLLECT_LOGS", "COLLECT_METRICS", "COLLECT_TRACES",
              "COLLECT_DATABASE", "CHECK_DEPLOYMENTS">>
      [] intent = "PERFORMANCE_ANALYSIS" ->
            <<"COLLECT_LOGS", "COLLECT_METRICS", "COLLECT_TRACES", "COLLECT_DATABASE">>
      [] intent \in {"ERROR_ANALYSIS", "GENERAL_QUESTION"} ->
            <<"COLLECT_LOGS", "COLLECT_METRICS">>
      [] intent = "DATABASE_HEALTH" -> <<"COLLECT_DATABASE", "COLLECT_LOGS">>
      [] intent = "LOG_QUERY" -> <<"COLLECT_LOGS">>
      [] intent = "METRIC_QUERY" -> <<"COLLECT_METRICS">>
      [] intent \in {"TRACE_QUERY", "SERVICE_TOPOLOGY"} -> <<"COLLECT_TRACES">>
      [] intent = "DEPLOYMENT_CHECK" -> <<"CHECK_DEPLOYMENTS">>
      [] intent \in {"CODE_LOOKUP", "CONFIG_LOOKUP"} -> <<"INSPECT_CODE">>
      [] OTHER -> << >>

HistoryIntents ==
    {"FULL_INVESTIGATION", "PERFORMANCE_ANALYSIS", "ERROR_ANALYSIS",
     "GENERAL_QUESTION", "DATABASE_HEALTH", "SERVICE_TOPOLOGY", "CODE_LOOKUP",
     "CONFIG_LOOKUP", "HISTORICAL_SIMILARITY", "KNOWLEDGE_QUESTION",
     "REMEDIATION_QUESTION"}

Intents ==
    HistoryIntents \cup {"LOG_QUERY", "METRIC_QUERY", "TRACE_QUERY", "DEPLOYMENT_CHECK"}

\* plan_for: the tool collectors if the route needs MCP, the knowledge base if
\* it needs retrieval.
PlanFor(intent, requires_mcp, requires_rag) ==
    (IF requires_mcp THEN ToolsFor(intent) ELSE << >>)
        \o (IF requires_rag /\ intent \in HistoryIntents
            THEN <<"SEARCH_HISTORY">> ELSE << >>)

MaxPlan == 6

\* How many calls plan_calls asks for; 0 means the collector skips itself.
CallsOf(c, service_known, query_blank) ==
    CASE c = "COLLECT_LOGS"      -> IF service_known THEN 2 ELSE 0
      [] c = "COLLECT_METRICS"   -> 2
      [] c = "COLLECT_TRACES"    -> IF service_known THEN 2 ELSE 1
      [] c = "COLLECT_DATABASE"  -> 3
      [] c = "CHECK_DEPLOYMENTS" -> 1
      [] c = "INSPECT_CODE"      -> IF query_blank THEN 0 ELSE 1

MIN_BUDGET_OF_TWO == 2 \* mutant
MIN_BUDGET_FOR_COLLECTOR == 3
MAX_REJECTIONS_OF_TWO == 2 \* mutant
MAX_REJECTIONS == 1
MAX_ACTIONS == 3

NoSignal == "none"
NoRootCause == [kind |-> "none"]
RootCause(cites, verdict, score) ==
    [kind |-> "root_cause", cites |-> cites, verdict |-> verdict, score |-> score]

Verdicts == {"unvalidated", "valid", "overruled", "rejected"}
Scores == {"unscored", "below_threshold", "meets_threshold"}

-----------------------------------------------------------------------------
VARIABLES
    request,         \* [tool_budget, max_iterations, query_blank], fixed
    max_transitions, \* the runner's ceiling, fixed
    state,           \* the runner's current state
    transitions,     \* transitions made
    outcome,         \* "RUNNING", or the final_state _stop reported
    exit,            \* which of _stop's callers ended the run
    service_known,   \* whether target_service is known, from PLAN on
    plan,            \* collectors still to run
    visits,          \* how often each collector was entered
    tool_calls_made,
    iteration,
    evidence,        \* whether any fact was collected
    hypotheses,      \* the signals this round's hypotheses name
    selected,        \* whether one of them is marked selected
    root_cause,
    rejections,      \* counters["validate_failures"]
    announced,       \* ROOT_CAUSE events emitted
    recommendations  \* how many recommendations the context holds

limits == <<request, max_transitions>>
runner == <<state, transitions, outcome, exit>>
collection == <<service_known, plan, visits, tool_calls_made, evidence>>
reasoning == <<iteration, hypotheses, selected, root_cause, rejections,
               announced, recommendations>>
vars == <<limits, runner, collection, reasoning>>

Requests == [tool_budget : ToolBudgets, max_iterations : IterationLimits,
             query_blank : BOOLEAN]

RootCauses == [kind : {"root_cause"}, cites : BOOLEAN, verdict : Verdicts,
               score : Scores]

TypeOK ==
    /\ request \in Requests
    /\ max_transitions \in TransitionCeilings
    /\ state \in States
    /\ transitions \in Nat
    /\ outcome \in TERMINAL_STATES \cup {"RUNNING"}
    /\ exit \in {"none", "state", "budget", "ceiling", "error"}
    /\ service_known \in BOOLEAN
    /\ plan \in Seq(Collectors)
    /\ visits \in [Collectors -> Nat]
    /\ tool_calls_made \in 0 .. request.tool_budget
    /\ iteration \in 0 .. request.max_iterations
    /\ evidence \in BOOLEAN
    /\ hypotheses \subseteq SignalCollectors \cup {NoSignal}
    /\ selected \in BOOLEAN
    /\ root_cause \in RootCauses \cup {NoRootCause}
    /\ rejections \in 0 .. (MAX_REJECTIONS + 1)
    /\ announced \in 0 .. 1
    /\ recommendations \in 0 .. MAX_ACTIONS

Init ==
    /\ request \in Requests
    /\ max_transitions \in TransitionCeilings
    /\ state = "UNDERSTAND_INCIDENT"
    /\ transitions = 0
    /\ outcome = "RUNNING"
    /\ exit = "none"
    /\ service_known = FALSE
    /\ plan = << >>
    /\ visits = [c \in Collectors |-> 0]
    /\ tool_calls_made = 0
    /\ iteration = 0
    /\ evidence = FALSE
    /\ hypotheses = {}
    /\ selected = FALSE
    /\ root_cause = NoRootCause
    /\ rejections = 0
    /\ announced = 0
    /\ recommendations = 0

-----------------------------------------------------------------------------
(* The runner.  _stop emits the terminal event and fixes the result, so    *)
(* "the terminal event is out" and outcome # "RUNNING" are the same fact.  *)

\* The loop's own checks, before a node runs: not terminal, below the ceiling.
Turn(s) ==
    /\ outcome = "RUNNING"
    /\ state = s
    /\ transitions < max_transitions

Goto(s) ==
    /\ state' = s
    /\ transitions' = transitions + 1
    /\ UNCHANGED <<outcome, exit>>

Stop(final, why) ==
    /\ outcome' = final
    /\ exit' = why
    /\ UNCHANGED <<state, transitions>>

\* The loop's normal end: a terminal state was reached by a transition.
Finish ==
    /\ outcome = "RUNNING"
    /\ state \in TERMINAL_STATES
    /\ Stop(state, "state")
    /\ UNCHANGED <<limits, collection, reasoning>>

\* The transition ceiling, checked before the node is looked up.
HitCeiling ==
    /\ outcome = "RUNNING"
    /\ state \notin TERMINAL_STATES
    /\ transitions >= max_transitions
    /\ Stop("FAILED", "ceiling")
    /\ UNCHANGED <<limits, collection, reasoning>>

-----------------------------------------------------------------------------
(* UNDERSTAND_INCIDENT and PLAN. *)

UnderstandIncident ==
    /\ Turn("UNDERSTAND_INCIDENT")
    /\ Goto("PLAN")
    /\ UNCHANGED <<limits, collection, reasoning>>

\* The state context.advance() leads to from a plan, and what is left of it.
NextOf(p) == IF p = << >> THEN "GENERATE_HYPOTHESES" ELSE Head(p)
RestOf(p) == IF p = << >> THEN << >> ELSE Tail(p)

MakePlan ==
    /\ Turn("PLAN")
    /\ \E intent \in Intents, requires_mcp, requires_rag \in BOOLEAN :
          LET p == PlanFor(intent, requires_mcp, requires_rag)
          IN  /\ plan' = RestOf(p)
              /\ Goto(NextOf(p))
    /\ service_known' \in BOOLEAN
    /\ UNCHANGED <<limits, visits, tool_calls_made, evidence, reasoning>>

\* RouterError: no plan, so the run ends for a human.
RoutingFails ==
    /\ Turn("PLAN")
    /\ Goto("NEEDS_HUMAN")
    /\ UNCHANGED <<limits, collection, reasoning>>

\* Anything else the router raises (a body of Ollama of another shape): the
\* run has failed.
RoutingRaises ==
    /\ Turn("PLAN")
    /\ Stop("FAILED", "error")
    /\ UNCHANGED <<limits, collection, reasoning>>

-----------------------------------------------------------------------------
(* The collectors. *)

budget_remaining == request.tool_budget - tool_calls_made

Calls(c) == CallsOf(c, service_known, request.query_blank)

Enter(c) ==
    /\ Turn(c)
    /\ visits' = [visits EXCEPT ![c] = @ + 1]
    /\ UNCHANGED <<limits, service_known, reasoning>>

Advance ==
    /\ plan' = RestOf(plan)
    /\ Goto(NextOf(plan))

\* Every call of the collector, paid for before the first of them; a failed or
\* uninformative call adds no fact.
Collect(c) ==
    /\ Enter(c)
    /\ Calls(c) <= budget_remaining
    /\ tool_calls_made' = tool_calls_made + Calls(c)
    /\ \/ UNCHANGED evidence
       \/ Calls(c) > 0 /\ evidence' = TRUE
    /\ Advance

\* spend_tool_call refuses the whole request: ToolBudgetExhaustedError.
CollectExhausted(c) ==
    /\ Enter(c)
    /\ Calls(c) > budget_remaining
    /\ Stop("NEEDS_HUMAN", "budget")
    /\ UNCHANGED <<plan, tool_calls_made, evidence>>

\* A tool's answer the collector cannot summarise: the calls are spent, some
\* of its facts may be recorded, and the exception ends the run.
CollectRaises(c) ==
    /\ Enter(c)
    /\ Calls(c) > 0
    /\ Calls(c) <= budget_remaining
    /\ tool_calls_made' = tool_calls_made + Calls(c)
    /\ \/ UNCHANGED evidence
       \/ Calls(c) > 1 /\ evidence' = TRUE
    /\ Stop("FAILED", "error")
    /\ UNCHANGED plan

\* SEARCH_HISTORY spends no budget, and a retriever that raises adds nothing.
SearchHistory ==
    /\ Enter("SEARCH_HISTORY")
    /\ evidence' \in {evidence, TRUE}
    /\ Advance
    /\ UNCHANGED tool_calls_made

-----------------------------------------------------------------------------
(* The reasoning nodes.  Each asks the model once: it may answer, never    *)
(* answer in the schema (stalled) or be unreachable (LlmUnavailableError). *)

\* ReasoningNode.stalled.
Stalls(s) ==
    /\ Turn(s)
    /\ Goto("NEEDS_HUMAN")
    /\ UNCHANGED <<limits, collection, iteration, hypotheses, root_cause,
                   rejections, announced, recommendations>>

Unreachable(s) ==
    /\ Turn(s)
    /\ Stop("FAILED", "error")
    /\ UNCHANGED <<limits, collection, iteration, hypotheses, root_cause,
                   rejections, announced, recommendations>>

HypothesisSets ==
    {H \in SUBSET (SignalCollectors \cup {NoSignal}) :
        H # {} /\ Cardinality(H) <= MaxHypotheses}

NothingToExplain ==
    /\ Turn("GENERATE_HYPOTHESES")
    /\ ~ evidence
    /\ Goto("NEEDS_HUMAN")
    /\ UNCHANGED <<limits, collection, reasoning>>

\* The previous round's hypotheses are replaced, selection included.
GenerateHypotheses ==
    /\ Turn("GENERATE_HYPOTHESES")
    /\ evidence
    /\ hypotheses' \in HypothesisSets
    /\ selected' = FALSE
    /\ Goto("COLLECT_ADDITIONAL_EVIDENCE")
    /\ UNCHANGED <<limits, collection, iteration, root_cause, rejections,
                   announced, recommendations>>

GenerateFails ==
    /\ evidence
    /\ \/ Stalls("GENERATE_HYPOTHESES")
       \/ Unreachable("GENERATE_HYPOTHESES")
    /\ UNCHANGED selected

\* Mutant of Gaps: a signal counts as missing although it was collected.
AnySignal == hypotheses \ {NoSignal}

\* _first_gap: the signals named whose collectors have never run.  The first in
\* the model's order is taken, and the model may put any of them first.
Gaps == {h \in hypotheses \ {NoSignal} : visits[h] = 0}

\* No gap, no iteration left or too little budget: on to ranking.  The
\* iteration is taken before the budget is looked at and is not given back.
ProceedToRanking ==
    /\ Turn("COLLECT_ADDITIONAL_EVIDENCE")
    /\ \/ /\ Gaps = {}
          /\ UNCHANGED iteration
       \/ /\ Gaps # {}
          /\ iteration >= request.max_iterations
          /\ UNCHANGED iteration
       \/ /\ Gaps # {}
          /\ iteration < request.max_iterations
          /\ budget_remaining < MIN_BUDGET_FOR_COLLECTOR
          /\ iteration' = iteration + 1
    /\ Goto("RANK_HYPOTHESES")
    /\ UNCHANGED <<limits, collection, hypotheses, selected, root_cause,
                   rejections, announced, recommendations>>

\* The back edge: requeue puts the collector at the front of the plan, and the
\* transition goes to it as well.
GoBack ==
    /\ Turn("COLLECT_ADDITIONAL_EVIDENCE")
    /\ iteration < request.max_iterations
    /\ budget_remaining >= MIN_BUDGET_FOR_COLLECTOR
    /\ \E c \in Gaps :
          /\ plan' = <<c>> \o plan
          /\ Goto(c)
    /\ iteration' = iteration + 1
    /\ UNCHANGED <<limits, service_known, visits, tool_calls_made, evidence,
                   hypotheses, selected, root_cause, rejections, announced,
                   recommendations>>

\* Every hypothesis is scored afresh and none of them is the answer yet.  The
\* node's own guard against an empty list is never taken.
RankHypotheses ==
    /\ Turn("RANK_HYPOTHESES")
    /\ Goto(IF hypotheses = {} THEN "NEEDS_HUMAN" ELSE "SELECT_ROOT_CAUSE")
    /\ selected' = (hypotheses = {} /\ selected)
    /\ UNCHANGED <<limits, collection, iteration, hypotheses, root_cause,
                   rejections, announced, recommendations>>

\* Whether the conclusion cites a fact is the model's doing: its own citations
\* if any of them exists, the winning hypothesis's otherwise.
SelectRootCause ==
    /\ Turn("SELECT_ROOT_CAUSE")
    /\ hypotheses # {}
    /\ selected' = TRUE
    /\ \E cites \in BOOLEAN :
          root_cause' = RootCause(cites, "unvalidated", "unscored")
    /\ Goto("VALIDATE")
    /\ UNCHANGED <<limits, collection, iteration, hypotheses, rejections,
                   announced, recommendations>>

\* The winner is marked before the model is asked.
SelectFails ==
    /\ hypotheses # {}
    /\ \/ Stalls("SELECT_ROOT_CAUSE")
       \/ Unreachable("SELECT_ROOT_CAUSE")
    /\ selected' = TRUE

\* score_confidence: a conclusion that cites nothing has an evidence support
\* of zero and cannot reach the threshold on the other terms.
ScoresOf(rc) ==
    IF rc.cites THEN {"below_threshold", "meets_threshold"} ELSE {"below_threshold"}

\* Mutant of Accept: the score is written down and not compared.
AcceptAtAnyScore ==
    /\ Turn("VALIDATE")
    /\ root_cause # NoRootCause
    /\ \E verdict \in {"valid", "overruled"}, score \in ScoresOf(root_cause) :
          root_cause' = RootCause(root_cause.cites, verdict, score)
    /\ Goto("RECOMMEND_FIX")
    /\ announced' = announced + 1
    /\ UNCHANGED <<limits, collection, iteration, hypotheses, selected,
                   rejections, recommendations>>

\* The critic agrees, or disagrees without a ground its rules accept; the score
\* then decides between a fix and a human.  The root cause event goes out here.
Accept ==
    /\ Turn("VALIDATE")
    /\ root_cause # NoRootCause
    /\ \E verdict \in {"valid", "overruled"}, score \in ScoresOf(root_cause) :
          /\ root_cause' = RootCause(root_cause.cites, verdict, score)
          /\ Goto(IF score = "meets_threshold" THEN "RECOMMEND_FIX" ELSE "NEEDS_HUMAN")
    /\ announced' = announced + 1
    /\ UNCHANGED <<limits, collection, iteration, hypotheses, selected,
                   rejections, recommendations>>

\* Mutant of Reject: the rejection is not counted.
RejectUncounted ==
    /\ Turn("VALIDATE")
    /\ root_cause # NoRootCause
    /\ root_cause' = NoRootCause
    /\ Goto("GENERATE_HYPOTHESES")
    /\ UNCHANGED <<limits, collection, iteration, hypotheses, selected,
                   rejections, announced, recommendations>>

\* Mutant of Reject: the rejected conclusion is announced before the retry.
RejectAloud ==
    /\ Turn("VALIDATE")
    /\ root_cause # NoRootCause
    /\ rejections' = rejections + 1
    /\ root_cause' = RootCause(root_cause.cites, "rejected", "unscored")
    /\ announced' = 1
    /\ Goto(IF rejections < MAX_REJECTIONS THEN "GENERATE_HYPOTHESES" ELSE "NEEDS_HUMAN")
    /\ UNCHANGED <<limits, collection, iteration, hypotheses, selected,
                   recommendations>>

\* _rejected: back for another explanation the first time, a human the second.
Reject ==
    /\ Turn("VALIDATE")
    /\ root_cause # NoRootCause
    /\ rejections' = rejections + 1
    /\ \/ /\ rejections < MAX_REJECTIONS
          /\ root_cause' = NoRootCause
          /\ UNCHANGED announced
          /\ Goto("GENERATE_HYPOTHESES")
       \/ /\ rejections >= MAX_REJECTIONS
          /\ \E score \in ScoresOf(root_cause) :
                root_cause' = RootCause(root_cause.cites, "rejected", score)
          /\ announced' = announced + 1
          /\ Goto("NEEDS_HUMAN")
    /\ UNCHANGED <<limits, collection, iteration, hypotheses, selected,
                   recommendations>>

ValidateFails ==
    /\ root_cause # NoRootCause
    /\ \/ Stalls("VALIDATE")
       \/ Unreachable("VALIDATE")
    /\ UNCHANGED selected

RecommendFix ==
    /\ Turn("RECOMMEND_FIX")
    /\ root_cause # NoRootCause
    /\ recommendations' \in 1 .. MAX_ACTIONS
    /\ Goto("COMPLETED")
    /\ UNCHANGED <<limits, collection, iteration, hypotheses, selected,
                   root_cause, rejections, announced>>

RecommendFails ==
    /\ root_cause # NoRootCause
    /\ \/ Stalls("RECOMMEND_FIX")
       \/ Unreachable("RECOMMEND_FIX")
    /\ UNCHANGED selected

-----------------------------------------------------------------------------
Next ==
    \/ Finish
    \/ HitCeiling
    \/ UnderstandIncident
    \/ MakePlan
    \/ RoutingFails
    \/ RoutingRaises
    \/ \E c \in SignalCollectors : Collect(c) \/ CollectExhausted(c) \/ CollectRaises(c)
    \/ SearchHistory
    \/ NothingToExplain
    \/ GenerateHypotheses
    \/ GenerateFails
    \/ ProceedToRanking
    \/ GoBack
    \/ RankHypotheses
    \/ SelectRootCause
    \/ SelectFails
    \/ Accept
    \/ Reject
    \/ ValidateFails
    \/ RecommendFix
    \/ RecommendFails

Spec == Init /\ [][Next]_vars

-----------------------------------------------------------------------------
(* Properties. *)

\* The longest run the semantic limits allow: eight states before the first
\* GENERATE_HYPOTHESES (six of them collectors), two rounds of five with the
\* critic's one rejection between them, RECOMMEND_FIX, and four transitions for
\* every back edge: the collector twice and the two states that lead back.
LongestRun == 19 + 4 * request.max_iterations

\* The ceiling is a tripwire (state_machine.py:51-53): it ends only a run whose
\* ceiling lies below what the iteration limit and the critic's one retry
\* allow, never a run that is merely long.
CeilingIsATripwire == exit = "ceiling" => max_transitions < LongestRun

Accepted == root_cause # NoRootCause /\ root_cause.verdict \in {"valid", "overruled"}

\* A fix is proposed only for a conclusion that was announced exactly once, that
\* the critic let stand, that cites evidence and reaches the threshold; and a
\* run is COMPLETED exactly when it proposes one.
FixNeedsAcceptedConclusion ==
    /\ recommendations > 0 =>
          /\ Accepted
          /\ root_cause.cites
          /\ root_cause.score = "meets_threshold"
          /\ announced = 1
    /\ outcome = "COMPLETED" => recommendations > 0
    /\ recommendations > 0 => outcome \in {"RUNNING", "COMPLETED"}

\* MIN_BUDGET_FOR_COLLECTOR does what its comment says for the visit that was
\* asked for: once there are hypotheses, the collector the back edge leads to
\* can pay for its first visit, so a budget that runs out there runs out on a
\* later one.
RequeuedCollectorIsAfforded ==
    (exit = "budget" /\ hypotheses # {}) => visits[state] > 1

\* Every conclusion the run announces is the one it ends with.
PublishedConclusionStands ==
    [][announced > 0 => UNCHANGED <<root_cause, announced>>]_vars

\* The most tool calls a run can ask for: no collector is entered more than
\* twice, and the six of them make eleven calls between them.
MostCalls == 22

\* A budget of 22 is never exhausted, whatever the iteration limit: the default
\* of 25 (context.py, docs/planning.md) limits no run of these collectors.
BudgetOf22Suffices == exit = "budget" => request.tool_budget < MostCalls

\* A conclusion is a draft until its event is out.
ConclusionShown ==
    CASE root_cause = NoRootCause -> "none"
      [] root_cause # NoRootCause /\ announced > 0 -> "published"
      [] OTHER -> "drafted"

Contract ==
    INSTANCE InvestigationContract
        WITH conclusion <- ConclusionShown,
             withdrawn <- rejections > 0,
             fixes <- recommendations,
             result <- outcome

\* What a run tells the world follows the contract.
FollowsContract == Contract!Spec

=============================================================================
