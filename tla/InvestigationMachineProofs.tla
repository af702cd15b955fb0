--------------------- MODULE InvestigationMachineProofs ---------------------
(***************************************************************************)
(* What the runs of InvestigationMachine and InvestigationRun check on     *)
(* small limits, proved for every set of tool budgets, iteration limits    *)
(* and transition ceilings.                                                *)
(***************************************************************************)
EXTENDS InvestigationRun, TLAPS

-----------------------------------------------------------------------------
(* Plans. *)

\* Every intent proposes at most five tool collectors.
LEMMA ToolsForType ==
    ASSUME NEW intent \in Intents
    PROVE  ToolsFor(intent) \in Seq(Collectors) /\ Len(ToolsFor(intent)) <= 5
<1>1. CASE intent = "FULL_INVESTIGATION"
  <2>1. ToolsFor(intent) = <<"COLLECT_LOGS", "COLLECT_METRICS", "COLLECT_TRACES",
                             "COLLECT_DATABASE", "CHECK_DEPLOYMENTS">>
    BY <1>1 DEF ToolsFor
  <2> QED
    BY <2>1 DEF Collectors, SignalCollectors
<1>2. CASE intent = "PERFORMANCE_ANALYSIS"
  <2>1. ToolsFor(intent) = <<"COLLECT_LOGS", "COLLECT_METRICS", "COLLECT_TRACES",
                             "COLLECT_DATABASE">>
    BY <1>2 DEF ToolsFor
  <2> QED
    BY <2>1 DEF Collectors, SignalCollectors
<1>3. CASE intent \in {"ERROR_ANALYSIS", "GENERAL_QUESTION"}
  <2>1. ToolsFor(intent) = <<"COLLECT_LOGS", "COLLECT_METRICS">>
    BY <1>3 DEF ToolsFor
  <2> QED
    BY <2>1 DEF Collectors, SignalCollectors
<1>4. CASE intent = "DATABASE_HEALTH"
  <2>1. ToolsFor(intent) = <<"COLLECT_DATABASE", "COLLECT_LOGS">>
    BY <1>4 DEF ToolsFor
  <2> QED
    BY <2>1 DEF Collectors, SignalCollectors
<1>5. CASE intent \in {"LOG_QUERY", "METRIC_QUERY", "TRACE_QUERY",
                       "SERVICE_TOPOLOGY", "DEPLOYMENT_CHECK", "CODE_LOOKUP",
                       "CONFIG_LOOKUP"}
  <2>1. \E c \in Collectors : ToolsFor(intent) = <<c>>
    BY <1>5 DEF ToolsFor, Collectors, SignalCollectors
  <2> QED
    BY <2>1
<1>6. CASE intent \in {"HISTORICAL_SIMILARITY", "KNOWLEDGE_QUESTION",
                       "REMEDIATION_QUESTION"}
  BY <1>6 DEF ToolsFor
<1> QED
  BY <1>1, <1>2, <1>3, <1>4, <1>5, <1>6 DEF Intents, HistoryIntents

\* plan_for returns a sequence of at most MaxPlan collectors.
LEMMA PlanForType ==
    ASSUME NEW intent \in Intents,
           NEW requires_mcp \in BOOLEAN, NEW requires_rag \in BOOLEAN
    PROVE  /\ PlanFor(intent, requires_mcp, requires_rag) \in Seq(Collectors)
           /\ Len(PlanFor(intent, requires_mcp, requires_rag)) <= MaxPlan
<1> DEFINE tools == IF requires_mcp THEN ToolsFor(intent) ELSE << >>
           history == IF requires_rag /\ intent \in HistoryIntents
                      THEN <<"SEARCH_HISTORY">> ELSE << >>
<1>1. tools \in Seq(Collectors) /\ Len(tools) <= 5
  BY ToolsForType
<1>2. history \in Seq(Collectors) /\ Len(history) <= 1
  <2>1. "SEARCH_HISTORY" \in Collectors
    BY DEF Collectors
  <2> QED
    BY <2>1
<1>3. PlanFor(intent, requires_mcp, requires_rag) = tools \o history
  BY DEF PlanFor
<1> HIDE DEF tools, history
<1> QED
  BY <1>1, <1>2, <1>3 DEF MaxPlan

\* context.advance: the next state and what is left of the plan.
LEMMA AdvanceType ==
    ASSUME NEW p \in Seq(Collectors)
    PROVE  /\ NextOf(p) \in Collectors \cup {"GENERATE_HYPOTHESES"}
           /\ RestOf(p) \in Seq(Collectors)
           /\ NextOf(p) \in Collectors <=> p # << >>
           /\ p = << >> => RestOf(p) = << >>
           /\ p # << >> => Len(p) > 0 /\ Len(RestOf(p)) = Len(p) - 1
  BY DEF NextOf, RestOf, Collectors, SignalCollectors

-----------------------------------------------------------------------------
(* The inductive invariant. *)

\* Only a collector has a plan ahead of it.
PlanSpent == state \notin Collectors => plan = << >>

\* Which states have hypotheses to work on, a conclusion, or an announcement,
\* and what the conclusion is like there.
HypothesesAtHand ==
    /\ state \in {"UNDERSTAND_INCIDENT", "PLAN"} => hypotheses = {}
    /\ state \in {"COLLECT_ADDITIONAL_EVIDENCE", "RANK_HYPOTHESES",
                  "SELECT_ROOT_CAUSE", "VALIDATE"} => hypotheses # {}

Approved ==
    /\ Accepted
    /\ root_cause.cites
    /\ root_cause.score = "meets_threshold"
    /\ announced = 1

ConclusionAtHand ==
    /\ state = "VALIDATE" => root_cause # NoRootCause
    /\ state \in {"RECOMMEND_FIX", "COMPLETED"} => Approved
    /\ root_cause # NoRootCause =>
          state \in {"VALIDATE", "RECOMMEND_FIX"} \cup TERMINAL_STATES
    /\ announced > 0 =>
          state \in {"RECOMMEND_FIX"} \cup TERMINAL_STATES /\ root_cause # NoRootCause
    /\ rejections > MAX_REJECTIONS => state \in TERMINAL_STATES
    /\ state = "COMPLETED" <=> recommendations > 0

\* Once there are hypotheses the plan holds nothing but a second visit to the
\* collector the back edge went to, and the first visit can be paid for.
BackEdgeAfforded ==
    hypotheses # {} =>
        /\ plan = << >> \/ plan = <<state>>
        /\ (state \in SignalCollectors /\ visits[state] = 0) =>
               budget_remaining >= MIN_BUDGET_FOR_COLLECTOR

\* How many transitions a run in state s with plan p can still make: AheadOf
\* straight on, LoopsOf for the back edges and the critic's retry it has left.
AheadOf(s, p) ==
    CASE s = "UNDERSTAND_INCIDENT" -> 14
      [] s = "PLAN" -> 13
      [] s \in Collectors -> 7 + Len(p)
      [] s = "GENERATE_HYPOTHESES" -> 6
      [] s = "COLLECT_ADDITIONAL_EVIDENCE" -> 5
      [] s = "RANK_HYPOTHESES" -> 4
      [] s = "SELECT_ROOT_CAUSE" -> 3
      [] s = "VALIDATE" -> 2
      [] s = "RECOMMEND_FIX" -> 1
      [] OTHER -> 0

LoopsOf(limit, i, r) == 4 * (limit - i) + (IF r = 0 THEN 5 ELSE 0)

WorkLeft ==
    AheadOf(state, plan) + LoopsOf(request.max_iterations, iteration, rejections)

WorkBounded == transitions + WorkLeft <= LongestRun

\* How a run that is over ended.
ExitMatches ==
    /\ outcome = "COMPLETED" => state = "COMPLETED"
    /\ (state = "COMPLETED" /\ outcome # "RUNNING") => outcome = "COMPLETED"
    /\ exit # "none" => outcome # "RUNNING"

IInv ==
    /\ TypeOK
    /\ PlanSpent
    /\ HypothesesAtHand
    /\ ConclusionAtHand
    /\ BackEdgeAfforded
    /\ WorkBounded
    /\ ExitMatches
    /\ CeilingIsATripwire
    /\ RequeuedCollectorIsAfforded

-----------------------------------------------------------------------------
(* Every step preserves it. *)

(* Facts about the data the steps are about. *)

\* Which of the states named in the steps are states, collectors or terminal.
LEMMA StateNames ==
    /\ SignalCollectors \subseteq Collectors
    /\ "SEARCH_HISTORY" \in Collectors
    /\ Collectors \subseteq States
    /\ "NEEDS_HUMAN" \in TERMINAL_STATES /\ "NEEDS_HUMAN" \in States
    /\ "COMPLETED" \in TERMINAL_STATES /\ "COMPLETED" \in States
    /\ "FAILED" \in TERMINAL_STATES
    /\ "PLAN" \in States
    /\ "GENERATE_HYPOTHESES" \in States
    /\ "COLLECT_ADDITIONAL_EVIDENCE" \in States
    /\ "RANK_HYPOTHESES" \in States
    /\ "SELECT_ROOT_CAUSE" \in States
    /\ "VALIDATE" \in States
    /\ "RECOMMEND_FIX" \in States
  BY DEF States, Collectors, Reasoning, TERMINAL_STATES

\* What Requests and LimitsAssumption make of a typed state's limits.
LEMMA LimitTypes ==
    ASSUME TypeOK
    PROVE  /\ request.tool_budget \in Nat
           /\ request.max_iterations \in Nat
           /\ max_transitions \in Nat
<1>1. /\ request.tool_budget \in ToolBudgets
      /\ request.max_iterations \in IterationLimits
      /\ max_transitions \in TransitionCeilings
  BY DEF TypeOK, Requests
<1>2. request.tool_budget \in 1 .. 200
  BY <1>1, LimitsAssumption
<1>3. request.max_iterations \in 1 .. 10
  BY <1>1, LimitsAssumption
<1> QED
  BY <1>1, <1>2, <1>3, LimitsAssumption

\* No collector makes more calls than MIN_BUDGET_FOR_COLLECTOR.
LEMMA CallsBounded ==
    ASSUME NEW c \in SignalCollectors
    PROVE  Calls(c) \in 0 .. MIN_BUDGET_FOR_COLLECTOR
  BY DEF Calls, CallsOf, SignalCollectors, MIN_BUDGET_FOR_COLLECTOR

\* AheadOf, case by case.
LEMMA AheadValues ==
    ASSUME NEW p \in Seq(Collectors)
    PROVE  /\ AheadOf("UNDERSTAND_INCIDENT", p) = 14
           /\ AheadOf("PLAN", p) = 13
           /\ \A c \in Collectors : AheadOf(c, p) = 7 + Len(p)
           /\ AheadOf("GENERATE_HYPOTHESES", p) = 6
           /\ AheadOf("COLLECT_ADDITIONAL_EVIDENCE", p) = 5
           /\ AheadOf("RANK_HYPOTHESES", p) = 4
           /\ AheadOf("SELECT_ROOT_CAUSE", p) = 3
           /\ AheadOf("VALIDATE", p) = 2
           /\ AheadOf("RECOMMEND_FIX", p) = 1
           /\ AheadOf("NEEDS_HUMAN", p) = 0
           /\ AheadOf("COMPLETED", p) = 0
           /\ \A s \in States \ TERMINAL_STATES : AheadOf(s, p) \in Nat \ {0}
<1>1. \A c \in Collectors : AheadOf(c, p) = 7 + Len(p)
  BY DEF AheadOf, Collectors, SignalCollectors
<1>2. /\ AheadOf("UNDERSTAND_INCIDENT", p) = 14
      /\ AheadOf("PLAN", p) = 13
      /\ AheadOf("GENERATE_HYPOTHESES", p) = 6
      /\ AheadOf("COLLECT_ADDITIONAL_EVIDENCE", p) = 5
      /\ AheadOf("RANK_HYPOTHESES", p) = 4
      /\ AheadOf("SELECT_ROOT_CAUSE", p) = 3
      /\ AheadOf("VALIDATE", p) = 2
      /\ AheadOf("RECOMMEND_FIX", p) = 1
  BY DEF AheadOf, Collectors, SignalCollectors
<1>3. AheadOf("NEEDS_HUMAN", p) = 0 /\ AheadOf("COMPLETED", p) = 0
  BY DEF AheadOf, Collectors, SignalCollectors
<1>4. \A s \in States \ TERMINAL_STATES : AheadOf(s, p) \in Nat \ {0}
  BY <1>1, <1>2 DEF States, Reasoning
<1> QED
  BY <1>1, <1>2, <1>3, <1>4

\* What a step to the next state of the plan has ahead of it.
LEMMA AdvanceAhead ==
    ASSUME NEW p \in Seq(Collectors)
    PROVE  AheadOf(NextOf(p), RestOf(p)) \in 0 .. (6 + Len(p))
<1>1. CASE p = << >>
  <2>1. NextOf(p) = "GENERATE_HYPOTHESES"
    BY <1>1 DEF NextOf
  <2> QED
    BY <2>1, AdvanceType, AheadValues
<1>2. CASE p # << >>
  <2>1. NextOf(p) \in Collectors /\ Len(RestOf(p)) = Len(p) - 1 /\ Len(p) > 0
    BY <1>2, AdvanceType
  <2>2. AheadOf(NextOf(p), RestOf(p)) = 7 + Len(RestOf(p))
    BY <2>1, AdvanceType, AheadValues
  <2> QED
    BY <2>1, <2>2
<1> QED
  BY <1>1, <1>2

\* The loops still allowed are a number.
LEMMA LoopsType ==
    ASSUME NEW limit \in Nat, NEW i \in 0 .. limit, NEW r \in 0 .. (MAX_REJECTIONS + 1)
    PROVE  LoopsOf(limit, i, r) \in Nat
  BY DEF LoopsOf

\* The arithmetic of the bound.
LEMMA LessWork ==
    ASSUME NEW t \in Nat, NEW w \in Nat, NEW v \in Nat, NEW l \in Nat,
           t + w <= l
    PROVE  /\ v < w => (t + 1) + v <= l
           /\ w > 0 => t < l
  OBVIOUS

\* A transition that leaves less work than before keeps the bound.
LEMMA WorkStep ==
    ASSUME TypeOK, WorkBounded, request' = request,
           transitions' = transitions + 1,
           WorkLeft \in Nat, WorkLeft' \in Nat, WorkLeft' < WorkLeft
    PROVE  WorkBounded'
<1>1. LongestRun' = LongestRun /\ LongestRun \in Nat
  BY LimitTypes DEF LongestRun
<1>2. transitions \in Nat
  BY DEF TypeOK
<1>3. transitions + WorkLeft <= LongestRun
  BY DEF WorkBounded
<1>4. (transitions + 1) + WorkLeft' <= LongestRun
  BY <1>1, <1>2, <1>3, LessWork
<1> QED
  BY <1>1, <1>4 DEF WorkBounded

\* Straight on: the loops are as they were and there is less ahead.
LEMMA StraightStep ==
    ASSUME TypeOK, WorkBounded, UNCHANGED <<request, iteration, rejections>>,
           transitions' = transitions + 1,
           AheadOf(state, plan) \in Nat, AheadOf(state', plan') \in Nat,
           AheadOf(state', plan') < AheadOf(state, plan)
    PROVE  WorkBounded'
<1>1. LoopsOf(request.max_iterations, iteration, rejections) \in Nat
  BY LoopsType, LimitTypes DEF TypeOK
<1>2. LoopsOf(request.max_iterations, iteration, rejections)'
        = LoopsOf(request.max_iterations, iteration, rejections)
  BY DEF LoopsOf
<1>3. WorkLeft' < WorkLeft /\ WorkLeft \in Nat /\ WorkLeft' \in Nat
  BY <1>1, <1>2 DEF WorkLeft
<1> QED
  BY <1>3, WorkStep


\* Finish keeps the strengthening.
LEMMA FinishPreserves ==
    ASSUME IInv, Finish
    PROVE  IInv'
<1>1. TypeOK'
  BY StateNames DEF IInv, Finish, Stop, limits, collection, reasoning, TypeOK
<1>2. PlanSpent' /\ HypothesesAtHand'
  BY StateNames DEF IInv, Finish, Stop, collection, TypeOK, PlanSpent,
    HypothesesAtHand, Collectors, SignalCollectors, TERMINAL_STATES
<1>3. ConclusionAtHand'
  BY StateNames DEF IInv, Finish, Stop, reasoning, TypeOK, ConclusionAtHand,
    Approved, Accepted, RootCauses, RootCause, NoRootCause, ScoresOf,
    Collectors, SignalCollectors, TERMINAL_STATES, MAX_REJECTIONS, MAX_ACTIONS
<1>4. BackEdgeAfforded'
  BY StateNames DEF IInv, Finish, Stop, limits, collection, reasoning, TypeOK,
    BackEdgeAfforded, budget_remaining, MIN_BUDGET_FOR_COLLECTOR, PlanSpent,
    Collectors, SignalCollectors
<1>5. WorkBounded'
  BY <1>1, StateNames, AheadValues, LimitTypes, LoopsType DEF IInv, Finish,
    Stop, limits, collection, reasoning, TypeOK, WorkBounded, WorkLeft,
    LoopsOf, LongestRun, PlanSpent, ConclusionAtHand, MaxPlan, MAX_REJECTIONS
<1>6. ExitMatches' /\ CeilingIsATripwire' /\ RequeuedCollectorIsAfforded'
  BY StateNames, AheadValues, LimitTypes, LoopsType DEF Finish, Stop, TypeOK,
    ExitMatches, CeilingIsATripwire, RequeuedCollectorIsAfforded, WorkBounded,
    WorkLeft, LongestRun, BackEdgeAfforded, budget_remaining,
    MIN_BUDGET_FOR_COLLECTOR, TERMINAL_STATES
<1> QED
  BY <1>1, <1>2, <1>3, <1>4, <1>5, <1>6 DEF IInv

\* HitCeiling keeps the strengthening.
LEMMA HitCeilingPreserves ==
    ASSUME IInv, HitCeiling
    PROVE  IInv'
<1>1. TypeOK'
  BY StateNames DEF IInv, HitCeiling, Stop, limits, collection, reasoning,
    TypeOK
<1>2. PlanSpent' /\ HypothesesAtHand'
  BY StateNames DEF IInv, HitCeiling, Stop, limits, collection, reasoning,
    TypeOK, PlanSpent, HypothesesAtHand, Collectors, SignalCollectors,
    TERMINAL_STATES
<1>3. ConclusionAtHand'
  BY StateNames DEF IInv, HitCeiling, Stop, reasoning, TypeOK,
    ConclusionAtHand, Approved, Accepted, RootCauses, RootCause, NoRootCause,
    ScoresOf, Collectors, SignalCollectors, TERMINAL_STATES, MAX_REJECTIONS,
    MAX_ACTIONS
<1>4. BackEdgeAfforded'
  BY StateNames DEF IInv, HitCeiling, Stop, limits, collection, reasoning,
    TypeOK, BackEdgeAfforded, budget_remaining, MIN_BUDGET_FOR_COLLECTOR,
    PlanSpent, Collectors, SignalCollectors
<1>5. WorkBounded'
  BY <1>1, StateNames, AheadValues, LimitTypes, LoopsType DEF IInv,
    HitCeiling, Stop, limits, collection, reasoning, TypeOK, WorkBounded,
    WorkLeft, LoopsOf, LongestRun, PlanSpent, ConclusionAtHand, MaxPlan,
    MAX_REJECTIONS
<1>6. ExitMatches' /\ CeilingIsATripwire' /\ RequeuedCollectorIsAfforded'
  <2>1. AheadOf(state, plan) \in Nat \ {0}
    BY AheadValues DEF IInv, TypeOK, HitCeiling
  <2>2. LoopsOf(request.max_iterations, iteration, rejections) \in Nat
    BY LoopsType, LimitTypes DEF IInv, TypeOK
  <2>3. WorkLeft \in Nat /\ WorkLeft > 0
    BY <2>1, <2>2 DEF WorkLeft
  <2>4. LongestRun \in Nat /\ transitions \in Nat
    BY LimitTypes DEF IInv, TypeOK, LongestRun
  <2>5. transitions < LongestRun
    BY <2>3, <2>4 DEF IInv, WorkBounded
  <2>6. max_transitions < LongestRun
    BY <2>4, <2>5, LimitTypes DEF IInv, HitCeiling
  <2>7. CeilingIsATripwire'
    BY <2>6 DEF HitCeiling, limits, CeilingIsATripwire, LongestRun
  <2> QED
    BY <2>7, StateNames DEF HitCeiling, Stop, ExitMatches,
      RequeuedCollectorIsAfforded
<1> QED
  BY <1>1, <1>2, <1>3, <1>4, <1>5, <1>6 DEF IInv

\* UnderstandIncident keeps the strengthening.
LEMMA UnderstandIncidentPreserves ==
    ASSUME IInv, UnderstandIncident
    PROVE  IInv'
<1>1. TypeOK'
  BY StateNames DEF IInv, UnderstandIncident, Goto, limits, collection,
    reasoning, TypeOK
<1>2. PlanSpent' /\ HypothesesAtHand'
  BY StateNames DEF IInv, UnderstandIncident, Turn, Goto, collection,
    reasoning, TypeOK, PlanSpent, HypothesesAtHand, Collectors,
    SignalCollectors, TERMINAL_STATES
<1>3. ConclusionAtHand'
  BY StateNames DEF IInv, UnderstandIncident, Turn, Goto, reasoning, TypeOK,
    ConclusionAtHand, Approved, Accepted, RootCauses, RootCause, NoRootCause,
    ScoresOf, Collectors, SignalCollectors, TERMINAL_STATES, MAX_REJECTIONS,
    MAX_ACTIONS
<1>4. BackEdgeAfforded'
  BY StateNames DEF IInv, UnderstandIncident, Turn, Goto, collection,
    reasoning, TypeOK, BackEdgeAfforded, budget_remaining,
    MIN_BUDGET_FOR_COLLECTOR, PlanSpent, Collectors, SignalCollectors
<1>5. WorkBounded'
  <2>1. AheadOf(state, plan) = 14
    BY StateNames, AheadValues DEF IInv, TypeOK, UnderstandIncident, Turn,
      collection, reasoning
  <2>2. AheadOf(state', plan') = 13
    BY <1>1, StateNames, AheadValues DEF TypeOK, UnderstandIncident, Goto,
      collection, reasoning
  <2> QED
    BY <2>1, <2>2, StraightStep DEF IInv, UnderstandIncident, Goto, limits,
      reasoning
<1>6. ExitMatches' /\ CeilingIsATripwire' /\ RequeuedCollectorIsAfforded'
  BY StateNames, AheadValues, LimitTypes, LoopsType DEF IInv,
    UnderstandIncident, Turn, Goto, reasoning, TypeOK, ExitMatches,
    CeilingIsATripwire, RequeuedCollectorIsAfforded, WorkBounded, WorkLeft,
    LongestRun, BackEdgeAfforded, budget_remaining, MIN_BUDGET_FOR_COLLECTOR,
    TERMINAL_STATES
<1> QED
  BY <1>1, <1>2, <1>3, <1>4, <1>5, <1>6 DEF IInv

\* MakePlan keeps the strengthening.
LEMMA MakePlanPreserves ==
    ASSUME IInv, MakePlan
    PROVE  IInv'
<1>1. TypeOK'
  <2>1. state' \in States /\ plan' \in Seq(Collectors)
    BY StateNames, PlanForType, AdvanceType DEF MakePlan, Goto
  <2> QED
    BY <2>1 DEF IInv, MakePlan, Goto, limits, reasoning, TypeOK
<1>2. PlanSpent' /\ HypothesesAtHand'
  BY StateNames, AdvanceType, PlanForType DEF MakePlan, Goto, TypeOK,
    PlanSpent, HypothesesAtHand, Collectors, SignalCollectors, TERMINAL_STATES
<1>3. ConclusionAtHand'
  BY StateNames, AdvanceType, PlanForType DEF IInv, MakePlan, Turn, Goto,
    reasoning, TypeOK, ConclusionAtHand, Approved, Accepted, RootCauses,
    RootCause, NoRootCause, ScoresOf, Collectors, SignalCollectors,
    TERMINAL_STATES, MAX_REJECTIONS, MAX_ACTIONS
<1>4. BackEdgeAfforded'
  <2>1. hypotheses' = {}
    BY DEF IInv, HypothesesAtHand, MakePlan, Turn, reasoning
  <2> QED
    BY <2>1 DEF BackEdgeAfforded
<1>5. WorkBounded'
  <2>1. AheadOf(state, plan) = 13
    BY AheadValues DEF IInv, TypeOK, MakePlan, Turn
  <2>2. AheadOf(state', plan') \in 0 .. 12
    <3>1. PICK intent \in Intents, requires_mcp \in BOOLEAN,
               requires_rag \in BOOLEAN :
             /\ state' = NextOf(PlanFor(intent, requires_mcp, requires_rag))
             /\ plan' = RestOf(PlanFor(intent, requires_mcp, requires_rag))
      BY DEF MakePlan, Goto
    <3> DEFINE p == PlanFor(intent, requires_mcp, requires_rag)
    <3>2. p \in Seq(Collectors) /\ Len(p) <= 6
      BY PlanForType DEF MaxPlan
    <3>3. AheadOf(NextOf(p), RestOf(p)) \in 0 .. (6 + Len(p))
      BY <3>2, AdvanceAhead
    <3> QED
      BY <3>1, <3>2, <3>3
  <2> QED
    BY <2>1, <2>2, StraightStep DEF IInv, MakePlan, Goto, limits, reasoning
<1>6. ExitMatches' /\ CeilingIsATripwire' /\ RequeuedCollectorIsAfforded'
  BY StateNames, AheadValues, LimitTypes, LoopsType, AdvanceType, PlanForType
    DEF IInv, MakePlan, Turn, Goto, TypeOK, ExitMatches, CeilingIsATripwire,
    RequeuedCollectorIsAfforded, WorkBounded, WorkLeft, LongestRun,
    BackEdgeAfforded, budget_remaining, MIN_BUDGET_FOR_COLLECTOR,
    TERMINAL_STATES
<1> QED
  BY <1>1, <1>2, <1>3, <1>4, <1>5, <1>6 DEF IInv

\* RoutingFails keeps the strengthening.
LEMMA RoutingFailsPreserves ==
    ASSUME IInv, RoutingFails
    PROVE  IInv'
<1>1. TypeOK'
  BY StateNames DEF IInv, RoutingFails, Goto, limits, collection, reasoning,
    TypeOK
<1>2. PlanSpent' /\ HypothesesAtHand'
  BY StateNames DEF IInv, RoutingFails, Turn, Goto, collection, reasoning,
    TypeOK, PlanSpent, HypothesesAtHand, Collectors, SignalCollectors,
    TERMINAL_STATES
<1>3. ConclusionAtHand'
  BY StateNames DEF IInv, RoutingFails, Turn, Goto, reasoning, TypeOK,
    ConclusionAtHand, Approved, Accepted, RootCauses, RootCause, NoRootCause,
    ScoresOf, Collectors, SignalCollectors, TERMINAL_STATES, MAX_REJECTIONS,
    MAX_ACTIONS
<1>4. BackEdgeAfforded'
  BY StateNames DEF IInv, RoutingFails, Turn, Goto, collection, reasoning,
    TypeOK, BackEdgeAfforded, budget_remaining, MIN_BUDGET_FOR_COLLECTOR,
    PlanSpent, Collectors, SignalCollectors
<1>5. WorkBounded'
  <2>1. AheadOf(state, plan) = 13
    BY StateNames, AheadValues DEF IInv, TypeOK, RoutingFails, Turn,
      collection, reasoning
  <2>2. AheadOf(state', plan') = 0
    BY <1>1, StateNames, AheadValues DEF TypeOK, RoutingFails, Goto,
      collection, reasoning
  <2> QED
    BY <2>1, <2>2, StraightStep DEF IInv, RoutingFails, Goto, limits,
      reasoning
<1>6. ExitMatches' /\ CeilingIsATripwire' /\ RequeuedCollectorIsAfforded'
  BY StateNames, AheadValues, LimitTypes, LoopsType DEF IInv, RoutingFails,
    Turn, Goto, reasoning, TypeOK, ExitMatches, CeilingIsATripwire,
    RequeuedCollectorIsAfforded, WorkBounded, WorkLeft, LongestRun,
    BackEdgeAfforded, budget_remaining, MIN_BUDGET_FOR_COLLECTOR,
    TERMINAL_STATES
<1> QED
  BY <1>1, <1>2, <1>3, <1>4, <1>5, <1>6 DEF IInv

\* Collect keeps the strengthening.
LEMMA CollectPreserves ==
    ASSUME IInv, NEW c \in SignalCollectors, Collect(c)
    PROVE  IInv'
<1>1. TypeOK'
  <2>1. tool_calls_made' \in 0 .. request.tool_budget
    BY CallsBounded, LimitTypes DEF IInv, TypeOK, Collect, budget_remaining
  <2>2. state' \in States /\ plan' \in Seq(Collectors)
    BY StateNames, AdvanceType DEF IInv, TypeOK, Collect, Advance, Goto
  <2>3. visits' \in [Collectors -> Nat]
    BY StateNames DEF IInv, TypeOK, Collect, Enter
  <2>4. evidence' \in BOOLEAN
    BY DEF IInv, TypeOK, Collect
  <2> QED
    BY <2>1, <2>2, <2>3, <2>4 DEF IInv, Collect, Enter, Advance, Goto, limits,
      reasoning, TypeOK
<1>2. PlanSpent' /\ HypothesesAtHand'
  BY StateNames, AdvanceType DEF IInv, Collect, Advance, Goto, limits,
    reasoning, TypeOK, PlanSpent, HypothesesAtHand, Collectors,
    SignalCollectors, TERMINAL_STATES
<1>3. ConclusionAtHand'
  BY StateNames, AdvanceType DEF IInv, Collect, Enter, Advance, Turn, Goto,
    limits, reasoning, TypeOK, ConclusionAtHand, Approved, Accepted,
    RootCauses, RootCause, NoRootCause, ScoresOf, Collectors,
    SignalCollectors, TERMINAL_STATES, MAX_REJECTIONS, MAX_ACTIONS
<1>4. BackEdgeAfforded'
  <2> SUFFICES ASSUME hypotheses' # {} PROVE BackEdgeAfforded'
    BY DEF BackEdgeAfforded
  <2>1. plan = << >> \/ plan = <<state>>
    BY DEF IInv, BackEdgeAfforded, Collect, Enter, reasoning
  <2>2. CASE plan = << >>
    <3>1. plan' = << >> /\ state' = "GENERATE_HYPOTHESES"
      BY <2>2 DEF Collect, Advance, Goto, NextOf, RestOf
    <3> QED
      BY <3>1 DEF BackEdgeAfforded, SignalCollectors
  <2>3. CASE plan = <<state>>
    <3>1. plan' = << >> /\ state' = state
      BY <2>3 DEF Collect, Advance, Goto, NextOf, RestOf
    <3>2. visits'[state] > 0
      BY StateNames DEF IInv, TypeOK, Collect, Enter, Turn
    <3> QED
      BY <3>1, <3>2 DEF BackEdgeAfforded
  <2> QED
    BY <2>1, <2>2, <2>3
<1>5. WorkBounded'
  <2>1. AheadOf(state, plan) = 7 + Len(plan)
    BY StateNames, AheadValues DEF IInv, TypeOK, Collect, Enter, Turn
  <2>2. AheadOf(state', plan') \in 0 .. (6 + Len(plan))
    BY AdvanceAhead DEF IInv, TypeOK, Collect, Advance, Goto
  <2>3. plan \in Seq(Collectors)
    BY DEF IInv, TypeOK
  <2> QED
    BY <2>1, <2>2, <2>3, StraightStep DEF IInv, Collect, Enter, Advance, Goto,
      limits, reasoning
<1>6. ExitMatches' /\ CeilingIsATripwire' /\ RequeuedCollectorIsAfforded'
  BY StateNames, AheadValues, LimitTypes, LoopsType, AdvanceType, CallsBounded
    DEF IInv, Collect, Enter, Advance, Turn, Goto, limits, reasoning, TypeOK,
    ExitMatches, CeilingIsATripwire, RequeuedCollectorIsAfforded, WorkBounded,
    WorkLeft, LongestRun, BackEdgeAfforded, budget_remaining,
    MIN_BUDGET_FOR_COLLECTOR, TERMINAL_STATES
<1> QED
  BY <1>1, <1>2, <1>3, <1>4, <1>5, <1>6 DEF IInv

\* CollectExhausted keeps the strengthening.
LEMMA CollectExhaustedPreserves ==
    ASSUME IInv, NEW c \in SignalCollectors, CollectExhausted(c)
    PROVE  IInv'
<1>1. TypeOK'
  BY StateNames DEF IInv, CollectExhausted, Enter, Stop, limits, reasoning,
    TypeOK
<1>2. PlanSpent' /\ HypothesesAtHand'
  BY StateNames DEF CollectExhausted, Enter, Turn, Stop, reasoning, TypeOK,
    PlanSpent, HypothesesAtHand, Collectors, SignalCollectors, TERMINAL_STATES
<1>3. ConclusionAtHand'
  BY StateNames DEF IInv, CollectExhausted, Enter, Stop, reasoning, TypeOK,
    ConclusionAtHand, Approved, Accepted, RootCauses, RootCause, NoRootCause,
    ScoresOf, Collectors, SignalCollectors, TERMINAL_STATES, MAX_REJECTIONS,
    MAX_ACTIONS
<1>4. BackEdgeAfforded'
  BY StateNames DEF IInv, CollectExhausted, Enter, Stop, limits, reasoning,
    TypeOK, BackEdgeAfforded, budget_remaining, MIN_BUDGET_FOR_COLLECTOR,
    PlanSpent, Collectors, SignalCollectors
<1>5. WorkBounded'
  BY <1>1, StateNames, AheadValues, LimitTypes, LoopsType DEF IInv,
    CollectExhausted, Enter, Stop, limits, reasoning, TypeOK, WorkBounded,
    WorkLeft, LoopsOf, LongestRun, PlanSpent, ConclusionAtHand, MaxPlan,
    MAX_REJECTIONS
<1>6. ExitMatches' /\ CeilingIsATripwire' /\ RequeuedCollectorIsAfforded'
  <2>1. ExitMatches' /\ CeilingIsATripwire'
    BY DEF CollectExhausted, Enter, Turn, Stop, ExitMatches,
      CeilingIsATripwire, SignalCollectors
  <2>2. budget_remaining < MIN_BUDGET_FOR_COLLECTOR
    <3>1. budget_remaining \in Int
      BY LimitTypes DEF IInv, TypeOK, budget_remaining
    <3> QED
      BY <3>1, CallsBounded DEF CollectExhausted, MIN_BUDGET_FOR_COLLECTOR
  <2>3. budget_remaining \in Int /\ MIN_BUDGET_FOR_COLLECTOR \in Int
    BY LimitTypes DEF IInv, TypeOK, budget_remaining, MIN_BUDGET_FOR_COLLECTOR
  <2>4. hypotheses # {} => visits[c] # 0
    BY <2>2, <2>3 DEF IInv, BackEdgeAfforded, CollectExhausted, Enter, Turn
  <2>5. visits'[c] = visits[c] + 1 /\ visits[c] \in Nat /\ state' = c
    BY StateNames DEF IInv, TypeOK, CollectExhausted, Enter, Turn, Stop
  <2> QED
    BY <2>1, <2>4, <2>5 DEF RequeuedCollectorIsAfforded, CollectExhausted,
      Enter, reasoning
<1> QED
  BY <1>1, <1>2, <1>3, <1>4, <1>5, <1>6 DEF IInv

\* CollectRaises keeps the strengthening.
LEMMA CollectRaisesPreserves ==
    ASSUME IInv, NEW c \in SignalCollectors, CollectRaises(c)
    PROVE  IInv'
<1>1. TypeOK'
  <2>1. tool_calls_made' \in 0 .. request.tool_budget
    BY CallsBounded, LimitTypes DEF IInv, TypeOK, CollectRaises,
      budget_remaining
  <2>2. visits' \in [Collectors -> Nat]
    BY StateNames DEF IInv, TypeOK, CollectRaises, Enter
  <2>3. evidence' \in BOOLEAN
    BY DEF IInv, TypeOK, CollectRaises
  <2> QED
    BY <2>1, <2>2, <2>3, StateNames DEF IInv, CollectRaises, Enter, Stop,
      limits, reasoning, TypeOK
<1>2. PlanSpent' /\ HypothesesAtHand'
  BY StateNames DEF CollectRaises, Enter, Turn, Stop, reasoning, TypeOK,
    PlanSpent, HypothesesAtHand, Collectors, SignalCollectors, TERMINAL_STATES
<1>3. ConclusionAtHand'
  BY StateNames DEF IInv, CollectRaises, Enter, Stop, reasoning, TypeOK,
    ConclusionAtHand, Approved, Accepted, RootCauses, RootCause, NoRootCause,
    ScoresOf, Collectors, SignalCollectors, TERMINAL_STATES, MAX_REJECTIONS,
    MAX_ACTIONS
<1>4. BackEdgeAfforded'
  BY StateNames DEF IInv, CollectRaises, Enter, Turn, Stop, reasoning, TypeOK,
    BackEdgeAfforded, budget_remaining, MIN_BUDGET_FOR_COLLECTOR, PlanSpent,
    Collectors, SignalCollectors
<1>5. WorkBounded'
  BY <1>1, StateNames, AheadValues, LimitTypes, LoopsType, CallsBounded DEF
    IInv, CollectRaises, Enter, Stop, limits, reasoning, TypeOK, WorkBounded,
    WorkLeft, LoopsOf, LongestRun, PlanSpent, ConclusionAtHand, MaxPlan,
    MAX_REJECTIONS
<1>6. ExitMatches' /\ CeilingIsATripwire' /\ RequeuedCollectorIsAfforded'
  BY StateNames, AheadValues, LimitTypes, LoopsType, CallsBounded DEF IInv,
    CollectRaises, Enter, Turn, Stop, reasoning, TypeOK, ExitMatches,
    CeilingIsATripwire, RequeuedCollectorIsAfforded, WorkBounded, WorkLeft,
    LongestRun, BackEdgeAfforded, budget_remaining, MIN_BUDGET_FOR_COLLECTOR,
    TERMINAL_STATES
<1> QED
  BY <1>1, <1>2, <1>3, <1>4, <1>5, <1>6 DEF IInv

\* SearchHistory keeps the strengthening.
LEMMA SearchHistoryPreserves ==
    ASSUME IInv, SearchHistory
    PROVE  IInv'
<1>1. TypeOK'
  <2>1. state' \in States /\ plan' \in Seq(Collectors)
    BY StateNames, AdvanceType DEF IInv, TypeOK, SearchHistory, Advance, Goto
  <2>2. visits' \in [Collectors -> Nat]
    BY StateNames DEF IInv, TypeOK, SearchHistory, Enter
  <2>3. evidence' \in BOOLEAN
    BY DEF IInv, TypeOK, SearchHistory
  <2> QED
    BY <2>1, <2>2, <2>3 DEF IInv, SearchHistory, Enter, Advance, Goto, limits,
      reasoning, TypeOK
<1>2. PlanSpent' /\ HypothesesAtHand'
  BY StateNames, AdvanceType DEF IInv, SearchHistory, Advance, Goto, limits,
    reasoning, TypeOK, PlanSpent, HypothesesAtHand, Collectors,
    SignalCollectors, TERMINAL_STATES
<1>3. ConclusionAtHand'
  BY StateNames, AdvanceType DEF IInv, SearchHistory, Enter, Advance, Turn,
    Goto, limits, reasoning, TypeOK, ConclusionAtHand, Approved, Accepted,
    RootCauses, RootCause, NoRootCause, ScoresOf, Collectors,
    SignalCollectors, TERMINAL_STATES, MAX_REJECTIONS, MAX_ACTIONS
<1>4. BackEdgeAfforded'
  <2> SUFFICES ASSUME hypotheses' # {} PROVE BackEdgeAfforded'
    BY DEF BackEdgeAfforded
  <2>1. plan = << >> \/ plan = <<state>>
    BY DEF IInv, BackEdgeAfforded, SearchHistory, Enter, reasoning
  <2>2. CASE plan = << >>
    <3>1. plan' = << >> /\ state' = "GENERATE_HYPOTHESES"
      BY <2>2 DEF SearchHistory, Advance, Goto, NextOf, RestOf
    <3> QED
      BY <3>1 DEF BackEdgeAfforded, SignalCollectors
  <2>3. CASE plan = <<state>>
    <3>1. plan' = << >> /\ state' = state
      BY <2>3 DEF SearchHistory, Advance, Goto, NextOf, RestOf
    <3>2. visits'[state] > 0
      BY StateNames DEF IInv, TypeOK, SearchHistory, Enter, Turn
    <3> QED
      BY <3>1, <3>2 DEF BackEdgeAfforded
  <2> QED
    BY <2>1, <2>2, <2>3
<1>5. WorkBounded'
  <2>1. AheadOf(state, plan) = 7 + Len(plan)
    BY StateNames, AheadValues DEF IInv, TypeOK, SearchHistory, Enter, Turn
  <2>2. AheadOf(state', plan') \in 0 .. (6 + Len(plan))
    BY AdvanceAhead DEF IInv, TypeOK, SearchHistory, Advance, Goto
  <2>3. plan \in Seq(Collectors)
    BY DEF IInv, TypeOK
  <2> QED
    BY <2>1, <2>2, <2>3, StraightStep DEF IInv, SearchHistory, Enter, Advance,
      Goto, limits, reasoning
<1>6. ExitMatches' /\ CeilingIsATripwire' /\ RequeuedCollectorIsAfforded'
  BY StateNames, AheadValues, LimitTypes, LoopsType, AdvanceType DEF IInv,
    SearchHistory, Enter, Advance, Turn, Goto, limits, reasoning, TypeOK,
    ExitMatches, CeilingIsATripwire, RequeuedCollectorIsAfforded, WorkBounded,
    WorkLeft, LongestRun, BackEdgeAfforded, budget_remaining,
    MIN_BUDGET_FOR_COLLECTOR, TERMINAL_STATES
<1> QED
  BY <1>1, <1>2, <1>3, <1>4, <1>5, <1>6 DEF IInv

\* NothingToExplain keeps the strengthening.
LEMMA NothingToExplainPreserves ==
    ASSUME IInv, NothingToExplain
    PROVE  IInv'
<1>1. TypeOK'
  BY StateNames DEF IInv, NothingToExplain, Goto, limits, collection,
    reasoning, TypeOK
<1>2. PlanSpent' /\ HypothesesAtHand'
  BY StateNames DEF IInv, NothingToExplain, Turn, Goto, collection, reasoning,
    TypeOK, PlanSpent, HypothesesAtHand, Collectors, SignalCollectors,
    TERMINAL_STATES
<1>3. ConclusionAtHand'
  BY StateNames DEF IInv, NothingToExplain, Turn, Goto, reasoning, TypeOK,
    ConclusionAtHand, Approved, Accepted, RootCauses, RootCause, NoRootCause,
    ScoresOf, Collectors, SignalCollectors, TERMINAL_STATES, MAX_REJECTIONS,
    MAX_ACTIONS
<1>4. BackEdgeAfforded'
  BY StateNames DEF IInv, NothingToExplain, Turn, Goto, collection, reasoning,
    TypeOK, BackEdgeAfforded, budget_remaining, MIN_BUDGET_FOR_COLLECTOR,
    PlanSpent, Collectors, SignalCollectors
<1>5. WorkBounded'
  <2>1. AheadOf(state, plan) = 6
    BY StateNames, AheadValues DEF IInv, TypeOK, NothingToExplain, Turn,
      collection, reasoning
  <2>2. AheadOf(state', plan') = 0
    BY <1>1, StateNames, AheadValues DEF TypeOK, NothingToExplain, Goto,
      collection, reasoning
  <2> QED
    BY <2>1, <2>2, StraightStep DEF IInv, NothingToExplain, Goto, limits,
      reasoning
<1>6. ExitMatches' /\ CeilingIsATripwire' /\ RequeuedCollectorIsAfforded'
  BY StateNames, AheadValues, LimitTypes, LoopsType DEF IInv,
    NothingToExplain, Turn, Goto, reasoning, TypeOK, ExitMatches,
    CeilingIsATripwire, RequeuedCollectorIsAfforded, WorkBounded, WorkLeft,
    LongestRun, BackEdgeAfforded, budget_remaining, MIN_BUDGET_FOR_COLLECTOR,
    TERMINAL_STATES
<1> QED
  BY <1>1, <1>2, <1>3, <1>4, <1>5, <1>6 DEF IInv

\* GenerateHypotheses keeps the strengthening.
LEMMA GenerateHypothesesPreserves ==
    ASSUME IInv, GenerateHypotheses
    PROVE  IInv'
<1>1. TypeOK'
  <2>1. hypotheses' \subseteq SignalCollectors \cup {NoSignal}
    BY DEF GenerateHypotheses, HypothesisSets
  <2>2. state' \in States
    BY StateNames DEF GenerateHypotheses, Goto
  <2>4. selected' \in BOOLEAN
    BY DEF GenerateHypotheses
  <2>5. transitions' \in Nat
    BY DEF IInv, TypeOK, GenerateHypotheses, Goto
  <2>3. UNCHANGED <<request, max_transitions, outcome, exit, service_known, plan,
                    visits, tool_calls_made, evidence, iteration, root_cause,
                    rejections, announced, recommendations>>
    BY DEF GenerateHypotheses, Goto, limits, collection
  <2> QED
    BY <2>1, <2>2, <2>3, <2>4, <2>5 DEF IInv, TypeOK
<1>2. PlanSpent' /\ HypothesesAtHand'
  BY StateNames DEF IInv, GenerateHypotheses, HypothesisSets, Turn, Goto,
    collection, TypeOK, PlanSpent, HypothesesAtHand, Collectors,
    SignalCollectors, TERMINAL_STATES
<1>3. ConclusionAtHand'
  BY StateNames DEF IInv, GenerateHypotheses, Turn, Goto, collection, TypeOK,
    ConclusionAtHand, Approved, Accepted, RootCauses, RootCause, NoRootCause,
    ScoresOf, Collectors, SignalCollectors, TERMINAL_STATES, MAX_REJECTIONS,
    MAX_ACTIONS
<1>4. BackEdgeAfforded'
  BY StateNames DEF IInv, GenerateHypotheses, Turn, Goto, collection, TypeOK,
    BackEdgeAfforded, budget_remaining, MIN_BUDGET_FOR_COLLECTOR, PlanSpent,
    Collectors, SignalCollectors
<1>5. WorkBounded'
  <2>1. AheadOf(state, plan) = 6
    BY StateNames, AheadValues DEF IInv, TypeOK, GenerateHypotheses, Turn,
      limits, collection
  <2>2. AheadOf(state', plan') = 5
    BY <1>1, StateNames, AheadValues DEF TypeOK, GenerateHypotheses, Goto,
      limits, collection
  <2> QED
    BY <2>1, <2>2, StraightStep DEF IInv, GenerateHypotheses, Goto, limits,
      collection
<1>6. ExitMatches' /\ CeilingIsATripwire' /\ RequeuedCollectorIsAfforded'
  BY StateNames, AheadValues, LimitTypes, LoopsType DEF IInv,
    GenerateHypotheses, Turn, Goto, collection, TypeOK, ExitMatches,
    CeilingIsATripwire, RequeuedCollectorIsAfforded, WorkBounded, WorkLeft,
    LongestRun, BackEdgeAfforded, budget_remaining, MIN_BUDGET_FOR_COLLECTOR,
    TERMINAL_STATES
<1> QED
  BY <1>1, <1>2, <1>3, <1>4, <1>5, <1>6 DEF IInv

\* ProceedToRanking keeps the strengthening.
LEMMA ProceedToRankingPreserves ==
    ASSUME IInv, ProceedToRanking
    PROVE  IInv'
<1>1. TypeOK'
  BY StateNames, LimitTypes DEF IInv, ProceedToRanking, Goto, limits,
    collection, TypeOK
<1>2. PlanSpent' /\ HypothesesAtHand'
  BY StateNames DEF IInv, ProceedToRanking, Turn, Goto, collection, TypeOK,
    PlanSpent, HypothesesAtHand, Collectors, SignalCollectors, TERMINAL_STATES
<1>3. ConclusionAtHand'
  BY StateNames DEF IInv, ProceedToRanking, Turn, Goto, TypeOK,
    ConclusionAtHand, Approved, Accepted, RootCauses, RootCause, NoRootCause,
    ScoresOf, Collectors, SignalCollectors, TERMINAL_STATES, MAX_REJECTIONS,
    MAX_ACTIONS
<1>4. BackEdgeAfforded'
  BY StateNames DEF IInv, ProceedToRanking, Turn, Goto, collection, TypeOK,
    BackEdgeAfforded, budget_remaining, MIN_BUDGET_FOR_COLLECTOR, PlanSpent,
    Collectors, SignalCollectors
<1>5. WorkBounded'
  <2>1. AheadOf(state, plan) = 5
    BY StateNames, AheadValues DEF IInv, TypeOK, ProceedToRanking, Turn,
      collection
  <2>2. AheadOf(state', plan') = 4
    BY <1>1, StateNames, AheadValues DEF TypeOK, ProceedToRanking, Turn, Goto,
      limits, collection
  <2>3. LoopsOf(request.max_iterations, iteration, rejections)'
          <= LoopsOf(request.max_iterations, iteration, rejections)
    <3>1. request' = request /\ rejections' = rejections
      BY DEF ProceedToRanking, limits
    <3>2. iteration' = iteration \/ iteration' = iteration + 1
      BY DEF ProceedToRanking
    <3>3. iteration \in 0 .. request.max_iterations
      BY DEF IInv, TypeOK
    <3>4. request.max_iterations \in Nat
      BY LimitTypes DEF IInv
    <3> QED
      BY <3>1, <3>2, <3>3, <3>4 DEF LoopsOf
  <2>4. LoopsOf(request.max_iterations, iteration, rejections)' \in Nat
    BY <1>1, LoopsType, LimitTypes DEF IInv, TypeOK, ProceedToRanking, limits,
      collection
  <2>5. LoopsOf(request.max_iterations, iteration, rejections) \in Nat
    BY LoopsType, LimitTypes DEF IInv, TypeOK
  <2>6. WorkLeft' < WorkLeft /\ WorkLeft \in Nat /\ WorkLeft' \in Nat
    BY <2>1, <2>2, <2>3, <2>4, <2>5 DEF WorkLeft
  <2> QED
    BY <2>6, WorkStep DEF IInv, ProceedToRanking, Goto, limits
<1>6. ExitMatches' /\ CeilingIsATripwire' /\ RequeuedCollectorIsAfforded'
  BY StateNames, AheadValues, LimitTypes, LoopsType DEF IInv,
    ProceedToRanking, Turn, Goto, TypeOK, ExitMatches, CeilingIsATripwire,
    RequeuedCollectorIsAfforded, WorkBounded, WorkLeft, LongestRun,
    BackEdgeAfforded, budget_remaining, MIN_BUDGET_FOR_COLLECTOR,
    TERMINAL_STATES
<1> QED
  BY <1>1, <1>2, <1>3, <1>4, <1>5, <1>6 DEF IInv

\* GoBack keeps the strengthening.
LEMMA GoBackPreserves ==
    ASSUME IInv, GoBack
    PROVE  IInv'
<1>1. TypeOK'
  BY StateNames, LimitTypes DEF IInv, GoBack, Gaps, Goto, limits, TypeOK
<1>2. PlanSpent' /\ HypothesesAtHand'
  BY StateNames DEF IInv, GoBack, Gaps, Goto, TypeOK, PlanSpent,
    HypothesesAtHand, Collectors, SignalCollectors, TERMINAL_STATES
<1>3. ConclusionAtHand'
  BY StateNames DEF IInv, GoBack, Gaps, Turn, Goto, TypeOK, ConclusionAtHand,
    Approved, Accepted, RootCauses, RootCause, NoRootCause, ScoresOf,
    Collectors, SignalCollectors, TERMINAL_STATES, MAX_REJECTIONS, MAX_ACTIONS
<1>4. BackEdgeAfforded'
  BY StateNames DEF IInv, GoBack, Turn, Goto, limits, TypeOK,
    BackEdgeAfforded, budget_remaining, MIN_BUDGET_FOR_COLLECTOR, PlanSpent,
    Collectors, SignalCollectors
<1>5. WorkBounded'
  <2>1. AheadOf(state, plan) = 5
    BY AheadValues DEF IInv, TypeOK, GoBack, Turn
  <2>2. PICK c \in SignalCollectors : state' = c /\ plan' = <<c>>
    BY DEF IInv, TypeOK, PlanSpent, GoBack, Gaps, Goto, Turn, Collectors,
      SignalCollectors
  <2>3. AheadOf(state', plan') = 8
    <3>1. c \in Collectors
      BY StateNames
    <3>2. <<c>> \in Seq(Collectors) /\ Len(<<c>>) = 1
      BY <3>1
    <3>3. AheadOf(c, <<c>>) = 7 + Len(<<c>>)
      BY <3>1, <3>2, AheadValues
    <3> QED
      BY <2>2, <3>2, <3>3
  <2>4. LoopsOf(request.max_iterations, iteration, rejections)' + 4
          = LoopsOf(request.max_iterations, iteration, rejections)
    BY LimitTypes DEF IInv, TypeOK, LoopsOf, GoBack, limits
  <2>5. LoopsOf(request.max_iterations, iteration, rejections)' \in Nat
    BY <1>1, LoopsType, LimitTypes DEF IInv, TypeOK, GoBack, limits
  <2>6. LoopsOf(request.max_iterations, iteration, rejections) \in Nat
    BY LoopsType, LimitTypes DEF IInv, TypeOK
  <2>7. WorkLeft' < WorkLeft /\ WorkLeft \in Nat /\ WorkLeft' \in Nat
    BY <2>1, <2>3, <2>4, <2>5, <2>6 DEF WorkLeft
  <2> QED
    BY <2>7, WorkStep DEF IInv, GoBack, Goto, limits
<1>6. ExitMatches' /\ CeilingIsATripwire' /\ RequeuedCollectorIsAfforded'
  BY StateNames, AheadValues, LimitTypes, LoopsType DEF IInv, GoBack, Turn,
    Goto, TypeOK, ExitMatches, CeilingIsATripwire,
    RequeuedCollectorIsAfforded, WorkBounded, WorkLeft, LongestRun,
    BackEdgeAfforded, budget_remaining, MIN_BUDGET_FOR_COLLECTOR,
    TERMINAL_STATES
<1> QED
  BY <1>1, <1>2, <1>3, <1>4, <1>5, <1>6 DEF IInv

\* RankHypotheses keeps the strengthening.
LEMMA RankHypothesesPreserves ==
    ASSUME IInv, RankHypotheses
    PROVE  IInv'
<1>1. TypeOK'
  BY StateNames DEF IInv, RankHypotheses, Goto, limits, collection, TypeOK
<1>2. PlanSpent' /\ HypothesesAtHand'
  BY StateNames DEF IInv, RankHypotheses, Turn, Goto, collection, TypeOK,
    PlanSpent, HypothesesAtHand, Collectors, SignalCollectors, TERMINAL_STATES
<1>3. ConclusionAtHand'
  BY StateNames DEF IInv, RankHypotheses, Turn, Goto, TypeOK,
    ConclusionAtHand, Approved, Accepted, RootCauses, RootCause, NoRootCause,
    ScoresOf, Collectors, SignalCollectors, TERMINAL_STATES, MAX_REJECTIONS,
    MAX_ACTIONS
<1>4. BackEdgeAfforded'
  BY StateNames DEF IInv, RankHypotheses, Turn, Goto, collection, TypeOK,
    BackEdgeAfforded, budget_remaining, MIN_BUDGET_FOR_COLLECTOR, PlanSpent,
    Collectors, SignalCollectors
<1>5. WorkBounded'
  <2>1. AheadOf(state, plan) = 4
    BY StateNames, AheadValues DEF IInv, TypeOK, RankHypotheses, Turn,
      collection
  <2>2. AheadOf(state', plan') \in 0 .. 3
    BY <1>1, StateNames, AheadValues DEF TypeOK, RankHypotheses, Goto,
      collection
  <2> QED
    BY <2>1, <2>2, StraightStep DEF IInv, RankHypotheses, Goto, limits
<1>6. ExitMatches' /\ CeilingIsATripwire' /\ RequeuedCollectorIsAfforded'
  BY StateNames, AheadValues, LimitTypes, LoopsType DEF IInv, RankHypotheses,
    Turn, Goto, TypeOK, ExitMatches, CeilingIsATripwire,
    RequeuedCollectorIsAfforded, WorkBounded, WorkLeft, LongestRun,
    BackEdgeAfforded, budget_remaining, MIN_BUDGET_FOR_COLLECTOR,
    TERMINAL_STATES
<1> QED
  BY <1>1, <1>2, <1>3, <1>4, <1>5, <1>6 DEF IInv

\* SelectRootCause keeps the strengthening.
LEMMA SelectRootCausePreserves ==
    ASSUME IInv, SelectRootCause
    PROVE  IInv'
<1>1. TypeOK'
  BY StateNames DEF IInv, SelectRootCause, Goto, limits, collection, TypeOK,
    RootCauses, RootCause, Verdicts, Scores
<1>2. PlanSpent' /\ HypothesesAtHand'
  BY StateNames DEF IInv, SelectRootCause, Turn, Goto, collection, TypeOK,
    PlanSpent, HypothesesAtHand, Collectors, SignalCollectors, TERMINAL_STATES
<1>3. ConclusionAtHand'
  BY StateNames DEF IInv, SelectRootCause, Turn, Goto, TypeOK,
    ConclusionAtHand, Approved, Accepted, RootCauses, RootCause, NoRootCause,
    ScoresOf, Collectors, SignalCollectors, TERMINAL_STATES, MAX_REJECTIONS,
    MAX_ACTIONS
<1>4. BackEdgeAfforded'
  BY StateNames DEF IInv, SelectRootCause, Turn, Goto, collection, TypeOK,
    BackEdgeAfforded, budget_remaining, MIN_BUDGET_FOR_COLLECTOR, PlanSpent,
    Collectors, SignalCollectors
<1>5. WorkBounded'
  <2>1. AheadOf(state, plan) = 3
    BY StateNames, AheadValues DEF IInv, TypeOK, SelectRootCause, Turn,
      collection
  <2>2. AheadOf(state', plan') = 2
    BY <1>1, StateNames, AheadValues DEF TypeOK, SelectRootCause, Goto,
      collection
  <2> QED
    BY <2>1, <2>2, StraightStep DEF IInv, SelectRootCause, Goto, limits
<1>6. ExitMatches' /\ CeilingIsATripwire' /\ RequeuedCollectorIsAfforded'
  BY StateNames, AheadValues, LimitTypes, LoopsType DEF IInv, SelectRootCause,
    Turn, Goto, TypeOK, ExitMatches, CeilingIsATripwire,
    RequeuedCollectorIsAfforded, WorkBounded, WorkLeft, LongestRun,
    BackEdgeAfforded, budget_remaining, MIN_BUDGET_FOR_COLLECTOR,
    TERMINAL_STATES
<1> QED
  BY <1>1, <1>2, <1>3, <1>4, <1>5, <1>6 DEF IInv

\* Accept keeps the strengthening.
LEMMA AcceptPreserves ==
    ASSUME IInv, Accept
    PROVE  IInv'
<1>1. TypeOK'
  BY StateNames DEF IInv, Accept, Turn, Goto, limits, collection, TypeOK,
    ScoresOf, RootCauses, RootCause, NoRootCause, Verdicts, Scores,
    ConclusionAtHand, TERMINAL_STATES
<1>2. PlanSpent' /\ HypothesesAtHand'
  BY StateNames DEF IInv, Accept, Turn, Goto, collection, TypeOK, PlanSpent,
    HypothesesAtHand, Collectors, SignalCollectors, TERMINAL_STATES
<1>3. ConclusionAtHand'
  BY StateNames DEF IInv, Accept, Turn, Goto, TypeOK, ConclusionAtHand,
    Approved, Accepted, RootCauses, RootCause, NoRootCause, ScoresOf,
    Collectors, SignalCollectors, TERMINAL_STATES, MAX_REJECTIONS, MAX_ACTIONS
<1>4. BackEdgeAfforded'
  BY StateNames DEF IInv, Accept, Turn, Goto, collection, TypeOK,
    BackEdgeAfforded, budget_remaining, MIN_BUDGET_FOR_COLLECTOR, PlanSpent,
    Collectors, SignalCollectors
<1>5. WorkBounded'
  <2>1. AheadOf(state, plan) = 2
    BY StateNames, AheadValues DEF IInv, TypeOK, Accept, Turn, collection
  <2>2. AheadOf(state', plan') \in 0 .. 1
    BY <1>1, StateNames, AheadValues DEF TypeOK, Accept, Goto, collection
  <2> QED
    BY <2>1, <2>2, StraightStep DEF IInv, Accept, Goto, limits
<1>6. ExitMatches' /\ CeilingIsATripwire' /\ RequeuedCollectorIsAfforded'
  BY StateNames, AheadValues, LimitTypes, LoopsType DEF IInv, Accept, Turn,
    Goto, TypeOK, ExitMatches, CeilingIsATripwire,
    RequeuedCollectorIsAfforded, WorkBounded, WorkLeft, LongestRun,
    BackEdgeAfforded, budget_remaining, MIN_BUDGET_FOR_COLLECTOR,
    TERMINAL_STATES
<1> QED
  BY <1>1, <1>2, <1>3, <1>4, <1>5, <1>6 DEF IInv

\* Reject keeps the strengthening.
LEMMA RejectPreserves ==
    ASSUME IInv, Reject
    PROVE  IInv'
<1>1. TypeOK'
  BY StateNames DEF IInv, Reject, Turn, Goto, limits, collection, TypeOK,
    ScoresOf, RootCauses, RootCause, NoRootCause, Verdicts, Scores,
    ConclusionAtHand, TERMINAL_STATES, MAX_REJECTIONS
<1>2. PlanSpent' /\ HypothesesAtHand'
  BY StateNames DEF IInv, Reject, Turn, Goto, collection, TypeOK, PlanSpent,
    HypothesesAtHand, Collectors, SignalCollectors, TERMINAL_STATES
<1>3. ConclusionAtHand'
  BY StateNames DEF IInv, Reject, Turn, Goto, TypeOK, ConclusionAtHand,
    Approved, Accepted, RootCauses, RootCause, NoRootCause, ScoresOf,
    Collectors, SignalCollectors, TERMINAL_STATES, MAX_REJECTIONS, MAX_ACTIONS
<1>4. BackEdgeAfforded'
  BY StateNames DEF IInv, Reject, Turn, Goto, collection, TypeOK,
    BackEdgeAfforded, budget_remaining, MIN_BUDGET_FOR_COLLECTOR, PlanSpent,
    Collectors, SignalCollectors
<1>5. WorkBounded'
  <2>1. AheadOf(state, plan) = 2
    BY AheadValues DEF IInv, TypeOK, Reject, Turn
  <2>2. LoopsOf(request.max_iterations, iteration, rejections) \in Nat
    BY LoopsType, LimitTypes DEF IInv, TypeOK
  <2>3. CASE rejections < MAX_REJECTIONS
    <3>1. AheadOf(state', plan') = 6
      BY <1>1, <2>3, AheadValues DEF IInv, TypeOK, Reject, Goto,
        MAX_REJECTIONS
    <3>2. LoopsOf(request.max_iterations, iteration, rejections)' + 5
            = LoopsOf(request.max_iterations, iteration, rejections)
      BY <2>3, LimitTypes DEF IInv, TypeOK, LoopsOf, Reject, limits,
        MAX_REJECTIONS
    <3>3. LoopsOf(request.max_iterations, iteration, rejections)' \in Nat
      BY <1>1, LoopsType, LimitTypes DEF IInv, TypeOK, Reject, limits
    <3>4. WorkLeft' < WorkLeft /\ WorkLeft \in Nat /\ WorkLeft' \in Nat
      BY <2>1, <2>2, <3>1, <3>2, <3>3 DEF WorkLeft
    <3> QED
      BY <3>4, WorkStep DEF IInv, Reject, Goto, limits
  <2>4. CASE rejections >= MAX_REJECTIONS
    <3>1. AheadOf(state', plan') = 0
      BY <1>1, <2>4, AheadValues DEF IInv, TypeOK, Reject, Goto,
        MAX_REJECTIONS
    <3>2. LoopsOf(request.max_iterations, iteration, rejections)'
            = LoopsOf(request.max_iterations, iteration, rejections)
      BY <2>4, LimitTypes DEF IInv, TypeOK, LoopsOf, Reject, limits,
        MAX_REJECTIONS
    <3>3. WorkLeft' < WorkLeft /\ WorkLeft \in Nat /\ WorkLeft' \in Nat
      BY <2>1, <2>2, <3>1, <3>2 DEF WorkLeft
    <3> QED
      BY <3>3, WorkStep DEF IInv, Reject, Goto, limits
  <2> QED
    BY <2>3, <2>4 DEF IInv, TypeOK, MAX_REJECTIONS
<1>6. ExitMatches' /\ CeilingIsATripwire' /\ RequeuedCollectorIsAfforded'
  BY StateNames, AheadValues, LimitTypes, LoopsType DEF IInv, Reject, Turn,
    Goto, TypeOK, ExitMatches, CeilingIsATripwire,
    RequeuedCollectorIsAfforded, WorkBounded, WorkLeft, LongestRun,
    BackEdgeAfforded, budget_remaining, MIN_BUDGET_FOR_COLLECTOR,
    TERMINAL_STATES
<1> QED
  BY <1>1, <1>2, <1>3, <1>4, <1>5, <1>6 DEF IInv

\* RecommendFix keeps the strengthening.
LEMMA RecommendFixPreserves ==
    ASSUME IInv, RecommendFix
    PROVE  IInv'
<1>1. TypeOK'
  BY StateNames DEF IInv, RecommendFix, Goto, limits, collection, TypeOK,
    MAX_ACTIONS
<1>2. PlanSpent' /\ HypothesesAtHand'
  BY StateNames DEF IInv, RecommendFix, Turn, Goto, collection, TypeOK,
    PlanSpent, HypothesesAtHand, Collectors, SignalCollectors, TERMINAL_STATES
<1>3. ConclusionAtHand'
  BY StateNames DEF IInv, RecommendFix, Turn, Goto, TypeOK, ConclusionAtHand,
    Approved, Accepted, RootCauses, RootCause, NoRootCause, ScoresOf,
    Collectors, SignalCollectors, TERMINAL_STATES, MAX_REJECTIONS, MAX_ACTIONS
<1>4. BackEdgeAfforded'
  BY StateNames DEF IInv, RecommendFix, Turn, Goto, collection, TypeOK,
    BackEdgeAfforded, budget_remaining, MIN_BUDGET_FOR_COLLECTOR, PlanSpent,
    Collectors, SignalCollectors
<1>5. WorkBounded'
  <2>1. AheadOf(state, plan) = 1
    BY StateNames, AheadValues DEF IInv, TypeOK, RecommendFix, Turn,
      collection
  <2>2. AheadOf(state', plan') = 0
    BY <1>1, StateNames, AheadValues DEF TypeOK, RecommendFix, Goto,
      collection
  <2> QED
    BY <2>1, <2>2, StraightStep DEF IInv, RecommendFix, Goto, limits
<1>6. ExitMatches' /\ CeilingIsATripwire' /\ RequeuedCollectorIsAfforded'
  BY StateNames, AheadValues, LimitTypes, LoopsType DEF IInv, RecommendFix,
    Turn, Goto, TypeOK, ExitMatches, CeilingIsATripwire,
    RequeuedCollectorIsAfforded, WorkBounded, WorkLeft, LongestRun,
    BackEdgeAfforded, budget_remaining, MIN_BUDGET_FOR_COLLECTOR,
    TERMINAL_STATES
<1> QED
  BY <1>1, <1>2, <1>3, <1>4, <1>5, <1>6 DEF IInv

\* A stalled reasoning node: the run goes to NEEDS_HUMAN with the context as it
\* is, except for a selection.
LEMMA StallsPreserves ==
    ASSUME IInv, selected' \in BOOLEAN,
           NEW s \in {"GENERATE_HYPOTHESES", "SELECT_ROOT_CAUSE", "VALIDATE",
                      "RECOMMEND_FIX"},
           Stalls(s)
    PROVE  IInv'
<1>1. TypeOK'
  BY StateNames DEF IInv, Stalls, Goto, limits, collection, TypeOK
<1>2. PlanSpent' /\ HypothesesAtHand'
  BY DEF IInv, Stalls, Turn, Goto, collection, PlanSpent, HypothesesAtHand,
    Collectors, SignalCollectors
<1>3. ConclusionAtHand'
  BY DEF IInv, Stalls, Turn, Goto, TypeOK, ConclusionAtHand, Approved,
    Accepted, TERMINAL_STATES, MAX_REJECTIONS
<1>4. BackEdgeAfforded'
  BY DEF IInv, Stalls, Turn, Goto, collection, BackEdgeAfforded,
    budget_remaining, PlanSpent, Collectors, SignalCollectors
<1>5. WorkBounded'
  <2>1. AheadOf(state, plan) \in Nat \ {0}
    BY AheadValues DEF IInv, TypeOK, Stalls, Turn
  <2>2. AheadOf(state', plan') = 0
    BY <1>1, AheadValues DEF TypeOK, Stalls, Goto
  <2> QED
    BY <2>1, <2>2, StraightStep DEF IInv, Stalls, Goto, limits
<1>6. ExitMatches' /\ CeilingIsATripwire' /\ RequeuedCollectorIsAfforded'
  BY DEF IInv, Stalls, Turn, Goto, ExitMatches, CeilingIsATripwire,
    RequeuedCollectorIsAfforded, LongestRun
<1> QED
  BY <1>1, <1>2, <1>3, <1>4, <1>5, <1>6 DEF IInv

\* An unreachable model: the run fails where it stands.
LEMMA UnreachablePreserves ==
    ASSUME IInv, selected' \in BOOLEAN,
           NEW s \in {"PLAN", "GENERATE_HYPOTHESES", "SELECT_ROOT_CAUSE",
                      "VALIDATE", "RECOMMEND_FIX"},
           Unreachable(s)
    PROVE  IInv'
<1>1. TypeOK'
  BY StateNames DEF IInv, Unreachable, Stop, limits, collection, TypeOK
<1>2. PlanSpent' /\ HypothesesAtHand' /\ BackEdgeAfforded'
  BY DEF IInv, Unreachable, Stop, limits, collection, PlanSpent,
    HypothesesAtHand, BackEdgeAfforded, budget_remaining
<1>3. ConclusionAtHand'
  BY DEF IInv, Unreachable, Stop, ConclusionAtHand, Approved, Accepted
<1>4. WorkBounded'
  BY DEF IInv, Unreachable, Stop, limits, collection, WorkBounded, WorkLeft,
    LongestRun
<1>5. ExitMatches' /\ CeilingIsATripwire' /\ RequeuedCollectorIsAfforded'
  BY StateNames DEF Unreachable, Turn, Stop, ExitMatches, CeilingIsATripwire,
    RequeuedCollectorIsAfforded
<1> QED
  BY <1>1, <1>2, <1>3, <1>4, <1>5 DEF IInv

\* A router that raises keeps the strengthening.
LEMMA RoutingRaisesPreserves ==
    ASSUME IInv, RoutingRaises PROVE IInv'
<1>1. Unreachable("PLAN") /\ selected' = selected
  BY DEF RoutingRaises, Unreachable, reasoning
<1> QED
  BY <1>1, UnreachablePreserves DEF IInv, TypeOK

\* A reasoning node that stalls or finds no model keeps the strengthening.
LEMMA FailsPreserves ==
    ASSUME IInv, GenerateFails \/ SelectFails \/ ValidateFails \/ RecommendFails
    PROVE  IInv'
<1>1. CASE GenerateFails
  BY <1>1, StallsPreserves, UnreachablePreserves DEF IInv, TypeOK,
    GenerateFails
<1>2. CASE SelectFails
  BY <1>2, StallsPreserves, UnreachablePreserves DEF SelectFails
<1>3. CASE ValidateFails
  BY <1>3, StallsPreserves, UnreachablePreserves DEF IInv, TypeOK,
    ValidateFails
<1>4. CASE RecommendFails
  BY <1>4, StallsPreserves, UnreachablePreserves DEF IInv, TypeOK,
    RecommendFails
<1> QED
  BY <1>1, <1>2, <1>3, <1>4

\* The strengthening holds when a run starts.
LEMMA InitEstablishes == Init => IInv
<1> SUFFICES ASSUME Init PROVE IInv
  OBVIOUS
<1>1. TypeOK
  <2>1. "UNDERSTAND_INCIDENT" \in States
    BY DEF States
  <2>2. plan \in Seq(Collectors) /\ visits \in [Collectors -> Nat]
    BY DEF Init
  <2>3. NoRootCause \in RootCauses \cup {NoRootCause} /\ 0 \in 0 .. MAX_ACTIONS
        /\ 0 \in 0 .. (MAX_REJECTIONS + 1)
    BY DEF MAX_ACTIONS, MAX_REJECTIONS
  <2>4. 0 \in 0 .. request.tool_budget /\ 0 \in 0 .. request.max_iterations
    <3>1. /\ request.tool_budget \in ToolBudgets
          /\ request.max_iterations \in IterationLimits
      BY DEF Init, Requests
    <3>2. request.tool_budget \in 1 .. 200 /\ request.max_iterations \in 1 .. 10
      BY <3>1, LimitsAssumption
    <3> QED
      BY <3>2
  <2>5. tool_calls_made = 0 /\ iteration = 0 /\ transitions = 0
        /\ rejections = 0 /\ announced = 0 /\ recommendations = 0
    BY DEF Init
  <2>6. service_known \in BOOLEAN /\ evidence \in BOOLEAN /\ selected \in BOOLEAN
    BY DEF Init
  <2>7. request \in Requests /\ max_transitions \in TransitionCeilings
        /\ state \in States /\ outcome = "RUNNING" /\ exit = "none"
        /\ hypotheses = {} /\ root_cause = NoRootCause
    BY <2>1 DEF Init
  <2> QED
    BY <2>2, <2>3, <2>4, <2>5, <2>6, <2>7 DEF TypeOK
<1>2. PlanSpent /\ HypothesesAtHand /\ ConclusionAtHand /\ BackEdgeAfforded
  BY DEF Init, PlanSpent, HypothesesAtHand, ConclusionAtHand,
    BackEdgeAfforded, MAX_REJECTIONS
<1>3. WorkBounded
  <2>1. AheadOf(state, plan) = 14
    BY <1>1, AheadValues DEF Init, TypeOK
  <2>2. LoopsOf(request.max_iterations, iteration, rejections)
          = 4 * request.max_iterations + 5
    BY <1>1, LimitTypes DEF Init, LoopsOf
  <2>3. request.max_iterations \in Nat
    BY <1>1, LimitTypes
  <2> QED
    BY <2>1, <2>2, <2>3 DEF Init, WorkBounded, WorkLeft, LongestRun
<1>4. ExitMatches /\ CeilingIsATripwire /\ RequeuedCollectorIsAfforded
  BY DEF Init, ExitMatches, CeilingIsATripwire, RequeuedCollectorIsAfforded
<1> QED
  BY <1>1, <1>2, <1>3, <1>4 DEF IInv

\* A step that changes nothing keeps the strengthening.
LEMMA StutterPreserves ==
    ASSUME IInv, UNCHANGED vars
    PROVE  IInv'
<1>1. UNCHANGED <<request, max_transitions, state, transitions, outcome, exit,
                  service_known, plan, visits, tool_calls_made, iteration,
                  evidence, hypotheses, selected, root_cause, rejections,
                  announced, recommendations>>
  BY DEF vars, limits, runner, collection, reasoning
<1>2. TypeOK'
  BY <1>1 DEF IInv, TypeOK
<1>3. PlanSpent' /\ HypothesesAtHand' /\ ConclusionAtHand' /\ BackEdgeAfforded'
  BY <1>1 DEF IInv, PlanSpent, HypothesesAtHand, ConclusionAtHand, Approved,
    Accepted, BackEdgeAfforded, budget_remaining
<1>4. WorkBounded' /\ ExitMatches'
  BY <1>1 DEF IInv, WorkBounded, WorkLeft, LongestRun, ExitMatches
<1>5. CeilingIsATripwire' /\ RequeuedCollectorIsAfforded'
  BY <1>1 DEF IInv, CeilingIsATripwire, LongestRun,
    RequeuedCollectorIsAfforded
<1> QED
  BY <1>2, <1>3, <1>4, <1>5 DEF IInv

\* Every step of the machine keeps the strengthening.
LEMMA NextPreserves == IInv /\ [Next]_vars => IInv'
<1> SUFFICES ASSUME IInv, [Next]_vars PROVE IInv'
  OBVIOUS
<1>1. CASE Finish \/ HitCeiling
  BY <1>1, FinishPreserves, HitCeilingPreserves
<1>2. CASE UnderstandIncident \/ MakePlan \/ RoutingFails \/ RoutingRaises
  BY <1>2, UnderstandIncidentPreserves, MakePlanPreserves,
    RoutingFailsPreserves, RoutingRaisesPreserves
<1>3. ASSUME NEW c \in SignalCollectors,
             Collect(c) \/ CollectExhausted(c) \/ CollectRaises(c)
      PROVE  IInv'
  BY <1>3, CollectPreserves, CollectExhaustedPreserves, CollectRaisesPreserves
<1>4. CASE SearchHistory
  BY <1>4, SearchHistoryPreserves
<1>5. CASE NothingToExplain \/ GenerateHypotheses
  BY <1>5, NothingToExplainPreserves, GenerateHypothesesPreserves
<1>6. CASE ProceedToRanking \/ GoBack
  BY <1>6, ProceedToRankingPreserves, GoBackPreserves
<1>7. CASE RankHypotheses \/ SelectRootCause
  BY <1>7, RankHypothesesPreserves, SelectRootCausePreserves
<1>8. CASE Accept \/ Reject
  BY <1>8, AcceptPreserves, RejectPreserves
<1>9. CASE RecommendFix
  BY <1>9, RecommendFixPreserves
<1>10. CASE GenerateFails \/ SelectFails \/ ValidateFails \/ RecommendFails
  BY <1>10, FailsPreserves
<1>11. CASE UNCHANGED vars
  BY <1>11, StutterPreserves
<1> QED
  BY <1>1, <1>2, <1>3, <1>4, <1>5, <1>6, <1>7, <1>8, <1>9, <1>10, <1>11 DEF
    Next

-----------------------------------------------------------------------------
(* The theorems. *)

\* The strengthening holds in every reachable state, whatever the limits.
THEOREM Invariance == Spec => []IInv
<1>1. Init => IInv
  BY InitEstablishes
<1>2. IInv /\ [Next]_vars => IInv'
  BY NextPreserves
<1> QED
  BY <1>1, <1>2, PTL DEF Spec

\* Every variable keeps its type: no run spends more tool calls than its budget
\* or more iterations than its limit, or announces two conclusions.
THEOREM TypeCorrect == Spec => []TypeOK
<1>1. IInv => TypeOK
  BY DEF IInv
<1> QED
  BY <1>1, Invariance, PTL

\* No fix without an accepted, evidenced, announced conclusion.
THEOREM FixesAreEarned == Spec => []FixNeedsAcceptedConclusion
<1>1. IInv => FixNeedsAcceptedConclusion
  BY DEF IInv, ConclusionAtHand, Approved, ExitMatches,
    FixNeedsAcceptedConclusion
<1> QED
  BY <1>1, Invariance, PTL

\* A run ends within LongestRun transitions or ends itself earlier: the ceiling
\* stops only a run built with one below that.
THEOREM CeilingOnlyTrips == Spec => []CeilingIsATripwire
<1>1. IInv => CeilingIsATripwire
  BY DEF IInv
<1> QED
  BY <1>1, Invariance, PTL

\* With the ceiling the service builds its machines with, the runner never has
\* to stop a run (DEFAULT_MAX_TRANSITIONS, state_machine.py:51-54).
THEOREM DefaultCeilingIsNeverHit ==
    Spec => [](max_transitions = 100 => exit # "ceiling")
<1>1. IInv => (max_transitions = 100 => exit # "ceiling")
  <2> SUFFICES ASSUME IInv, max_transitions = 100, exit = "ceiling" PROVE FALSE
    OBVIOUS
  <2>1. 100 < LongestRun
    BY DEF IInv, CeilingIsATripwire
  <2>2. request.max_iterations \in IterationLimits
    BY DEF IInv, TypeOK, Requests
  <2>3. request.max_iterations \in 1 .. 10
    BY <2>2, LimitsAssumption
  <2> QED
    BY <2>1, <2>3 DEF LongestRun
<1> QED
  BY <1>1, Invariance, PTL

\* The back edge never leads to a collector that cannot pay for its first visit.
THEOREM BackEdgeIsAfforded == Spec => []RequeuedCollectorIsAfforded
<1>1. IInv => RequeuedCollectorIsAfforded
  BY DEF IInv
<1> QED
  BY <1>1, Invariance, PTL

-----------------------------------------------------------------------------
(* What a step may not do, and the contract. *)

\* Once a conclusion is announced only the fix, its failure or the end remain.
LEMMA AnnouncedIsLate ==
    ASSUME IInv, Next, announced > 0
    PROVE  Finish \/ RecommendFix \/ RecommendFails \/ HitCeiling
<1>1. state \in {"RECOMMEND_FIX"} \cup TERMINAL_STATES
  BY DEF IInv, ConclusionAtHand
<1> QED
  BY <1>1 DEF Next, TERMINAL_STATES, Turn, Enter, Stalls, Unreachable,
    SignalCollectors, UnderstandIncident, MakePlan, RoutingFails, RoutingRaises,
    Collect, CollectExhausted, CollectRaises, SearchHistory, NothingToExplain,
    GenerateHypotheses, GenerateFails, ProceedToRanking, GoBack,
    RankHypotheses, SelectRootCause, SelectFails, Accept, Reject,
    ValidateFails

\* An announced conclusion is never replaced, rescored or announced again.
THEOREM PublishedStands == Spec => PublishedConclusionStands
<1>1. IInv /\ Next => (announced > 0 => UNCHANGED <<root_cause, announced>>)
  <2> SUFFICES ASSUME IInv, Next, announced > 0
               PROVE  UNCHANGED <<root_cause, announced>>
    OBVIOUS
  <2> QED
    BY AnnouncedIsLate DEF Finish, RecommendFix, RecommendFails, HitCeiling,
      Stalls, Unreachable, reasoning
<1>2. IInv /\ [Next]_vars => [announced > 0 => UNCHANGED <<root_cause, announced>>]_vars
  BY <1>1
<1> QED
  BY <1>2, Invariance, PTL DEF Spec, PublishedConclusionStands


\* The steps by which a run ends are the contract's End.
LEMMA EndStep ==
    ASSUME IInv, outcome = "RUNNING",
           UNCHANGED <<root_cause, announced, rejections, recommendations>>,
           \/ outcome' \in {"NEEDS_HUMAN", "FAILED"} /\ state # "COMPLETED"
           \/ outcome' = state /\ state \in TERMINAL_STATES
    PROVE  Contract!Next
<1>1. UNCHANGED ConclusionShown
  BY DEF ConclusionShown
<1>2. recommendations > 0 <=> state = "COMPLETED"
  BY DEF IInv, ConclusionAtHand
<1>3. outcome' \in IF recommendations > 0 THEN {"COMPLETED"}
                   ELSE {"NEEDS_HUMAN", "FAILED"}
  BY <1>2 DEF TERMINAL_STATES
<1> QED
  BY <1>1, <1>3 DEF Contract!End, Contract!Next

\* A step that leaves these alone is no step of the contract.
LEMMA SilentStep ==
    ASSUME UNCHANGED <<root_cause, announced, rejections, recommendations, outcome>>
    PROVE  UNCHANGED Contract!contract_vars
  BY DEF Contract!contract_vars, ConclusionShown

\* Every step of the machine is a step of the contract, or one it does not see.
LEMMA ContractStep == IInv /\ [Next]_vars => [Contract!Next]_(Contract!contract_vars)
<1> SUFFICES ASSUME IInv, [Next]_vars
             PROVE  Contract!Next \/ UNCHANGED Contract!contract_vars
  OBVIOUS
<1>1. CASE Finish
  BY <1>1, EndStep DEF Finish, Stop, reasoning
<1>2. CASE HitCeiling
  <2>1. state # "COMPLETED"
    BY <1>2 DEF HitCeiling, TERMINAL_STATES
  <2> QED
    BY <1>2, <2>1, EndStep DEF HitCeiling, Stop, reasoning
<1>3. CASE UnderstandIncident \/ MakePlan \/ RoutingFails \/ NothingToExplain
  BY <1>3, SilentStep DEF UnderstandIncident, MakePlan, RoutingFails,
    NothingToExplain, Goto, reasoning
<1>4. ASSUME NEW c \in SignalCollectors,
             Collect(c) \/ CollectExhausted(c) \/ CollectRaises(c)
      PROVE  Contract!Next \/ UNCHANGED Contract!contract_vars
  <2>1. CASE Collect(c)
    BY <2>1, SilentStep DEF Collect, Enter, Advance, Goto, reasoning
  <2>2. state = c => state # "COMPLETED"
    BY DEF SignalCollectors
  <2>3. CASE CollectExhausted(c)
    BY <2>2, <2>3, EndStep DEF CollectExhausted, Enter, Turn, Stop, reasoning
  <2>4. CASE CollectRaises(c)
    BY <2>2, <2>4, EndStep DEF CollectRaises, Enter, Turn, Stop, reasoning
  <2> QED
    BY <1>4, <2>1, <2>3, <2>4
<1>5. CASE SearchHistory
  BY <1>5, SilentStep DEF SearchHistory, Enter, Advance, Goto, reasoning
<1>6. CASE GenerateHypotheses \/ ProceedToRanking \/ GoBack \/ RankHypotheses
  BY <1>6, SilentStep DEF GenerateHypotheses, ProceedToRanking, GoBack,
    RankHypotheses, Goto
<1>7. ASSUME NEW s \in {"GENERATE_HYPOTHESES", "SELECT_ROOT_CAUSE", "VALIDATE",
                        "RECOMMEND_FIX"},
             Stalls(s) \/ Unreachable(s)
      PROVE  Contract!Next \/ UNCHANGED Contract!contract_vars
  <2>1. CASE Stalls(s)
    BY <2>1, SilentStep DEF Stalls, Goto
  <2>2. CASE Unreachable(s)
    <3>1. state # "COMPLETED"
      BY <2>2 DEF Unreachable, Turn
    <3> QED
      BY <2>2, <3>1, EndStep DEF Unreachable, Turn, Stop
  <2> QED
    BY <1>7, <2>1, <2>2
<1>8. CASE GenerateFails \/ SelectFails \/ ValidateFails \/ RecommendFails
  BY <1>7, <1>8 DEF GenerateFails, SelectFails, ValidateFails, RecommendFails
<1>9. CASE SelectRootCause
  <2>1. ConclusionShown = "none" /\ ~ (announced > 0)
    BY <1>9 DEF IInv, ConclusionAtHand, SelectRootCause, Turn,
      TERMINAL_STATES, ConclusionShown
  <2>2. root_cause' # NoRootCause /\ UNCHANGED announced
    BY <1>9 DEF SelectRootCause, RootCause, NoRootCause
  <2>3. ConclusionShown' = "drafted"
    BY <2>1, <2>2 DEF ConclusionShown
  <2>4. Contract!Draft
    BY <1>9, <2>1, <2>3 DEF SelectRootCause, Turn, Goto, Contract!Draft
  <2> QED
    BY <2>4 DEF Contract!Next
<1>10. CASE Accept \/ Reject
  <2>1. ConclusionShown = "drafted" /\ announced = 0
    BY <1>10 DEF IInv, TypeOK, ConclusionAtHand, Accept, Reject, Turn,
      TERMINAL_STATES, ConclusionShown
  <2>2. outcome = "RUNNING" /\ UNCHANGED <<outcome, recommendations>>
    BY <1>10 DEF Accept, Reject, Turn, Goto
  <2>3. CASE announced' = announced + 1 /\ root_cause' # NoRootCause
             /\ (rejections' > 0) = (rejections > 0)
    <3>1. ConclusionShown' = "published"
      BY <2>1, <2>3 DEF ConclusionShown
    <3>2. Contract!Publish
      BY <2>1, <2>2, <2>3, <3>1 DEF Contract!Publish
    <3> QED
      BY <3>2 DEF Contract!Next
  <2>4. CASE root_cause' = NoRootCause /\ rejections = 0 /\ rejections' = 1
    <3>1. ConclusionShown' = "none"
      BY <2>4 DEF ConclusionShown
    <3>2. Contract!Withdraw
      BY <2>1, <2>2, <2>4, <3>1 DEF Contract!Withdraw
    <3> QED
      BY <3>2 DEF Contract!Next
  <2>5. CASE Accept
    BY <2>3, <2>5 DEF Accept, RootCause, NoRootCause
  <2>6. CASE Reject
    BY <2>3, <2>4, <2>6 DEF IInv, TypeOK, Reject, RootCause, NoRootCause,
      MAX_REJECTIONS
  <2> QED
    BY <1>10, <2>5, <2>6
<1>11. CASE RecommendFix
  <2>1. ConclusionShown = "published" /\ recommendations = 0
    BY <1>11 DEF IInv, TypeOK, ConclusionAtHand, Approved, RecommendFix, Turn,
      ConclusionShown, MAX_ACTIONS
  <2>2. UNCHANGED ConclusionShown
    BY <1>11 DEF RecommendFix, ConclusionShown
  <2>3. Contract!Propose
    BY <1>11, <2>1, <2>2 DEF RecommendFix, Turn, Goto, MAX_ACTIONS,
      Contract!Propose, Contract!MaxFixes
  <2> QED
    BY <2>3 DEF Contract!Next
<1>12. CASE UNCHANGED vars
  BY <1>12, SilentStep DEF vars, runner, reasoning
<1>13. CASE RoutingRaises
  <2>1. state # "COMPLETED" /\ outcome = "RUNNING"
    BY <1>13 DEF RoutingRaises, Turn
  <2> QED
    BY <1>13, <2>1, EndStep DEF RoutingRaises, Stop, reasoning
<1> QED
  BY <1>1, <1>2, <1>3, <1>4, <1>5, <1>6, <1>8, <1>9, <1>10, <1>11, <1>12, <1>13
    DEF Next

\* Every run of the machine, for all limits, is a run of the contract.
THEOREM RunsFollowContract == Spec => FollowsContract
<1>1. Init => Contract!Init
  BY DEF Init, Contract!Init, ConclusionShown
<1>2. IInv /\ [Next]_vars => [Contract!Next]_(Contract!contract_vars)
  BY ContractStep
<1> QED
  BY <1>1, <1>2, Invariance, PTL DEF Spec, FollowsContract, Contract!Spec

-----------------------------------------------------------------------------
(* How often a collector runs, and what that costs.                        *)

\* The most calls a visit of a collector asks for, and what a run whose
\* collectors were entered as often as v says can have asked for.
MostOf(c) ==
    CASE c \in {"COLLECT_LOGS", "COLLECT_METRICS", "COLLECT_TRACES"} -> 2
      [] c = "COLLECT_DATABASE" -> 3
      [] c \in {"CHECK_DEPLOYMENTS", "INSPECT_CODE"} -> 1

Cost(v) ==
    2 * v["COLLECT_LOGS"] + 2 * v["COLLECT_METRICS"] + 2 * v["COLLECT_TRACES"]
        + 3 * v["COLLECT_DATABASE"] + v["CHECK_DEPLOYMENTS"] + v["INSPECT_CODE"]

NoRepeat(p) == \A i, j \in 1 .. Len(p) : p[i] = p[j] => i = j

\* None of the collectors of p has run.
Unvisited(p) == \A i \in 1 .. Len(p) : visits[p[i]] = 0

\* The plan itself: the collector entered and those behind it, each for the
\* first time and none of them twice.
FirstPass == NoRepeat(<<state>> \o plan) /\ Unvisited(<<state>> \o plan)

\* The collector of a back edge is planned for a second visit before its first.
SecondPass == visits[state] <= 1 /\ (plan # << >> => visits[state] = 0)

VisitsAhead ==
    /\ state \in {"UNDERSTAND_INCIDENT", "PLAN"} => \A c \in Collectors : visits[c] = 0
    /\ state \in Collectors => IF hypotheses = {} THEN FirstPass ELSE SecondPass

TwoVisitsAtMost == \A c \in Collectors : visits[c] <= 2

VInv ==
    /\ TwoVisitsAtMost
    /\ tool_calls_made <= Cost(visits)
    /\ outcome = "RUNNING" => VisitsAhead
    /\ BudgetOf22Suffices

\* A visit costs at most what its collector's calls can be, and two of each at
\* most MostCalls.
LEMMA CostOfVisits ==
    ASSUME NEW v \in [Collectors -> Nat], NEW c \in SignalCollectors
    PROVE  /\ Cost(v) \in Nat
           /\ Cost([v EXCEPT ![c] = @ + 1]) = Cost(v) + MostOf(c)
           /\ (v[c] <= 1 /\ \A d \in Collectors : v[d] <= 2) => Cost(v) + MostOf(c) <= MostCalls
           /\ MostOf(c) \in 1 .. 3
<1> DEFINE w == [v EXCEPT ![c] = @ + 1]
<1>1. \A d \in SignalCollectors : d \in Collectors /\ v[d] \in Nat
  BY DEF Collectors
<1>2. \A d \in SignalCollectors : w[d] = IF d = c THEN v[d] + 1 ELSE v[d]
  BY <1>1
<1> HIDE DEF w
<1>3. {"COLLECT_LOGS", "COLLECT_METRICS", "COLLECT_TRACES", "COLLECT_DATABASE",
       "CHECK_DEPLOYMENTS", "INSPECT_CODE"} = SignalCollectors
  BY DEF SignalCollectors
<1>4. Cost(v) \in Nat
  BY <1>1, <1>3 DEF Cost
<1>5. MostOf(c) \in 1 .. 3
  BY <1>3 DEF MostOf
<1>6. Cost(w) = Cost(v) + MostOf(c)
  <2>1. /\ v["COLLECT_LOGS"] \in Nat /\ v["COLLECT_METRICS"] \in Nat
        /\ v["COLLECT_TRACES"] \in Nat /\ v["COLLECT_DATABASE"] \in Nat
        /\ v["CHECK_DEPLOYMENTS"] \in Nat /\ v["INSPECT_CODE"] \in Nat
    BY <1>1, <1>3
  <2>2. CASE c = "COLLECT_LOGS"
    <3>1. /\ w["COLLECT_LOGS"] = v["COLLECT_LOGS"] + 1
          /\ w["COLLECT_METRICS"] = v["COLLECT_METRICS"]
          /\ w["COLLECT_TRACES"] = v["COLLECT_TRACES"]
          /\ w["COLLECT_DATABASE"] = v["COLLECT_DATABASE"]
          /\ w["CHECK_DEPLOYMENTS"] = v["CHECK_DEPLOYMENTS"]
          /\ w["INSPECT_CODE"] = v["INSPECT_CODE"]
      BY <1>2, <1>3, <2>2
    <3>2. MostOf(c) = 2
      BY <2>2 DEF MostOf
    <3> QED BY <2>1, <3>1, <3>2 DEF Cost
  <2>3. CASE c = "COLLECT_METRICS"
    <3>1. /\ w["COLLECT_METRICS"] = v["COLLECT_METRICS"] + 1
          /\ w["COLLECT_LOGS"] = v["COLLECT_LOGS"]
          /\ w["COLLECT_TRACES"] = v["COLLECT_TRACES"]
          /\ w["COLLECT_DATABASE"] = v["COLLECT_DATABASE"]
          /\ w["CHECK_DEPLOYMENTS"] = v["CHECK_DEPLOYMENTS"]
          /\ w["INSPECT_CODE"] = v["INSPECT_CODE"]
      BY <1>2, <1>3, <2>3
    <3>2. MostOf(c) = 2
      BY <2>3 DEF MostOf
    <3> QED BY <2>1, <3>1, <3>2 DEF Cost
  <2>4. CASE c = "COLLECT_TRACES"
    <3>1. /\ w["COLLECT_TRACES"] = v["COLLECT_TRACES"] + 1
          /\ w["COLLECT_LOGS"] = v["COLLECT_LOGS"]
          /\ w["COLLECT_METRICS"] = v["COLLECT_METRICS"]
          /\ w["COLLECT_DATABASE"] = v["COLLECT_DATABASE"]
          /\ w["CHECK_DEPLOYMENTS"] = v["CHECK_DEPLOYMENTS"]
          /\ w["INSPECT_CODE"] = v["INSPECT_CODE"]
      BY <1>2, <1>3, <2>4
    <3>2. MostOf(c) = 2
      BY <2>4 DEF MostOf
    <3> QED BY <2>1, <3>1, <3>2 DEF Cost
  <2>5. CASE c = "COLLECT_DATABASE"
    <3>1. /\ w["COLLECT_DATABASE"] = v["COLLECT_DATABASE"] + 1
          /\ w["COLLECT_LOGS"] = v["COLLECT_LOGS"]
          /\ w["COLLECT_METRICS"] = v["COLLECT_METRICS"]
          /\ w["COLLECT_TRACES"] = v["COLLECT_TRACES"]
          /\ w["CHECK_DEPLOYMENTS"] = v["CHECK_DEPLOYMENTS"]
          /\ w["INSPECT_CODE"] = v["INSPECT_CODE"]
      BY <1>2, <1>3, <2>5
    <3>2. MostOf(c) = 3
      BY <2>5 DEF MostOf
    <3> QED BY <2>1, <3>1, <3>2 DEF Cost
  <2>6. CASE c = "CHECK_DEPLOYMENTS"
    <3>1. /\ w["CHECK_DEPLOYMENTS"] = v["CHECK_DEPLOYMENTS"] + 1
          /\ w["COLLECT_LOGS"] = v["COLLECT_LOGS"]
          /\ w["COLLECT_METRICS"] = v["COLLECT_METRICS"]
          /\ w["COLLECT_TRACES"] = v["COLLECT_TRACES"]
          /\ w["COLLECT_DATABASE"] = v["COLLECT_DATABASE"]
          /\ w["INSPECT_CODE"] = v["INSPECT_CODE"]
      BY <1>2, <1>3, <2>6
    <3>2. MostOf(c) = 1
      BY <2>6 DEF MostOf
    <3> QED BY <2>1, <3>1, <3>2 DEF Cost
  <2>7. CASE c = "INSPECT_CODE"
    <3>1. /\ w["INSPECT_CODE"] = v["INSPECT_CODE"] + 1
          /\ w["COLLECT_LOGS"] = v["COLLECT_LOGS"]
          /\ w["COLLECT_METRICS"] = v["COLLECT_METRICS"]
          /\ w["COLLECT_TRACES"] = v["COLLECT_TRACES"]
          /\ w["COLLECT_DATABASE"] = v["COLLECT_DATABASE"]
          /\ w["CHECK_DEPLOYMENTS"] = v["CHECK_DEPLOYMENTS"]
      BY <1>2, <1>3, <2>7
    <3>2. MostOf(c) = 1
      BY <2>7 DEF MostOf
    <3>3. ASSUME NEW m \in Nat, NEW n \in Nat PROVE m + (n + 1) = (m + n) + 1
      OBVIOUS
    <3> DEFINE others == 2 * v["COLLECT_LOGS"] + 2 * v["COLLECT_METRICS"]
                            + 2 * v["COLLECT_TRACES"] + 3 * v["COLLECT_DATABASE"]
                            + v["CHECK_DEPLOYMENTS"]
    <3>4. others \in Nat /\ Cost(v) = others + v["INSPECT_CODE"]
      BY <2>1 DEF Cost
    <3>5. Cost(w) = others + (v["INSPECT_CODE"] + 1)
      BY <3>1 DEF Cost
    <3> HIDE DEF others
    <3> QED BY <2>1, <3>2, <3>3, <3>4, <3>5
  <2> QED BY <1>3, <2>2, <2>3, <2>4, <2>5, <2>6, <2>7
<1>7. ASSUME v[c] <= 1, \A d \in Collectors : v[d] <= 2
      PROVE  Cost(v) + MostOf(c) <= MostCalls
  <2>1. \A d \in SignalCollectors : v[d] <= 2
    BY <1>1, <1>7
  <2> QED BY <1>1, <1>3, <1>7, <2>1 DEF Cost, MostOf, MostCalls
<1> QED BY <1>4, <1>5, <1>6, <1>7 DEF w

\* A collector asks for no more calls than MostOf says.
LEMMA CallsWithinCost ==
    ASSUME NEW c \in SignalCollectors
    PROVE  Calls(c) \in 0 .. MostOf(c)
  BY DEF Calls, CallsOf, SignalCollectors, MostOf

\* No plan names a collector twice.
LEMMA PlanForDistinct ==
    ASSUME NEW intent \in Intents,
           NEW requires_mcp \in BOOLEAN, NEW requires_rag \in BOOLEAN
    PROVE  NoRepeat(PlanFor(intent, requires_mcp, requires_rag))
<1> DEFINE tools == IF requires_mcp THEN ToolsFor(intent) ELSE << >>
           history == IF requires_rag /\ intent \in HistoryIntents
                      THEN <<"SEARCH_HISTORY">> ELSE << >>
<1>1. /\ tools \in Seq(SignalCollectors)
      /\ NoRepeat(tools)
  <2>1. ToolsFor(intent) \in Seq(SignalCollectors) /\ NoRepeat(ToolsFor(intent))
    <3>1. CASE intent = "FULL_INVESTIGATION"
      <4>1. ToolsFor(intent) = <<"COLLECT_LOGS", "COLLECT_METRICS", "COLLECT_TRACES",
                                 "COLLECT_DATABASE", "CHECK_DEPLOYMENTS">>
        BY <3>1 DEF ToolsFor
      <4> QED BY <4>1 DEF SignalCollectors, NoRepeat
    <3>2. CASE intent = "PERFORMANCE_ANALYSIS"
      <4>1. ToolsFor(intent) = <<"COLLECT_LOGS", "COLLECT_METRICS", "COLLECT_TRACES",
                                 "COLLECT_DATABASE">>
        BY <3>2 DEF ToolsFor
      <4> QED BY <4>1 DEF SignalCollectors, NoRepeat
    <3>3. CASE intent \in {"ERROR_ANALYSIS", "GENERAL_QUESTION"}
      <4>1. ToolsFor(intent) = <<"COLLECT_LOGS", "COLLECT_METRICS">>
        BY <3>3 DEF ToolsFor
      <4> QED BY <4>1 DEF SignalCollectors, NoRepeat
    <3>4. CASE intent = "DATABASE_HEALTH"
      <4>1. ToolsFor(intent) = <<"COLLECT_DATABASE", "COLLECT_LOGS">>
        BY <3>4 DEF ToolsFor
      <4> QED BY <4>1 DEF SignalCollectors, NoRepeat
    <3>5. CASE intent \in {"LOG_QUERY", "METRIC_QUERY", "TRACE_QUERY",
                           "SERVICE_TOPOLOGY", "DEPLOYMENT_CHECK", "CODE_LOOKUP",
                           "CONFIG_LOOKUP"}
      <4>1. \E c \in SignalCollectors : ToolsFor(intent) = <<c>>
        BY <3>5 DEF ToolsFor, SignalCollectors
      <4> QED BY <4>1 DEF NoRepeat
    <3>6. CASE intent \in {"HISTORICAL_SIMILARITY", "KNOWLEDGE_QUESTION",
                           "REMEDIATION_QUESTION"}
      BY <3>6 DEF ToolsFor, NoRepeat
    <3> QED
      BY <3>1, <3>2, <3>3, <3>4, <3>5, <3>6 DEF Intents, HistoryIntents
  <2>2. << >> \in Seq(SignalCollectors) /\ NoRepeat(<< >>)
    BY DEF NoRepeat
  <2> QED BY <2>1, <2>2
<1>2. history = << >> \/ history = <<"SEARCH_HISTORY">>
  OBVIOUS
<1>3. PlanFor(intent, requires_mcp, requires_rag) = tools \o history
  BY DEF PlanFor
<1> HIDE DEF tools, history
<1>4. CASE history = << >>
  BY <1>1, <1>3, <1>4 DEF NoRepeat
<1>5. CASE history = <<"SEARCH_HISTORY">>
  <2>1. "SEARCH_HISTORY" \notin SignalCollectors
    BY DEF SignalCollectors
  <2>2. /\ Len(tools) \in Nat
        /\ Len(tools \o history) = Len(tools) + 1
        /\ \A i \in 1 .. Len(tools) :
              (tools \o history)[i] = tools[i] /\ tools[i] \in SignalCollectors
        /\ (tools \o history)[Len(tools) + 1] = "SEARCH_HISTORY"
    BY <1>1, <1>5
  <2>3. \A i \in 1 .. (Len(tools) + 1) : i \in 1 .. Len(tools) \/ i = Len(tools) + 1
    BY <2>2
  <2> QED BY <1>1, <1>3, <2>1, <2>2, <2>3 DEF NoRepeat
<1> QED BY <1>2, <1>4, <1>5


\* What is ahead of a run that leaves a collector, or has a plan made for it.
LEMMA PlanPassed ==
    ASSUME NEW p \in Seq(Collectors), p # << >>, NoRepeat(p)
    PROVE  /\ Head(p) \in Collectors
           /\ <<Head(p)>> \o Tail(p) = p
           /\ Tail(p) \in Seq(Collectors)
           /\ NoRepeat(Tail(p))
           /\ \A i \in 1 .. Len(Tail(p)) : Tail(p)[i] # Head(p)
<1>1. /\ Len(p) \in Nat \ {0}
      /\ Head(p) = p[1]
      /\ Tail(p) \in Seq(Collectors)
      /\ Len(Tail(p)) = Len(p) - 1
      /\ \A i \in 1 .. Len(Tail(p)) : Tail(p)[i] = p[i + 1]
      /\ \A i \in 1 .. Len(p) : p[i] \in Collectors
  OBVIOUS
<1>2. \A i \in 1 .. Len(Tail(p)) : i + 1 \in 1 .. Len(p)
  BY <1>1
<1>3. NoRepeat(Tail(p))
  BY <1>1, <1>2 DEF NoRepeat
<1>4. \A i \in 1 .. Len(Tail(p)) : Tail(p)[i] # Head(p)
  <2> SUFFICES ASSUME NEW i \in 1 .. Len(Tail(p)), Tail(p)[i] = Head(p) PROVE FALSE
    OBVIOUS
  <2>1. i + 1 \in 1 .. Len(p) /\ 1 \in 1 .. Len(p) /\ p[i + 1] = p[1] /\ i + 1 # 1
    BY <1>1, <1>2
  <2> QED BY <2>1 DEF NoRepeat
<1>5. <<Head(p)>> \o Tail(p) = p
  <2> DEFINE q == <<Head(p)>> \o Tail(p)
  <2>1. /\ q \in Seq(Collectors)
        /\ Len(q) = Len(p)
        /\ \A i \in 1 .. Len(p) : q[i] = p[i]
    BY <1>1
  <2> HIDE DEF q
  <2>2. q = p
    BY <2>1
  <2> QED BY <2>2 DEF q
<1> QED BY <1>1, <1>3, <1>4, <1>5

\* The first pass in terms of the collector entered and the rest of the plan.
LEMMA FirstPassParts ==
    ASSUME state \in Collectors, plan \in Seq(Collectors)
    PROVE  FirstPass <=>
              /\ visits[state] = 0
              /\ Unvisited(plan)
              /\ NoRepeat(plan)
              /\ \A i \in 1 .. Len(plan) : plan[i] # state
<1> DEFINE p == <<state>> \o plan
<1>1. /\ Len(plan) \in Nat
      /\ Len(p) = Len(plan) + 1
      /\ p[1] = state
      /\ \A i \in 1 .. Len(plan) : p[i + 1] = plan[i]
  OBVIOUS
<1> HIDE DEF p
<1>2. /\ 1 \in 1 .. Len(p)
      /\ \A i \in 1 .. Len(plan) : i + 1 \in 1 .. Len(p)
      /\ \A i \in 1 .. Len(p) : i = 1 \/ (i - 1 \in 1 .. Len(plan) /\ p[i] = plan[i - 1])
  <2>1. ASSUME NEW i \in 1 .. Len(p), i # 1
        PROVE  i - 1 \in 1 .. Len(plan) /\ p[i] = plan[i - 1]
    <3>1. i - 1 \in 1 .. Len(plan) /\ (i - 1) + 1 = i
      BY <1>1, <2>1
    <3> QED BY <1>1, <3>1
  <2> QED BY <1>1, <2>1
<1>3. Unvisited(p) <=> visits[state] = 0 /\ Unvisited(plan)
  BY <1>1, <1>2 DEF Unvisited
<1>4. NoRepeat(p) => NoRepeat(plan) /\ \A i \in 1 .. Len(plan) : plan[i] # state
  <2> SUFFICES ASSUME NoRepeat(p)
               PROVE  NoRepeat(plan) /\ \A i \in 1 .. Len(plan) : plan[i] # state
    OBVIOUS
  <2>1. ASSUME NEW i \in 1 .. Len(plan), plan[i] = state PROVE FALSE
    <3>1. i + 1 # 1 /\ p[i + 1] = p[1]
      BY <1>1, <2>1
    <3> QED BY <1>2, <3>1 DEF NoRepeat
  <2>2. ASSUME NEW i \in 1 .. Len(plan), NEW j \in 1 .. Len(plan), plan[i] = plan[j]
        PROVE  i = j
    <3>1. i + 1 = j + 1
      BY <1>1, <1>2, <2>2 DEF NoRepeat
    <3> QED BY <1>1, <3>1
  <2> QED BY <2>1, <2>2 DEF NoRepeat
<1>5. ASSUME NoRepeat(plan), \A i \in 1 .. Len(plan) : plan[i] # state
      PROVE  NoRepeat(p)
  <2> SUFFICES ASSUME NEW i \in 1 .. Len(p), NEW j \in 1 .. Len(p), p[i] = p[j]
               PROVE  i = j
    BY DEF NoRepeat
  <2>1. CASE i = 1 /\ j = 1
    BY <2>1
  <2>2. CASE i # 1 /\ j # 1
    <3>1. i - 1 = j - 1
      BY <1>2, <1>5, <2>2 DEF NoRepeat
    <3> QED BY <1>1, <3>1
  <2>3. CASE (i = 1 /\ j # 1) \/ (i # 1 /\ j = 1)
    BY <1>1, <1>2, <1>5, <2>3
  <2> QED BY <2>1, <2>2, <2>3
<1> QED BY <1>3, <1>4, <1>5 DEF FirstPass, p

\* A step that enters no collector and leaves the counts alone.
LEMMA ElsewhereVisits ==
    ASSUME VInv, UNCHANGED <<request, visits, tool_calls_made>>,
           exit' = "budget" => exit = "budget",
           \/ outcome' # "RUNNING"
           \/ state' \notin Collectors \cup {"UNDERSTAND_INCIDENT", "PLAN"}
           \/ /\ state = "UNDERSTAND_INCIDENT" /\ state' = "PLAN"
              /\ outcome = "RUNNING"
    PROVE  VInv'
<1>1. TwoVisitsAtMost' /\ (tool_calls_made <= Cost(visits))' /\ BudgetOf22Suffices'
  BY DEF VInv, TwoVisitsAtMost, Cost, BudgetOf22Suffices
<1>2. outcome' = "RUNNING" => VisitsAhead'
  <2>1. "PLAN" \notin Collectors /\ "UNDERSTAND_INCIDENT" \notin Collectors
    BY DEF Collectors, SignalCollectors
  <2> QED BY <2>1 DEF VInv, VisitsAhead
<1> QED BY <1>1, <1>2 DEF VInv

\* A plan is made before any collector has run.
LEMMA MakePlanVisits ==
    ASSUME IInv, VInv, MakePlan
    PROVE  VInv'
<1>1. PICK intent \in Intents, requires_mcp \in BOOLEAN, requires_rag \in BOOLEAN :
         LET p == PlanFor(intent, requires_mcp, requires_rag)
         IN  plan' = RestOf(p) /\ Goto(NextOf(p))
  BY DEF MakePlan
<1> DEFINE p == PlanFor(intent, requires_mcp, requires_rag)
<1>2. p \in Seq(Collectors) /\ NoRepeat(p)
  BY PlanForType, PlanForDistinct
<1>3. plan' = RestOf(p) /\ state' = NextOf(p) /\ outcome' = outcome /\ exit' = exit
  BY <1>1 DEF Goto
<1> HIDE DEF p
<1>4. /\ outcome = "RUNNING" /\ state = "PLAN"
      /\ UNCHANGED <<request, visits, tool_calls_made, hypotheses>>
  BY DEF MakePlan, Turn, limits, reasoning
<1>5. \A c \in Collectors : visits[c] = 0
  BY <1>4 DEF VInv, VisitsAhead
<1>6. CASE p = << >>
  <2>1. state' = "GENERATE_HYPOTHESES"
    BY <1>3, <1>6 DEF NextOf
  <2>2. state' \notin Collectors \cup {"UNDERSTAND_INCIDENT", "PLAN"}
    BY <2>1 DEF Collectors, SignalCollectors
  <2> QED BY <1>3, <1>4, <2>2, ElsewhereVisits
<1>7. CASE p # << >>
  <2>1. state' = Head(p) /\ plan' = Tail(p)
    BY <1>3, <1>7 DEF NextOf, RestOf
  <2>2. /\ state' \in Collectors
        /\ plan' \in Seq(Collectors)
        /\ <<state'>> \o plan' = p
    BY <1>2, <1>7, <2>1, PlanPassed
  <2>3. \A i \in 1 .. Len(p) : p[i] \in Collectors
    BY <1>2
  <2>4. FirstPass'
    BY <1>2, <1>4, <1>5, <2>2, <2>3 DEF FirstPass, NoRepeat, Unvisited
  <2>5. hypotheses' = {}
    BY <1>4 DEF IInv, HypothesesAtHand
  <2>6. state' \notin {"UNDERSTAND_INCIDENT", "PLAN"}
    BY <2>2 DEF Collectors, SignalCollectors
  <2>7. VisitsAhead'
    BY <2>4, <2>5, <2>6 DEF VisitsAhead
  <2>8. TwoVisitsAtMost' /\ (tool_calls_made <= Cost(visits))' /\ BudgetOf22Suffices'
    BY <1>3, <1>4 DEF VInv, TwoVisitsAtMost, Cost, BudgetOf22Suffices
  <2> QED BY <2>7, <2>8 DEF VInv
<1> QED BY <1>6, <1>7

\* A collector about to be entered has run at most once.
LEMMA EnterVisits ==
    ASSUME IInv, VInv, NEW c \in Collectors, Enter(c)
    PROVE  /\ state = c /\ outcome = "RUNNING"
           /\ visits[c] <= 1
           /\ visits' = [visits EXCEPT ![c] = @ + 1]
           /\ TwoVisitsAtMost'
           /\ UNCHANGED <<request, hypotheses>>
<1>1. /\ state = c /\ outcome = "RUNNING"
      /\ visits' = [visits EXCEPT ![c] = @ + 1]
      /\ UNCHANGED <<request, hypotheses>>
  BY DEF Enter, Turn, limits, reasoning
<1>2. visits \in [Collectors -> Nat] /\ plan \in Seq(Collectors)
  BY DEF IInv, TypeOK
<1>3. visits[c] <= 1
  <2>1. IF hypotheses = {} THEN FirstPass ELSE SecondPass
    BY <1>1 DEF VInv, VisitsAhead
  <2>2. CASE hypotheses = {}
    BY <1>1, <1>2, <2>1, <2>2, FirstPassParts
  <2>3. CASE hypotheses # {}
    BY <1>1, <2>1, <2>3 DEF SecondPass
  <2> QED BY <2>2, <2>3
<1>4. TwoVisitsAtMost'
  BY <1>1, <1>2, <1>3 DEF VInv, TwoVisitsAtMost
<1> QED BY <1>1, <1>3, <1>4

\* The next collector of the plan has not run, and a second visit follows a first.
LEMMA AdvanceVisits ==
    ASSUME IInv, VInv, NEW c \in Collectors, Enter(c), Advance
    PROVE  VisitsAhead'
<1>1. /\ state = c /\ outcome = "RUNNING"
      /\ visits[c] <= 1
      /\ visits' = [visits EXCEPT ![c] = @ + 1]
      /\ UNCHANGED <<request, hypotheses>>
  BY EnterVisits
<1>2. visits \in [Collectors -> Nat] /\ plan \in Seq(Collectors)
  BY DEF IInv, TypeOK
<1>3. state' = NextOf(plan) /\ plan' = RestOf(plan)
  BY DEF Advance, Goto
<1>4. IF hypotheses = {} THEN FirstPass ELSE SecondPass
  BY <1>1 DEF VInv, VisitsAhead
<1>5. state' \notin {"UNDERSTAND_INCIDENT", "PLAN"}
  BY <1>2, <1>3, AdvanceType DEF Collectors, SignalCollectors
<1>6. CASE plan = << >>
  <2>1. state' \notin Collectors
    BY <1>3, <1>6 DEF NextOf, Collectors, SignalCollectors
  <2> QED BY <1>5, <2>1 DEF VisitsAhead
<1>7. CASE plan # << >> /\ hypotheses = {}
  <2>1. /\ Unvisited(plan) /\ NoRepeat(plan)
        /\ \A i \in 1 .. Len(plan) : plan[i] # c
    BY <1>1, <1>2, <1>4, <1>7, FirstPassParts
  <2>2. /\ state' = Head(plan) /\ plan' = Tail(plan)
        /\ state' \in Collectors
        /\ plan' \in Seq(Collectors)
        /\ <<state'>> \o plan' = plan
    BY <1>2, <1>3, <1>7, <2>1, PlanPassed DEF NextOf, RestOf
  <2>3. \A i \in 1 .. Len(plan) : plan[i] \in Collectors /\ visits'[plan[i]] = 0
    BY <1>1, <1>2, <2>1 DEF Unvisited
  <2>4. FirstPass'
    BY <2>1, <2>2, <2>3 DEF FirstPass, NoRepeat, Unvisited
  <2> QED BY <1>1, <1>5, <1>7, <2>4 DEF VisitsAhead
<1>8. CASE plan # << >> /\ hypotheses # {}
  <2>1. plan = <<c>> /\ visits[c] = 0
    BY <1>1, <1>4, <1>8 DEF IInv, BackEdgeAfforded, SecondPass
  <2>2. state' = c /\ plan' = << >>
    BY <1>3, <2>1 DEF NextOf, RestOf
  <2>3. visits'[c] = 1
    BY <1>1, <1>2, <2>1
  <2> QED BY <1>1, <1>5, <1>8, <2>2, <2>3 DEF VisitsAhead, SecondPass
<1> QED BY <1>6, <1>7, <1>8

\* A collector is paid for within the cost of its visit, and can be refused
\* only by a budget below the cost of them all.
LEMMA CollectorVisits ==
    ASSUME IInv, VInv, NEW c \in SignalCollectors,
           Collect(c) \/ CollectExhausted(c) \/ CollectRaises(c)
    PROVE  VInv'
<1>1. c \in Collectors /\ Enter(c)
  BY DEF Collectors, Collect, CollectExhausted, CollectRaises
<1>2. /\ state = c /\ outcome = "RUNNING"
      /\ visits[c] <= 1
      /\ visits' = [visits EXCEPT ![c] = @ + 1]
      /\ TwoVisitsAtMost'
      /\ UNCHANGED <<request, hypotheses>>
  BY <1>1, EnterVisits
<1>3. visits \in [Collectors -> Nat] /\ tool_calls_made \in Nat /\ request.tool_budget \in Nat
  BY LimitTypes DEF IInv, TypeOK
<1>4. /\ Cost(visits) \in Nat
      /\ Cost(visits)' = Cost(visits) + MostOf(c)
      /\ Cost(visits) + MostOf(c) <= MostCalls
      /\ MostOf(c) \in Nat
  <2>1. \A d \in Collectors : visits[d] <= 2
    BY DEF VInv, TwoVisitsAtMost
  <2>2. Cost([visits EXCEPT ![c] = @ + 1]) = Cost(visits) + MostOf(c)
    BY <1>3, CostOfVisits
  <2>3. Cost(visits)' = Cost(visits')
    BY DEF Cost
  <2>4. Cost(visits) \in Nat /\ MostOf(c) \in 1 .. 3
    BY <1>3, CostOfVisits
  <2>5. Cost(visits) + MostOf(c) <= MostCalls
    BY <1>2, <1>3, <2>1, CostOfVisits
  <2> QED BY <1>2, <2>2, <2>3, <2>4, <2>5
<1>5. Calls(c) \in 0 .. MostOf(c)
  BY CallsWithinCost
<1>6. tool_calls_made <= Cost(visits)
  BY DEF VInv
<1> HIDE DEF Calls
<1>7. ASSUME tool_calls_made' = tool_calls_made + Calls(c)
      PROVE  (tool_calls_made <= Cost(visits))'
  BY <1>3, <1>4, <1>5, <1>6, <1>7
<1>8. CASE Collect(c)
  <2>1. tool_calls_made' = tool_calls_made + Calls(c) /\ Advance /\ exit' = exit
    BY <1>8 DEF Collect, Advance, Goto
  <2>2. VisitsAhead'
    BY <1>1, <2>1, AdvanceVisits
  <2> QED BY <1>2, <1>7, <2>1, <2>2 DEF VInv, BudgetOf22Suffices
<1>9. CASE CollectExhausted(c)
  <2>1. /\ Calls(c) > request.tool_budget - tool_calls_made
        /\ tool_calls_made' = tool_calls_made
        /\ outcome' # "RUNNING"
    BY <1>9 DEF CollectExhausted, Stop, budget_remaining
  <2>2. request.tool_budget < MostCalls
    BY <1>3, <1>4, <1>5, <1>6, <2>1 DEF MostCalls
  <2>3. (tool_calls_made <= Cost(visits))'
    BY <1>3, <1>4, <1>6, <2>1
  <2> QED BY <1>2, <2>1, <2>2, <2>3 DEF VInv, BudgetOf22Suffices
<1>10. CASE CollectRaises(c)
  <2>1. /\ tool_calls_made' = tool_calls_made + Calls(c)
        /\ exit' = "error" /\ outcome' # "RUNNING"
    BY <1>10 DEF CollectRaises, Stop
  <2> QED BY <1>2, <1>7, <2>1 DEF VInv, BudgetOf22Suffices
<1> QED BY <1>8, <1>9, <1>10

\* The knowledge base costs nothing.
LEMMA SearchHistoryVisits ==
    ASSUME IInv, VInv, SearchHistory
    PROVE  VInv'
<1>1. "SEARCH_HISTORY" \in Collectors /\ "SEARCH_HISTORY" \notin SignalCollectors
  BY DEF Collectors, SignalCollectors
<1>2. Enter("SEARCH_HISTORY") /\ Advance /\ UNCHANGED tool_calls_made
  BY DEF SearchHistory
<1>3. /\ visits' = [visits EXCEPT !["SEARCH_HISTORY"] = @ + 1]
      /\ TwoVisitsAtMost' /\ request' = request
  BY <1>1, <1>2, EnterVisits
<1>4. VisitsAhead'
  BY <1>1, <1>2, AdvanceVisits
<1>5. Cost(visits)' = Cost(visits)
  <2>1. \A d \in SignalCollectors : visits'[d] = visits[d]
    BY <1>1, <1>3 DEF IInv, TypeOK, Collectors
  <2> QED BY <2>1 DEF Cost, SignalCollectors
<1>6. exit' = exit
  BY <1>2 DEF Advance, Goto
<1> QED BY <1>2, <1>3, <1>4, <1>5, <1>6 DEF VInv, BudgetOf22Suffices

\* The back edge goes to a collector that never ran, with nothing planned behind
\* its second visit.
LEMMA GoBackVisits ==
    ASSUME IInv, VInv, GoBack
    PROVE  VInv'
<1>1. PICK c \in Gaps : plan' = <<c>> \o plan /\ Goto(c)
  BY DEF GoBack
<1>2. /\ state = "COLLECT_ADDITIONAL_EVIDENCE"
      /\ UNCHANGED <<request, visits, tool_calls_made, hypotheses>>
  BY DEF GoBack, Turn, limits
<1>3. c \in SignalCollectors /\ visits[c] = 0
  BY DEF Gaps, IInv, TypeOK
<1>4. state' = c /\ exit' = exit
  BY <1>1 DEF Goto
<1>5. hypotheses # {}
  BY <1>2 DEF IInv, HypothesesAtHand
<1>6. c \notin {"UNDERSTAND_INCIDENT", "PLAN"}
  BY <1>3 DEF SignalCollectors
<1>7. VisitsAhead'
  BY <1>2, <1>3, <1>4, <1>5, <1>6 DEF VisitsAhead, SecondPass
<1> QED BY <1>2, <1>4, <1>7 DEF VInv, TwoVisitsAtMost, Cost, BudgetOf22Suffices

\* Every other step leaves the collectors alone.
LEMMA ReasoningVisits ==
    ASSUME VInv,
           \/ Finish \/ HitCeiling \/ UnderstandIncident \/ RoutingFails
           \/ RoutingRaises \/ NothingToExplain \/ GenerateHypotheses \/ GenerateFails
           \/ ProceedToRanking \/ RankHypotheses \/ SelectRootCause \/ SelectFails
           \/ Accept \/ Reject \/ ValidateFails \/ RecommendFix \/ RecommendFails
    PROVE  VInv'
<1>1. UNCHANGED <<request, visits, tool_calls_made>>
  BY DEF Finish, HitCeiling, UnderstandIncident, RoutingFails, RoutingRaises, NothingToExplain,
         GenerateHypotheses, GenerateFails, ProceedToRanking, RankHypotheses, SelectRootCause,
         SelectFails, Accept, Reject, ValidateFails, RecommendFix, RecommendFails, Stalls,
         Unreachable, limits, collection
<1>2. exit' = "budget" => exit = "budget"
  BY DEF Finish, HitCeiling, UnderstandIncident, RoutingFails, RoutingRaises, NothingToExplain,
         GenerateHypotheses, GenerateFails, ProceedToRanking, RankHypotheses, SelectRootCause,
         SelectFails, Accept, Reject, ValidateFails, RecommendFix, RecommendFails, Stalls,
         Unreachable, Goto, Stop
<1>3. {"NEEDS_HUMAN", "COLLECT_ADDITIONAL_EVIDENCE", "RANK_HYPOTHESES", "SELECT_ROOT_CAUSE",
       "VALIDATE", "GENERATE_HYPOTHESES", "RECOMMEND_FIX", "COMPLETED"}
          \cap (Collectors \cup {"UNDERSTAND_INCIDENT", "PLAN"}) = {}
  BY DEF Collectors, SignalCollectors
<1>4. CASE Finish \/ HitCeiling \/ RoutingRaises
  <2>1. outcome' # "RUNNING"
    BY <1>4 DEF Finish, HitCeiling, RoutingRaises, Stop, TERMINAL_STATES
  <2> QED BY <1>1, <1>2, <2>1, ElsewhereVisits
<1>5. CASE UnderstandIncident
  <2>1. state = "UNDERSTAND_INCIDENT" /\ state' = "PLAN" /\ outcome = "RUNNING"
    BY <1>5 DEF UnderstandIncident, Turn, Goto
  <2> QED BY <1>1, <1>2, <2>1, ElsewhereVisits
<1>6. CASE RoutingFails \/ NothingToExplain \/ GenerateHypotheses \/ ProceedToRanking
           \/ RankHypotheses \/ SelectRootCause \/ Accept \/ Reject \/ RecommendFix
  <2>1. state' \in {"NEEDS_HUMAN", "COLLECT_ADDITIONAL_EVIDENCE", "RANK_HYPOTHESES",
                    "SELECT_ROOT_CAUSE", "VALIDATE", "GENERATE_HYPOTHESES", "RECOMMEND_FIX",
                    "COMPLETED"}
    BY <1>6 DEF RoutingFails, NothingToExplain, GenerateHypotheses, ProceedToRanking,
                RankHypotheses, SelectRootCause, Accept, Reject, RecommendFix, Goto
  <2>2. state' \notin Collectors \cup {"UNDERSTAND_INCIDENT", "PLAN"}
    BY <1>3, <2>1
  <2> QED BY <1>1, <1>2, <2>2, ElsewhereVisits
<1>7. CASE GenerateFails \/ SelectFails \/ ValidateFails \/ RecommendFails
  <2>1. state' = "NEEDS_HUMAN" \/ outcome' = "FAILED"
    BY <1>7 DEF GenerateFails, SelectFails, ValidateFails, RecommendFails, Stalls,
                Unreachable, Goto, Stop
  <2>2. state' \notin Collectors \cup {"UNDERSTAND_INCIDENT", "PLAN"} \/ outcome' # "RUNNING"
    BY <1>3, <2>1
  <2> QED BY <1>1, <1>2, <2>2, ElsewhereVisits
<1> QED BY <1>4, <1>5, <1>6, <1>7

\* A budget of 22 is enough for every run: no collector runs more than twice
\* (GatherEvidenceNode, CollectAdditionalEvidenceNode, context.spend_tool_call).
THEOREM BudgetSuffices == Spec => []BudgetOf22Suffices
<1>1. Init => VInv
  <2> SUFFICES ASSUME Init PROVE VInv
    OBVIOUS
  <2>1. \A c \in Collectors : visits[c] = 0
    BY DEF Init
  <2>2. Cost(visits) = 0
    BY <2>1 DEF Cost, Collectors, SignalCollectors
  <2>3. VisitsAhead
    <3>1. "UNDERSTAND_INCIDENT" \notin Collectors
      BY DEF Collectors, SignalCollectors
    <3> QED BY <2>1, <3>1 DEF Init, VisitsAhead
  <2> QED BY <2>1, <2>2, <2>3 DEF Init, VInv, TwoVisitsAtMost, BudgetOf22Suffices
<1>2. ASSUME IInv, VInv, [Next]_vars PROVE VInv'
  <2>1. ASSUME NEW c \in SignalCollectors, Collect(c) \/ CollectExhausted(c) \/ CollectRaises(c)
        PROVE  VInv'
    BY <1>2, <2>1, CollectorVisits
  <2>2. CASE UNCHANGED vars
    BY <1>2, <2>2 DEF vars, limits, runner, collection, reasoning, VInv, TwoVisitsAtMost, Cost,
                      VisitsAhead, FirstPass, SecondPass, Unvisited, BudgetOf22Suffices
  <2> QED BY <1>2, <2>1, <2>2, MakePlanVisits, SearchHistoryVisits, GoBackVisits,
             ReasoningVisits DEF Next
<1>3. VInv => BudgetOf22Suffices
  BY DEF VInv
<1> QED BY <1>1, <1>2, <1>3, Invariance, PTL DEF Spec

-----------------------------------------------------------------------------
(* The run around the machine (InvestigationRun).                          *)

\* The process adds nothing to the machine it runs: each of its steps is one of
\* the machine's or none, so that what is proved of the machine holds of every
\* machine a process runs.
THEOREM RunIsTheMachines == RunSpec => Spec
<1>1. RunInit => Init
  BY DEF RunInit
<1>2. [RunNext]_run_vars => [Next]_vars
  BY DEF RunNext, run_vars, StartupFails, BuildMachine, MachineStep, RunReturns, RunDies,
         Remember, machine
<1> QED BY <1>1, <1>2, PTL DEF RunSpec, Spec

\* The record is closed once the run is over and not before; until then the
\* terminal event is out exactly if the machine has stopped.
RunInv ==
    /\ status # "running" => phase \in {"remembering", "over"}
    /\ phase = "starting" => outcome = "RUNNING" /\ reported = FALSE
    /\ phase = "running" => reported = (outcome # "RUNNING")
    /\ RecordAgrees

\* The invariant of the run holds throughout.
LEMMA RunInvariance == RunSpec => []RunInv
<1>1. RunInit => RunInv
  BY DEF RunInit, Init, RunInv, RecordAgrees
<1>2. ASSUME RunInv, [RunNext]_run_vars PROVE RunInv'
  <2>1. CASE StartupFails
    <3>1. outcome' = "RUNNING" /\ phase' = "over"
      BY <1>2, <2>1 DEF StartupFails, machine, vars, runner, RunInv
    <3> QED BY <3>1 DEF RunInv, RecordAgrees
  <2>2. CASE BuildMachine
    <3>1. /\ outcome' = "RUNNING" /\ reported' = FALSE
          /\ phase' = "running" /\ status' = "running"
      BY <1>2, <2>2 DEF BuildMachine, machine, vars, runner, record, RunInv
    <3> QED BY <3>1 DEF RunInv, RecordAgrees
  <2>3. CASE MachineStep
    <3>1. phase' = "running" /\ status' = "running" /\ reported' = (outcome' # "RUNNING")
      BY <1>2, <2>3 DEF MachineStep, record, RunInv
    <3> QED BY <3>1 DEF RunInv, RecordAgrees
  <2>4. CASE RunReturns
    <3>1. /\ phase' = "remembering" /\ outcome' = outcome /\ final_state' = outcome
          /\ reported' = reported /\ reported
      BY <1>2, <2>4 DEF RunReturns, machine, vars, runner, RunInv
    <3> QED BY <3>1 DEF RunInv, RecordAgrees
  <2>5. CASE RunDies
    <3>1. outcome' = "RUNNING" /\ phase' = "remembering"
      BY <1>2, <2>5 DEF RunDies, machine, vars, runner
    <3> QED BY <3>1 DEF RunInv, RecordAgrees
  <2>6. CASE Remember
    BY <1>2, <2>6 DEF Remember, machine, vars, runner, record, RunInv, RecordAgrees
  <2>7. CASE UNCHANGED run_vars
    BY <1>2, <2>7 DEF run_vars, vars, runner, RunInv, RecordAgrees
  <2> QED BY <1>2, <2>1, <2>2, <2>3, <2>4, <2>5, <2>6, <2>7 DEF RunNext
<1> QED BY <1>1, <1>2, PTL DEF RunSpec

\* What the endpoints show of a run that is over is what its terminal event said
\* (RunRecord.finish and abort; the safety half of RecordSettles).
THEOREM RecordTellsTheEnd == RunSpec => []RecordAgrees
<1>1. RunInv => RecordAgrees
  BY DEF RunInv
<1> QED BY <1>1, RunInvariance, PTL

\* A closed record never changes, whatever the write-up comes to (_run, _remember).
THEOREM RecordStands == RunSpec => ClosedRecordStands
<1>1. ASSUME RunInv, [RunNext]_run_vars
      PROVE  [status # "running" => UNCHANGED <<record, root_cause, recommendations>>]_run_vars
  <2> SUFFICES ASSUME RunNext, status # "running"
               PROVE  UNCHANGED <<record, root_cause, recommendations>>
    BY <1>1
  <2>1. phase \in {"remembering", "over"}
    BY <1>1 DEF RunInv
  <2>2. Remember
    BY <2>1 DEF RunNext, StartupFails, BuildMachine, MachineStep, RunReturns, RunDies
  <2> QED BY <2>2 DEF Remember, machine, vars, reasoning, record
<1> QED BY <1>1, RunInvariance, PTL DEF RunSpec, ClosedRecordStands

=============================================================================
