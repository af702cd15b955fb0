------------------------------ MODULE ModelCalls -----------------------------
(***************************************************************************)
(* Who asks a model, and what each call leaves behind: POST /llm/structured,*)
(* the reasoning nodes of one investigation, the postmortem writer, and    *)
(* the router (PLAN's, or POST /models/route's).  All but the router       *)
(* report a call to the backend's model_predictions over HTTP.  A step     *)
(* event of the investigation may leave a row there as well.               *)
(***************************************************************************)
EXTENDS StructuredOutput, Routing

CONSTANTS
    MaxAttempts,  \* what a request may ask for, and the default of a node
    Questions,    \* of the router
    Decisions,    \* what the router's model may answer
    Hints         \* services of an incident, or NoService

ASSUME CallAssumption ==
    /\ None \notin {"route", "recorded"}
    /\ \A q \in Questions : q.matches \subseteq ToSet(Rules)
    /\ \A said \in Decisions : said.intent \in Intents

VARIABLES
    router_use_model,   \* settings: fixed
    reporter_enabled,   \* settings: fixed
    stage,    \* where every call's caller is
    caller,   \* who it is
    asked,    \* of a router call: the question and the hint
    decided,  \* of a router call: its decision, and the keyword table's
    told,     \* what the caller is answered
    booked,   \* the context's tokens and calls of the investigation
    counted,  \* ModelRouter's counters
    rows      \* model_predictions, by call

callVars == <<router_use_model, reporter_enabled, stage, caller, asked, decided, told,
              booked, counted, rows>>
vars == <<generateVars, callVars>>

CallInit ==
    /\ GenerateInit
    /\ router_use_model \in BOOLEAN /\ reporter_enabled \in BOOLEAN
    /\ stage = [c \in Calls |-> "idle"]
    /\ caller = [c \in Calls |-> None]
    /\ asked = [c \in Calls |-> None]
    /\ decided = [c \in Calls |-> None]
    /\ told = [c \in Calls |-> None]
    /\ booked = [calls |-> 0, tokens |-> 0]
    /\ counted = [calls |-> 0, invalid_json |-> 0, unavailable |-> 0]
    /\ rows = [c \in Calls |-> {}]

Becomes(c, next) == stage' = [stage EXCEPT ![c] = next]
Tell(c, what) == told' = [told EXCEPT ![c] = what] /\ Becomes(c, "done")
Fixed == UNCHANGED <<router_use_model, reporter_enabled>>

-----------------------------------------------------------------------------
(* Asking. *)

Opens(c, who, messages, max_attempts) ==
    /\ stage[c] = "idle"
    /\ caller' = [caller EXCEPT ![c] = who]
    /\ Becomes(c, "generating")
    /\ Generate(c, messages, max_attempts)
    /\ Fixed /\ UNCHANGED <<decided, told, booked, rows>>

(* A schema that makes no model is refused, and so is an unknown prompt.   *)
RefuseRequest(c) ==
    /\ stage[c] = "idle"
    /\ caller' = [caller EXCEPT ![c] = "endpoint"]
    /\ \E status \in {"422", "404"} : Tell(c, status)
    /\ Fixed /\ UNCHANGED <<generateVars, asked, decided, booked, counted, rows>>

AskEndpoint(c) ==
    /\ \E n \in 1 .. MaxAttempts : Opens(c, "endpoint", <<Says("user", "prompt")>>, n)
    /\ UNCHANGED <<asked, counted>>

AskNode(c) ==
    /\ Opens(c, "node", <<Says("user", "prompt")>>, MaxAttempts)
    /\ UNCHANGED <<asked, counted>>

(* After the run; its cost is not the investigation's.                     *)
AskWriter(c) ==
    /\ Opens(c, "writer", <<Says("user", "prompt")>>, MaxAttempts)
    /\ UNCHANGED <<asked, counted>>

(* One attempt, and the hint is not in the prompt.                         *)
AskRouter(c) ==
    /\ router_use_model
    /\ \E q \in Questions, hint \in Hints :
           asked' = [asked EXCEPT ![c] = [question |-> q, hint |-> hint]]
    /\ Opens(c, "router", <<Says("user", "question")>>, 1)
    /\ counted' = [counted EXCEPT !.calls = @ + 1]

(* build_router: the table, alone.                                         *)
RouteByTable(c) ==
    /\ ~router_use_model /\ stage[c] = "idle"
    /\ caller' = [caller EXCEPT ![c] = "router"]
    /\ \E q \in Questions, hint \in Hints :
           /\ asked' = [asked EXCEPT ![c] = [question |-> q, hint |-> hint]]
           /\ decided' = [decided EXCEPT ![c] = RuleRoute(q, hint)]
    /\ Tell(c, "route")
    /\ Fixed /\ UNCHANGED <<generateVars, booked, counted, rows>>

-----------------------------------------------------------------------------
(* The runtime. *)

AnswerTo(c) ==
    /\ stage[c] = "generating" /\ caller[c] # "router"
    /\ \E text \in Texts : Complete(c, text)
    /\ UNCHANGED callVars

(* A decision of the model, or a text that is none.                        *)
AnswerRouter(c) ==
    /\ stage[c] = "generating" /\ caller[c] = "router"
    /\ \/ \E text \in {t \in Texts : ~Validates(t)} : Complete(c, text) /\ UNCHANGED decided
       \/ \E said \in Decisions, text \in {t \in Texts : Validates(t)} :
              Complete(c, text) /\ decided' = [decided EXCEPT ![c] = said]
    /\ UNCHANGED <<router_use_model, reporter_enabled, stage, caller, asked, told, booked,
                   counted, rows>>

NoAnswer(c) ==
    /\ stage[c] = "generating"
    /\ RuntimeFails(c)
    /\ UNCHANGED callVars

-----------------------------------------------------------------------------
(* What the callers make of it. *)

Over(c) == stage[c] = "generating" /\ phase[c] \notin {"idle", "asking"}
Answered(c) == phase[c] \in {"valid", "exhausted"}

(* What the router's table stands in for.                                  *)
FallsBack(c) == phase[c] \in {"exhausted", "garbled", "unavailable", "error"}

(* No row and no cost: the exception carries no attempts.  It is past the  *)
(* router, too, if it is no LlmError and no ValueError.                    *)
Interrupted(c) ==
    /\ Over(c) /\ ~Answered(c)
    /\ caller[c] = "router" => ~FallsBack(c)
    /\ Tell(c, IF caller[c] # "endpoint" THEN "raised"
               ELSE IF phase[c] = "unavailable" THEN "503" ELSE "500")
    /\ Fixed /\ UNCHANGED <<generateVars, caller, asked, decided, booked, counted, rows>>

(* Bug: a call that never validated is not booked.                         *)
BooksTheValid(c) ==
    IF caller[c] = "node" /\ phase[c] = "valid"
    THEN [calls |-> booked.calls + Len(attempts[c]),
          tokens |-> booked.tokens + Total(attempts[c])]
    ELSE booked

(* ctx.record_llm: the node's attempts, failed ones too.                   *)
Books(c) ==
    IF caller[c] = "node"
    THEN [calls |-> booked.calls + Len(attempts[c]),
          tokens |-> booked.tokens + Total(attempts[c])]
    ELSE booked

(* The response, with the usage, or 422 with what was tried.               *)
Respond(c, recorded) ==
    Tell(c, IF phase[c] = "exhausted" THEN "422"
            ELSE IF recorded THEN "recorded" ELSE "unrecorded")

(* The next step, whose event carries the usage; or the run needs a human. *)
Conclude(c) ==
    IF phase[c] = "valid" THEN Becomes(c, "announcing") /\ UNCHANGED told
    ELSE Tell(c, "stalled")

(* A postmortem, or none.                                                  *)
WriteUp(c) == Tell(c, IF phase[c] = "valid" THEN "written" ELSE "not written")

(* What the caller goes on to once it has reported.                        *)
Proceed(c, recorded) ==
    \/ caller[c] = "endpoint" /\ Respond(c, recorded)
    \/ caller[c] = "node" /\ Conclude(c)
    \/ caller[c] = "writer" /\ WriteUp(c)

(* Booked, and posted unless reporting is off.                             *)
Account(c) ==
    /\ Over(c) /\ caller[c] # "router" /\ Answered(c)
    /\ booked' = Books(c)
    /\ IF reporter_enabled
       THEN Becomes(c, "reporting") /\ UNCHANGED told
       ELSE Proceed(c, FALSE)
    /\ Fixed /\ UNCHANGED <<generateVars, caller, asked, decided, counted, rows>>

(* One row for one structured call, repair attempts folded in.             *)
Row(c, by) ==
    [by |-> by, tokens |-> Total(attempts[c]), valid_json |-> phase[c] = "valid"]

Record(c, by) == rows' = [rows EXCEPT ![c] = @ \cup {Row(c, by)}]

(* The post was stored and heard, stored and not heard, or refused or      *)
(* lost: record never raises.                                              *)
Report(c) ==
    /\ stage[c] = "reporting"
    /\ \/ Record(c, "report") /\ Proceed(c, TRUE)
       \/ Record(c, "report") /\ Proceed(c, FALSE)
       \/ UNCHANGED rows /\ Proceed(c, FALSE)
    /\ Fixed /\ UNCHANGED <<generateVars, caller, asked, decided, booked, counted>>

(* The step event carries the usage of the call, and the backend makes a   *)
(* row of it; or the event is lost, or has nowhere to go.                  *)
StepEvent(c) ==
    /\ stage[c] = "announcing"
    /\ Record(c, "event") \/ UNCHANGED rows
    /\ Tell(c, "returned")
    /\ Fixed /\ UNCHANGED <<generateVars, caller, asked, decided, booked, counted>>

(* An answer that is no decision is invalid JSON, and so is a body of      *)
(* Ollama that is none; the table answers instead.                         *)
RouterSettles(c) ==
    /\ Over(c) /\ caller[c] = "router"
    /\ phase[c] = "valid" \/ FallsBack(c)
    /\ LET hint == asked[c].hint
       IN  decided' = [decided EXCEPT ![c] =
               IF phase[c] = "valid" THEN Settle(@, hint)
               ELSE RuleRoute(asked[c].question, hint)]
    /\ counted' =
           CASE phase[c] = "valid" -> counted
             [] phase[c] \in {"exhausted", "garbled"} ->
                    [counted EXCEPT !.invalid_json = @ + 1]
             [] OTHER -> [counted EXCEPT !.unavailable = @ + 1]
    /\ Tell(c, "route")
    /\ Fixed /\ UNCHANGED <<generateVars, caller, asked, booked, rows>>

-----------------------------------------------------------------------------
CallNext ==
    \E c \in Calls :
        \/ RefuseRequest(c) \/ AskEndpoint(c) \/ AskNode(c) \/ AskWriter(c)
        \/ AskRouter(c) \/ RouteByTable(c)
        \/ AnswerTo(c) \/ AnswerRouter(c) \/ NoAnswer(c)
        \/ Interrupted(c) \/ Account(c) \/ Report(c) \/ StepEvent(c) \/ RouterSettles(c)

CallSpec == CallInit /\ [][CallNext]_vars

-----------------------------------------------------------------------------
(* Properties. *)

(* The attempts of each call that came back.                               *)
Trips == [c \in Calls |-> Len(attempts[c])]

(* No call that came to an end of its own is free: what its attempts cost, *)
(* the failed ones too, is in the investigation's totals even if none of   *)
(* them validated, and nothing is booked that was not paid.  What is not   *)
(* in the totals was paid in a call the runtime broke off, and its caller  *)
(* was raised an exception.  A row carries all a call cost, is valid if    *)
(* the call was, and is there if the caller was told so; a report the      *)
(* backend did not store leaves none, and neither does a call broken off   *)
(* (record_llm, PredictionRecord.from_attempts, PredictionReporter).       *)
CostsAddUp ==
    LET Left == {c \in Calls : caller[c] = "node" /\ stage[c] \notin {"idle", "generating"}}
        Ended == {c \in Left : told[c] # "raised"}
        Sum(cost, calls) == FoldFunctionOnSet(+, 0, cost, calls)
    IN  /\ Sum(generated, Ended) <= booked.tokens /\ booked.tokens <= Sum(generated, Left)
        /\ Sum(Trips, Ended) <= booked.calls /\ booked.calls <= Sum(Trips, Left)
        /\ \A c \in Calls : \A row \in rows[c] :
               row.tokens = generated[c] /\ row.valid_json = (phase[c] = "valid")
        /\ \A c \in Calls : told[c] = "recorded" => \E row \in rows[c] : row.by = "report"

(* Of its plan: every collector of its intent is needed, every server its  *)
(* tools are on is asked, and without a usable answer it is what the       *)
(* keyword table alone would have said.                                    *)
DecisionIsTheTables ==
    \A c \in Calls : told[c] = "route" =>
        LET d == decided[c]
            collectors == ToSet(INTENT_COLLECTORS[d.intent])
        IN  /\ \A s \in collectors : Needs(d, s)
            /\ d.servers \subseteq {ServerOf[s] : s \in collectors}
            /\ phase[c] # "valid" => d = RuleRoute(asked[c].question, asked[c].hint)

(* Whatever the model answers or fails to, a routed question gets a plan   *)
(* that is the table's, with no collector of its intent skipped (decide,   *)
(* plan_for, ModelRouter._fall_back).                                      *)
PlanServesTheQuestion ==
    /\ DecisionIsTheTables
    /\ \A c \in Calls :
           told[c] = "route" => PlanFor(decided[c]) = INTENT_COLLECTORS[decided[c].intent]

(* A structured call is one row, whatever it took (predictions.py: "the    *)
(* thing the dashboard divides by is calls").                              *)
OneRowPerCall == \A c \in Calls : Cardinality(rows[c]) <= 1
=============================================================================
