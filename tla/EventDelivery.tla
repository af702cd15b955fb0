--------------------------- MODULE EventDelivery ---------------------------
(***************************************************************************)
(* One run's events on their way into the backend's rows: the emitter      *)
(* (CallbackEmitter), the network between the services, and the handler    *)
(* that writes an event into the database (RecordInvestigationEventHandler *)
(* of InvestigationEventFeatures.cs).                                      *)
(*                                                                         *)
(* The run is a script: what its rounds ranked and how it ended determine  *)
(* the events it emits.  Of the step and evidence events one of each is    *)
(* kept, a collector's.  A row is what the properties tell apart of it: a  *)
(* hypothesis its rank and selection, the root cause its hypothesis and    *)
(* the link to that row, a recommendation its action code.  The handler    *)
(* loads, writes and saves in one transaction and is one step.  The        *)
(* emitter's token is the backend's own, so nothing is refused here.       *)
(***************************************************************************)
EXTENDS CallbackEmitter, FiniteSets, TLC

CONSTANTS
    Titles,   \* hypotheses the model may come up with
    Actions,  \* the action codes a completed run recommends
    MaxLate,  \* bound of the model: requests given up that may still arrive
    None

\* The recommender's answer holds at least one action (FixPlan).
ASSUME DeliveryAssumption ==
    /\ IsFiniteSet(Titles)
    /\ Actions # {}
    /\ None \notin [hypothesis : Titles, linked : BOOLEAN]

VARIABLES
    run,  \* [rounds, end, concluded]: the script, fixed
    late, \* requests the emitter gave up and the backend may still handle
    \* The rows of the investigation:
    steps, evidence, hypotheses, root_cause, recommendations, status, incident

rows == <<steps, evidence, hypotheses, root_cause, recommendations, status, incident>>
delivery_vars == <<emitter_vars, run, late, rows>>

-----------------------------------------------------------------------------
(* The run's events. *)

Rankings == {r \in UNION {[1 .. n -> Titles] : n \in 1 .. Cardinality(Titles)} : IsInjective(r)}

\* A run ranks once, or twice with a rejection between; it completes, or ends
\* with or without a conclusion of its last round.
Runs ==
    LET Rounds == {<<r>> : r \in Rankings} \cup (Rankings \X Rankings)
    IN  [rounds : Rounds, end : {"COMPLETED"}, concluded : {TRUE}]
            \cup [rounds : Rounds, end : {"NEEDS_HUMAN", "FAILED"}, concluded : BOOLEAN]

\* The ranking the run's context holds at the end; its first is the winner.
LastRanking == run.rounds[Len(run.rounds)]
Winner == LastRanking[1]

\* Without a rank, and never with a selection: RANK_HYPOTHESES announces, and
\* SELECT_ROOT_CAUSE marks the winner afterwards.
HypothesisEvents(ranking) ==
    [i \in DOMAIN ranking |-> [type |-> "HYPOTHESIS", title |-> ranking[i], rank |-> i]]

\* The critic announces the conclusion it scored; a run that died before it did
\* has drafted one and not announced it.
ConclusionEvents ==
    (IF run.concluded /\ run.end # "FAILED" THEN <<[type |-> "ROOT_CAUSE"]>> ELSE << >>)
        \o (IF run.end = "COMPLETED" THEN <<[type |-> "RECOMMENDATION"]>> ELSE << >>)

events ==
    <<[type |-> "STEP_COMPLETED"], [type |-> "EVIDENCE_FOUND"]>>
        \o HypothesisEvents(run.rounds[1])
        \o (IF Len(run.rounds) = 2 THEN HypothesisEvents(run.rounds[2]) ELSE << >>)
        \o ConclusionEvents
        \o <<[type |-> "TERMINAL"]>>

-----------------------------------------------------------------------------
(* The handler. *)

NoRow == [rank |-> 0, selected |-> FALSE]

\* Mutant of Upsert: the streamed event decides the selection.
UpsertOverwriting(title, rank) ==
    [t \in DOMAIN hypotheses \cup {title} |->
        IF t = title THEN [rank |-> rank, selected |-> FALSE] ELSE hypotheses[t]]

\* Upsert, for an event: the rank is overwritten, a selection is kept.
Upsert(title, rank) ==
    [t \in DOMAIN hypotheses \cup {title} |->
        IF t # title THEN hypotheses[t]
        ELSE IF t \in DOMAIN hypotheses THEN [hypotheses[t] EXCEPT !.rank = rank]
        ELSE [rank |-> rank, selected |-> FALSE]]

\* Mutant of UpsertRootCause: the link is made only with the row itself.
LinkOnCreation(known) ==
    IF root_cause # None THEN root_cause
    ELSE [hypothesis |-> Winner, linked |-> Winner \in known]

\* UpsertRootCause: one row; it is linked to its hypothesis as soon as an event
\* finds that hypothesis among the rows known.
UpsertRootCause(known) ==
    [hypothesis |-> Winner,
     linked |-> (root_cause # None /\ root_cause.linked) \/ Winner \in known]

\* The number of an event already recorded is ignored.
StepEvent(n) ==
    /\ steps' = steps \cup {n}
    /\ UNCHANGED <<evidence, hypotheses, root_cause, recommendations, status, incident>>

\* The fact is filed under its state's step, if that step is there.
EvidenceEvent ==
    /\ evidence' = IF evidence # "absent" THEN evidence
                   ELSE IF steps = {} THEN "unlinked" ELSE "linked"
    /\ UNCHANGED <<steps, hypotheses, root_cause, recommendations, status, incident>>

HypothesisEvent(event) ==
    /\ hypotheses' = Upsert(event.title, event.rank)
    /\ UNCHANGED <<steps, evidence, root_cause, recommendations, status, incident>>

RootCauseEvent ==
    /\ root_cause' = UpsertRootCause(DOMAIN hypotheses)
    /\ UNCHANGED <<steps, evidence, hypotheses, recommendations, status, incident>>

\* A recommendation that arrives before its root cause is left to the terminal event.
RecommendationEvent ==
    /\ recommendations' = IF root_cause = None THEN recommendations ELSE Actions
    /\ UNCHANGED <<steps, evidence, hypotheses, root_cause, status, incident>>

\* Mutant of Reconciled: an earlier round's hypotheses keep their ranks.
ReconciledRanking ==
    LET ranked == Range(LastRanking)
    IN  [t \in DOMAIN hypotheses \cup ranked |->
            IF t \in ranked
            THEN [rank |-> CHOOSE i \in DOMAIN LastRanking : LastRanking[i] = t,
                  selected |-> t = Winner]
            ELSE [hypotheses[t] EXCEPT !.selected = FALSE]]

\* Reconcile, the hypotheses: the last round as ranked, with its winner the only
\* one selected, and every other row superseded.
Reconciled ==
    LET ranked == Range(LastRanking)
    IN  [t \in DOMAIN hypotheses \cup ranked |->
            IF t \in ranked
            THEN [rank |-> CHOOSE i \in DOMAIN LastRanking : LastRanking[i] = t,
                  selected |-> t = Winner]
            ELSE NoRow]

\* A run that stopped for a human counts as completed.
FinalStatus == IF run.end = "FAILED" THEN "Failed" ELSE "Completed"

\* FinishAsync: whatever did not arrive is written from the final payload, the
\* investigation is closed and the incident moves on.
TerminalEvent ==
    /\ evidence' = IF evidence = "absent" THEN "unlinked" ELSE evidence
    /\ hypotheses' = Reconciled
    /\ IF run.concluded
       THEN /\ root_cause' = UpsertRootCause(DOMAIN Reconciled)
            /\ recommendations' = IF run.end = "COMPLETED" THEN Actions ELSE recommendations
       ELSE UNCHANGED <<root_cause, recommendations>>
    /\ status' = FinalStatus
    /\ incident' = IF FinalStatus = "Completed" /\ root_cause' # None /\ recommendations' # {}
                   THEN "AwaitingApproval" ELSE "Open"
    /\ UNCHANGED steps

\* RecordInvestigationEventHandler.Handle.
Handle(n) ==
    LET event == events[n]
    IN  \/ event.type = "STEP_COMPLETED" /\ StepEvent(n)
        \/ event.type = "EVIDENCE_FOUND" /\ EvidenceEvent
        \/ event.type = "HYPOTHESIS" /\ HypothesisEvent(event)
        \/ event.type = "ROOT_CAUSE" /\ RootCauseEvent
        \/ event.type = "RECOMMENDATION" /\ RecommendationEvent
        \/ event.type = "TERMINAL" /\ TerminalEvent

-----------------------------------------------------------------------------
DeliveryInit ==
    /\ EmitterInit
    /\ run \in Runs
    /\ late = {}
    /\ steps = {}
    /\ evidence = "absent"
    /\ hypotheses = << >>
    /\ root_cause = None
    /\ recommendations = {}
    /\ status = "Running"
    /\ incident = "Investigating"

\* The runner hands the emitter its next event.
EmitEvent ==
    /\ \E is_terminal \in BOOLEAN :
          /\ is_terminal <=> sequence + 1 = Len(events)
          /\ Emit(is_terminal)
    /\ UNCHANGED <<run, late, rows>>

FlushDone == Flushed /\ UNCHANGED <<run, late, rows>>

\* The event a POST carries.
Wire == IF stage = "deliver" THEN sequence ELSE Head(pending)

Answered ==
    /\ Post("delivered")
    /\ Handle(Wire)
    /\ UNCHANGED <<run, late>>

\* The backend is not there, or answers 5xx without having written anything.
Unanswered ==
    /\ Post("transient")
    /\ UNCHANGED <<run, late, rows>>

\* The event is written and the answer is lost: it will be sent again.
AnswerLost ==
    /\ Post("transient")
    /\ Handle(Wire)
    /\ UNCHANGED <<run, late>>

\* The client's timeout passes while the request waits in the backend.
TimedOut ==
    /\ Cardinality(late) < MaxLate
    /\ Post("transient")
    /\ late' = late \cup {Wire}
    /\ UNCHANGED <<run, rows>>

\* The backend comes to a request whose sender has given it up.
HandledLate ==
    /\ \E n \in late :
          /\ Handle(n)
          /\ late' = late \ {n}
    /\ UNCHANGED <<emitter_vars, run>>

DeliveryNext ==
    \/ EmitEvent
    \/ FlushDone
    \/ Answered
    \/ Unanswered
    \/ AnswerLost
    \/ TimedOut
    \/ HandledLate

\* Hypotheses differ in nothing but their names.
TitleSymmetry == Permutations(Titles)

DeliverySpec == DeliveryInit /\ [][DeliveryNext]_delivery_vars

-----------------------------------------------------------------------------
(* Properties. *)

selection == {t \in DOMAIN hypotheses : hypotheses[t].selected}
leaders == {t \in DOMAIN hypotheses : hypotheses[t].rank = 1}

\* "A lost intermediate event costs a timeline entry, never the result"
\* (ADR-0002): once the terminal event is written, and whatever arrives late or
\* twice afterwards, the rows hold the run's conclusion: its fact, its winner as
\* the one selected hypothesis, its root cause and its recommendations.
ResultSurvivesDelivery ==
    status # "Running" =>
        /\ evidence # "absent"
        /\ selection = {Winner}
        /\ (root_cause # None) = run.concluded
        /\ recommendations = IF run.end = "COMPLETED" THEN Actions ELSE {}
        /\ incident = IF run.end = "COMPLETED" THEN "AwaitingApproval" ELSE "Open"

\* The root cause of a closed investigation names a hypothesis that is a row:
\* the link a screen follows is there even if the hypothesis event was not.
RootCauseIsLinked ==
    (status # "Running" /\ root_cause # None) =>
        root_cause.linked /\ root_cause.hypothesis \in DOMAIN hypotheses

\* Closing the investigation leaves exactly one hypothesis in first place,
\* whichever of the rounds' events arrived before.
ClosingLeavesOneLeader ==
    [][(status = "Running" /\ status' # "Running") => leaders' = {Winner}]_delivery_vars

=============================================================================
