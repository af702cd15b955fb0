----------------------- MODULE InvestigationLifecycle -----------------------
(***************************************************************************)
(* One incident and the investigations started for it, between the backend *)
(* (StartInvestigationHandler, RecordInvestigationEventHandler,            *)
(* UpdateIncidentStatusHandler) and the AI service (InvestigationService). *)
(*                                                                         *)
(* A start request is several steps, because it awaits the database twice  *)
(* before it saves and the AI service afterwards; its investigation is     *)
(* named after it.  A terminal event and an operator's status change load, *)
(* write and save with nothing awaited between that matters here, and are  *)
(* one step.  EF Core writes only what differs from what was loaded, so a  *)
(* start request keeps the status it saw.  What a run finds, and all       *)
(* events but the terminal one, are EventDelivery's.                       *)
(***************************************************************************)
CONSTANT Requests  \* start requests, and the investigations they make

VARIABLES
    \* The backend's rows:
    incident,      \* the incident's Status
    resolved_at,   \* whether its ResolvedAt is set
    investigation, \* each investigation's Status, "none" before there is a row
    \* The start handlers:
    handler,       \* where each is
    seen,          \* whether each loaded the incident as Investigating
    \* Between the services and in the AI service:
    request,       \* each POST /investigations
    run,           \* each run's task
    report,        \* each run's terminal event
    late,          \* runs one of whose posts outlives its timeout
    \* History:
    by_hand,       \* the incident's status is the one an operator set
    orphaned       \* investigations whose end was lost on the way

rows == <<incident, resolved_at, investigation>>
start == <<handler, seen>>
service == <<request, run, report, late>>
history == <<by_hand, orphaned>>
lifecycle_vars == <<rows, start, service, history>>

\* Resolved stands for Closed too, and Open for Resolving: only an operator sets
\* these two, and no code here tells them apart.
IncidentStatuses == {"Open", "Investigating", "AwaitingApproval", "Resolved"}
InvestigationStatuses == {"Running", "Completed", "Failed"}

\* A completed run has a fix to approve, a run for a human has not; FAILED is
\* what the terminal event's type says.
Reports == {"none", "ACTIONABLE", "CONCLUDED", "FAILED", "settled"}

LifecycleTypeOK ==
    /\ incident \in IncidentStatuses
    /\ resolved_at \in BOOLEAN
    /\ investigation \in [Requests -> InvestigationStatuses \cup {"none"}]
    /\ handler \in [Requests -> {"idle", "loaded", "clear", "posting", "unavailable", "ended"}]
    /\ seen \in [Requests -> BOOLEAN]
    /\ request \in [Requests -> {"none", "sent", "arrived", "failed"}]
    /\ run \in [Requests -> {"none", "running", "ended"}]
    /\ report \in [Requests -> Reports]
    /\ late \in [Requests -> Reports]
    /\ by_hand \in BOOLEAN
    /\ orphaned \subseteq Requests

LifecycleInit ==
    /\ incident = "Open"
    /\ resolved_at = FALSE
    /\ investigation = [r \in Requests |-> "none"]
    /\ handler = [r \in Requests |-> "idle"]
    /\ seen = [r \in Requests |-> FALSE]
    /\ request = [r \in Requests |-> "none"]
    /\ run = [r \in Requests |-> "none"]
    /\ report = [r \in Requests |-> "none"]
    /\ late = [r \in Requests |-> "none"]
    /\ by_hand = FALSE
    /\ orphaned = {}

-----------------------------------------------------------------------------
(* StartInvestigationHandler.Handle. *)

Step(r, from, to) ==
    /\ handler[r] = from
    /\ handler' = [handler EXCEPT ![r] = to]

LoadIncident(r) ==
    /\ Step(r, "idle", "loaded")
    /\ seen' = [seen EXCEPT ![r] = incident = "Investigating"]
    /\ UNCHANGED <<rows, service, history>>

Busy == \E r \in Requests : investigation[r] = "Running"

\* The check, a query of its own: a conflict, or nothing is running now.
CheckRunning(r) ==
    /\ \/ Busy /\ Step(r, "loaded", "ended")
       \/ ~ Busy /\ Step(r, "loaded", "clear")
    /\ UNCHANGED <<rows, seen, service, history>>

\* The row, and the incident's status unless it was loaded as Investigating.
Save(r) ==
    /\ Step(r, "clear", "posting")
    /\ investigation' = [investigation EXCEPT ![r] = "Running"]
    /\ \/ seen[r] /\ UNCHANGED <<incident, by_hand>>
       \/ ~ seen[r] /\ incident' = "Investigating" /\ by_hand' = FALSE
    /\ request' = [request EXCEPT ![r] = "sent"]
    /\ UNCHANGED <<resolved_at, seen, run, report, late, orphaned>>

\* 202: the handler is done.
Accepted(r) ==
    /\ request[r] = "arrived"
    /\ Step(r, "posting", "ended")
    /\ UNCHANGED <<rows, seen, service, history>>

\* No connection, an error status, or fifteen seconds without an answer: the
\* request itself may have arrived, or may yet.
Unavailable(r) ==
    /\ Step(r, "posting", "unavailable")
    /\ UNCHANGED <<rows, seen, service, history>>

\* Mutant of FailStart: the incident is left as it is.
FailInvestigationOnly(r) ==
    /\ Step(r, "unavailable", "ended")
    /\ investigation' = [investigation EXCEPT ![r] = "Failed"]
    /\ UNCHANGED <<incident, resolved_at, seen, service, history>>

\* Mutant of FailStart: only the incident is put back.
FailIncidentOnly(r) ==
    /\ Step(r, "unavailable", "ended")
    /\ incident' = "Open"
    /\ by_hand' = FALSE
    /\ UNCHANGED <<resolved_at, investigation, seen, service, orphaned>>

\* The catch block: both rows say that nothing was started.
FailStart(r) ==
    /\ Step(r, "unavailable", "ended")
    /\ investigation' = [investigation EXCEPT ![r] = "Failed"]
    /\ incident' = "Open"
    /\ by_hand' = FALSE
    /\ UNCHANGED <<resolved_at, seen, service, orphaned>>

\* The caller goes away or the backend stops: the cancelled token ends the
\* handler where it is, in the catch block too, since its save takes the token.
Abandon(r) ==
    /\ handler[r] \notin {"idle", "ended"}
    /\ handler' = [handler EXCEPT ![r] = "ended"]
    /\ orphaned' = IF investigation[r] = "none" THEN orphaned ELSE orphaned \cup {r}
    /\ UNCHANGED <<rows, seen, service, by_hand>>

-----------------------------------------------------------------------------
(* The AI service. *)

\* The request arrives, or never does.  Each is posted once, so 409 is never
\* the answer.
Arrive(r) ==
    /\ request[r] = "sent"
    /\ \/ /\ request' = [request EXCEPT ![r] = "arrived"]
          /\ run' = [run EXCEPT ![r] = "running"]
       \/ /\ request' = [request EXCEPT ![r] = "failed"]
          /\ UNCHANGED run
    /\ UNCHANGED <<rows, start, report, late, history>>

\* Mutant of RunEnds: a run that failed at startup reports nothing.
FailSilently(r) ==
    /\ run[r] = "running"
    /\ run' = [run EXCEPT ![r] = "ended"]
    /\ \E result \in {"none", "ACTIONABLE", "CONCLUDED"} : report' = [report EXCEPT ![r] = result]
    /\ UNCHANGED <<rows, start, request, late, history>>

\* The machine, or _report_start_failure, emits the terminal event.
RunEnds(r) ==
    /\ run[r] = "running"
    /\ run' = [run EXCEPT ![r] = "ended"]
    /\ \E result \in {"ACTIONABLE", "CONCLUDED", "FAILED"} :
          report' = [report EXCEPT ![r] = result]
    /\ UNCHANGED <<rows, start, request, late, history>>

\* An exception outside the nodes: the record is aborted and nothing is emitted.
RunDies(r) ==
    /\ run[r] = "running"
    /\ run' = [run EXCEPT ![r] = "ended"]
    /\ orphaned' = orphaned \cup {r}
    /\ UNCHANGED <<rows, start, request, report, late, by_hand>>

Held(r) == report[r] \notin {"none", "settled"}

\* The process restarts: nothing in it is persisted.
Restart ==
    /\ run' = [r \in Requests |-> IF run[r] = "running" THEN "ended" ELSE run[r]]
    /\ report' = [r \in Requests |-> IF Held(r) THEN "settled" ELSE report[r]]
    /\ orphaned' = orphaned \cup {r \in Requests : run[r] = "running" \/ Held(r)}
    /\ UNCHANGED <<rows, start, request, late, by_hand>>

\* FinishAsync and UpdateIncident.
Finish(r, result) ==
    /\ investigation' = [investigation EXCEPT
                            ![r] = IF result = "FAILED" THEN "Failed" ELSE "Completed"]
    /\ incident' = IF result = "ACTIONABLE" THEN "AwaitingApproval" ELSE "Open"
    /\ by_hand' = FALSE
    /\ UNCHANGED <<resolved_at, start, request, run, orphaned>>

\* A post is handled and answered, or handled and its answer lost.
Delivered(r) ==
    /\ Held(r)
    /\ Finish(r, report[r])
    /\ \/ report' = [report EXCEPT ![r] = "settled"]
       \/ UNCHANGED report
    /\ UNCHANGED late

\* The emitter gives a post up that is still on its way.
TimedOut(r) ==
    /\ Held(r)
    /\ late' = [late EXCEPT ![r] = report[r]]
    /\ UNCHANGED <<rows, start, request, run, report, history>>

DeliveredLate(r) ==
    /\ late[r] # "none"
    /\ Finish(r, late[r])
    /\ late' = [late EXCEPT ![r] = "none"]
    /\ UNCHANGED report

\* The last attempt fails too, and the run is over: the event is gone.
GiveUp(r) ==
    /\ Held(r)
    /\ report' = [report EXCEPT ![r] = "settled"]
    /\ orphaned' = orphaned \cup {r}
    /\ UNCHANGED <<rows, start, request, run, late, by_hand>>

-----------------------------------------------------------------------------
(* UpdateIncidentStatusHandler. *)

\* ResolvedAt is stamped on Resolved and cleared on any other status.
UpdateIncidentStatus(status) ==
    /\ incident' = status
    /\ resolved_at' = (status = "Resolved")
    /\ by_hand' = TRUE
    /\ UNCHANGED <<investigation, start, service, orphaned>>

-----------------------------------------------------------------------------

\* What the two services go on to do for a request that has been made.
Proceed(r) ==
    \/ CheckRunning(r) \/ Save(r) \/ Accepted(r) \/ Unavailable(r) \/ FailStart(r)
    \/ Arrive(r) \/ RunEnds(r) \/ RunDies(r)
    \/ Delivered(r) \/ GiveUp(r)

LifecycleNext ==
    \/ \E r \in Requests :
          \/ LoadIncident(r) \/ Proceed(r)
          \/ Abandon(r) \/ TimedOut(r) \/ DeliveredLate(r)
    \/ Restart
    \/ \E status \in IncidentStatuses : UpdateIncidentStatus(status)

LifecycleSpec == LifecycleInit /\ [][LifecycleNext]_lifecycle_vars

\* The backend's requests and the AI service's tasks are run to their end, every
\* call either side makes has a timeout, and the emitter's attempts are finite.
FairLifecycleSpec ==
    LifecycleSpec /\ \A r \in Requests : WF_lifecycle_vars(Proceed(r))

-----------------------------------------------------------------------------
(* Properties. *)

\* Somebody will still close the investigation r.
Attended(r) ==
    \/ handler[r] \in {"posting", "unavailable"}
    \/ request[r] = "sent"
    \/ run[r] = "running"
    \/ Held(r)

\* A row that stays Running with nobody left to close it has lost its end in one
\* of four ways: a restart of the AI service, a run that died outside its nodes,
\* a terminal event given up, or a start request abandoned after its save.  No
\* interleaving of timeouts, late arrivals and duplicates adds a fifth.
StuckOnlyByLoss ==
    \A r \in Requests : investigation[r] = "Running" => Attended(r) \/ r \in orphaned

\* The status the code gave an incident is one an investigation accounts for:
\* Investigating while one runs, AwaitingApproval once one completed.
ShownStatusIsEarned ==
    ~ by_hand =>
        /\ incident = "Investigating" => Busy
        /\ incident = "AwaitingApproval" => \E r \in Requests : investigation[r] = "Completed"

\* Every investigation is closed, or its end was lost.
InvestigationsEnd ==
    \A r \in Requests :
        investigation[r] = "Running" ~> (investigation[r] # "Running" \/ r \in orphaned)

=============================================================================
