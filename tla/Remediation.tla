----------------------------- MODULE Remediation -----------------------------
(***************************************************************************)
(* One recommendation, the requests to approve or reject it, and what the  *)
(* AI service and the tool server do with an approval: the backend's       *)
(* ApproveRecommendationHandler and RejectRecommendationHandler, the AI    *)
(* service's Remediator and a destructive tool behind the MCP client.      *)
(*                                                                         *)
(* A request is several steps, because it awaits the database and the AI   *)
(* service.  EF Core writes the columns that differ from what the request  *)
(* loaded or last wrote itself, whatever the row holds by then.  The       *)
(* recommendation names a tool and the approval secret is configured:      *)
(* without either, an approval changes nothing.                            *)
(***************************************************************************)
EXTENDS Integers

CONSTANTS
    Requests,        \* requests to decide, each by a person of its own
    Rates,           \* error rates a service can have, per thousand
    Timeouts         \* what the wait of the backend's HTTP client may be configured to

ASSUME RemediationAssumption ==
    /\ Rates \subseteq Nat
    /\ Timeouts \subseteq Nat \ {0}

VARIABLES
    \* Configuration, which is read once:
    timeout,         \* how long the backend's HTTP client waits for any answer
    \* The row:
    status,
    approved_by,
    verification,    \* its VerificationResult
    \* The handlers:
    handler,         \* where each request is
    decision,        \* what each asks for
    \* The AI service:
    request,         \* each POST /actions/{id}/execute
    run,             \* each execution
    report,          \* what each execution measured, until its answer is recorded
    \* History:
    performed,       \* the requests whose tool call changed the system
    raced,           \* a decision was saved while another was being made
    abandoned        \* requests cut short

row == <<status, approved_by, verification>>
execution == <<request, run, report>>
remediation_vars ==
    <<timeout, row, handler, decision, execution, performed, raced, abandoned>>

Statuses ==
    {"PendingApproval", "Approved", "Rejected", "Executing", "Executed", "Verified", "Failed"}
Verdicts == {"resolved", "improved", "unchanged", "worse", "unknown"}

HEALTHY_ERROR_RATE == 10
DEFAULT_SETTLE_SECONDS == 30
ExecuteTimeout == 180

UNREAD == -1  \* a rate that cannot be read
Readings == Rates \cup {UNREAD}

Reports == [executed : BOOLEAN, before : Readings, after : Readings,
            smoke_failed : BOOLEAN, verdict : Verdicts, settled : BOOLEAN]

NothingMeasured ==
    [executed |-> FALSE, before |-> UNREAD, after |-> UNREAD,
     smoke_failed |-> FALSE, verdict |-> "unknown", settled |-> FALSE]

RemediationTypeOK ==
    /\ timeout \in Timeouts
    /\ status \in Statuses
    /\ approved_by \in Requests \cup {"nobody"}
    /\ verification \in Reports
    /\ handler \in [Requests -> {"idle", "deciding", "approved", "posting",
                                 "answered", "unavailable", "timed_out", "ended"}]
    /\ decision \in [Requests -> {"none", "approve", "reject"}]
    /\ request \in [Requests -> {"none", "sent", "arrived", "lost"}]
    /\ run \in [Requests -> {"none", "started", "settling", "answered", "gone"}]
    /\ report \in [Requests -> Reports]
    /\ performed \subseteq Requests
    /\ raced \in BOOLEAN
    /\ abandoned \subseteq Requests

RemediationInit ==
    /\ timeout \in Timeouts
    /\ status = "PendingApproval"
    /\ approved_by = "nobody"
    /\ verification = NothingMeasured
    /\ handler = [q \in Requests |-> "idle"]
    /\ decision = [q \in Requests |-> "none"]
    /\ request = [q \in Requests |-> "none"]
    /\ run = [q \in Requests |-> "none"]
    /\ report = [q \in Requests |-> NothingMeasured]
    /\ performed = {}
    /\ raced = FALSE
    /\ abandoned = {}

-----------------------------------------------------------------------------
(* The handlers. *)

Step(q, from, to) ==
    /\ handler[q] = from
    /\ handler' = [handler EXCEPT ![q] = to]

\* Mutant of Load: a failed execution may be approved again.
LoadFailedToo(q) ==
    /\ \/ /\ status \in {"PendingApproval", "Failed"}
          /\ Step(q, "idle", "deciding")
          /\ \E d \in {"approve", "reject"} : decision' = [decision EXCEPT ![q] = d]
       \/ /\ status \notin {"PendingApproval", "Failed"}
          /\ Step(q, "idle", "ended")
          /\ UNCHANGED decision
    /\ UNCHANGED <<timeout, row, execution, performed, raced, abandoned>>

\* Only a pending recommendation is decided; any other is a conflict.
Load(q) ==
    /\ \/ /\ status = "PendingApproval"
          /\ Step(q, "idle", "deciding")
          /\ \E d \in {"approve", "reject"} : decision' = [decision EXCEPT ![q] = d]
       \/ /\ status # "PendingApproval"
          /\ Step(q, "idle", "ended")
          /\ UNCHANGED decision
    /\ UNCHANGED <<timeout, row, execution, performed, raced, abandoned>>

Decide(q, decided) ==
    /\ status' = decided
    /\ approved_by' = q
    /\ raced' = (raced \/ \E p \in Requests \ {q} : handler[p] = "deciding")
    /\ UNCHANGED <<timeout, verification, decision, execution, performed, abandoned>>

SaveRejected(q) ==
    /\ decision[q] = "reject"
    /\ Step(q, "deciding", "ended")
    /\ Decide(q, "Rejected")

SaveApproved(q) ==
    /\ decision[q] = "approve"
    /\ Step(q, "deciding", "approved")
    /\ Decide(q, "Approved")

\* The token is issued, the status saved and the call made.
SaveExecuting(q) ==
    /\ Step(q, "approved", "posting")
    /\ status' = "Executing"
    /\ request' = [request EXCEPT ![q] = "sent"]
    /\ UNCHANGED <<timeout, approved_by, verification, decision, run, report, performed, raced,
                   abandoned>>

\* The call's own limit does not lift the HTTP client's.
Patience == IF timeout < ExecuteTimeout THEN timeout ELSE ExecuteTimeout

\* An execution that measured took at least the time the service needs to settle.
InTime(q) == report[q].settled => DEFAULT_SETTLE_SECONDS <= Patience

Answer(q) ==
    /\ run[q] = "answered" /\ InTime(q)
    /\ Step(q, "posting", "answered")
    /\ UNCHANGED <<timeout, row, decision, execution, performed, raced, abandoned>>

\* No answer yet when the patience ends.
TimedOut(q) ==
    /\ run[q] = "answered" => ~ InTime(q)
    /\ Step(q, "posting", "timed_out")
    /\ UNCHANGED <<timeout, row, decision, execution, performed, raced, abandoned>>

\* No connection, a lost one, or an error status.
Unavailable(q) ==
    /\ Step(q, "posting", "unavailable")
    /\ UNCHANGED <<timeout, row, decision, execution, performed, raced, abandoned>>

\* Mutant of FailExecution: the exception leaves before anything is written.
FailSilently(q) ==
    /\ Step(q, "unavailable", "ended") \/ Step(q, "timed_out", "ended")
    /\ UNCHANGED <<timeout, row, decision, execution, performed, raced, abandoned>>

FailExecution(q) ==
    /\ Step(q, "unavailable", "ended") \/ Step(q, "timed_out", "ended")
    /\ status' = "Failed"
    /\ UNCHANGED <<timeout, approved_by, verification, decision, execution, performed, raced,
                   abandoned>>

\* The action ran and the measurement improved.
Confirmed(answer) == answer.executed /\ answer.verdict \in {"resolved", "improved"}

Outcome(answer) ==
    IF ~ answer.executed THEN "Failed" ELSE IF Confirmed(answer) THEN "Verified" ELSE "Executed"

RecordOutcome(q) ==
    /\ Step(q, "answered", "ended")
    /\ status' = Outcome(report[q])
    /\ verification' = report[q]
    /\ report' = [report EXCEPT ![q] = NothingMeasured]
    /\ UNCHANGED <<timeout, approved_by, decision, request, run, performed, raced, abandoned>>

\* The caller goes away, the backend stops, or an answer cannot be read: whatever
\* the handler had left to do, it does not.
Abandon(q) ==
    /\ handler[q] \notin {"idle", "ended"}
    /\ handler' = [handler EXCEPT ![q] = "ended"]
    /\ abandoned' = abandoned \cup {q}
    /\ UNCHANGED <<timeout, row, decision, execution, performed, raced>>

-----------------------------------------------------------------------------
(* The AI service and the tool server. *)

Arrive(q) ==
    /\ request[q] = "sent"
    /\ \/ /\ request' = [request EXCEPT ![q] = "arrived"]
          /\ run' = [run EXCEPT ![q] = "started"]
       \/ /\ request' = [request EXCEPT ![q] = "lost"]
          /\ UNCHANGED run
    /\ UNCHANGED <<timeout, row, handler, decision, report, performed, raced, abandoned>>

Acted(q) == performed' \in {performed, performed \cup {q}}

\* The call fails: refused by policy, timed out, or an error, which may come after
\* the tool has done its work.
ToolFails(q) ==
    /\ run[q] = "started"
    /\ Acted(q)
    /\ run' = [run EXCEPT ![q] = "answered"]
    /\ UNCHANGED <<timeout, row, handler, decision, request, report, raced, abandoned>>

\* The call answers, and that counts as executed: a refusal by the server itself
\* and a container that is not there are answers too.
ToolAnswers(q) ==
    /\ run[q] = "started"
    /\ Acted(q)
    /\ \/ run' = [run EXCEPT ![q] = "answered"]  \* no service was named
          /\ report' = [report EXCEPT ![q].executed = TRUE]
       \/ run' = [run EXCEPT ![q] = "settling"]
          /\ \E before \in Readings :
                report' = [report EXCEPT ![q].executed = TRUE, ![q].before = before]
    /\ UNCHANGED <<timeout, row, handler, decision, request, raced, abandoned>>

\* _judge, on two readings or the lack of one.
Judge(before, after) ==
    CASE before <= HEALTHY_ERROR_RATE \/ after = UNREAD -> "unknown"
      [] before > HEALTHY_ERROR_RATE /\ after \in 0 .. HEALTHY_ERROR_RATE -> "resolved"
      [] after > HEALTHY_ERROR_RATE /\ 2 * after <= before -> "improved"
      [] before > HEALTHY_ERROR_RATE /\ after > before -> "worse"
      [] OTHER -> "unchanged"

\* Mutant of VerdictOf: the smoke check is reported and not used.
RateAlone(before, after, smoke_failed) == Judge(before, after)

\* A service that does not serve has not been fixed, whatever its rates say.
VerdictOf(before, after, smoke_failed) ==
    IF smoke_failed /\ before # UNREAD /\ after # UNREAD /\ Judge(before, after) # "worse"
    THEN "unchanged"
    ELSE Judge(before, after)

\* The service has settled and is measured again.
Verify(q) ==
    /\ run[q] = "settling"
    /\ run' = [run EXCEPT ![q] = "answered"]
    /\ \E after \in Readings, smoke_failed \in BOOLEAN :
          report' = [report EXCEPT ![q].after = after, ![q].smoke_failed = smoke_failed,
                                   ![q].verdict = VerdictOf(report[q].before, after, smoke_failed),
                                   ![q].settled = TRUE]
    /\ UNCHANGED <<timeout, row, handler, decision, request, performed, raced, abandoned>>

\* The AI service's process restarts, and nothing in it was persisted.
Restart ==
    /\ run' = [q \in Requests |-> IF run[q] \in {"started", "settling"} THEN "gone" ELSE run[q]]
    /\ report' = [q \in Requests |->
                    IF run[q] \in {"started", "settling"} THEN NothingMeasured ELSE report[q]]
    /\ UNCHANGED <<timeout, row, handler, decision, request, performed, raced, abandoned>>

-----------------------------------------------------------------------------

\* What the services go on to do for a request once it is decided.
Proceed(q) ==
    \/ SaveRejected(q) \/ SaveApproved(q) \/ SaveExecuting(q)
    \/ Answer(q) \/ TimedOut(q) \/ Unavailable(q) \/ FailExecution(q) \/ RecordOutcome(q)

Serve(q) == Arrive(q) \/ ToolFails(q) \/ ToolAnswers(q) \/ Verify(q)

RemediationNext ==
    \/ \E q \in Requests : Load(q) \/ Proceed(q) \/ Serve(q) \/ Abandon(q)
    \/ Restart

RemediationSpec == RemediationInit /\ [][RemediationNext]_remediation_vars

\* The backend runs its requests to their end, and its HTTP client has a timeout.
\* Nothing is assumed of the AI service.
FairRemediationSpec ==
    RemediationSpec /\ \A q \in Requests : WF_remediation_vars(Proceed(q))

-----------------------------------------------------------------------------
(* Properties. *)

UnderWay == status \in {"Approved", "Executing"}

Acting(q) ==
    handler[q] \in {"approved", "posting", "answered", "unavailable", "timed_out"}

\* A recommendation that looks like work in progress has a handler at work on it,
\* unless an approval of it was cut short.
UnderWayIsAttended ==
    UnderWay =>
        \/ \E q \in Requests : Acting(q)
        \/ \E q \in abandoned : decision[q] = "approve"

\* Unless two requests decide at once, one approval at most acts, its person is the
\* one recorded, and what was rejected never ran: no failure, timeout or retry
\* approves a recommendation again.  (Two at once both act, or an approval runs under
\* the name of the person who rejected it: nothing orders their saves.)
OneDecisionActs ==
    ~ raced =>
        /\ \A q \in performed : approved_by = q /\ decision[q] = "approve"
        /\ status = "Rejected" => performed = {}

\* Verified is a measurement, whoever wrote the row last: the action was reported as
\* run, and the error rate was read on both sides of it and fell, at a service not
\* known to fail its smoke check.
VerifiedIsMeasured ==
    status = "Verified" =>
        /\ verification.executed /\ ~ verification.smoke_failed
        /\ verification.after \in Nat /\ verification.after < verification.before

\* "The alternative - leaving it Executing - is a row that nobody can act on and
\* that looks like work in progress for ever" (RecommendationFeatures.cs:135-136).
RemediationSettles == UnderWay ~> (~ UnderWay \/ abandoned # {})

=============================================================================
