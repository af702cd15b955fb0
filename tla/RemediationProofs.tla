-------------------------- MODULE RemediationProofs --------------------------
(***************************************************************************)
(* Proofs about Remediation, for any number of requests, any error rates   *)
(* and any timeout.                                                        *)
(*                                                                         *)
(* OneDecisionActs needs to know what a request can have set in motion and *)
(* that it is over for everyone else once one has decided (DecidedOnce).   *)
(* VerifiedIsMeasured has to be known of a report from the moment it is    *)
(* measured (ReportsAreMeasured), UnderWayIsAttended that only approvals   *)
(* keep a handler at work (OnlyApprovalsAct).                              *)
(***************************************************************************)
EXTENDS Remediation, TLAPS

\* What a report that confirms an action rests on.
Measured(answer) ==
    answer.verdict \in {"resolved", "improved"} =>
        /\ ~ answer.smoke_failed
        /\ answer.after \in Nat /\ answer.after < answer.before

\* A request is made once, and runs once it is made.
MadeOnce ==
    \A q \in Requests :
        /\ handler[q] \in {"idle", "deciding", "approved"} => request[q] = "none"
        /\ request[q] \in {"none", "sent"} => run[q] = "none"

ReportsAreMeasured ==
    \A q \in Requests :
        /\ Measured(report[q])
        /\ run[q] \in {"none", "started", "settling"} => report[q].verdict = "unknown"

\* What an approval has set in motion, here or in the AI service.
InMotion(q) ==
    Acting(q) \/ request[q] # "none" \/ run[q] # "none" \/ q \in performed

DecidedOnce ==
    ~ raced =>
        /\ status # "PendingApproval" => \A q \in Requests : handler[q] # "deciding"
        /\ \A q \in Requests : InMotion(q) =>
              /\ approved_by = q /\ decision[q] = "approve"
              /\ status \notin {"PendingApproval", "Rejected"}

OnlyApprovalsAct ==
    \A q \in Requests :
        /\ Acting(q) => decision[q] = "approve"
        /\ q \in abandoned => handler[q] = "ended"

RemediationInv ==
    /\ RemediationTypeOK
    /\ MadeOnce
    /\ ReportsAreMeasured
    /\ DecidedOnce
    /\ OnlyApprovalsAct
    /\ UnderWayIsAttended
    /\ VerifiedIsMeasured

-----------------------------------------------------------------------------
(* What two readings say.                                                  *)

LEMMA UnmeasuredIsUnknown ==
    /\ NothingMeasured \in Reports
    /\ NothingMeasured.verdict = "unknown"
    /\ Measured(NothingMeasured)
BY DEF NothingMeasured, Reports, Readings, Verdicts, Measured

\* A verdict is one of the five.
LEMMA VerdictType ==
    ASSUME NEW before, NEW after, NEW smoke_failed
    PROVE  VerdictOf(before, after, smoke_failed) \in Verdicts
BY DEF VerdictOf, Judge, Verdicts

\* A fix is claimed only when both rates could be read, the rate fell, and the service
\* is not known to fail its smoke check.
LEMMA ClaimIsMeasured ==
    ASSUME NEW before \in Readings, NEW after \in Readings, NEW smoke_failed \in BOOLEAN,
           VerdictOf(before, after, smoke_failed) \in {"resolved", "improved"}
    PROVE  ~ smoke_failed /\ after \in Nat /\ after < before
BY RemediationAssumption DEF VerdictOf, Judge, Readings, UNREAD, HEALTHY_ERROR_RATE

-----------------------------------------------------------------------------
(* The inductive invariant, conjunct by conjunct and action by action.     *)

\* Nobody has decided anything yet.
LEMMA RemediationInitEstablishes == RemediationInit => RemediationInv
<1> SUFFICES ASSUME RemediationInit PROVE RemediationInv
  OBVIOUS
<1>1. RemediationTypeOK
  BY UnmeasuredIsUnknown DEF RemediationInit, RemediationTypeOK, Statuses
<1>2. MadeOnce /\ ReportsAreMeasured
  BY UnmeasuredIsUnknown DEF RemediationInit, MadeOnce, ReportsAreMeasured
<1>3. DecidedOnce /\ OnlyApprovalsAct
  BY DEF RemediationInit, DecidedOnce, OnlyApprovalsAct, InMotion, Acting
<1>4. UnderWayIsAttended /\ VerifiedIsMeasured
  BY DEF RemediationInit, UnderWayIsAttended, UnderWay, VerifiedIsMeasured
<1> QED BY <1>1, <1>2, <1>3, <1>4 DEF RemediationInv

\* Every step keeps the types.
LEMMA TypesKept == RemediationInv /\ [RemediationNext]_remediation_vars => RemediationTypeOK'
<1> SUFFICES ASSUME RemediationInv, [RemediationNext]_remediation_vars PROVE RemediationTypeOK'
  OBVIOUS
<1> USE DEF row, execution
<1>1. ASSUME NEW q \in Requests, Load(q) \/ Proceed(q) \/ Serve(q) \/ Abandon(q)
      PROVE  RemediationTypeOK'
  <2>1. CASE Load(q)
    BY <2>1 DEF Load, Step, RemediationInv, RemediationTypeOK
  <2>2. CASE SaveRejected(q)
    BY <2>2 DEF SaveRejected, Decide, Step, RemediationInv, RemediationTypeOK, Statuses
  <2>3. CASE SaveApproved(q)
    BY <2>3 DEF SaveApproved, Decide, Step, RemediationInv, RemediationTypeOK, Statuses
  <2>4. CASE SaveExecuting(q)
    BY <2>4 DEF SaveExecuting, Step, RemediationInv, RemediationTypeOK, Statuses
  <2>5. CASE Answer(q)
    BY <2>5 DEF Answer, Step, RemediationInv, RemediationTypeOK
  <2>6. CASE TimedOut(q)
    BY <2>6 DEF TimedOut, Step, RemediationInv, RemediationTypeOK
  <2>7. CASE Unavailable(q)
    BY <2>7 DEF Unavailable, Step, RemediationInv, RemediationTypeOK
  <2>8. CASE FailExecution(q)
    BY <2>8 DEF FailExecution, Step, RemediationInv, RemediationTypeOK, Statuses
  <2>9. CASE RecordOutcome(q)
    BY <2>9, UnmeasuredIsUnknown DEF RecordOutcome, Step, RemediationInv, RemediationTypeOK,
       Outcome, Statuses
  <2>10. CASE Arrive(q)
    BY <2>10 DEF Arrive, RemediationInv, RemediationTypeOK
  <2>11. CASE ToolFails(q)
    BY <2>11 DEF ToolFails, Acted, RemediationInv, RemediationTypeOK
  <2>12. CASE ToolAnswers(q)
    <3>1. report' \in [Requests -> Reports]
      <4>1. CASE report' = [report EXCEPT ![q].executed = TRUE]
        BY <4>1 DEF RemediationInv, RemediationTypeOK, Reports
      <4>2. ASSUME NEW before \in Readings,
                   report' = [report EXCEPT ![q].executed = TRUE, ![q].before = before]
            PROVE  report' \in [Requests -> Reports]
        BY <4>2 DEF RemediationInv, RemediationTypeOK, Reports
      <4> QED
        BY <2>12, <4>1, <4>2 DEF ToolAnswers
    <3> QED
      BY <2>12, <3>1 DEF ToolAnswers, Acted, RemediationInv, RemediationTypeOK
  <2>13. CASE Verify(q)
    <3>1. PICK after \in Readings, smoke_failed \in BOOLEAN :
             report' = [report EXCEPT ![q].after = after, ![q].smoke_failed = smoke_failed,
                                      ![q].verdict =
                                          VerdictOf(report[q].before, after, smoke_failed),
                                      ![q].settled = TRUE]
      BY <2>13 DEF Verify
    <3>2. report[q] \in Reports
      BY DEF RemediationInv, RemediationTypeOK
    <3>3. VerdictOf(report[q].before, after, smoke_failed) \in Verdicts
      BY VerdictType
    <3>4. report' \in [Requests -> Reports]
      BY <3>1, <3>2, <3>3 DEF Reports, RemediationInv, RemediationTypeOK
    <3> QED
      BY <2>13, <3>4 DEF Verify, RemediationInv, RemediationTypeOK
  <2>14. CASE Abandon(q)
    BY <2>14 DEF Abandon, RemediationInv, RemediationTypeOK
  <2> QED
    BY <1>1, <2>1, <2>2, <2>3, <2>4, <2>5, <2>6, <2>7, <2>8, <2>9, <2>10, <2>11, <2>12,
       <2>13, <2>14 DEF Proceed, Serve
<1>2. CASE Restart
  BY <1>2, UnmeasuredIsUnknown DEF Restart, RemediationInv, RemediationTypeOK
<1>3. CASE UNCHANGED remediation_vars
  BY <1>3 DEF remediation_vars, RemediationInv, RemediationTypeOK
<1> QED
  BY <1>1, <1>2, <1>3 DEF RemediationNext

\* A request is sent once and arrives once.
LEMMA MadeOnceKept == RemediationInv /\ [RemediationNext]_remediation_vars => MadeOnce'
<1> SUFFICES ASSUME RemediationInv, [RemediationNext]_remediation_vars PROVE MadeOnce'
  OBVIOUS
<1> USE DEF row, execution
<1>1. ASSUME NEW q \in Requests, Load(q) \/ Proceed(q) \/ Serve(q) \/ Abandon(q)
      PROVE  MadeOnce'
  <2>1. CASE Load(q)
    BY <2>1 DEF Load, Step, RemediationInv, RemediationTypeOK, MadeOnce
  <2>2. CASE SaveRejected(q)
    BY <2>2 DEF SaveRejected, Decide, Step, RemediationInv, MadeOnce
  <2>3. CASE SaveApproved(q)
    BY <2>3 DEF SaveApproved, Decide, Step, RemediationInv, MadeOnce
  <2>4. CASE SaveExecuting(q)
    BY <2>4 DEF SaveExecuting, Step, RemediationInv, RemediationTypeOK, MadeOnce
  <2>5. CASE Answer(q)
    BY <2>5 DEF Answer, Step, RemediationInv, MadeOnce
  <2>6. CASE TimedOut(q)
    BY <2>6 DEF TimedOut, Step, RemediationInv, MadeOnce
  <2>7. CASE Unavailable(q)
    BY <2>7 DEF Unavailable, Step, RemediationInv, MadeOnce
  <2>8. CASE FailExecution(q)
    BY <2>8 DEF FailExecution, Step, RemediationInv, RemediationTypeOK, MadeOnce
  <2>9. CASE RecordOutcome(q)
    BY <2>9 DEF RecordOutcome, Step, RemediationInv, MadeOnce
  <2>10. CASE Arrive(q)
    BY <2>10 DEF Arrive, RemediationInv, RemediationTypeOK, MadeOnce
  <2>11. CASE ToolFails(q)
    BY <2>11 DEF ToolFails, RemediationInv, MadeOnce
  <2>12. CASE ToolAnswers(q)
    BY <2>12 DEF ToolAnswers, RemediationInv, RemediationTypeOK, MadeOnce
  <2>13. CASE Verify(q)
    BY <2>13 DEF Verify, RemediationInv, MadeOnce
  <2>14. CASE Abandon(q)
    BY <2>14 DEF Abandon, RemediationInv, MadeOnce
  <2> QED
    BY <1>1, <2>1, <2>2, <2>3, <2>4, <2>5, <2>6, <2>7, <2>8, <2>9, <2>10, <2>11, <2>12,
       <2>13, <2>14 DEF Proceed, Serve
<1>2. CASE Restart
  BY <1>2 DEF Restart, RemediationInv, MadeOnce
<1>3. CASE UNCHANGED remediation_vars
  BY <1>3 DEF remediation_vars, RemediationInv, MadeOnce
<1> QED
  BY <1>1, <1>2, <1>3 DEF RemediationNext

\* A verdict is given only by a measurement.
LEMMA ReportsKept == RemediationInv /\ [RemediationNext]_remediation_vars => ReportsAreMeasured'
<1> SUFFICES ASSUME RemediationInv, [RemediationNext]_remediation_vars PROVE ReportsAreMeasured'
  OBVIOUS
<1> USE DEF row, execution
<1>1. ASSUME NEW q \in Requests, Load(q) \/ Proceed(q) \/ Serve(q) \/ Abandon(q)
      PROVE  ReportsAreMeasured'
  <2>1. CASE Load(q)
    BY <2>1 DEF Load, RemediationInv, ReportsAreMeasured
  <2>2. CASE SaveRejected(q)
    BY <2>2 DEF SaveRejected, Decide, RemediationInv, ReportsAreMeasured
  <2>3. CASE SaveApproved(q)
    BY <2>3 DEF SaveApproved, Decide, RemediationInv, ReportsAreMeasured
  <2>4. CASE SaveExecuting(q)
    BY <2>4 DEF SaveExecuting, RemediationInv, ReportsAreMeasured
  <2>5. CASE Answer(q)
    BY <2>5 DEF Answer, RemediationInv, ReportsAreMeasured
  <2>6. CASE TimedOut(q)
    BY <2>6 DEF TimedOut, RemediationInv, ReportsAreMeasured
  <2>7. CASE Unavailable(q)
    BY <2>7 DEF Unavailable, RemediationInv, ReportsAreMeasured
  <2>8. CASE FailExecution(q)
    BY <2>8 DEF FailExecution, RemediationInv, ReportsAreMeasured
  <2>9. CASE RecordOutcome(q)
    BY <2>9, UnmeasuredIsUnknown DEF RecordOutcome, RemediationInv, ReportsAreMeasured
  <2>10. CASE Arrive(q)
    BY <2>10 DEF Arrive, RemediationInv, RemediationTypeOK, ReportsAreMeasured, MadeOnce
  <2>11. CASE ToolFails(q)
    BY <2>11 DEF ToolFails, RemediationInv, ReportsAreMeasured
  <2>12. CASE ToolAnswers(q)
    <3>1. /\ report[q] \in Reports /\ report[q].verdict = "unknown"
          /\ run' \in [Requests -> {"none", "started", "settling", "answered", "gone"}]
      BY <2>12, TypesKept DEF ToolAnswers, RemediationInv, RemediationTypeOK, ReportsAreMeasured
    <3>2. /\ report'[q].verdict = "unknown"
          /\ \A p \in Requests \ {q} : report'[p] = report[p] /\ run'[p] = run[p]
      BY <2>12, <3>1 DEF ToolAnswers, RemediationInv, RemediationTypeOK, Reports
    <3> QED
      BY <3>2 DEF RemediationInv, ReportsAreMeasured, Measured
  <2>13. CASE Verify(q)
    BY <2>13, ClaimIsMeasured DEF Verify, RemediationInv, RemediationTypeOK,
       ReportsAreMeasured, Measured, Reports
  <2>14. CASE Abandon(q)
    BY <2>14 DEF Abandon, RemediationInv, ReportsAreMeasured
  <2> QED
    BY <1>1, <2>1, <2>2, <2>3, <2>4, <2>5, <2>6, <2>7, <2>8, <2>9, <2>10, <2>11, <2>12,
       <2>13, <2>14 DEF Proceed, Serve
<1>2. CASE Restart
  BY <1>2, UnmeasuredIsUnknown DEF Restart, RemediationInv, ReportsAreMeasured
<1>3. CASE UNCHANGED remediation_vars
  BY <1>3 DEF remediation_vars, RemediationInv, ReportsAreMeasured
<1> QED
  BY <1>1, <1>2, <1>3 DEF RemediationNext

\* Without a race, one request decides.
LEMMA DecisionKept == RemediationInv /\ [RemediationNext]_remediation_vars => DecidedOnce'
<1> SUFFICES ASSUME RemediationInv, [RemediationNext]_remediation_vars PROVE DecidedOnce'
  OBVIOUS
<1> USE DEF row, execution
<1>1. ASSUME NEW q \in Requests, Load(q) \/ Proceed(q) \/ Serve(q) \/ Abandon(q)
      PROVE  DecidedOnce'
  <2>1. CASE Load(q)
    BY <2>1 DEF Load, Step, RemediationInv, RemediationTypeOK, DecidedOnce, InMotion, Acting
  <2>2. CASE SaveRejected(q)
    BY <2>2 DEF SaveRejected, Decide, Step, RemediationInv, RemediationTypeOK, DecidedOnce,
       InMotion, Acting
  <2>3. CASE SaveApproved(q)
    BY <2>3 DEF SaveApproved, Decide, Step, RemediationInv, RemediationTypeOK, DecidedOnce,
       InMotion, Acting
  <2>4. CASE SaveExecuting(q)
    BY <2>4 DEF SaveExecuting, Step, RemediationInv, DecidedOnce, InMotion, Acting
  <2>5. CASE Answer(q)
    BY <2>5 DEF Answer, Step, RemediationInv, DecidedOnce, InMotion, Acting
  <2>6. CASE TimedOut(q)
    BY <2>6 DEF TimedOut, Step, RemediationInv, DecidedOnce, InMotion, Acting
  <2>7. CASE Unavailable(q)
    BY <2>7 DEF Unavailable, Step, RemediationInv, DecidedOnce, InMotion, Acting
  <2>8. CASE FailExecution(q)
    BY <2>8 DEF FailExecution, Step, RemediationInv, RemediationTypeOK, DecidedOnce,
       InMotion, Acting
  <2>9. CASE RecordOutcome(q)
    BY <2>9 DEF RecordOutcome, Step, RemediationInv, DecidedOnce, InMotion, Acting, Outcome
  <2>10. CASE Arrive(q)
    BY <2>10 DEF Arrive, RemediationInv, RemediationTypeOK, DecidedOnce, InMotion, Acting
  <2>11. CASE ToolFails(q)
    BY <2>11 DEF ToolFails, Acted, RemediationInv, DecidedOnce, InMotion, Acting
  <2>12. CASE ToolAnswers(q)
    BY <2>12 DEF ToolAnswers, Acted, RemediationInv, RemediationTypeOK, DecidedOnce,
       InMotion, Acting
  <2>13. CASE Verify(q)
    BY <2>13 DEF Verify, RemediationInv, DecidedOnce, InMotion, Acting
  <2>14. CASE Abandon(q)
    BY <2>14 DEF Abandon, RemediationInv, DecidedOnce, InMotion, Acting
  <2> QED
    BY <1>1, <2>1, <2>2, <2>3, <2>4, <2>5, <2>6, <2>7, <2>8, <2>9, <2>10, <2>11, <2>12,
       <2>13, <2>14 DEF Proceed, Serve
<1>2. CASE Restart
  BY <1>2 DEF Restart, RemediationInv, DecidedOnce, InMotion, Acting
<1>3. CASE UNCHANGED remediation_vars
  BY <1>3 DEF remediation_vars, RemediationInv, DecidedOnce, InMotion, Acting
<1> QED
  BY <1>1, <1>2, <1>3 DEF RemediationNext

\* Only an approval is acted on.
LEMMA ApprovalsKept == RemediationInv /\ [RemediationNext]_remediation_vars => OnlyApprovalsAct'
<1> SUFFICES ASSUME RemediationInv, [RemediationNext]_remediation_vars PROVE OnlyApprovalsAct'
  OBVIOUS
<1> USE DEF row, execution
<1>1. ASSUME NEW q \in Requests, Load(q) \/ Proceed(q) \/ Serve(q) \/ Abandon(q)
      PROVE  OnlyApprovalsAct'
  <2>1. CASE Load(q)
    BY <2>1 DEF Load, Step, RemediationInv, RemediationTypeOK, OnlyApprovalsAct, Acting
  <2>2. CASE SaveRejected(q)
    BY <2>2 DEF SaveRejected, Decide, Step, RemediationInv, OnlyApprovalsAct, Acting
  <2>3. CASE SaveApproved(q)
    BY <2>3 DEF SaveApproved, Decide, Step, RemediationInv, OnlyApprovalsAct, Acting
  <2>4. CASE SaveExecuting(q)
    BY <2>4 DEF SaveExecuting, Step, RemediationInv, OnlyApprovalsAct, Acting
  <2>5. CASE Answer(q)
    BY <2>5 DEF Answer, Step, RemediationInv, OnlyApprovalsAct, Acting
  <2>6. CASE TimedOut(q)
    BY <2>6 DEF TimedOut, Step, RemediationInv, OnlyApprovalsAct, Acting
  <2>7. CASE Unavailable(q)
    BY <2>7 DEF Unavailable, Step, RemediationInv, OnlyApprovalsAct, Acting
  <2>8. CASE FailExecution(q)
    BY <2>8 DEF FailExecution, Step, RemediationInv, RemediationTypeOK, OnlyApprovalsAct, Acting
  <2>9. CASE RecordOutcome(q)
    BY <2>9 DEF RecordOutcome, Step, RemediationInv, OnlyApprovalsAct, Acting
  <2>10. CASE Arrive(q)
    BY <2>10 DEF Arrive, RemediationInv, OnlyApprovalsAct, Acting
  <2>11. CASE ToolFails(q)
    BY <2>11 DEF ToolFails, RemediationInv, OnlyApprovalsAct, Acting
  <2>12. CASE ToolAnswers(q)
    BY <2>12 DEF ToolAnswers, RemediationInv, OnlyApprovalsAct, Acting
  <2>13. CASE Verify(q)
    BY <2>13 DEF Verify, RemediationInv, OnlyApprovalsAct, Acting
  <2>14. CASE Abandon(q)
    BY <2>14 DEF Abandon, RemediationInv, RemediationTypeOK, OnlyApprovalsAct, Acting
  <2> QED
    BY <1>1, <2>1, <2>2, <2>3, <2>4, <2>5, <2>6, <2>7, <2>8, <2>9, <2>10, <2>11, <2>12,
       <2>13, <2>14 DEF Proceed, Serve
<1>2. CASE Restart
  BY <1>2 DEF Restart, RemediationInv, OnlyApprovalsAct, Acting
<1>3. CASE UNCHANGED remediation_vars
  BY <1>3 DEF remediation_vars, RemediationInv, OnlyApprovalsAct, Acting
<1> QED
  BY <1>1, <1>2, <1>3 DEF RemediationNext

\* A row under way is handed from handler to handler, or cut short.
LEMMA AttendedKept == RemediationInv /\ [RemediationNext]_remediation_vars => UnderWayIsAttended'
<1> SUFFICES ASSUME RemediationInv, [RemediationNext]_remediation_vars PROVE UnderWayIsAttended'
  OBVIOUS
<1> USE DEF row, execution
<1>1. ASSUME NEW q \in Requests, Load(q) \/ Proceed(q) \/ Serve(q) \/ Abandon(q)
      PROVE  UnderWayIsAttended'
  <2>1. CASE Load(q)
    BY <2>1 DEF Load, Step, RemediationInv, RemediationTypeOK, UnderWayIsAttended, UnderWay,
       Acting
  <2>2. CASE SaveRejected(q)
    BY <2>2 DEF SaveRejected, Decide, UnderWayIsAttended, UnderWay
  <2>3. CASE SaveApproved(q)
    BY <2>3 DEF SaveApproved, Step, RemediationInv, RemediationTypeOK, UnderWayIsAttended,
       Acting
  <2>4. CASE SaveExecuting(q)
    BY <2>4 DEF SaveExecuting, Step, UnderWayIsAttended, Acting
  <2>5. CASE Answer(q)
    BY <2>5 DEF Answer, Step, UnderWayIsAttended, Acting
  <2>6. CASE TimedOut(q)
    BY <2>6 DEF TimedOut, Step, UnderWayIsAttended, Acting
  <2>7. CASE Unavailable(q)
    BY <2>7 DEF Unavailable, Step, UnderWayIsAttended, Acting
  <2>8. CASE FailExecution(q)
    BY <2>8 DEF FailExecution, UnderWayIsAttended, UnderWay
  <2>9. CASE RecordOutcome(q)
    BY <2>9 DEF RecordOutcome, UnderWayIsAttended, UnderWay, Outcome
  <2>10. CASE Arrive(q)
    BY <2>10 DEF Arrive, RemediationInv, UnderWayIsAttended, UnderWay, Acting
  <2>11. CASE ToolFails(q)
    BY <2>11 DEF ToolFails, RemediationInv, UnderWayIsAttended, UnderWay, Acting
  <2>12. CASE ToolAnswers(q)
    BY <2>12 DEF ToolAnswers, RemediationInv, UnderWayIsAttended, UnderWay, Acting
  <2>13. CASE Verify(q)
    BY <2>13 DEF Verify, RemediationInv, UnderWayIsAttended, UnderWay, Acting
  <2>14. CASE Abandon(q)
    BY <2>14 DEF Abandon, RemediationInv, OnlyApprovalsAct, UnderWayIsAttended, UnderWay, Acting
  <2> QED
    BY <1>1, <2>1, <2>2, <2>3, <2>4, <2>5, <2>6, <2>7, <2>8, <2>9, <2>10, <2>11, <2>12,
       <2>13, <2>14 DEF Proceed, Serve
<1>2. CASE Restart
  BY <1>2 DEF Restart, RemediationInv, UnderWayIsAttended, UnderWay, Acting
<1>3. CASE UNCHANGED remediation_vars
  BY <1>3 DEF remediation_vars, RemediationInv, UnderWayIsAttended, UnderWay, Acting
<1> QED
  BY <1>1, <1>2, <1>3 DEF RemediationNext

\* Verified is written with the report it was read from.
LEMMA VerifiedKept == RemediationInv /\ [RemediationNext]_remediation_vars => VerifiedIsMeasured'
<1> SUFFICES ASSUME RemediationInv, [RemediationNext]_remediation_vars PROVE VerifiedIsMeasured'
  OBVIOUS
<1> USE DEF row, execution
<1>1. ASSUME NEW q \in Requests, Load(q) \/ Proceed(q) \/ Serve(q) \/ Abandon(q)
      PROVE  VerifiedIsMeasured'
  <2>1. CASE Load(q)
    BY <2>1 DEF Load, RemediationInv, VerifiedIsMeasured
  <2>2. CASE SaveRejected(q)
    BY <2>2 DEF SaveRejected, Decide, VerifiedIsMeasured
  <2>3. CASE SaveApproved(q)
    BY <2>3 DEF SaveApproved, Decide, VerifiedIsMeasured
  <2>4. CASE SaveExecuting(q)
    BY <2>4 DEF SaveExecuting, VerifiedIsMeasured
  <2>5. CASE Answer(q)
    BY <2>5 DEF Answer, RemediationInv, VerifiedIsMeasured
  <2>6. CASE TimedOut(q)
    BY <2>6 DEF TimedOut, RemediationInv, VerifiedIsMeasured
  <2>7. CASE Unavailable(q)
    BY <2>7 DEF Unavailable, RemediationInv, VerifiedIsMeasured
  <2>8. CASE FailExecution(q)
    BY <2>8 DEF FailExecution, VerifiedIsMeasured
  <2>9. CASE RecordOutcome(q)
    BY <2>9 DEF RecordOutcome, RemediationInv, VerifiedIsMeasured, ReportsAreMeasured,
       Measured, Outcome, Confirmed
  <2>10. CASE Arrive(q)
    BY <2>10 DEF Arrive, RemediationInv, VerifiedIsMeasured
  <2>11. CASE ToolFails(q)
    BY <2>11 DEF ToolFails, RemediationInv, VerifiedIsMeasured
  <2>12. CASE ToolAnswers(q)
    BY <2>12 DEF ToolAnswers, RemediationInv, VerifiedIsMeasured
  <2>13. CASE Verify(q)
    BY <2>13 DEF Verify, RemediationInv, VerifiedIsMeasured
  <2>14. CASE Abandon(q)
    BY <2>14 DEF Abandon, RemediationInv, VerifiedIsMeasured
  <2> QED
    BY <1>1, <2>1, <2>2, <2>3, <2>4, <2>5, <2>6, <2>7, <2>8, <2>9, <2>10, <2>11, <2>12,
       <2>13, <2>14 DEF Proceed, Serve
<1>2. CASE Restart
  BY <1>2 DEF Restart, RemediationInv, VerifiedIsMeasured
<1>3. CASE UNCHANGED remediation_vars
  BY <1>3 DEF remediation_vars, RemediationInv, VerifiedIsMeasured
<1> QED
  BY <1>1, <1>2, <1>3 DEF RemediationNext

-----------------------------------------------------------------------------
(* Theorems.                                                               *)

\* The inductive invariant holds however many requests race.
THEOREM RemediationInvariance == RemediationSpec => []RemediationInv
<1>1. RemediationInv /\ [RemediationNext]_remediation_vars => RemediationInv'
  BY TypesKept, MadeOnceKept, ReportsKept, DecisionKept, ApprovalsKept, AttendedKept,
     VerifiedKept
     DEF RemediationInv
<1> QED
  BY <1>1, RemediationInitEstablishes, PTL DEF RemediationSpec

\* The row, the handlers and the AI service's executions keep their types.
THEOREM RemediationTypeCorrect == RemediationSpec => []RemediationTypeOK
<1>1. RemediationInv => RemediationTypeOK
  BY DEF RemediationInv
<1> QED
  BY <1>1, RemediationInvariance, PTL

\* A row is left looking like work in progress only by an approval cut short.
THEOREM UnderWayAttended == RemediationSpec => []UnderWayIsAttended
<1>1. RemediationInv => UnderWayIsAttended
  BY DEF RemediationInv
<1> QED
  BY <1>1, RemediationInvariance, PTL

\* Unless two requests decide at once, one approval acts, under its own name, and
\* nothing that was rejected has run.
THEOREM OneDecision == RemediationSpec => []OneDecisionActs
<1>1. RemediationInv => OneDecisionActs
  BY DEF RemediationInv, RemediationTypeOK, DecidedOnce, InMotion, OneDecisionActs
<1> QED
  BY <1>1, RemediationInvariance, PTL

\* Verified is a measurement that fell, at any rates and whoever wrote the row last.
THEOREM VerifiedMeasured == RemediationSpec => []VerifiedIsMeasured
<1>1. RemediationInv => VerifiedIsMeasured
  BY DEF RemediationInv
<1> QED
  BY <1>1, RemediationInvariance, PTL

=============================================================================
