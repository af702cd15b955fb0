--------------------- MODULE InvestigationLifecycleProofs ---------------------
(***************************************************************************)
(* Proofs about InvestigationLifecycle, for any number of start requests.  *)
(*                                                                         *)
(* StuckOnlyByLoss needs to know who is left when each party is done: an   *)
(* unfinished request hands over to the run it started, and a run to its   *)
(* terminal event (HandedOver).  Both properties need that nothing happens *)
(* to an investigation before it has a row (RowFirst).                     *)
(***************************************************************************)
EXTENDS InvestigationLifecycle, TLAPS

RowFirst ==
    \A r \in Requests :
        /\ handler[r] \in {"idle", "loaded", "clear"} => investigation[r] = "none"
        /\ investigation[r] = "none" =>
              request[r] = "none" /\ run[r] = "none" /\ report[r] = "none" /\ late[r] = "none"

HandedOver ==
    \A r \in Requests :
        /\ request[r] = "arrived" => run[r] # "none"
        /\ investigation[r] = "Running" /\ r \notin orphaned =>
              /\ handler[r] = "ended" => request[r] = "arrived"
              /\ run[r] = "ended" => Held(r)

LifecycleInv ==
    /\ LifecycleTypeOK
    /\ RowFirst
    /\ HandedOver
    /\ ShownStatusIsEarned

-----------------------------------------------------------------------------
(* The inductive invariant, conjunct by conjunct and action by action.     *)

\* Nothing has been started, and every incident is open.
LEMMA LifecycleInitEstablishes == LifecycleInit => LifecycleInv
<1> SUFFICES ASSUME LifecycleInit PROVE LifecycleInv
  OBVIOUS
<1>1. LifecycleTypeOK
  BY DEF LifecycleInit, LifecycleTypeOK, IncidentStatuses, Reports
<1>2. RowFirst /\ HandedOver
  BY DEF LifecycleInit, RowFirst, HandedOver
<1>3. ShownStatusIsEarned
  BY DEF LifecycleInit, ShownStatusIsEarned
<1> QED BY <1>1, <1>2, <1>3 DEF LifecycleInv

\* Every step keeps the types.
LEMMA TypesKept == LifecycleInv /\ [LifecycleNext]_lifecycle_vars => LifecycleTypeOK'
<1> SUFFICES ASSUME LifecycleInv, [LifecycleNext]_lifecycle_vars PROVE LifecycleTypeOK'
  OBVIOUS
<1> USE DEF rows, start, service, history
<1>1. ASSUME NEW r \in Requests, LoadIncident(r) \/ Proceed(r) \/ Abandon(r) \/ TimedOut(r) \/ DeliveredLate(r)
      PROVE  LifecycleTypeOK'
  <2>1. CASE LoadIncident(r)
    BY <2>1 DEF LoadIncident, Step, LifecycleInv, LifecycleTypeOK
  <2>2. CASE CheckRunning(r)
    BY <2>2 DEF CheckRunning, Step, LifecycleInv, LifecycleTypeOK
  <2>3. CASE Save(r)
    BY <2>3 DEF Save, Step, LifecycleInv, LifecycleTypeOK, IncidentStatuses, InvestigationStatuses
  <2>4. CASE Accepted(r)
    BY <2>4 DEF Accepted, Step, LifecycleInv, LifecycleTypeOK
  <2>5. CASE Unavailable(r)
    BY <2>5 DEF Unavailable, Step, LifecycleInv, LifecycleTypeOK
  <2>6. CASE FailStart(r)
    BY <2>6 DEF FailStart, Step, LifecycleInv, LifecycleTypeOK, IncidentStatuses, InvestigationStatuses
  <2>7. CASE Arrive(r)
    BY <2>7 DEF Arrive, LifecycleInv, LifecycleTypeOK
  <2>8. CASE RunEnds(r)
    BY <2>8 DEF RunEnds, LifecycleInv, LifecycleTypeOK, Reports
  <2>9. CASE RunDies(r)
    BY <2>9 DEF RunDies, LifecycleInv, LifecycleTypeOK
  <2>10. CASE Delivered(r)
    BY <2>10 DEF Delivered, Finish, LifecycleInv, LifecycleTypeOK, IncidentStatuses, InvestigationStatuses, Reports
  <2>11. CASE GiveUp(r)
    BY <2>11 DEF GiveUp, LifecycleInv, LifecycleTypeOK, Reports
  <2>12. CASE Abandon(r)
    BY <2>12 DEF Abandon, LifecycleInv, LifecycleTypeOK
  <2>13. CASE TimedOut(r)
    BY <2>13 DEF TimedOut, LifecycleInv, LifecycleTypeOK
  <2>14. CASE DeliveredLate(r)
    BY <2>14 DEF DeliveredLate, Finish, LifecycleInv, LifecycleTypeOK, IncidentStatuses, InvestigationStatuses, Reports
  <2> QED
    BY <1>1, <2>1, <2>2, <2>3, <2>4, <2>5, <2>6, <2>7, <2>8, <2>9, <2>10, <2>11, <2>12, <2>13, <2>14 DEF Proceed
<1>2. CASE Restart
  BY <1>2 DEF Restart, LifecycleInv, LifecycleTypeOK, Reports
<1>3. ASSUME NEW status \in IncidentStatuses, UpdateIncidentStatus(status)
      PROVE  LifecycleTypeOK'
  BY <1>3 DEF UpdateIncidentStatus, LifecycleInv, LifecycleTypeOK
<1>4. CASE UNCHANGED lifecycle_vars
  BY <1>4 DEF lifecycle_vars, LifecycleInv, LifecycleTypeOK
<1> QED
  BY <1>1, <1>2, <1>3, <1>4 DEF LifecycleNext

\* A request makes its row before anything else happens to its investigation.
LEMMA RowFirstKept == LifecycleInv /\ [LifecycleNext]_lifecycle_vars => RowFirst'
<1> SUFFICES ASSUME LifecycleInv, [LifecycleNext]_lifecycle_vars PROVE RowFirst'
  OBVIOUS
<1> USE DEF rows, start, service, history
<1>1. ASSUME NEW r \in Requests, LoadIncident(r) \/ Proceed(r) \/ Abandon(r) \/ TimedOut(r) \/ DeliveredLate(r)
      PROVE  RowFirst'
  <2>1. CASE LoadIncident(r)
    BY <2>1 DEF LoadIncident, Step, LifecycleInv, RowFirst
  <2>2. CASE CheckRunning(r)
    BY <2>2 DEF CheckRunning, Step, LifecycleInv, LifecycleTypeOK, RowFirst
  <2>3. CASE Save(r)
    BY <2>3 DEF Save, Step, LifecycleInv, LifecycleTypeOK, RowFirst
  <2>4. CASE Accepted(r)
    BY <2>4 DEF Accepted, Step, LifecycleInv, RowFirst
  <2>5. CASE Unavailable(r)
    BY <2>5 DEF Unavailable, Step, LifecycleInv, RowFirst
  <2>6. CASE FailStart(r)
    BY <2>6 DEF FailStart, Step, LifecycleInv, RowFirst
  <2>7. CASE Arrive(r)
    BY <2>7 DEF Arrive, LifecycleInv, LifecycleTypeOK, RowFirst
  <2>8. CASE RunEnds(r)
    BY <2>8 DEF RunEnds, LifecycleInv, RowFirst
  <2>9. CASE RunDies(r)
    BY <2>9 DEF RunDies, LifecycleInv, RowFirst
  <2>10. CASE Delivered(r)
    BY <2>10 DEF Delivered, Held, Finish, LifecycleInv, LifecycleTypeOK, RowFirst
  <2>11. CASE GiveUp(r)
    BY <2>11 DEF GiveUp, Held, LifecycleInv, RowFirst
  <2>12. CASE Abandon(r)
    BY <2>12 DEF Abandon, LifecycleInv, RowFirst
  <2>13. CASE TimedOut(r)
    BY <2>13 DEF TimedOut, LifecycleInv, RowFirst
  <2>14. CASE DeliveredLate(r)
    BY <2>14 DEF DeliveredLate, Finish, LifecycleInv, RowFirst
  <2> QED
    BY <1>1, <2>1, <2>2, <2>3, <2>4, <2>5, <2>6, <2>7, <2>8, <2>9, <2>10, <2>11, <2>12, <2>13, <2>14 DEF Proceed
<1>2. CASE Restart
  BY <1>2 DEF Restart, Held, LifecycleInv, RowFirst
<1>3. ASSUME NEW status \in IncidentStatuses, UpdateIncidentStatus(status)
      PROVE  RowFirst'
  BY <1>3 DEF UpdateIncidentStatus, LifecycleInv, RowFirst
<1>4. CASE UNCHANGED lifecycle_vars
  BY <1>4 DEF lifecycle_vars, LifecycleInv, RowFirst
<1> QED
  BY <1>1, <1>2, <1>3, <1>4 DEF LifecycleNext

\* Whoever is done with an investigation has handed it over, or it is orphaned.
LEMMA HandedOverKept == LifecycleInv /\ [LifecycleNext]_lifecycle_vars => HandedOver'
<1> SUFFICES ASSUME LifecycleInv, [LifecycleNext]_lifecycle_vars PROVE HandedOver'
  OBVIOUS
<1> USE DEF rows, start, service, history
<1>1. ASSUME NEW r \in Requests, LoadIncident(r) \/ Proceed(r) \/ Abandon(r) \/ TimedOut(r) \/ DeliveredLate(r)
      PROVE  HandedOver'
  <2>1. CASE LoadIncident(r)
    BY <2>1 DEF LoadIncident, Step, LifecycleInv, HandedOver, Held
  <2>2. CASE CheckRunning(r)
    BY <2>2 DEF CheckRunning, Step, LifecycleInv, LifecycleTypeOK, RowFirst, HandedOver, Held
  <2>3. CASE Save(r)
    BY <2>3 DEF Save, Step, LifecycleInv, RowFirst, HandedOver, Held
  <2>4. CASE Accepted(r)
    BY <2>4 DEF Accepted, Step, LifecycleInv, HandedOver, Held
  <2>5. CASE Unavailable(r)
    BY <2>5 DEF Unavailable, Step, LifecycleInv, HandedOver, Held
  <2>6. CASE FailStart(r)
    BY <2>6 DEF FailStart, Step, LifecycleInv, LifecycleTypeOK, HandedOver, Held
  <2>7. CASE Arrive(r)
    BY <2>7 DEF Arrive, LifecycleInv, LifecycleTypeOK, HandedOver, Held
  <2>8. CASE RunEnds(r)
    BY <2>8 DEF RunEnds, LifecycleInv, LifecycleTypeOK, HandedOver, Held
  <2>9. CASE RunDies(r)
    BY <2>9 DEF RunDies, LifecycleInv, HandedOver, Held
  <2>10. CASE Delivered(r)
    BY <2>10 DEF Delivered, Held, Finish, LifecycleInv, LifecycleTypeOK, RowFirst, HandedOver
  <2>11. CASE GiveUp(r)
    BY <2>11 DEF GiveUp, Held, LifecycleInv, LifecycleTypeOK, RowFirst, HandedOver
  <2>12. CASE Abandon(r)
    BY <2>12 DEF Abandon, LifecycleInv, HandedOver, Held
  <2>13. CASE TimedOut(r)
    BY <2>13 DEF TimedOut, LifecycleInv, HandedOver, Held
  <2>14. CASE DeliveredLate(r)
    BY <2>14 DEF DeliveredLate, Finish, LifecycleInv, LifecycleTypeOK, RowFirst, HandedOver, Held
  <2> QED
    BY <1>1, <2>1, <2>2, <2>3, <2>4, <2>5, <2>6, <2>7, <2>8, <2>9, <2>10, <2>11, <2>12, <2>13, <2>14 DEF Proceed
<1>2. CASE Restart
  BY <1>2 DEF Restart, Held, LifecycleInv, LifecycleTypeOK, RowFirst, HandedOver
<1>3. ASSUME NEW status \in IncidentStatuses, UpdateIncidentStatus(status)
      PROVE  HandedOver'
  BY <1>3 DEF UpdateIncidentStatus, LifecycleInv, HandedOver, Held
<1>4. CASE UNCHANGED lifecycle_vars
  BY <1>4 DEF lifecycle_vars, LifecycleInv, HandedOver, Held
<1> QED
  BY <1>1, <1>2, <1>3, <1>4 DEF LifecycleNext

\* Whatever takes an investigation's status away sets the incident's too.
LEMMA StatusKept == LifecycleInv /\ [LifecycleNext]_lifecycle_vars => ShownStatusIsEarned'
<1> SUFFICES ASSUME LifecycleInv, [LifecycleNext]_lifecycle_vars PROVE ShownStatusIsEarned'
  OBVIOUS
<1> USE DEF rows, start, service, history
<1>1. ASSUME NEW r \in Requests, LoadIncident(r) \/ Proceed(r) \/ Abandon(r) \/ TimedOut(r) \/ DeliveredLate(r)
      PROVE  ShownStatusIsEarned'
  <2>1. CASE LoadIncident(r)
    BY <2>1 DEF LoadIncident, Step, LifecycleInv, ShownStatusIsEarned, Busy
  <2>2. CASE CheckRunning(r)
    BY <2>2 DEF CheckRunning, Step, LifecycleInv, ShownStatusIsEarned, Busy
  <2>3. CASE Save(r)
    BY <2>3 DEF Save, Step, LifecycleInv, LifecycleTypeOK, RowFirst, ShownStatusIsEarned, Busy
  <2>4. CASE Accepted(r)
    BY <2>4 DEF Accepted, Step, LifecycleInv, ShownStatusIsEarned, Busy
  <2>5. CASE Unavailable(r)
    BY <2>5 DEF Unavailable, Step, LifecycleInv, ShownStatusIsEarned, Busy
  <2>6. CASE FailStart(r)
    BY <2>6 DEF FailStart, Step, LifecycleInv, LifecycleTypeOK, ShownStatusIsEarned, Busy
  <2>7. CASE Arrive(r)
    BY <2>7 DEF Arrive, LifecycleInv, ShownStatusIsEarned, Busy
  <2>8. CASE RunEnds(r)
    BY <2>8 DEF RunEnds, LifecycleInv, ShownStatusIsEarned, Busy
  <2>9. CASE RunDies(r)
    BY <2>9 DEF RunDies, LifecycleInv, ShownStatusIsEarned, Busy
  <2>10. CASE Delivered(r)
    BY <2>10 DEF Delivered, Finish, LifecycleInv, LifecycleTypeOK, ShownStatusIsEarned, Busy
  <2>11. CASE GiveUp(r)
    BY <2>11 DEF GiveUp, LifecycleInv, ShownStatusIsEarned, Busy
  <2>12. CASE Abandon(r)
    BY <2>12 DEF Abandon, LifecycleInv, ShownStatusIsEarned, Busy
  <2>13. CASE TimedOut(r)
    BY <2>13 DEF TimedOut, LifecycleInv, ShownStatusIsEarned, Busy
  <2>14. CASE DeliveredLate(r)
    BY <2>14 DEF DeliveredLate, Finish, LifecycleInv, LifecycleTypeOK, ShownStatusIsEarned, Busy
  <2> QED
    BY <1>1, <2>1, <2>2, <2>3, <2>4, <2>5, <2>6, <2>7, <2>8, <2>9, <2>10, <2>11, <2>12, <2>13, <2>14 DEF Proceed
<1>2. CASE Restart
  BY <1>2 DEF Restart, LifecycleInv, ShownStatusIsEarned, Busy
<1>3. ASSUME NEW status \in IncidentStatuses, UpdateIncidentStatus(status)
      PROVE  ShownStatusIsEarned'
  BY <1>3 DEF UpdateIncidentStatus, ShownStatusIsEarned
<1>4. CASE UNCHANGED lifecycle_vars
  BY <1>4 DEF lifecycle_vars, LifecycleInv, ShownStatusIsEarned, Busy
<1> QED
  BY <1>1, <1>2, <1>3, <1>4 DEF LifecycleNext

-----------------------------------------------------------------------------
(* Theorems.                                                               *)

\* The inductive invariant holds however many requests race.
THEOREM LifecycleInvariance == LifecycleSpec => []LifecycleInv
<1>1. LifecycleInv /\ [LifecycleNext]_lifecycle_vars => LifecycleInv'
  BY TypesKept, RowFirstKept, HandedOverKept, StatusKept DEF LifecycleInv
<1> QED
  BY <1>1, LifecycleInitEstablishes, PTL DEF LifecycleSpec

\* The rows and both services' records keep their types.
THEOREM LifecycleTypeCorrect == LifecycleSpec => []LifecycleTypeOK
<1>1. LifecycleInv => LifecycleTypeOK
  BY DEF LifecycleInv
<1> QED
  BY <1>1, LifecycleInvariance, PTL

\* An investigation stays Running with nobody left to close it only if a restart, a
\* dead run, a terminal event given up or an abandoned start lost its end.
THEOREM OnlyLossLeavesStuck == LifecycleSpec => []StuckOnlyByLoss
<1>1. LifecycleInv => StuckOnlyByLoss
  <2> SUFFICES ASSUME LifecycleInv,
                      NEW r \in Requests, investigation[r] = "Running", r \notin orphaned
               PROVE  Attended(r)
    BY DEF StuckOnlyByLoss
  <2>1. handler[r] \in {"posting", "unavailable", "ended"}
    BY DEF LifecycleInv, LifecycleTypeOK, RowFirst
  <2>2. CASE handler[r] = "ended"
    <3>1. run[r] \in {"running", "ended"}
      BY <2>2 DEF LifecycleInv, LifecycleTypeOK, HandedOver
    <3> QED BY <3>1 DEF LifecycleInv, HandedOver, Attended
  <2> QED BY <2>1, <2>2 DEF Attended
<1> QED
  BY <1>1, LifecycleInvariance, PTL

\* A status the code gave an incident is accounted for by an investigation of it.
THEOREM ShownStatusEarned == LifecycleSpec => []ShownStatusIsEarned
<1>1. LifecycleInv => ShownStatusIsEarned
  BY DEF LifecycleInv
<1> QED
  BY <1>1, LifecycleInvariance, PTL

=============================================================================
