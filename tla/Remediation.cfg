SPECIFICATION FairRemediationSpec
CONSTANTS
    Requests = {q1, q2}
    Rates = {10, 20, 40}
    Timeouts = {15, 60}
INVARIANTS
    UnderWayIsAttended
    OneDecisionActs
    VerifiedIsMeasured
PROPERTIES
    RemediationSettles
CHECK_DEADLOCK FALSE
