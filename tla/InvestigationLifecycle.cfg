SPECIFICATION FairLifecycleSpec
CONSTANTS
    Requests = {r1, r2}
INVARIANTS
    StuckOnlyByLoss
    ShownStatusIsEarned
PROPERTIES
    InvestigationsEnd
CHECK_DEADLOCK FALSE
