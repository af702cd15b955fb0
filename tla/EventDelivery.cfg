SPECIFICATION DeliverySpec
CONSTANTS
    Titles = {A, B}
    Actions = {"RESTART"}
    None = None
    MaxLate = 1
    MaxEvents = 9
    DEFAULT_MAX_ATTEMPTS = 1
    TERMINAL_MAX_ATTEMPTS = 1
    DEFAULT_BUFFER_LIMIT = 2
INVARIANTS
    ResultSurvivesDelivery
    RootCauseIsLinked
PROPERTIES
    ClosingLeavesOneLeader
SYMMETRY TitleSymmetry
CHECK_DEADLOCK FALSE
