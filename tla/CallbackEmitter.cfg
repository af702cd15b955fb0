SPECIFICATION FairEmitterSpec
CONSTANTS
    MaxEvents = 6
    DEFAULT_MAX_ATTEMPTS = 3
    TERMINAL_MAX_ATTEMPTS = 5
    DEFAULT_BUFFER_LIMIT = 3
INVARIANTS
    EveryEventAccountedFor
    BufferKeepsNewest
    LeftBehindOnlyUnanswered
PROPERTIES
    EmitReturns
CHECK_DEADLOCK FALSE
