SPECIFICATION FairRunSpec
CONSTANTS
    ToolBudgets = {6}
    IterationLimits = {2}
    TransitionCeilings = {100}
    MaxHypotheses = 1
PROPERTIES
    RecordSettles
    ClosedRecordStands
CHECK_DEADLOCK FALSE
