SPECIFICATION Spec
CONSTANTS
    ToolBudgets = {6, 25}
    IterationLimits = {1, 6}
    TransitionCeilings = {23, 43}
    MaxHypotheses = 2
INVARIANTS
    CeilingIsATripwire
    FixNeedsAcceptedConclusion
    RequeuedCollectorIsAfforded
    BudgetOf22Suffices
PROPERTIES
    PublishedConclusionStands
    FollowsContract
CHECK_DEADLOCK FALSE
