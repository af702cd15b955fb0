SPECIFICATION CallSpec

CONSTANTS
    None = None
    NoService = NoService
    Calls = {c1, c2}
    Matching = {"object"}
    MaxAttempts = 3
    Texts <- MCTexts
    Questions <- MCQuestions
    Decisions <- MCDecisions
    Hints <- MCHints

INVARIANTS
    CostsAddUp
    PlanServesTheQuestion

SYMMETRY Symmetry

CHECK_DEADLOCK FALSE
