SPECIFICATION CallSpec

CONSTANTS
    None = None
    NoService = NoService
    Calls = {c1}
    Matching = {"object"}
    MaxAttempts = 3
    Texts <- MCTexts
    Questions <- MCQuestions
    Decisions <- MCDecisions
    Hints <- MCHints

INVARIANTS
    OneRowPerCall

CHECK_DEADLOCK FALSE
