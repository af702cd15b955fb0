CONSTANTS
  Original = original
  Updates = {u1, u2}
  Restarts = {r1}
  Lifetime = 1
  MaxNow = 1
  NoToken = noToken
SYMMETRY Alike
SPECIFICATION GateSpec
INVARIANTS
  SomethingRuns
  RanAsApproved
PROPERTIES
  ApprovalOpensItsCall
  RemovedForASuccessor
CHECK_DEADLOCK FALSE
