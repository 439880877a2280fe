SPECIFICATION Spec
CONSTANTS
  c1 = c1 c2 = c2 c3 = c3
  Calls = {c1, c2, c3}
  MaxTurns = 1
  MaxApprovals = 1
  MaxMessages = 0
  MaxCommands = 1
  MaxRestarts = 0
CHECK_DEADLOCK FALSE
SYMMETRY Interchangeable
INVARIANTS StoppedIsOver
