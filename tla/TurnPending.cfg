SPECIFICATION Spec
CONSTANTS
  Calls = {c1, c2}
  c1 = c1
  c2 = c2
  MaxTurns = 1
  MaxApprovals = 1
  MaxMessages = 0
  MaxCommands = 1
  MaxRestarts = 1
CHECK_DEADLOCK FALSE
INVARIANTS PendingIsDecidable
