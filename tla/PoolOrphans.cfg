SPECIFICATION ServicesSpec
CONSTANTS
  Parts = {"pool"}
  Calls = {a1, a2, a3}
  Files = {b1, b2}
  MaxLeases = 2
  MaxEdits = 1
  MaxStops = 1
  Callers = {b1, b2}
  MaxEntries = 3
  MaxSaves = 1
  t1 = t1
  t2 = t2
  t3 = t3
  TeamTasks = {t1, t2, t3}
  DependsOn <- Synthesis
  MaxParallel = 2
  MaxApprovals = 2
  MaxLives = 1
  Writers = {a1, a2, a3}
  Texts = {b1, b2}
  MaxChanges = 1
  MaxBoots = 1
  MaxBlobs = 2
  MaxPlans = 2
  Keepers = {b1, b2}
  Savers = {s1}
  MaxTouches = 2
  MaxFaults = 1
SYMMETRY Interchangeable
CHECK_DEADLOCK FALSE
INVARIANT NoOrphanProcess
