SPECIFICATION BackgroundSpec
CONSTANTS
  Parts = {"scheduler", "goal"}
  q1 = q1 q2 = q2 q3 = q3 q4 = q4
  home = home lab = lab cloud = cloud
  k1 = k1 k2 = k2
  owner = owner turn = turn
  Requests = {q1, q2, q3}
  Profiles = {home, cloud}
  LocalProfiles = {home}
  Keys = {k1}
  Probers = {b1, b2}
  Scopes = {owner, turn}
  ProfileOf <- GroupProfileOf
  KeyOf <- OneGroup
  Rank <- FlatRank
  Cost <- LedgerCost
  ScopesOf <- LedgerScopes
  Budget <- LedgerBudget
  GlobalLimit = 8
  RemoteLimit = 4
  QueueLimit = 1
  AgingTicks = 1
  FaultyRows = {q1, q2, q3}
  MaxWait = 0
  MaxRestarts = 1
  Workers = {b1, b2}
  Owner = owner
  MaxActions = 9
  MaxAttempts = 1
  MaxEvents = 1
SYMMETRY Interchangeable
INVARIANTS
  CancelledStaysQuarantined LocalExclusive BudgetHeld LedgerHonest
  ChargedBeforeActing StopEndsCommand
PROPERTIES
  StopTakesPrecedence CompletedOnPassingGates
