SPECIFICATION Spec
CONSTANTS
  q1 = q1 q2 = q2 q3 = q3 q4 = q4
  home = home lab = lab cloud = cloud
  k1 = k1 k2 = k2
  owner = owner turn = turn
  Requests = {q1, q2, q3}
  Profiles = {home, lab}
  LocalProfiles = {home, lab}
  Keys = {k1}
  Probers = {b1}
  Scopes = {}
  ProfileOf <- PairProfileOf
  KeyOf <- OneGroup
  Rank <- FlatRank
  Cost <- UnitCost
  ScopesOf <- NoScopes
  Budget <- NoBudget
  GlobalLimit = 8
  RemoteLimit = 4
  QueueLimit = 64
  AgingTicks = 1
  FaultyRows = {}
  MaxWait = 0
  MaxRestarts = 0
INVARIANTS CancelledStaysQuarantined
