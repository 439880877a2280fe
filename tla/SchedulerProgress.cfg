SPECIFICATION FairSpec
CONSTANTS
  q1 = q1 q2 = q2 q3 = q3 q4 = q4
  home = home lab = lab cloud = cloud
  k1 = k1 k2 = k2
  owner = owner turn = turn
  Requests = {q1, q2, q3}
  Profiles = {home, cloud}
  LocalProfiles = {home}
  Keys = {k1, k2}
  Probers = {b1}
  Scopes = {}
  ProfileOf <- ProgressProfileOf
  KeyOf <- OwnKey
  Rank <- ProgressRank
  Cost <- UnitCost
  ScopesOf <- NoScopes
  Budget <- NoBudget
  GlobalLimit = 1
  RemoteLimit = 4
  QueueLimit = 2
  AgingTicks = 1
  FaultyRows = {q1}
  MaxWait = 1
  MaxRestarts = 1
INVARIANTS SlotsAccounted WorkConserving
PROPERTIES AgedNeverOvertaken EveryCallReturns
