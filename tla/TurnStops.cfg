SPECIFICATION TurnWorkSpec
CONSTANTS
  Parts = {"turn", "retry", "learning", "skills"}
  Calls = {c1, c2}
  MaxTurns = 2
  MaxApprovals = 1
  MaxMessages = 1
  MaxCommands = 1
  MaxRestarts = 1
  Retriers = {c1, c2}
  MaxAutoRetryAttempts = 2
  MaxRequests = 2
  MaxCrashes = 2
  x1 = x1 x2 = x2
  Triggers = {x1, x2}
  Milestone <- OneMilestone
  Drainers = {c1, c2}
  Reviewers = {r1}
  Revisions = 2
  MaxFailures = 1
  MaxStarts = 1
  MaxCandidates = 1
  MaxRevision = 2
  Deciders = {c1, c2}
  MaxActs = 5
CHECK_DEADLOCK FALSE
SYMMETRY Interchangeable
INVARIANTS
  ClaimHoldsLease OneAttempt StopWins StoppedIsQuiet UnconfirmedKeepsLease QueueIsTruthful StopHasAnOwner
  AllowanceHeld
  EvidenceReviewedOnce PromotedAsGated
PROPERTIES
  AutomaticIsWanted FollowsHistory
