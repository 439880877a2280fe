SPECIFICATION Spec
CONSTANTS
  StepKeys <- OneStep
  Dependencies <- Independent
  KindOf <- Execute
  PlanReview = FALSE
  GoalRuns = {}
  Proposing = {}
  Verdicts = {}
  MaxPlans = 1
  MaxRuns = 1
  MaxAttempts = 1
  MaxEffects = 1
  MaxGeneration = 2
  MaxRevision = 3
  MaxRestarts = 0
INVARIANTS NotStartedIsTrue
CHECK_DEADLOCK FALSE
