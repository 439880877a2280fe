SPECIFICATION Spec
CONSTANTS
  StepKeys <- OneStep
  Dependencies <- Independent
  KindOf <- Propose
  PlanReview = FALSE
  GoalRuns = {}
  Proposing = {2}
  Verdicts = {}
  MaxPlans = 1
  MaxRuns = 2
  MaxAttempts = 2
  MaxEffects = 1
  MaxGeneration = 2
  MaxRevision = 4
  MaxRestarts = 1
INVARIANTS ReconciledBeforeContinuing
CHECK_DEADLOCK FALSE
