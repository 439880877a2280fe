SPECIFICATION Spec
CONSTANTS
  StepKeys <- TwoSteps
  Dependencies <- Chained
  KindOf <- ProposeThenRun
  PlanReview = TRUE
  GoalRuns = {2}
  Proposing = {1}
  Verdicts = {"pass", "fail"}
  MaxPlans = 2
  MaxRuns = 2
  MaxAttempts = 2
  MaxEffects = 2
  MaxGeneration = 2
  MaxRevision = 4
  MaxRestarts = 1
ACTION_CONSTRAINT StaysInFocus
INVARIANTS TypeOK NothingDenied InFlightBelongsToOwner OneActorPerStep DoubtStopsTheRun ReviewedBeforeWork CompletedSettled CompletedOnEvidence VerifyingIsFinished
PROPERTIES FollowsLedger
CHECK_DEADLOCK FALSE
