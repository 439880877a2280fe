SPECIFICATION RetrySpec
CONSTANTS
  Retriers = {w1}
  MaxAutoRetryAttempts = 3
  MaxRequests = 1
  MaxCrashes = 1
CHECK_DEADLOCK FALSE
PROPERTY StopIsNotContinued
