SPECIFICATION Spec
INVARIANTS NoEarlyFailure SuccessLosesNothing
PROPERTIES CalmRunSucceeds RunReturns NoGoroutineLeft
CHECK_DEADLOCK FALSE
