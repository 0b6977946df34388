SPECIFICATION Spec
INVARIANT SynchronisationHolds
CHECK_DEADLOCK FALSE
