SPECIFICATION Spec
CONSTANT Width = 4
INVARIANT RoundTrip
CHECK_DEADLOCK FALSE
