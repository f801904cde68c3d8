CONSTANT Agent = {"a1"}
SPECIFICATION Spec
CHECK_DEADLOCK FALSE
PROPERTY RetryOnlyIfLive
