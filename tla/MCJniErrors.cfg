CONSTANTS
    Failures = {"oom", "null"}
SPECIFICATION Spec
INVARIANT FailsCleanly
CHECK_DEADLOCK FALSE
