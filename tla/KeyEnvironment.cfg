SPECIFICATION KeySpec
CONSTANTS
    None = None
    Fds = {3, 4}
INVARIANTS
    EnvironmentOverwritten
CHECK_DEADLOCK FALSE
