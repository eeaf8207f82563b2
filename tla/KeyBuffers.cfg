SPECIFICATION KeySpec
CONSTANTS
    None = None
    Fds = {3, 4}
INVARIANTS
    UsedSecretsWiped
CHECK_DEADLOCK FALSE
