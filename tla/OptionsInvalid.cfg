SPECIFICATION OptionSpec
CONSTANTS
    None = None
    Items <- DecryptItems
    Numbers <- MCNumbers
    MAX_ITEMS = 3
INVARIANTS
    InvalidRefused
CHECK_DEADLOCK FALSE
