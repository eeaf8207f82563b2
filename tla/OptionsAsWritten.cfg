SPECIFICATION OptionSpec
CONSTANTS
    None = None
    Items <- SignItems
    Numbers <- MCNumbers
    MAX_ITEMS = 3
INVARIANTS
    AsWritten
CHECK_DEADLOCK FALSE
