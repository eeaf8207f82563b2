SPECIFICATION OptionSpec
CONSTANTS
    None = None
    Items <- AllItems
    Numbers <- MCNumbers
    MAX_ITEMS = 3
INVARIANTS
    LastOccurrenceWins
CHECK_DEADLOCK FALSE
