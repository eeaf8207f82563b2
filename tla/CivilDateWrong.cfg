SPECIFICATION DateSpec
CONSTANT LAST_DAY = 49710
INVARIANTS
    DateIsCivil
CHECK_DEADLOCK FALSE
