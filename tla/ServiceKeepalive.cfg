CONSTANTS
    DegradedAfter = 1
    MaxStarts = 1
SPECIFICATION ServiceFairSpec
PROPERTIES
    PingsGoOn
CHECK_DEADLOCK FALSE
