SPECIFICATION StackSpec
CONSTANTS
    StackAnswers <- BundledProvider
INVARIANTS
    RefusalIsForetold
CHECK_DEADLOCK FALSE
