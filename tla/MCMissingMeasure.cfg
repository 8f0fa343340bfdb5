SPECIFICATION ScanSpec
CONSTANTS
    Silent = Silent
    Encounters <- ScanCases
INVARIANTS
    MissingIsNeverAPass
CHECK_DEADLOCK FALSE
