SPECIFICATION WizardSpec
CONSTANTS
    Answers <- AddressAnswers
    MaxPasswords = 1
INVARIANTS
    DerivedFollows
CHECK_DEADLOCK FALSE
