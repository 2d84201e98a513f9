SPECIFICATION FairSpec
CONSTANTS
    Alerts = 3
    Resets = 1
INVARIANTS
    TypeOK
    NoNestedTransfer
    NothingForgotten
    OwnOutcome
    AnswerHeard
PROPERTIES
    AlertServed
