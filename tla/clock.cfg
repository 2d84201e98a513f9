SPECIFICATION FairSpec
CONSTANTS
    Base = 4
    Slip = 1
    Delays = {1, 3}
    Cap = 7
INVARIANTS
    TypeOK
    FreshRead
    NeverLate
PROPERTIES
    NeverEarly
    DeadlineNotEarly
    WaitEnds
