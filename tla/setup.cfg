SPECIFICATION FairSpec
CONSTANTS
    Deals <- MCDeals
    M_SW_DELAY = 2
    Tries = 1
    Faults = 1
INVARIANTS
    TypeOK
    SupplyMatches
    AlarmsFit
    UnitsAgree
    ModeInForce
    ModeKept
PROPERTIES
    PressActs
