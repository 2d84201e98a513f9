SPECIFICATION FairSpec
CONSTANTS
    Size = 3
    MaxLen = 2
    Calls <- MCCalls
    Faults <- MCFaults
INVARIANTS
    TypeOK
    InBounds
PROPERTIES
    Implements
    TransferEnds
