SPECIFICATION FairSpec
CONSTANTS
    NCaps = 2
    NHard = 2
    Requests <- MCRequests
    Lines <- MCCableLines
    Messages <- NoMessages
    TxOutcomes <- NoTx
    Budgets <- B_serve
    SlowDischarge = TRUE
    LateVbus = FALSE
    Prompt = FALSE
    Bounce = FALSE
    Torn = FALSE
    PowerOnHeap <- MCZeroHeap
PROPERTIES
    SinkServed
    VbusGoesOff
