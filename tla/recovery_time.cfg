SPECIFICATION Spec
CONSTANTS
    NCaps = 2
    NHard = 2
    Requests <- MCRequests
    Lines <- MCSinkLine
    Messages <- NoMessages
    TxOutcomes <- NoTx
    Budgets <- B_reset
    SlowDischarge = FALSE
    LateVbus = FALSE
    Prompt = FALSE
    Bounce = FALSE
    Torn = FALSE
    PowerOnHeap <- MCZeroHeap
PROPERTIES
    RecoveryKeepsRpOpen
