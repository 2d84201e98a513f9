SPECIFICATION Spec
CONSTANTS
    NCaps = 2
    NHard = 2
    Requests <- MCRequests
    Lines <- MCSinkLine
    Messages <- ReqMessages
    TxOutcomes <- AnyTx
    Budgets <- B_one
    SlowDischarge = FALSE
    LateVbus = FALSE
    Prompt = TRUE
    Bounce = FALSE
    Torn = FALSE
    PowerOnHeap <- MCZeroHeap
INVARIANTS
    SoftResetSent
