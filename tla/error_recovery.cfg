SPECIFICATION FairSpec
CONSTANTS
    NCaps = 2
    NHard = 2
    Requests <- MCRequests
    Lines <- MCSinkLine
    Messages <- NoMessages
    TxOutcomes <- AnyTx
    Budgets <- B_none
    SlowDischarge = FALSE
    LateVbus = FALSE
    Prompt = FALSE
    Bounce = FALSE
    Torn = FALSE
    PowerOnHeap <- MCZeroHeap
PROPERTIES
    ErrorRecovers
