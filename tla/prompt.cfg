SPECIFICATION Spec
CONSTANTS
    NCaps = 2
    NHard = 2
    Requests <- MCRequests
    Lines <- MCLines
    Messages <- PdMessages
    TxOutcomes <- AnyTx
    Budgets <- B_prompt
    SlowDischarge = FALSE
    LateVbus = FALSE
    Prompt = TRUE
    Bounce = TRUE
    Torn = TRUE
    PowerOnHeap <- MCZeroHeap
INVARIANTS
    ContractVoltage
    RpOkInReady
    NoOrphanVbus
    NoOrphanVconn
