SPECIFICATION Spec
CONSTANTS
    NCaps = 2
    NHard = 2
    Requests <- MCRequests
    Lines <- MCAccLines
    Messages <- NoMessages
    TxOutcomes <- AnyTx
    Budgets <- B_attach
    SlowDischarge = TRUE
    LateVbus = TRUE
    Prompt = FALSE
    Bounce = TRUE
    Torn = TRUE
    PowerOnHeap <- MCAnyHeap
INVARIANTS
    TypeOK
    NoOrphanVbus
    TimerArmed
    StateEntered
