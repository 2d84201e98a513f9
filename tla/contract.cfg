SPECIFICATION Spec
CONSTANTS
    NCaps = 2
    NHard = 2
    Requests <- MCRequests
    Lines <- MCPlainLines
    Messages <- AllMessages
    TxOutcomes <- AnyTx
    Budgets <- B_contract
    SlowDischarge = FALSE
    LateVbus = FALSE
    Prompt = FALSE
    Bounce = TRUE
    Torn = TRUE
    PowerOnHeap <- MCZeroHeap
INVARIANTS
    HighVoltageUnderContract
    TimerArmed
    StateEntered
PROPERTIES
    VbusStartsAt5V
    PowersAsPromised
