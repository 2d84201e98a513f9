----------------------------- MODULE AlertProofs -----------------------------
(***************************************************************************)
(* AlertPath keeps transfers apart and forgets no alert, proved.             *)
(***************************************************************************)
EXTENDS AlertPath, TLAPS

-----------------------------------------------------------------------------
(* The inductive invariant, in parts.                                        *)

\* TypeOK in two halves.
FlagTypes ==
    /\ reset \in BOOLEAN /\ answering \in BOOLEAN /\ mine \in BOOLEAN
    /\ flag \in BOOLEAN /\ int_en \in BOOLEAN
    /\ dropped \in BOOLEAN /\ missed \in BOOLEAN
OtherTypes ==
    /\ alert \subseteq Bits /\ status \subseteq Bits
    /\ unseen \subseteq Bits /\ spared \subseteq Bits /\ risk \subseteq {"CC", "FAULT"}
    /\ pd_events \subseteq {"CC", "RX", "HARD_RST"}
    /\ left \in [alerts : Nat, resets : Nat]
    /\ context \in {"none", "main", "isr"}
    /\ hpc \in {"none", "check", "read", "fault", "clear", "receive", "rest", "leave", "exit", "hung"}
    /\ pc \in {"boot", "poll", "events", "work", "transfer", "fill", "transmit", "wait"}
    /\ tx_complete \in {"no", "own", "old"}

\* Who runs the handler, and who may: int_en is 1 neither while it runs nor in
\* a transfer of the main program.
ContextInv ==
    /\ context = "none" <=> hpc = "none"
    /\ hpc \in {"exit", "hung"} => context = "isr"
    /\ context = "main" => pc = "poll"
    /\ int_en => context = "none" \/ hpc = "exit"
    /\ pc \in {"boot", "transfer", "transmit"} => context = "none" /\ ~int_en

\* What was latched and not acted on is latched still, or in the handler's copy, or
\* was let go. A change of CC that waits has its event, until a reset is handled; a
\* reset that waits is in FAULT_STATUS, and was read unless it came after that.
HeldInv ==
    /\ hpc = "fault" /\ "CC" \in status => "CC" \in pd_events /\ "CC" \notin unseen
    /\ hpc = "clear" /\ "CC" \in status \ risk => "CC" \in pd_events /\ "CC" \notin unseen
    /\ "FAULT" \in unseen => reset
    /\ hpc = "clear" /\ "FAULT" \in status \ risk => "FAULT" \notin unseen
    /\ hpc = "hung" => unseen \cap {"FAULT"} \subseteq alert
    /\ hpc \notin {"receive", "rest"} => unseen \subseteq alert \cup spared
    /\ hpc = "receive" => unseen \subseteq alert \cup spared \cup (status \ {"CC", "FAULT"})
    /\ hpc = "rest" => unseen \subseteq alert \cup spared \cup (status \cap {"HARD_RST", "TX"})

\* The handler can see the outcome of a transmission.
Reads == hpc \in {"fault", "clear", "receive", "rest"}
Finds == ((flag \/ ~Idle) /\ "TX" \in alert) \/ (Reads /\ "TX" \in status)

\* An outcome is owed only in the wait for it, and what the handler finds there is
\* that outcome: one left over from an earlier transmission has no edge to come.
OutcomeInv ==
    /\ answering => pc = "wait" /\ ~mine /\ tx_complete = "no"
    /\ pc \in {"fill", "transmit"} => tx_complete = "no" /\ ~mine /\ ~Finds
    /\ pc = "wait" => tx_complete # "old" /\ (Finds => mine)

\* A pin that is low at rest, or when the main loop has looked at it for the last
\* time, has its flag set, or an edge was dropped.
EdgeInv == Low /\ ~flag /\ (Idle \/ (context = "main" /\ hpc = "leave")) => dropped

\* The outcome awaited is latched, or in the handler's copy.
WaitInv ==
    pc = "wait" /\ ~answering /\ tx_complete = "no" /\ ~missed =>
        "TX" \in alert \/ (hpc \in {"receive", "rest"} /\ "TX" \in status)

IInv == FlagTypes /\ OtherTypes /\ ContextInv /\ HeldInv /\ OutcomeInv /\ EdgeInv /\ WaitInv

-----------------------------------------------------------------------------
(* Every step keeps every part.                                              *)

\* Every flag keeps its type.
LEMMA FlagStep ==
    ASSUME FlagTypes, OtherTypes, [Next]_vars
    PROVE  FlagTypes'
<1>1. CASE Alert
    BY <1>1 DEF Alert, Latch, FallingEdge, Low, vars, tcpc, history, handler, FlagTypes
<1>2. CASE Answer
    BY <1>2 DEF Answer, Latch, FallingEdge, Low, vars, tcpc, history, handler, FlagTypes
<1>3. CASE LoseRegisters
    BY <1>3 DEF LoseRegisters, FallingEdge, Low, vars, tcpc, history, handler, FlagTypes
<1>4. CASE PortInterrupt
    BY <1>4 DEF PortInterrupt, Enter, Idle, Low, vars, tcpc, history, handler, FlagTypes
<1>5. CASE CheckPin
    BY <1>5 DEF CheckPin, Quiet, Low, vars, tcpc, history, handler, FlagTypes
<1>5a. CASE LeaveHandler
    BY <1>5a DEF LeaveHandler, Low, vars, tcpc, history, handler, FlagTypes
<1>6. CASE LeaveInterrupt
    BY <1>6 DEF LeaveInterrupt, Low, vars, tcpc, history, handler, FlagTypes
<1>7. CASE ReadStatus
    BY <1>7 DEF ReadStatus, vars, tcpc, history, handler, FlagTypes
<1>8. CASE Fault
    BY <1>8 DEF Fault, vars, tcpc, history, handler, FlagTypes
<1>9. CASE ClearAlerts
    BY <1>9 DEF ClearAlerts, Excuse, Quiet, vars, tcpc, history, handler, FlagTypes
<1>10. CASE Receive
    BY <1>10 DEF Receive, vars, tcpc, history, handler, FlagTypes
<1>11. CASE ReceiveShort
    BY <1>11 DEF ReceiveShort, vars, tcpc, history, handler, FlagTypes
<1>12. CASE NoMessage
    BY <1>12 DEF NoMessage, Quiet, vars, tcpc, history, handler, FlagTypes
<1>13. CASE Rest
    BY <1>13 DEF Rest, vars, tcpc, history, handler, FlagTypes
<1>14. CASE Poll
    BY <1>14 DEF Poll, At, Goto, Enter, Idle, Low, vars, tcpc, history, handler, FlagTypes
<1>15. CASE TakeEvents
    BY <1>15 DEF TakeEvents, At, Goto, Idle, vars, tcpc, history, handler, FlagTypes
<1>16. CASE BeginTransfer
    BY <1>16 DEF BeginTransfer, At, Unmask, Idle, Low, vars, tcpc, history, handler, FlagTypes
<1>17. CASE EndTransfer
    BY <1>17 DEF EndTransfer, At, Goto, Idle, vars, tcpc, history, handler, FlagTypes
<1>18. CASE Transmit
    BY <1>18 DEF Transmit, At, Goto, Idle, vars, tcpc, history, handler, FlagTypes
<1>19. CASE BeginTransmit
    BY <1>19 DEF BeginTransmit, At, Goto, Idle, vars, tcpc, history, handler, FlagTypes
<1>20. CASE EndTransmit
    BY <1>20 DEF EndTransmit, At, Goto, Idle, vars, tcpc, history, handler, FlagTypes
<1>21. CASE Completed
    BY <1>21 DEF Completed, At, Goto, Idle, vars, tcpc, history, handler, FlagTypes
<1>22. CASE Timeout
    BY <1>22 DEF Timeout, TimedOut, At, Goto, Idle, vars, tcpc, history, handler, FlagTypes
<1>23. CASE EndPass
    BY <1>23 DEF EndPass, At, Goto, Idle, vars, tcpc, history, handler, FlagTypes
<1>24. CASE Boot
    BY <1>24 DEF Boot, vars, tcpc, history, handler, FlagTypes
<1>25. CASE Watchdog
    BY <1>25 DEF Watchdog, Low, vars, tcpc, history, handler, FlagTypes
<1>26. CASE UNCHANGED vars
    BY <1>26 DEF vars, tcpc, history, handler, FlagTypes
<1> QED
    BY <1>1, <1>2, <1>3, <1>4, <1>5, <1>5a, <1>6, <1>7, <1>8, <1>9, <1>10, <1>11, <1>12, <1>13,
       <1>14,
       <1>15, <1>16, <1>17, <1>18, <1>19, <1>20, <1>21, <1>22, <1>23, <1>24, <1>25, <1>26 DEF
       Next, Irq, Main

\* So does every other variable.
LEMMA OtherStep ==
    ASSUME FlagTypes, OtherTypes, [Next]_vars
    PROVE  OtherTypes'
<1>1. CASE Alert
    BY <1>1 DEF Alert, Latch, FallingEdge, Low, vars, tcpc, history, handler, OtherTypes, Bits
<1>2. CASE Answer
    BY <1>2 DEF Answer, Latch, FallingEdge, Low, vars, tcpc, history, handler, OtherTypes, Bits
<1>3. CASE LoseRegisters
    BY <1>3 DEF LoseRegisters, FallingEdge, Low, vars, tcpc, history, handler, OtherTypes, Bits
<1>4. CASE PortInterrupt
  <2>1. CASE flag /\ int_en /\ Enter("isr")
    BY <2>1 DEF Enter, tcpc, history, OtherTypes, Bits
  <2>2. CASE UNCHANGED <<tcpc, handler, int_en, pc, pd_events, tx_complete, missed>> /\ ~flag'
    BY <2>2 DEF tcpc, history, handler, OtherTypes, Bits
  <2> QED
    BY <1>4, <2>1, <2>2 DEF PortInterrupt
<1>5. CASE CheckPin
    BY <1>5 DEF CheckPin, Quiet, Low, vars, tcpc, history, handler, OtherTypes, Bits
<1>5a. CASE LeaveHandler
    BY <1>5a DEF LeaveHandler, Low, vars, tcpc, history, handler, OtherTypes, Bits
<1>6. CASE LeaveInterrupt
    BY <1>6 DEF LeaveInterrupt, Low, vars, tcpc, history, handler, OtherTypes, Bits
<1>7. CASE ReadStatus
    BY <1>7 DEF ReadStatus, vars, tcpc, history, handler, OtherTypes, Bits
<1>8. CASE Fault
    BY <1>8 DEF Fault, vars, tcpc, history, handler, OtherTypes, Bits
<1>9. CASE ClearAlerts
    BY <1>9 DEF ClearAlerts, Excuse, Quiet, vars, tcpc, history, handler, OtherTypes, Bits
<1>10. CASE Receive
    BY <1>10 DEF Receive, vars, tcpc, history, handler, OtherTypes, Bits
<1>11. CASE ReceiveShort
    BY <1>11 DEF ReceiveShort, vars, tcpc, history, handler, OtherTypes, Bits
<1>12. CASE NoMessage
    BY <1>12 DEF NoMessage, Quiet, vars, tcpc, history, handler, OtherTypes, Bits
<1>13. CASE Rest
    BY <1>13 DEF Rest, vars, tcpc, history, handler, OtherTypes, Bits
<1>14. CASE Poll
    BY <1>14 DEF Poll, At, Goto, Enter, Idle, Low, vars, tcpc, history, handler, OtherTypes, Bits
<1>15. CASE TakeEvents
    BY <1>15 DEF TakeEvents, At, Goto, Idle, vars, tcpc, history, handler, OtherTypes, Bits
<1>16. CASE BeginTransfer
    BY <1>16 DEF BeginTransfer, At, Unmask, Idle, Low, vars, tcpc, history, handler, OtherTypes,
       Bits
<1>17. CASE EndTransfer
    BY <1>17 DEF EndTransfer, At, Goto, Idle, vars, tcpc, history, handler, OtherTypes, Bits
<1>18. CASE Transmit
    BY <1>18 DEF Transmit, At, Goto, Idle, vars, tcpc, history, handler, OtherTypes, Bits
<1>19. CASE BeginTransmit
    BY <1>19 DEF BeginTransmit, At, Goto, Idle, vars, tcpc, history, handler, OtherTypes, Bits
<1>20. CASE EndTransmit
    BY <1>20 DEF EndTransmit, At, Goto, Idle, vars, tcpc, history, handler, OtherTypes, Bits
<1>21. CASE Completed
    BY <1>21 DEF Completed, At, Goto, Idle, vars, tcpc, history, handler, OtherTypes, Bits
<1>22. CASE Timeout
    BY <1>22 DEF Timeout, TimedOut, At, Goto, Idle, vars, tcpc, history, handler, OtherTypes, Bits
<1>23. CASE EndPass
    BY <1>23 DEF EndPass, At, Goto, Idle, vars, tcpc, history, handler, OtherTypes, Bits
<1>24. CASE Boot
    BY <1>24 DEF Boot, vars, tcpc, history, handler, OtherTypes, Bits
<1>25. CASE Watchdog
    BY <1>25 DEF Watchdog, Low, vars, tcpc, history, handler, OtherTypes, Bits
<1>26. CASE UNCHANGED vars
    BY <1>26 DEF vars, tcpc, history, handler, OtherTypes, Bits
<1> QED
    BY <1>1, <1>2, <1>3, <1>4, <1>5, <1>5a, <1>6, <1>7, <1>8, <1>9, <1>10, <1>11, <1>12, <1>13,
       <1>14,
       <1>15, <1>16, <1>17, <1>18, <1>19, <1>20, <1>21, <1>22, <1>23, <1>24, <1>25, <1>26 DEF
       Next, Irq, Main

\* The handler and the transfers stay apart.
LEMMA ContextStep ==
    ASSUME FlagTypes, OtherTypes, ContextInv, [Next]_vars
    PROVE  ContextInv'
<1>1. CASE Alert
    BY <1>1 DEF Alert, Latch, FallingEdge, Low, vars, tcpc, history, handler, OtherTypes, ContextInv
<1>2. CASE Answer
    BY <1>2 DEF Answer, Latch, FallingEdge, Low, vars, tcpc, history, handler, OtherTypes,
       ContextInv
<1>3. CASE LoseRegisters
    BY <1>3 DEF LoseRegisters, FallingEdge, Low, vars, tcpc, history, handler, OtherTypes,
       ContextInv
<1>4. CASE PortInterrupt
  <2>1. CASE flag /\ int_en /\ Enter("isr")
    BY <2>1 DEF Enter, tcpc, history, ContextInv
  <2>2. CASE UNCHANGED <<tcpc, handler, int_en, pc, pd_events, tx_complete, missed>> /\ ~flag'
    BY <2>2 DEF tcpc, history, handler, ContextInv
  <2> QED
    BY <1>4, <2>1, <2>2 DEF PortInterrupt
<1>5. CASE CheckPin
    BY <1>5 DEF CheckPin, Quiet, Low, vars, tcpc, history, handler, OtherTypes, ContextInv
<1>5a. CASE LeaveHandler
    BY <1>5a DEF LeaveHandler, Low, vars, tcpc, history, handler, OtherTypes, ContextInv
<1>6. CASE LeaveInterrupt
    BY <1>6 DEF LeaveInterrupt, Low, vars, tcpc, history, handler, OtherTypes, ContextInv
<1>7. CASE ReadStatus
    BY <1>7 DEF ReadStatus, vars, tcpc, history, handler, OtherTypes, ContextInv
<1>8. CASE Fault
    BY <1>8 DEF Fault, vars, tcpc, history, handler, OtherTypes, ContextInv
<1>9. CASE ClearAlerts
    BY <1>9 DEF ClearAlerts, Excuse, Quiet, vars, tcpc, history, handler, OtherTypes, ContextInv
<1>10. CASE Receive
    BY <1>10 DEF Receive, vars, tcpc, history, handler, OtherTypes, ContextInv
<1>11. CASE ReceiveShort
    BY <1>11 DEF ReceiveShort, vars, tcpc, history, handler, OtherTypes, ContextInv
<1>12. CASE NoMessage
    BY <1>12 DEF NoMessage, Quiet, vars, tcpc, history, handler, OtherTypes, ContextInv
<1>13. CASE Rest
    BY <1>13 DEF Rest, vars, tcpc, history, handler, OtherTypes, ContextInv
<1>14. CASE Poll
    BY <1>14 DEF Poll, At, Goto, Enter, Idle, Low, vars, tcpc, history, handler, OtherTypes,
       ContextInv
<1>15. CASE TakeEvents
    BY <1>15 DEF TakeEvents, At, Goto, Idle, vars, tcpc, history, handler, OtherTypes, ContextInv
<1>16. CASE BeginTransfer
    BY <1>16 DEF BeginTransfer, At, Unmask, Idle, Low, vars, tcpc, history, handler, OtherTypes,
       ContextInv
<1>17. CASE EndTransfer
    BY <1>17 DEF EndTransfer, At, Goto, Idle, vars, tcpc, history, handler, OtherTypes, ContextInv
<1>18. CASE Transmit
    BY <1>18 DEF Transmit, At, Goto, Idle, vars, tcpc, history, handler, OtherTypes, ContextInv
<1>19. CASE BeginTransmit
    BY <1>19 DEF BeginTransmit, At, Goto, Idle, vars, tcpc, history, handler, OtherTypes, ContextInv
<1>20. CASE EndTransmit
    BY <1>20 DEF EndTransmit, At, Goto, Idle, vars, tcpc, history, handler, OtherTypes, ContextInv
<1>21. CASE Completed
    BY <1>21 DEF Completed, At, Goto, Idle, vars, tcpc, history, handler, OtherTypes, ContextInv
<1>22. CASE Timeout
    BY <1>22 DEF Timeout, TimedOut, At, Goto, Idle, vars, tcpc, history, handler, OtherTypes,
       ContextInv
<1>23. CASE EndPass
    BY <1>23 DEF EndPass, At, Goto, Idle, vars, tcpc, history, handler, OtherTypes, ContextInv
<1>24. CASE Boot
    BY <1>24 DEF Boot, vars, tcpc, history, handler, OtherTypes, ContextInv
<1>25. CASE Watchdog
    BY <1>25 DEF Watchdog, Low, vars, tcpc, history, handler, OtherTypes, ContextInv
<1>26. CASE UNCHANGED vars
    BY <1>26 DEF vars, tcpc, history, handler, OtherTypes, ContextInv
<1> QED
    BY <1>1, <1>2, <1>3, <1>4, <1>5, <1>5a, <1>6, <1>7, <1>8, <1>9, <1>10, <1>11, <1>12, <1>13,
       <1>14,
       <1>15, <1>16, <1>17, <1>18, <1>19, <1>20, <1>21, <1>22, <1>23, <1>24, <1>25, <1>26 DEF
       Next, Irq, Main

\* Nothing latched gets out of sight.
LEMMA HeldStep ==
    ASSUME OtherTypes, ContextInv, HeldInv, [Next]_vars
    PROVE  HeldInv'
<1>1. CASE Alert
    BY <1>1 DEF Alert, Latch, FallingEdge, Low, vars, tcpc, history, handler, OtherTypes, Bits,
       ContextInv, HeldInv
<1>2. CASE Answer
    BY <1>2 DEF Answer, Latch, FallingEdge, Low, vars, tcpc, history, handler, OtherTypes, Bits,
       ContextInv, HeldInv
<1>3. CASE LoseRegisters
    BY <1>3 DEF LoseRegisters, FallingEdge, Low, vars, tcpc, history, handler, OtherTypes, Bits,
       ContextInv, HeldInv
<1>4. CASE PortInterrupt
  <2>1. CASE flag /\ int_en /\ Enter("isr")
    BY <2>1 DEF Enter, tcpc, history, ContextInv, HeldInv
  <2>2. CASE UNCHANGED <<tcpc, handler, int_en, pc, pd_events, tx_complete, missed>> /\ ~flag'
    BY <2>2 DEF tcpc, history, handler, ContextInv, HeldInv
  <2> QED
    BY <1>4, <2>1, <2>2 DEF PortInterrupt
<1>5. CASE CheckPin
    BY <1>5 DEF CheckPin, Quiet, Low, vars, tcpc, history, handler, OtherTypes, Bits, ContextInv,
       HeldInv
<1>5a. CASE LeaveHandler
    BY <1>5a DEF LeaveHandler, Low, vars, tcpc, history, handler, OtherTypes, Bits, ContextInv,
       HeldInv
<1>6. CASE LeaveInterrupt
    BY <1>6 DEF LeaveInterrupt, Low, vars, tcpc, history, handler, OtherTypes, Bits, ContextInv,
       HeldInv
<1>7. CASE ReadStatus
    BY <1>7 DEF ReadStatus, vars, tcpc, history, handler, OtherTypes, Bits, ContextInv, HeldInv
<1>8. CASE Fault
    BY <1>8 DEF Fault, vars, tcpc, history, handler, OtherTypes, Bits, ContextInv, HeldInv
<1>9. CASE ClearAlerts
    BY <1>9 DEF ClearAlerts, Excuse, Quiet, vars, tcpc, history, handler, OtherTypes, Bits,
       ContextInv, HeldInv
<1>10. CASE Receive
    BY <1>10 DEF Receive, vars, tcpc, history, handler, OtherTypes, Bits, ContextInv, HeldInv
<1>11. CASE ReceiveShort
    BY <1>11 DEF ReceiveShort, vars, tcpc, history, handler, OtherTypes, Bits, ContextInv,
       HeldInv
<1>12. CASE NoMessage
    BY <1>12 DEF NoMessage, Quiet, vars, tcpc, history, handler, OtherTypes, Bits, ContextInv,
       HeldInv
<1>13. CASE Rest
    BY <1>13 DEF Rest, vars, tcpc, history, handler, OtherTypes, Bits, ContextInv, HeldInv
<1>14. CASE Poll
  <2>1. CASE Enter("main")
    BY <1>14, <2>1 DEF Poll, At, Enter, Idle, tcpc, history, ContextInv, HeldInv
  <2>2. CASE Goto("events") /\ UNCHANGED <<tcpc, int_en, pd_events, tx_complete, missed>>
    BY <2>2 DEF Goto, tcpc, history, handler, HeldInv
  <2> QED
    BY <1>14, <2>1, <2>2 DEF Poll
<1>15. CASE TakeEvents
    BY <1>15 DEF TakeEvents, At, Goto, Idle, vars, tcpc, history, handler, OtherTypes, Bits,
       ContextInv, HeldInv
<1>16. CASE BeginTransfer
    BY <1>16 DEF BeginTransfer, At, Unmask, Idle, Low, vars, tcpc, history, handler, OtherTypes,
       Bits, ContextInv, HeldInv
<1>17. CASE EndTransfer
    BY <1>17 DEF EndTransfer, At, Goto, Idle, vars, tcpc, history, handler, OtherTypes, Bits,
       ContextInv, HeldInv
<1>18. CASE Transmit
    BY <1>18 DEF Transmit, At, Goto, Idle, vars, tcpc, history, handler, OtherTypes, Bits,
       ContextInv, HeldInv
<1>19. CASE BeginTransmit
    BY <1>19 DEF BeginTransmit, At, Goto, Idle, vars, tcpc, history, handler, OtherTypes, Bits,
       ContextInv, HeldInv
<1>20. CASE EndTransmit
    BY <1>20 DEF EndTransmit, At, Goto, Idle, vars, tcpc, history, handler, OtherTypes, Bits,
       ContextInv, HeldInv
<1>21. CASE Completed
    BY <1>21 DEF Completed, At, Goto, Idle, vars, tcpc, history, handler, OtherTypes, Bits,
       ContextInv, HeldInv
<1>22. CASE Timeout
    BY <1>22 DEF Timeout, TimedOut, At, Goto, Idle, vars, tcpc, history, handler, OtherTypes, Bits,
       ContextInv, HeldInv
<1>23. CASE EndPass
    BY <1>23 DEF EndPass, At, Goto, Idle, vars, tcpc, history, handler, OtherTypes, Bits,
       ContextInv, HeldInv
<1>24. CASE Boot
    BY <1>24 DEF Boot, vars, tcpc, history, handler, OtherTypes, Bits, ContextInv, HeldInv
<1>25. CASE Watchdog
    BY <1>25 DEF Watchdog, Low, vars, tcpc, history, handler, OtherTypes, Bits, ContextInv,
       HeldInv
<1>26. CASE UNCHANGED vars
    BY <1>26 DEF vars, tcpc, history, handler, OtherTypes, Bits, ContextInv, HeldInv
<1> QED
    BY <1>1, <1>2, <1>3, <1>4, <1>5, <1>5a, <1>6, <1>7, <1>8, <1>9, <1>10, <1>11, <1>12, <1>13,
       <1>14,
       <1>15, <1>16, <1>17, <1>18, <1>19, <1>20, <1>21, <1>22, <1>23, <1>24, <1>25, <1>26 DEF
       Next, Irq, Main

\* Outcomes are told apart.
LEMMA OutcomeStep ==
    ASSUME OtherTypes, ContextInv, OutcomeInv, [Next]_vars
    PROVE  OutcomeInv'
<1>1. CASE Alert
    BY <1>1 DEF Alert, Latch, FallingEdge, Low, vars, tcpc, history, handler, OtherTypes,
       ContextInv, OutcomeInv, Finds, Reads, Idle
<1>2. CASE Answer
    BY <1>2 DEF Answer, Latch, FallingEdge, Low, vars, tcpc, history, handler, OtherTypes,
       ContextInv, OutcomeInv, Finds, Reads, Idle
<1>3. CASE LoseRegisters
    BY <1>3 DEF LoseRegisters, FallingEdge, Low, vars, tcpc, history, handler, OtherTypes,
       ContextInv, OutcomeInv, Finds, Reads, Idle
<1>4. CASE PortInterrupt
  <2>1. CASE flag /\ int_en /\ Enter("isr")
    BY <2>1 DEF Enter, tcpc, history, ContextInv, OutcomeInv, Finds, Reads, Idle
  <2>2. CASE UNCHANGED <<tcpc, handler, int_en, pc, pd_events, tx_complete, missed>> /\ ~flag'
    BY <2>2 DEF tcpc, history, handler, ContextInv, OutcomeInv, Finds, Reads, Idle
  <2> QED
    BY <1>4, <2>1, <2>2 DEF PortInterrupt
<1>5. CASE CheckPin
    BY <1>5 DEF CheckPin, Quiet, Low, vars, tcpc, history, handler, OtherTypes, ContextInv,
       OutcomeInv, Finds, Reads, Idle
<1>5a. CASE LeaveHandler
    BY <1>5a DEF LeaveHandler, Low, vars, tcpc, history, handler, OtherTypes, ContextInv,
       OutcomeInv, Finds, Reads, Idle
<1>6. CASE LeaveInterrupt
    BY <1>6 DEF LeaveInterrupt, Low, vars, tcpc, history, handler, OtherTypes, ContextInv,
       OutcomeInv, Finds, Reads, Idle
<1>7. CASE ReadStatus
    BY <1>7 DEF ReadStatus, vars, tcpc, history, handler, OtherTypes, ContextInv, OutcomeInv, Finds,
       Reads, Idle
<1>8. CASE Fault
    BY <1>8 DEF Fault, vars, tcpc, history, handler, OtherTypes, ContextInv, OutcomeInv, Finds,
       Reads, Idle
<1>9. CASE ClearAlerts
    BY <1>9 DEF ClearAlerts, Excuse, Quiet, vars, tcpc, history, handler, OtherTypes, ContextInv,
       OutcomeInv, Finds, Reads, Idle
<1>10. CASE Receive
    BY <1>10 DEF Receive, vars, tcpc, history, handler, OtherTypes, ContextInv, OutcomeInv, Finds,
       Reads, Idle
<1>11. CASE ReceiveShort
    BY <1>11 DEF ReceiveShort, vars, tcpc, history, handler, OtherTypes, ContextInv, OutcomeInv,
       Finds, Reads, Idle
<1>12. CASE NoMessage
    BY <1>12 DEF NoMessage, Quiet, vars, tcpc, history, handler, OtherTypes, ContextInv, OutcomeInv,
       Finds, Reads, Idle
<1>13. CASE Rest
    BY <1>13 DEF Rest, vars, tcpc, history, handler, OtherTypes, ContextInv, OutcomeInv, Finds,
       Reads, Idle
<1>14. CASE Poll
    BY <1>14 DEF Poll, At, Goto, Enter, Idle, Low, vars, tcpc, history, handler, OtherTypes,
       ContextInv, OutcomeInv, Finds, Reads
<1>15. CASE TakeEvents
    BY <1>15 DEF TakeEvents, At, Goto, Idle, vars, tcpc, history, handler, OtherTypes, ContextInv,
       OutcomeInv, Finds, Reads
<1>16. CASE BeginTransfer
    BY <1>16 DEF BeginTransfer, At, Unmask, Idle, Low, vars, tcpc, history, handler, OtherTypes,
       ContextInv, OutcomeInv, Finds, Reads
<1>17. CASE EndTransfer
    BY <1>17 DEF EndTransfer, At, Goto, Idle, vars, tcpc, history, handler, OtherTypes, ContextInv,
       OutcomeInv, Finds, Reads
<1>18. CASE Transmit
    BY <1>18 DEF Transmit, At, Goto, Idle, vars, tcpc, history, handler, OtherTypes, ContextInv,
       OutcomeInv, Finds, Reads
<1>19. CASE BeginTransmit
    BY <1>19 DEF BeginTransmit, At, Goto, Idle, vars, tcpc, history, handler, OtherTypes,
       ContextInv, OutcomeInv, Finds, Reads
<1>20. CASE EndTransmit
    BY <1>20 DEF EndTransmit, At, Goto, Idle, vars, tcpc, history, handler, OtherTypes, ContextInv,
       OutcomeInv, Finds, Reads
<1>21. CASE Completed
    BY <1>21 DEF Completed, At, Goto, Idle, vars, tcpc, history, handler, OtherTypes, ContextInv,
       OutcomeInv, Finds, Reads
<1>22. CASE Timeout
    BY <1>22 DEF Timeout, TimedOut, At, Goto, Idle, vars, tcpc, history, handler, OtherTypes,
       ContextInv, OutcomeInv, Finds, Reads
<1>23. CASE EndPass
    BY <1>23 DEF EndPass, At, Goto, Idle, vars, tcpc, history, handler, OtherTypes, ContextInv,
       OutcomeInv, Finds, Reads
<1>24. CASE Boot
    BY <1>24 DEF Boot, vars, tcpc, history, handler, OtherTypes, ContextInv, OutcomeInv, Finds,
       Reads, Idle
<1>25. CASE Watchdog
    BY <1>25 DEF Watchdog, Low, vars, tcpc, history, handler, OtherTypes, ContextInv, OutcomeInv,
       Finds, Reads, Idle
<1>26. CASE UNCHANGED vars
    BY <1>26 DEF vars, tcpc, history, handler, OtherTypes, ContextInv, OutcomeInv, Finds, Reads,
       Idle
<1> QED
    BY <1>1, <1>2, <1>3, <1>4, <1>5, <1>5a, <1>6, <1>7, <1>8, <1>9, <1>10, <1>11, <1>12, <1>13,
       <1>14,
       <1>15, <1>16, <1>17, <1>18, <1>19, <1>20, <1>21, <1>22, <1>23, <1>24, <1>25, <1>26 DEF
       Next, Irq, Main

\* Edges are seen, or marked as dropped.
LEMMA EdgeStep ==
    ASSUME OtherTypes, ContextInv, EdgeInv, [Next]_vars
    PROVE  EdgeInv'
<1>1. CASE Alert
    BY <1>1 DEF Alert, Latch, FallingEdge, Low, vars, tcpc, history, handler, OtherTypes,
       ContextInv, EdgeInv, Idle
<1>2. CASE Answer
    BY <1>2 DEF Answer, Latch, FallingEdge, Low, vars, tcpc, history, handler, OtherTypes,
       ContextInv, EdgeInv, Idle
<1>3. CASE LoseRegisters
    BY <1>3 DEF LoseRegisters, FallingEdge, Low, vars, tcpc, history, handler, OtherTypes,
       ContextInv, EdgeInv, Idle
<1>4. CASE PortInterrupt
    BY <1>4 DEF PortInterrupt, Enter, Idle, Low, vars, tcpc, history, handler, OtherTypes,
       ContextInv, EdgeInv
<1>5. CASE CheckPin
    BY <1>5 DEF CheckPin, Quiet, Low, vars, tcpc, history, handler, OtherTypes, ContextInv, EdgeInv,
       Idle
<1>5a. CASE LeaveHandler
    BY <1>5a DEF LeaveHandler, Low, vars, tcpc, history, handler, OtherTypes, ContextInv, EdgeInv,
       Idle
<1>6. CASE LeaveInterrupt
    BY <1>6 DEF LeaveInterrupt, Low, vars, tcpc, history, handler, OtherTypes, ContextInv, EdgeInv,
       Idle
<1>7. CASE ReadStatus
    BY <1>7 DEF ReadStatus, vars, tcpc, history, handler, OtherTypes, ContextInv, EdgeInv, Low, Idle
<1>8. CASE Fault
    BY <1>8 DEF Fault, vars, tcpc, history, handler, OtherTypes, ContextInv, EdgeInv, Low, Idle
<1>9. CASE ClearAlerts
    BY <1>9 DEF ClearAlerts, Excuse, Quiet, vars, tcpc, history, handler, OtherTypes, ContextInv,
       EdgeInv, Low, Idle
<1>10. CASE Receive
    BY <1>10 DEF Receive, vars, tcpc, history, handler, OtherTypes, ContextInv, EdgeInv, Low, Idle
<1>11. CASE ReceiveShort
    BY <1>11 DEF ReceiveShort, vars, tcpc, history, handler, OtherTypes, ContextInv, EdgeInv, Low,
       Idle
<1>12. CASE NoMessage
    BY <1>12 DEF NoMessage, Quiet, vars, tcpc, history, handler, OtherTypes, ContextInv, EdgeInv,
       Low, Idle
<1>13. CASE Rest
    BY <1>13 DEF Rest, vars, tcpc, history, handler, OtherTypes, ContextInv, EdgeInv, Low, Idle
<1>14. CASE Poll
    BY <1>14 DEF Poll, At, Goto, Enter, Idle, Low, vars, tcpc, history, handler, OtherTypes,
       ContextInv, EdgeInv
<1>15. CASE TakeEvents
    BY <1>15 DEF TakeEvents, At, Goto, Idle, vars, tcpc, history, handler, OtherTypes, ContextInv,
       EdgeInv, Low
<1>16. CASE BeginTransfer
    BY <1>16 DEF BeginTransfer, At, Unmask, Idle, Low, vars, tcpc, history, handler, OtherTypes,
       ContextInv, EdgeInv
<1>17. CASE EndTransfer
    BY <1>17 DEF EndTransfer, At, Goto, Idle, vars, tcpc, history, handler, OtherTypes, ContextInv,
       EdgeInv, Low
<1>18. CASE Transmit
    BY <1>18 DEF Transmit, At, Goto, Idle, vars, tcpc, history, handler, OtherTypes, ContextInv,
       EdgeInv, Low
<1>19. CASE BeginTransmit
    BY <1>19 DEF BeginTransmit, At, Goto, Idle, vars, tcpc, history, handler, OtherTypes,
       ContextInv, EdgeInv, Low
<1>20. CASE EndTransmit
    BY <1>20 DEF EndTransmit, At, Goto, Idle, vars, tcpc, history, handler, OtherTypes, ContextInv,
       EdgeInv, Low
<1>21. CASE Completed
    BY <1>21 DEF Completed, At, Goto, Idle, vars, tcpc, history, handler, OtherTypes, ContextInv,
       EdgeInv, Low
<1>22. CASE Timeout
    BY <1>22 DEF Timeout, TimedOut, At, Goto, Idle, vars, tcpc, history, handler, OtherTypes,
       ContextInv, EdgeInv, Low
<1>23. CASE EndPass
    BY <1>23 DEF EndPass, At, Goto, Idle, vars, tcpc, history, handler, OtherTypes, ContextInv,
       EdgeInv, Low
<1>24. CASE Boot
    BY <1>24 DEF Boot, vars, tcpc, history, handler, OtherTypes, ContextInv, EdgeInv, Low, Idle
<1>25. CASE Watchdog
    BY <1>25 DEF Watchdog, Low, vars, tcpc, history, handler, OtherTypes, ContextInv, EdgeInv, Idle
<1>26. CASE UNCHANGED vars
    BY <1>26 DEF vars, tcpc, history, handler, OtherTypes, ContextInv, EdgeInv, Low, Idle
<1> QED
    BY <1>1, <1>2, <1>3, <1>4, <1>5, <1>5a, <1>6, <1>7, <1>8, <1>9, <1>10, <1>11, <1>12, <1>13,
       <1>14,
       <1>15, <1>16, <1>17, <1>18, <1>19, <1>20, <1>21, <1>22, <1>23, <1>24, <1>25, <1>26 DEF
       Next, Irq, Main

\* The outcome awaited is on its way.
LEMMA WaitStep ==
    ASSUME OtherTypes, ContextInv, OutcomeInv, WaitInv, [Next]_vars
    PROVE  WaitInv'
<1>1. CASE Alert
    BY <1>1 DEF Alert, Latch, FallingEdge, Low, vars, tcpc, history, handler, OtherTypes,
       ContextInv, OutcomeInv, WaitInv
<1>2. CASE Answer
    BY <1>2 DEF Answer, Latch, FallingEdge, Low, vars, tcpc, history, handler, OtherTypes,
       ContextInv, OutcomeInv, WaitInv
<1>3. CASE LoseRegisters
    BY <1>3 DEF LoseRegisters, FallingEdge, Low, vars, tcpc, history, handler, OtherTypes,
       ContextInv, OutcomeInv, WaitInv
<1>4. CASE PortInterrupt
  <2>1. CASE flag /\ int_en /\ Enter("isr")
    BY <2>1 DEF Enter, tcpc, history, ContextInv, WaitInv
  <2>2. CASE UNCHANGED <<tcpc, handler, int_en, pc, pd_events, tx_complete, missed>> /\ ~flag'
    BY <2>2 DEF tcpc, history, handler, ContextInv, WaitInv
  <2> QED
    BY <1>4, <2>1, <2>2 DEF PortInterrupt
<1>5. CASE CheckPin
    BY <1>5 DEF CheckPin, Quiet, Low, vars, tcpc, history, handler, OtherTypes, ContextInv,
       OutcomeInv, WaitInv
<1>5a. CASE LeaveHandler
    BY <1>5a DEF LeaveHandler, Low, vars, tcpc, history, handler, OtherTypes, ContextInv,
       OutcomeInv, WaitInv
<1>6. CASE LeaveInterrupt
    BY <1>6 DEF LeaveInterrupt, Low, vars, tcpc, history, handler, OtherTypes, ContextInv,
       OutcomeInv, WaitInv
<1>7. CASE ReadStatus
    BY <1>7 DEF ReadStatus, vars, tcpc, history, handler, OtherTypes, ContextInv, OutcomeInv,
       WaitInv
<1>8. CASE Fault
    BY <1>8 DEF Fault, vars, tcpc, history, handler, OtherTypes, ContextInv, OutcomeInv, WaitInv
<1>9. CASE ClearAlerts
    BY <1>9 DEF ClearAlerts, Excuse, Quiet, vars, tcpc, history, handler, OtherTypes, ContextInv,
       OutcomeInv, WaitInv
<1>10. CASE Receive
    BY <1>10 DEF Receive, vars, tcpc, history, handler, OtherTypes, ContextInv, OutcomeInv, WaitInv
<1>11. CASE ReceiveShort
    BY <1>11 DEF ReceiveShort, vars, tcpc, history, handler, OtherTypes, ContextInv, OutcomeInv,
       WaitInv
<1>12. CASE NoMessage
    BY <1>12 DEF NoMessage, Quiet, vars, tcpc, history, handler, OtherTypes, ContextInv, OutcomeInv,
       WaitInv
<1>13. CASE Rest
    BY <1>13 DEF Rest, vars, tcpc, history, handler, OtherTypes, ContextInv, OutcomeInv, WaitInv
<1>14. CASE Poll
    BY <1>14 DEF Poll, At, Goto, Enter, Idle, Low, vars, tcpc, history, handler, OtherTypes,
       ContextInv, OutcomeInv, WaitInv
<1>15. CASE TakeEvents
    BY <1>15 DEF TakeEvents, At, Goto, Idle, vars, tcpc, history, handler, OtherTypes, ContextInv,
       OutcomeInv, WaitInv
<1>16. CASE BeginTransfer
    BY <1>16 DEF BeginTransfer, At, Unmask, Idle, Low, vars, tcpc, history, handler, OtherTypes,
       ContextInv, OutcomeInv, WaitInv
<1>17. CASE EndTransfer
    BY <1>17 DEF EndTransfer, At, Goto, Idle, vars, tcpc, history, handler, OtherTypes, ContextInv,
       OutcomeInv, WaitInv
<1>18. CASE Transmit
    BY <1>18 DEF Transmit, At, Goto, Idle, vars, tcpc, history, handler, OtherTypes, ContextInv,
       OutcomeInv, WaitInv
<1>19. CASE BeginTransmit
    BY <1>19 DEF BeginTransmit, At, Goto, Idle, vars, tcpc, history, handler, OtherTypes,
       ContextInv, OutcomeInv, WaitInv
<1>20. CASE EndTransmit
    BY <1>20 DEF EndTransmit, At, Goto, Idle, vars, tcpc, history, handler, OtherTypes, ContextInv,
       OutcomeInv, WaitInv
<1>21. CASE Completed
    BY <1>21 DEF Completed, At, Goto, Idle, vars, tcpc, history, handler, OtherTypes, ContextInv,
       OutcomeInv, WaitInv
<1>22. CASE Timeout
    BY <1>22 DEF Timeout, TimedOut, At, Goto, Idle, vars, tcpc, history, handler, OtherTypes,
       ContextInv, OutcomeInv, WaitInv
<1>23. CASE EndPass
    BY <1>23 DEF EndPass, At, Goto, Idle, vars, tcpc, history, handler, OtherTypes, ContextInv,
       OutcomeInv, WaitInv
<1>24. CASE Boot
    BY <1>24 DEF Boot, vars, tcpc, history, handler, OtherTypes, ContextInv, OutcomeInv, WaitInv
<1>25. CASE Watchdog
    BY <1>25 DEF Watchdog, Low, vars, tcpc, history, handler, OtherTypes, ContextInv, OutcomeInv,
       WaitInv
<1>26. CASE UNCHANGED vars
    BY <1>26 DEF vars, tcpc, history, handler, OtherTypes, ContextInv, OutcomeInv, WaitInv
<1> QED
    BY <1>1, <1>2, <1>3, <1>4, <1>5, <1>5a, <1>6, <1>7, <1>8, <1>9, <1>10, <1>11, <1>12, <1>13,
       <1>14,
       <1>15, <1>16, <1>17, <1>18, <1>19, <1>20, <1>21, <1>22, <1>23, <1>24, <1>25, <1>26 DEF
       Next, Irq, Main

-----------------------------------------------------------------------------
(* The theorems.                                                             *)

LEMMA InitInv == Init => IInv
<1> SUFFICES ASSUME Init PROVE IInv
    OBVIOUS
<1>1. FlagTypes
    BY DEF Init, FlagTypes
<1>2. OtherTypes
    BY AlertAssumption DEF Init, OtherTypes
<1>3. ContextInv /\ HeldInv
    BY DEF Init, ContextInv, HeldInv
<1>5. OutcomeInv
    BY DEF Init, OutcomeInv
<1>6. EdgeInv /\ WaitInv
    BY DEF Init, EdgeInv, WaitInv, Low
<1> QED
    BY <1>1, <1>2, <1>3, <1>5, <1>6 DEF IInv

LEMMA InvStep == IInv /\ [Next]_vars => IInv'
BY FlagStep, OtherStep, ContextStep, HeldStep, OutcomeStep, EdgeStep, WaitStep DEF IInv

\* The inductive invariant: who runs the handler, what it holds, and where the
\* outcome of a transmission is.
THEOREM AlertInvariant == Spec => []IInv
BY InitInv, InvStep, PTL DEF Spec

\* Every variable stays in its type.
THEOREM AlertTypeCorrect == Spec => []TypeOK
<1>1. IInv => TypeOK
    BY DEF IInv, FlagTypes, OtherTypes, TypeOK
<1> QED
    BY <1>1, AlertInvariant, PTL

\* The handler never runs in the middle of a transfer of the main program.
THEOREM TransfersNeverNest == Spec => []NoNestedTransfer
<1>1. IInv => NoNestedTransfer
    BY DEF IInv, ContextInv, NoNestedTransfer, Idle
<1> QED
    BY <1>1, AlertInvariant, PTL

\* No alert is forgotten, however many are latched.
THEOREM NothingIsForgotten == Spec => []NothingForgotten
<1>1. IInv => NothingForgotten
    BY DEF IInv, ContextInv, HeldInv, NothingForgotten, Idle
<1> QED
    BY <1>1, AlertInvariant, PTL

\* A wait ends with the outcome of its own transmission.
THEOREM OutcomeIsOwn == Spec => []OwnOutcome
<1>1. IInv => OwnOutcome
    BY DEF IInv, OutcomeInv, OwnOutcome, At
<1> QED
    BY <1>1, AlertInvariant, PTL

\* A wait that times out had its edge dropped or its outcome cleared unread.
THEOREM AnswersAreHeard == Spec => []AnswerHeard
<1>1. IInv => AnswerHeard
    BY DEF IInv, ContextInv, EdgeInv, WaitInv, AnswerHeard, TimedOut, At, Idle, Low
<1> QED
    BY <1>1, AlertInvariant, PTL
=============================================================================
