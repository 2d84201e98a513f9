------------------------------ MODULE AlertPath ------------------------------
(***************************************************************************)
(* How an alert of the TCPC reaches the port manager: the alert pin and its *)
(* interrupt (pin_manager.c), the gate int_en that keeps the handler out of *)
(* I2C transfers (main.c), tcpci_irq (tcpci.c), and the main loop with the  *)
(* wait for the end of a transmission (tcpm.c).                             *)
(***************************************************************************)
EXTENDS Naturals

CONSTANTS
    Alerts,      \* how many alerts the TCPC latches
    Resets       \* how often it loses its registers

ASSUME AlertAssumption == Alerts \in Nat /\ Resets \in Nat

\* CC stands for the alerts whose event is raised before the clearing: CC and
\* power status, alarm, vendor.
Bits == {"CC", "FAULT", "RX", "HARD_RST", "TX"}

VARIABLES
    alert,       \* the ALERT register: the pin is low while it is not empty
    reset,       \* FAULT_STATUS says that all registers were reset
    answering,   \* the TCPC owes the outcome of a transmission
    mine,        \* the outcome it latched is that of the last transmission
    flag,        \* the interrupt flag of the pin, set by a falling edge
    int_en,
    pc,          \* the main program
    context,     \* who runs alertb_handler: "none", "main" or "isr"
    hpc,         \* where tcpci_irq is
    status,      \* its copy of ALERT
    pd_events,
    tx_complete, \* "no", or whose outcome tx_status is: "own" or "old"
    unseen,      \* history: alerts latched whose event was not raised since
    spared,      \* history: those of them that the handler cleared unread, with leave
    risk,        \* history: those that its next clearing has leave to clear unread
    dropped,     \* a falling edge was thrown away and nothing ran since
    missed,      \* the outcome of the transmission was cleared unread
    left         \* alerts and resets still to come

history == <<unseen, spared, risk>>
tcpc    == <<alert, reset, answering, mine, left, history>>
handler == <<context, hpc, status>>
vars    == <<tcpc, handler, flag, int_en, pc, pd_events, tx_complete, dropped, missed>>

Low  == alert # {}
Idle == context = "none"

-----------------------------------------------------------------------------
(* The TCPC.                                                                *)

\* The flag is set by a falling edge only (PIN2CTRL).
FallingEdge == flag' = (flag \/ ~Low)

Latch(b) ==
    /\ alert' = alert \cup {b} /\ FallingEdge
    /\ unseen' = unseen \cup ({b} \ (pd_events \cup {"FAULT"}))
    /\ spared' = spared \ {b} /\ UNCHANGED risk

Alert ==
    /\ left.alerts > 0 /\ left' = [left EXCEPT !.alerts = @ - 1]
    /\ \E b \in {"CC", "FAULT", "HARD_RST", "RX"} : (b = "RX" => b \notin alert) /\ Latch(b)
    /\ UNCHANGED <<reset, answering, mine, handler, int_en, pc, pd_events, tx_complete, dropped,
                   missed>>

Answer ==
    /\ answering /\ answering' = FALSE
    /\ Latch("TX") /\ mine' = (pc \notin {"fill", "transmit"})
    /\ UNCHANGED <<reset, left, handler, int_en, pc, pd_events, tx_complete, dropped, missed>>

\* A TCPC that loses its registers forgets its alerts and the transmission too. If it
\* does between the reading of FAULT_STATUS and the clearing of ALERT, the loss can be
\* overlooked.
LoseRegisters ==
    /\ left.resets > 0 /\ left' = [left EXCEPT !.resets = @ - 1]
    /\ alert' = {"FAULT"} /\ unseen' = {"FAULT"} /\ reset' = TRUE /\ FallingEdge
    /\ spared' = {} /\ risk' = IF hpc = "clear" THEN risk \cup {"FAULT"} ELSE risk
    /\ answering' = FALSE /\ missed' = TRUE
    /\ UNCHANGED <<mine, handler, int_en, pc, pd_events, tx_complete, dropped>>

-----------------------------------------------------------------------------
(* alertb_handler, called by the interrupt and by the main loop.            *)

Enter(by) ==
    /\ int_en' = FALSE /\ context' = by /\ hpc' = "check" /\ dropped' = FALSE
    /\ UNCHANGED <<tcpc, status, flag, pc, pd_events, tx_complete, missed>>

\* An interrupt while int_en is 0 finds nothing to do, and its flag is cleared. That
\* loses the edge, unless the main loop is in the handler and looks at the pin again.
PortInterrupt ==
    /\ flag /\ context # "isr"
    /\ \/ int_en /\ Enter("isr")
       \/ /\ ~int_en /\ flag' = FALSE /\ dropped' = (Low /\ (Idle \/ hpc = "leave"))
          /\ UNCHANGED <<tcpc, handler, int_en, pc, pd_events, tx_complete, missed>>

Quiet == UNCHANGED <<pd_events, tx_complete, dropped, missed, int_en, pc, flag>>

\* while (IO_PC2_GetValue() == 0) mx_tcpm_irq();
CheckPin ==
    /\ hpc = "check" /\ hpc' = IF Low THEN "read" ELSE "leave"
    /\ UNCHANGED <<tcpc, context, status>> /\ Quiet

\* int_en = 1;
LeaveHandler ==
    /\ hpc = "leave" /\ int_en' = TRUE
    /\ \/ context = "main" /\ context' = "none" /\ hpc' = "none" /\ pc' = "events"
       \/ context = "isr" /\ hpc' = "exit" /\ UNCHANGED <<context, pc>>
    /\ UNCHANGED <<tcpc, status, pd_events, tx_complete, dropped, missed, flag>>

\* The flags are cleared at the end: an edge after the last look at the pin goes.
LeaveInterrupt ==
    /\ hpc = "exit" /\ context' = "none" /\ hpc' = "none"
    /\ flag' = FALSE /\ dropped' = Low
    /\ UNCHANGED <<tcpc, status, int_en, pc, pd_events, tx_complete, missed>>

-----------------------------------------------------------------------------
(* tcpci_irq, one step for each access to the TCPC that matters.            *)

ReadStatus ==
    /\ hpc = "read" /\ hpc' = "fault" /\ status' = alert
    /\ pd_events' = pd_events \cup (alert \cap {"CC"})
    /\ unseen' = unseen \ (alert \cap {"CC"})
    /\ UNCHANGED <<alert, reset, answering, mine, left, spared, risk, context, int_en, pc, flag,
                   tx_complete, dropped, missed>>

\* FAULT_STATUS is read and cleared. A reset calls tcpm_init, whose mdelay waits
\* for the clock: in an interrupt the clock stands still. It throws the events away,
\* the one for CC too, whose alert is still to be cleared.
Fault ==
    /\ hpc = "fault"
    /\ IF "FAULT" \in status /\ reset
       THEN /\ hpc' = IF context = "isr" THEN "hung" ELSE "clear"
            /\ reset' = FALSE /\ unseen' = unseen \ {"FAULT"} /\ pd_events' = {}
            /\ risk' = {"CC"}
       ELSE hpc' = "clear" /\ UNCHANGED <<reset, unseen, risk, pd_events>>
    /\ UNCHANGED <<alert, answering, mine, left, spared, context, status, int_en, pc, flag,
                   tx_complete, dropped, missed>>

\* CC that came after tcpm_init had thrown the events away, and FAULT that came after
\* FAULT_STATUS was read, have leave to go with an older alert of their kind.
Excuse == spared' = spared \cup (unseen \cap status \cap risk) /\ risk' = {}

\* As if every latched alert was cleared, not those that were read.
ClearAlertsAll ==
    /\ hpc = "clear" /\ hpc' = "receive"
    /\ alert' = alert \cap {"RX"} /\ Excuse
    /\ UNCHANGED <<reset, answering, mine, unseen, left, context, status>> /\ Quiet

ClearAlerts ==
    /\ hpc = "clear" /\ hpc' = "receive"
    /\ alert' = alert \ (status \ {"RX"}) /\ Excuse
    /\ UNCHANGED <<reset, answering, mine, unseen, left, context, status>> /\ Quiet

\* A message to a plug, and test data, raise no event.
Receive ==
    /\ hpc = "receive" /\ "RX" \in status
    /\ hpc' = "rest" /\ alert' = alert \ {"RX"} /\ unseen' = unseen \ {"RX"}
    /\ pd_events' \in {pd_events \cup {"RX"}, pd_events}
    /\ UNCHANGED <<reset, answering, mine, left, spared, risk, context, status, int_en, pc, flag,
                   tx_complete, dropped, missed>>

\* A receive buffer of less than 3 bytes ends the handler: what else was latched
\* has been cleared and is forgotten.
ReceiveShort ==
    /\ hpc = "receive" /\ "RX" \in status
    /\ hpc' = "check" /\ alert' = alert \ {"RX"}
    /\ unseen' = unseen \ {"RX"} /\ missed' = (missed \/ "TX" \in status)
    /\ spared' = spared \cup ((unseen \cap status \cap {"HARD_RST", "TX"}) \ alert)
    /\ UNCHANGED <<reset, answering, mine, left, risk, context, status, int_en, pc, flag,
                   pd_events, tx_complete, dropped>>

NoMessage ==
    /\ hpc = "receive" /\ "RX" \notin status /\ hpc' = "rest"
    /\ UNCHANGED <<tcpc, context, status>> /\ Quiet

\* As if HARD_RST and TX were alternatives of one choice.
RestEither ==
    /\ hpc = "rest" /\ hpc' = "check"
    /\ pd_events' = pd_events \cup (status \cap {"HARD_RST"})
    /\ tx_complete' = IF "TX" \notin status \/ "HARD_RST" \in status THEN tx_complete
                      ELSE IF mine THEN "own" ELSE "old"
    /\ unseen' = unseen \ (status \cap {"HARD_RST", "TX"})
    /\ UNCHANGED <<alert, reset, answering, mine, left, spared, risk, context, status, int_en, pc,
                   flag, dropped, missed>>

\* As if the outcome were an event of the port too.
RestEvents ==
    /\ hpc = "rest" /\ hpc' = "check"
    /\ pd_events' = pd_events \cup (status \cap {"HARD_RST", "TX"})
    /\ tx_complete' = IF "TX" \notin status THEN tx_complete ELSE IF mine THEN "own" ELSE "old"
    /\ unseen' = unseen \ (status \cap {"HARD_RST", "TX"})
    /\ UNCHANGED <<alert, reset, answering, mine, left, spared, risk, context, status, int_en, pc,
                   flag, dropped, missed>>

Rest ==
    /\ hpc = "rest" /\ hpc' = "check"
    /\ pd_events' = pd_events \cup (status \cap {"HARD_RST"})
    /\ tx_complete' = IF "TX" \notin status THEN tx_complete ELSE IF mine THEN "own" ELSE "old"
    /\ unseen' = unseen \ (status \cap {"HARD_RST", "TX"})
    /\ UNCHANGED <<alert, reset, answering, mine, left, spared, risk, context, status, int_en, pc,
                   flag, dropped, missed>>

Irq == CheckPin \/ LeaveHandler \/ LeaveInterrupt \/ ReadStatus \/ Fault \/ ClearAlerts \/ Receive
          \/ ReceiveShort \/ NoMessage \/ Rest

-----------------------------------------------------------------------------
(* The main loop. It runs while no interrupt does, nor is due.               *)

At(p)     == pc = p /\ Idle /\ ~flag
Goto(p)   == pc' = p /\ UNCHANGED <<handler, flag, dropped>>

\* As if the loop left the pin to the interrupt.
PollNever ==
    /\ At("poll")
    /\ Goto("events") /\ UNCHANGED <<tcpc, int_en, pd_events, tx_complete, missed>>

Poll ==
    /\ At("poll")
    /\ \/ Low /\ int_en /\ Enter("main")
       \/ ~Low /\ Goto("events") /\ UNCHANGED <<tcpc, int_en, pd_events, tx_complete, missed>>

\* A pass of the port manager: it takes the events, and then makes transfers and
\* transmissions, as many as it likes.
TakeEvents ==
    /\ At("events") /\ pd_events' = {}
    /\ Goto("work") /\ UNCHANGED <<tcpc, int_en, tx_complete, missed>>

\* tcpci_set_vbus masks every alert for a while: the pin rises, and falls again
\* in the transfer that unmasks them.
Unmask == flag' \in {flag, flag \/ Low}

\* As if reg_read_bytes let the handler in.
BeginTransferOpen ==
    /\ At("work") /\ int_en /\ Unmask /\ pc' = "transfer"
    /\ UNCHANGED <<tcpc, handler, int_en, pd_events, tx_complete, dropped, missed>>

\* reg_read_bytes and reg_write_bytes.
BeginTransfer ==
    /\ At("work") /\ int_en /\ int_en' = FALSE /\ Unmask /\ pc' = "transfer"
    /\ UNCHANGED <<tcpc, handler, pd_events, tx_complete, dropped, missed>>
EndTransfer ==
    /\ At("transfer") /\ int_en' = TRUE
    /\ Goto("work") /\ UNCHANGED <<tcpc, pd_events, tx_complete, missed>>

\* As if the flag kept its value.
TransmitKeepsFlag ==
    /\ At("work") /\ tx_complete' = (IF tx_complete = "no" THEN "no" ELSE "old")
    /\ missed' = FALSE /\ mine' = FALSE
    /\ Goto("fill") /\ UNCHANGED <<alert, reset, answering, history, left, int_en, pd_events>>

\* tcpm_pd_transmit: the flag is cleared, the message and TRANSMIT are written,
\* and the loop waits for the interrupt handler to set the flag.
Transmit ==
    /\ At("work") /\ tx_complete' = "no" /\ missed' = FALSE /\ mine' = FALSE
    /\ Goto("fill") /\ UNCHANGED <<alert, reset, answering, history, left, int_en, pd_events>>
BeginTransmit ==
    /\ At("fill") /\ int_en' = FALSE
    /\ Goto("transmit") /\ UNCHANGED <<tcpc, pd_events, tx_complete, missed>>
EndTransmit ==
    /\ At("transmit") /\ answering' = TRUE /\ int_en' = TRUE
    /\ Goto("wait") /\ UNCHANGED <<alert, reset, mine, history, left, pd_events, tx_complete, missed>>

Completed ==
    /\ At("wait") /\ tx_complete # "no"
    /\ Goto("work") /\ UNCHANGED <<tcpc, int_en, pd_events, tx_complete, missed>>

\* The TCPC answers and the interrupt comes sooner than PD_T_TCPC_TX_TIMEOUT.
TimedOut == At("wait") /\ tx_complete = "no" /\ ~answering
Timeout ==
    /\ TimedOut
    /\ Goto("work") /\ UNCHANGED <<tcpc, int_en, pd_events, tx_complete, missed>>

EndPass ==
    /\ At("work")
    /\ Goto("poll") /\ UNCHANGED <<tcpc, int_en, pd_events, tx_complete, missed>>

-----------------------------------------------------------------------------
(* The watchdog restarts the program; the TCPC keeps its alerts. It waits a  *)
(* second, longer than the TCPC takes to answer.                            *)

Watchdog ==
    /\ hpc = "hung" /\ ~answering
    /\ context' = "none" /\ hpc' = "none" /\ status' = {}
    /\ flag' = FALSE /\ int_en' = FALSE /\ pc' = "boot" /\ pd_events' = {}
    /\ tx_complete' = "no" /\ dropped' = Low /\ missed' = FALSE
    /\ unseen' = (alert \ {"FAULT"}) \cup (unseen \cap {"FAULT"})
    /\ spared' = {} /\ risk' = {}
    /\ UNCHANGED <<alert, reset, answering, mine, left>>

\* main() until its loop: int_en is 0 up to the end.
Boot ==
    /\ pc = "boot" /\ pc' = "poll" /\ int_en' = TRUE
    /\ UNCHANGED <<tcpc, handler, flag, pd_events, tx_complete, dropped, missed>>

-----------------------------------------------------------------------------
Init ==
    /\ alert = {} /\ reset = FALSE /\ answering = FALSE /\ mine = FALSE
    /\ unseen = {} /\ spared = {} /\ risk = {}
    /\ left = [alerts |-> Alerts, resets |-> Resets]
    /\ context = "none" /\ hpc = "none" /\ status = {}
    /\ flag = FALSE /\ int_en = FALSE /\ pc = "boot" /\ pd_events = {}
    /\ tx_complete = "no" /\ dropped = FALSE /\ missed = FALSE

Main == Poll \/ TakeEvents \/ BeginTransfer \/ EndTransfer \/ Transmit \/ BeginTransmit \/ EndTransmit
           \/ Completed \/ Timeout \/ EndPass \/ Boot
Next == Alert \/ Answer \/ LoseRegisters \/ PortInterrupt \/ Irq \/ Main \/ Watchdog
Spec == Init /\ [][Next]_vars

\* A pass does only so much and then ends; the processor never stops; the TCPC
\* answers every TRANSMIT; the watchdog is enabled by fuse.
FairSpec == /\ Spec /\ WF_vars(Answer) /\ WF_vars(PortInterrupt) /\ WF_vars(Irq)
            /\ WF_vars(Main) /\ SF_vars(EndPass) /\ WF_vars(Watchdog)

-----------------------------------------------------------------------------
(* What the path promises.                                                  *)

\* Every variable stays in its type.
TypeOK ==
    /\ alert \subseteq Bits /\ status \subseteq Bits
    /\ unseen \subseteq Bits /\ spared \subseteq Bits /\ risk \subseteq {"CC", "FAULT"}
    /\ pd_events \subseteq {"CC", "RX", "HARD_RST"}
    /\ reset \in BOOLEAN /\ answering \in BOOLEAN /\ mine \in BOOLEAN
    /\ flag \in BOOLEAN /\ int_en \in BOOLEAN
    /\ dropped \in BOOLEAN /\ missed \in BOOLEAN
    /\ left \in [alerts : Nat, resets : Nat]
    /\ context \in {"none", "main", "isr"}
    /\ hpc \in {"none", "check", "read", "fault", "clear", "receive", "rest", "leave", "exit", "hung"}
    /\ pc \in {"boot", "poll", "events", "work", "transfer", "fill", "transmit", "wait"}
    /\ tx_complete \in {"no", "own", "old"}

\* The alert handler never uses the I2C driver in the middle of a transfer of the
\* main program: I2C0_Open does not keep it out, only int_en does.
NoNestedTransfer == pc \in {"transfer", "transmit"} => Idle

\* No alert is forgotten: at rest, what was latched and not acted on is latched
\* still, whatever comes while the handler runs. Only three are let go: a CC alert that
\* came while the reset of the TCPC was handled in that very round, a reset that came
\* between the reading of FAULT_STATUS and the clearing of ALERT, and what a short
\* read left behind.
NothingForgotten == Idle => unseen \subseteq alert \cup spared

\* A wait for the end of a transmission ends with the outcome of that very
\* transmission, even after earlier ones timed out.
OwnOutcome == At("wait") => tx_complete # "old"

\* A wait times out only if the interrupt was lost while int_en was 0 or the
\* flags were cleared, or the outcome was cleared by a short read or a reset.
AnswerHeard == TimedOut => dropped \/ missed

\* Every alert but those let go is acted on in the end, resets and changes of CC too,
\* by the interrupt or by the poll, if need be after the watchdog has ended a handler
\* that hangs.
AlertServed == \A b \in Bits : b \in unseen ~> b \notin unseen \/ b \in spared
=============================================================================
