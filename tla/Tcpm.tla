-------------------------------- MODULE Tcpm --------------------------------
(***************************************************************************)
(* The Type-C port manager of the charger: the policy engine of tcpm.c as  *)
(* main.c drives it, together with what its interrupt handler (tcpci_irq)  *)
(* leaves for it in pd_events.  One pass of the main loop is              *)
(*                                                                         *)
(*   while (pd_events) snapshot; handle and clear RESET, VBUS, CC, RX      *)
(*   if (run flag)     send the queued reply; run_state_machine until it   *)
(*                     stays in a state or armed a timer; clear run flag   *)
(*   if (queued reply) set run flag;  if (timer expired) change state      *)
(*   mode switch;      poll ALERTB                                         *)
(*                                                                         *)
(* and pc says where in it the program is.  The sink, the cable and the    *)
(* interrupt handler act between any two steps of a pass.                  *)
(***************************************************************************)
EXTENDS TcpmPort, FiniteSets

CONSTANTS
    Lines,          \* what the sink and its cable put on the two CC pins
    Messages,       \* the messages the sink may send
    TxOutcomes,     \* how a transmission may end
    Budgets,        \* bounds on how often each outside input may happen
    SlowDischarge,  \* VBUS may still be present when tcpci_set_vbus returns
    LateVbus,       \* VBUS may change later than the timer that awaits it expires
    Prompt,         \* the sink talks only when it is its turn
    Bounce,         \* the CC pins may change before the port acted on the last change
    Torn,           \* an interrupt may come between the load and the store of a clearing
    PowerOnHeap     \* what malloc may return at power-on

Inputs == {"plug", "message", "hard_reset", "press", "tcpc_reset", "mcu_reset"}
Events == {"RESET", "VBUS", "CC", "RX"}
NoMessage == [kind |-> "NONE", rdo |-> NoRequest]

ASSUME LinesAssumption    == Lines \subseteq CcPairs
ASSUME MessagesAssumption == Messages \subseteq Message
ASSUME TxAssumption == TxOutcomes \subseteq {"SUCCESS", "DISCARDED", "FAILED"}
ASSUME BudgetAssumption == Budgets \subseteq [Inputs -> Nat]
ASSUME TimingAssumption == {SlowDischarge, LateVbus, Prompt, Bounce, Torn} \subseteq BOOLEAN
ASSUME HeapAssumption   == PowerOnHeap \subseteq Port

VARIABLES
    port,    \* struct tcpm_port, and the TCPC registers it writes
    events,  \* pd_events
    rx,      \* the one received message _event holds
    todo,    \* the snapshot of pd_events being handled
    pc,      \* where the main loop is
    line,    \* the sink's and cable's terminations on CC1 and CC2
    vbus,    \* VBUS is present (POWER_STATUS)
    left     \* what is left of the bounds

vars == <<port, events, rx, todo, pc, line, vbus, left>>

-----------------------------------------------------------------------------
(* The TCPC.                                                               *)

\* The CC status the TCPC reports: nothing while the port presents no Rp.
Observed(p, l) == IF p.rp = "OPEN" THEN Nothing ELSE l

\* VBUS once tcpci_set_vbus(false) has waited for the discharge.
Discharged == IF SlowDischarge THEN {vbus, FALSE} ELSE {FALSE}

\* The register writes that turned port into p may change the CC status and
\* VBUS; the TCPC reports both.
Alerted(p, pending) ==
    /\ vbus' \in IF p.supply # 0 THEN {vbus} ELSE Discharged
    /\ events' = pending
         \cup (IF Observed(p, line) # Observed(port, line) THEN {"CC"} ELSE {})
         \cup (IF vbus' # vbus THEN {"VBUS"} ELSE {})

\* The program changes port to p and nothing outside it moves.
Becomes(p) == port' = p /\ Alerted(p, events) /\ UNCHANGED <<rx, line, left>>

-----------------------------------------------------------------------------
(* Start.                                                                  *)

\* tcpm_register_port on the memory malloc returned.
Registered(h) ==
    [h EXCEPT !.delayed_state = "INVALID_STATE", !.prev_state = "INVALID_STATE",
              !.state = "INVALID_STATE", !.cc = Nothing,
              !.force_disable_flag = FALSE]

\* tcpm_init with VBUS read as v and the CC pins read as cc.
TcpmInit(p, v, cc) ==
    LET q == SetNow([ResetPort(p) EXCEPT !.vbus_present = v], "SRC_UNATTACHED")
    IN  SetNow(CcChange(q, cc), "PORT_RESET")

Init ==
    /\ line \in Lines
    /\ \E h \in PowerOnHeap :
          port = TcpmInit(Registered(h), FALSE, Observed(h, line))
    /\ events = {} /\ todo = {}
    /\ rx = NoMessage
    /\ pc = "top"
    /\ vbus = FALSE
    /\ left \in Budgets

-----------------------------------------------------------------------------
(* The event handler.                                                      *)

Looping == pc \in {"switch", "top", "events"}

\* The order in which the handler looks at the bits of its snapshot.
First(s) == IF "RESET" \in s THEN "RESET" ELSE IF "VBUS" \in s THEN "VBUS"
            ELSE IF "CC" \in s THEN "CC" ELSE "RX"

Snapshot ==
    /\ Looping /\ events # {}
    /\ todo' = events
    /\ pc' = "handle"
    /\ UNCHANGED <<port, events, rx, line, vbus, left>>

Handle(e, p) ==
    /\ pc = "handle" /\ First(todo) = e
    /\ pc' = "clear"
    /\ UNCHANGED todo
    /\ Becomes(p)

HandleReset == Handle("RESET", HardResetEvent(port))
HandleVbus  == Handle("VBUS", VbusEvent(port, vbus))
HandleCc    == Handle("CC", CcChange(port, Observed(port, line)))

\* The slot is read in one step. A message that overwrites it meanwhile is lost
\* with the clearing below, and what was read in part of each is handled as one
\* message: one the sink might have sent as well.
HandleRx    == Handle("RX", RxHandler(port, rx))

\* pd_events &= ~bit, after the handling: what came in meanwhile is lost. The
\* load and the store of pd_events are apart, and interrupts are enabled.
ClearEvent ==
    LET e == First(todo) IN
    /\ pc = "clear"
    /\ events' = events \ {e}
    /\ todo' = todo \ {e}
    /\ rx' = IF e = "RX" THEN NoMessage ELSE rx
    /\ pc' = "store"
    /\ UNCHANGED <<port, line, vbus, left>>

StoreEvents ==
    /\ pc = "store"
    /\ pc' = IF todo = {} THEN "events" ELSE "handle"
    /\ UNCHANGED <<port, events, rx, todo, line, vbus, left>>

\* pd_events after the interrupt handler raised s: the store overwrites it.
Raised(s) == IF Torn /\ pc = "store" THEN events ELSE events \cup s

-----------------------------------------------------------------------------
(* The state machine.                                                      *)

\* tcpm_state_machine_work up to its loop.
StartWork ==
    /\ Looping /\ events = {} /\ port.run
    /\ LET p == [port EXCEPT !.running = TRUE] IN
       IF port.queued THEN \E r \in TxOutcomes : Becomes(SendQueued(p, r))
       ELSE Becomes(p)
    /\ pc' = "sm"
    /\ UNCHANGED todo

In(s) == pc = "sm" /\ port.state = s
Entered == [port EXCEPT !.enter_state = port.state]

\* Mutant: a state entered by the state machine waits for the next event.
RanOnce(p) ==
    /\ Becomes([p EXCEPT !.running = FALSE, !.run = FALSE])
    /\ pc' = "tail"
    /\ UNCHANGED todo

\* One iteration of the loop left the port as p: go on only if the state
\* changed and no timer is armed. The run flag is cleared after the work.
Ran(p) ==
    LET again == p.state # port.state /\ p.delayed_state = "INVALID_STATE" IN
    /\ Becomes(IF again THEN p ELSE [p EXCEPT !.running = FALSE, !.run = FALSE])
    /\ pc' = IF again THEN "sm" ELSE "tail"
    /\ UNCHANGED todo

\* Mutant: Rp stays as it was.
SrcUnattachedRpOpen == In("SRC_UNATTACHED") /\ Ran(Detach(Entered))

SrcUnattached == In("SRC_UNATTACHED") /\ Ran(Detach(SetCc(Entered, "RP_3_0")))

SrcAttachWait ==
    /\ In("SRC_ATTACH_WAIT")
    /\ Ran(IF IsDebug(port) THEN SetAfter(Entered, "DEBUG_ACC_ATTACHED")
           ELSE IF IsAudio(port) THEN SetAfter(Entered, "AUDIO_ACC_ATTACHED")
           ELSE IF IsSource(port) THEN SetAfter(Entered, "SRC_ATTACHED")
           ELSE Entered)

SrcAttached ==
    /\ In("SRC_ATTACHED")
    /\ Ran(SetAfter(SetCc(SrcAttach(Entered), "RP_3_0"), "SRC_UNATTACHED"))

SrcStartup ==
    /\ In("SRC_STARTUP")
    /\ Ran(SetAfter([Entered EXCEPT !.attached = TRUE, !.disc_cable_count = 0,
                                    !.caps_count = 0, !.explicit_contract = FALSE,
                                    !.last_pdo_index = 0], "SRC_DISC_CABLE"))

SrcDiscCable ==
    LET p == [Entered EXCEPT !.disc_cable_count = IF @ > 2 THEN @ ELSE @ + 1] IN
    /\ In("SRC_DISC_CABLE")
    /\ IF ~port.vconn THEN Ran(SetAfter(Entered, "SRC_SEND_CAPABILITIES"))
       ELSE IF p.disc_cable_count > 2 THEN Ran(SetNow(p, "SRC_SEND_CAPABILITIES"))
       ELSE \E r \in TxOutcomes :
              Ran(SetAfter(Transmit(p, r), IF r = "SUCCESS" THEN "SRC_WAIT_CABLE"
                                           ELSE "SRC_DISC_CABLE"))

SrcWaitCable == In("SRC_WAIT_CABLE") /\ Ran(SetNow(Entered, "SRC_SEND_CAPABILITIES"))

\* Mutant: SenderResponseTimer is not started.
CapsSentUntimed(p) ==
    [p EXCEPT !.hard_reset_count = 0, !.caps_count = 0, !.pd_capable = TRUE]

\* After a successful transmission: the sink may answer, or a hard reset is due.
CapsSent(p) ==
    LET q == [p EXCEPT !.hard_reset_count = 0, !.caps_count = 0, !.pd_capable = TRUE]
    IN  SetAfterCond(q, HardResetState(q))

SrcSendCapabilities ==
    LET p == [Entered EXCEPT !.caps_count = IF @ > NCaps THEN @ ELSE @ + 1] IN
    /\ In("SRC_SEND_CAPABILITIES")
    /\ IF p.caps_count > NCaps THEN Ran(SetNow(p, "SRC_READY"))
       ELSE \E r \in TxOutcomes :
              Ran(IF r = "SUCCESS" THEN CapsSent(p)
                  ELSE IF r = "FAILED" /\ p.pd_capable THEN Transmit(p, r)
                  ELSE SetAfter(p, "SRC_SEND_CAPABILITIES"))

\* The request is rejected, and the port falls back to what it had.
Reject(p, r) ==
    SetNow(Transmit(p, r), IF p.explicit_contract THEN "SRC_READY"
                           ELSE "SRC_WAIT_NEW_CAPABILITIES")

\* The request is accepted, and the supply moves at once within one APDO.
Accept(p, r) ==
    LET q == Transmit(p, r)
        t == IF p.pdo_type = "APDO" /\ p.pdo_index = p.last_pdo_index
             THEN SetNow(q, "SRC_TRANSITION_SUPPLY")
             ELSE SetAfter(q, "SRC_TRANSITION_SUPPLY")
    IN  [t EXCEPT !.last_pdo_index = p.pdo_index]

SrcNegotiateCapabilities ==
    LET p == CheckRequest(Entered) IN
    /\ In("SRC_NEGOTIATE_CAPABILITIES")
    /\ \E r \in TxOutcomes :
          Ran(IF RequestOk(port.sink_request) THEN Accept(p, r) ELSE Reject(p, r))

\* Mutant: the contract counts only if the sink acknowledged PS_RDY.
SrcTransitionSupplyAcked ==
    /\ In("SRC_TRANSITION_SUPPLY")
    /\ \E r \in TxOutcomes :
          Ran(SetNowCond([Transmit(SetVbusHv(Entered), r)
                            EXCEPT !.explicit_contract = @ \/ r = "SUCCESS"], "SRC_READY"))

SrcTransitionSupply ==
    /\ In("SRC_TRANSITION_SUPPLY")
    /\ \E r \in TxOutcomes :
          Ran(SetNowCond([Transmit(SetVbusHv(Entered), r)
                            EXCEPT !.explicit_contract = TRUE], "SRC_READY"))

\* With a programmable supply the sink must ask again in time.
SrcReady ==
    LET p == IF port.explicit_contract /\ port.pdo_type = "APDO"
             THEN SetAfterCond(Entered, HardResetState(Entered)) ELSE Entered
    IN  In("SRC_READY") /\ Ran([p EXCEPT !.hard_reset_count = 0])

AccUnattached == In("ACC_UNATTACHED") /\ Ran(SetNow(Detach(Entered), "SRC_UNATTACHED"))

AccAttached ==
    /\ In("DEBUG_ACC_ATTACHED") \/ In("AUDIO_ACC_ATTACHED")
    /\ Ran(AccAttach(Entered))

\* Mutant: the debounce timer is not started.
AudioAccDebounceUntimed == In("AUDIO_ACC_DEBOUNCE") /\ Ran(Entered)

AudioAccDebounce == In("AUDIO_ACC_DEBOUNCE") /\ Ran(SetAfter(Entered, "ACC_UNATTACHED"))

HardResetSend ==
    /\ In("HARD_RESET_SEND")
    /\ \E r \in TxOutcomes : Ran(SetNow(Transmit(Entered, r), "HARD_RESET_START"))

\* Mutant: the hard reset is not counted.
HardResetStartUncounted ==
    /\ In("HARD_RESET_START")
    /\ Ran(SetAfter(SetPdRx(Entered, FALSE),
                    IF port.force_disable_flag THEN "SRC_HARD_RESET_DISABLE_RP"
                    ELSE "SRC_HARD_RESET_VBUS_OFF"))

HardResetStart ==
    LET p == [SetPdRx(Entered, FALSE)
                EXCEPT !.hard_reset_count = IF @ < NHard THEN @ + 1 ELSE @] IN
    /\ In("HARD_RESET_START")
    /\ Ran(SetAfter(p, IF p.force_disable_flag THEN "SRC_HARD_RESET_DISABLE_RP"
                       ELSE "SRC_HARD_RESET_VBUS_OFF"))

SrcHardResetVbusOff ==
    /\ In("SRC_HARD_RESET_VBUS_OFF")
    /\ Ran(SetAfter(SetVbus(SetVconn(Entered, FALSE), FALSE), "SRC_HARD_RESET_VBUS_ON"))

SrcHardResetVbusOn ==
    LET p == SetVbus(SetPdRx(Entered, TRUE), TRUE)
        q == IF HasPoweredCable(p, p.polarity) THEN SetVconn(p, TRUE) ELSE p
    IN  In("SRC_HARD_RESET_VBUS_ON") /\ Ran(SetAfter(q, "SRC_UNATTACHED"))

SoftReset ==
    /\ In("SOFT_RESET")
    /\ \E r \in TxOutcomes : Ran(SetNow(Transmit(Entered, r), "SRC_SEND_CAPABILITIES"))

SoftResetSend ==
    /\ In("SOFT_RESET_SEND")
    /\ \E r \in TxOutcomes :
          LET p == Transmit(Entered, r) IN
          Ran(IF r = "SUCCESS" THEN SetAfterCond(p, HardResetState(p))
              ELSE SetNowCond(p, HardResetState(p)))

VconnSwapAccept ==
    /\ In("VCONN_SWAP_ACCEPT")
    /\ \E r \in TxOutcomes : Ran(SetNow(Transmit(Entered, r), "VCONN_SWAP_START"))

VconnSwapStart ==
    /\ In("VCONN_SWAP_START")
    /\ Ran(SetNow(Entered, IF port.vconn THEN "VCONN_SWAP_WAIT_FOR_VCONN"
                           ELSE "VCONN_SWAP_TURN_ON_VCONN"))

VconnSwapWaitForVconn ==
    In("VCONN_SWAP_WAIT_FOR_VCONN") /\ Ran(SetAfter(Entered, HardResetState(Entered)))

VconnSwapTurnOnVconn ==
    /\ In("VCONN_SWAP_TURN_ON_VCONN")
    /\ \E r \in TxOutcomes :
          Ran(SetNow(Transmit(SetVconn(Entered, TRUE), r), "SRC_READY"))

VconnSwapTurnOffVconn ==
    In("VCONN_SWAP_TURN_OFF_VCONN") /\ Ran(SetNow(SetVconn(Entered, FALSE), "SRC_READY"))

BistRx ==
    /\ In("BIST_RX")
    /\ IF ~port.bist_carrier2 THEN Ran(Entered)
       ELSE \E r \in TxOutcomes : Ran(SetNow(Transmit(Entered, r), "SRC_UNATTACHED"))

\* States whose case in run_state_machine does nothing.
IdleState ==
    /\ \/ In("SRC_WAIT_NEW_CAPABILITIES") \/ In("GET_PPS_STATUS_SEND")
       \/ In("ERROR_RECOVERY")
    /\ Ran(Entered)

PortReset ==
    In("PORT_RESET") /\ Ran(SetAfter(SetCc(ResetPort(Entered), "OPEN"), "PORT_RESET_WAIT_OFF"))

\* Mutant: tcpm_default_state takes the port for a sink.
PortResetWaitOffAsSink == In("PORT_RESET_WAIT_OFF") /\ Ran(SetNow(Entered, "SNK_UNATTACHED"))

PortResetWaitOff ==
    /\ In("PORT_RESET_WAIT_OFF")
    /\ Ran(IF port.vbus_present THEN SetAfter(Entered, "SRC_UNATTACHED")
           ELSE SetNow(Entered, "SRC_UNATTACHED"))

SrcHardResetDisableRp ==
    /\ In("SRC_HARD_RESET_DISABLE_RP")
    /\ Ran(SetAfter(SetCc(Entered, "OPEN"), "SRC_HARD_RESET_VBUS_OFF_DISABLE"))

SrcHardResetVbusOffDisable ==
    /\ In("SRC_HARD_RESET_VBUS_OFF_DISABLE")
    /\ Ran(SetAfter([SetVbus(SetVconn(Entered, FALSE), FALSE)
                        EXCEPT !.force_disable_flag = FALSE], "SRC_UNATTACHED"))

RunStateMachine ==
    \/ SrcUnattached \/ SrcAttachWait \/ SrcAttached \/ SrcStartup \/ SrcDiscCable
    \/ SrcWaitCable \/ SrcSendCapabilities \/ SrcNegotiateCapabilities
    \/ SrcTransitionSupply \/ SrcReady \/ AccUnattached \/ AccAttached
    \/ AudioAccDebounce \/ HardResetSend \/ HardResetStart \/ SrcHardResetVbusOff
    \/ SrcHardResetVbusOn \/ SoftReset \/ SoftResetSend \/ VconnSwapAccept
    \/ VconnSwapStart \/ VconnSwapWaitForVconn \/ VconnSwapTurnOnVconn
    \/ VconnSwapTurnOffVconn \/ BistRx \/ IdleState \/ PortReset \/ PortResetWaitOff
    \/ SrcHardResetDisableRp \/ SrcHardResetVbusOffDisable

-----------------------------------------------------------------------------
(* The end of a pass.                                                      *)

\* The state machine has run, or it had no reason to.
AtTail == pc = "tail" \/ (Looping /\ events = {} /\ ~port.run)

\* A queued reply makes the next pass run the state machine.
Requeued == IF port.queued THEN [port EXCEPT !.run = TRUE] ELSE port

\* VBUS was switched and is not there yet, or the port has not been told so.
\* Only tErrorRecovery is too short for VBUS to have settled.
AwaitsVbus ==
    \/ port.state # "PORT_RESET" /\ vbus # (port.supply # 0)
    \/ /\ port.state \in {"SRC_ATTACHED", "SRC_HARD_RESET_VBUS_OFF",
                          "SRC_HARD_RESET_VBUS_ON"}
       /\ "VBUS" \in events

TimerExpires ==
    /\ AtTail /\ port.delayed_state # "INVALID_STATE"
    /\ AwaitsVbus => LateVbus
    /\ Becomes(SetNow(Requeued, port.delayed_state))
    /\ pc' = "switch"
    /\ UNCHANGED todo

TimerWaits ==
    /\ AtTail
    /\ Becomes(Requeued)
    /\ pc' = "switch"
    /\ UNCHANGED todo

Spend(i) == left[i] > 0 /\ left' = [left EXCEPT ![i] = @ - 1]

\* m_switch_check sees the mode switch held: tcpci_switch_init, tcpm_pd_disable.
SwitchPressed ==
    /\ pc = "switch" /\ Spend("press")
    /\ port' = PdDisable(port)
    /\ Alerted(port', events)
    /\ pc' = "top"
    /\ UNCHANGED <<rx, todo, line>>

-----------------------------------------------------------------------------
(* The interrupt handler, the sink and the cable.                          *)

HasSink == "RD" \in {line[1], line[2]}

\* A sink that follows the specification is powered by VBUS before it talks.
CanTalk == HasSink /\ vbus /\ port.pd_rx

\* The sink's turn: the port waits for the answer to the capabilities it sent,
\* or for PS_RDY from the sink that takes VCONN over, or is ready.
Offered == port.state = "SRC_SEND_CAPABILITIES"
           /\ port.delayed_state \notin {"INVALID_STATE", "SRC_SEND_CAPABILITIES"}
SinksTurn == Offered \/ port.state \in {"SRC_READY", "VCONN_SWAP_WAIT_FOR_VCONN"}

CcIrq ==
    /\ Spend("plug")
    /\ Bounce \/ ("CC" \notin events \cup todo /\ (port.run => pc = "sm"))
    /\ \E l \in Lines :
         /\ l # line
         /\ line' = l
         /\ events' =
              IF Observed(port, l) # Observed(port, line) THEN Raised({"CC"}) ELSE events
    /\ UNCHANGED <<port, rx, todo, pc, vbus>>

\* tcpm_pd_receive overwrites the message not yet handled.
RxIrq ==
    /\ CanTalk /\ Spend("message")
    /\ Prompt => SinksTurn
    /\ rx' \in Messages
    /\ events' = Raised({"RX"})
    /\ UNCHANGED <<port, todo, pc, line, vbus>>

\* A hard reset from the sink, or the low voltage alarm: tcpci.c turns it on with
\* a programmable voltage, and it may still be latched, or reported because the
\* write that ends it was refused, after the voltage is gone.
HardResetIrq ==
    /\ CanTalk \/ port.pdo_type = "APDO"
    /\ Spend("hard_reset")
    /\ events' = Raised({"RESET"})
    /\ UNCHANGED <<port, rx, todo, pc, line, vbus>>

\* VBUS follows what the TCPC sources.
VbusIrq ==
    /\ vbus # (port.supply # 0)
    /\ vbus' = ~vbus
    /\ events' = Raised({"VBUS"})
    /\ UNCHANGED <<port, rx, todo, pc, line, left>>

\* The TCPC lost its registers; the poll of ALERTB finds the fault. tcpm_init
\* reads VBUS after it has switched it off.
TcpcReset ==
    LET p == SetVbus(SetVconn(SetPdRx(SetCc(port, "OPEN"), FALSE), FALSE), FALSE) IN
    /\ pc \in {"switch", "top"} /\ Spend("tcpc_reset")
    /\ \E v \in Discharged : port' = TcpmInit(p, v, Nothing) /\ vbus' = v
    /\ events' = IF Observed(port', line) # Observed(port, line) THEN {"CC"} ELSE {}
    /\ pc' = "events"
    /\ UNCHANGED <<rx, todo, line>>

\* The watchdog resets the microcontroller, not the TCPC; malloc returns the
\* memory the port had before.
McuReset ==
    /\ Spend("mcu_reset")
    /\ \E v \in Discharged :
          /\ port' = TcpmInit(Registered(port), v, Observed(port, line))
          /\ Alerted(port', {}) /\ vbus' = v
    /\ rx' = NoMessage /\ todo' = {} /\ pc' = "top"
    /\ UNCHANGED line

Program ==
    \/ Snapshot \/ HandleReset \/ HandleVbus \/ HandleCc \/ HandleRx \/ ClearEvent
    \/ StoreEvents \/ StartWork \/ RunStateMachine \/ TimerExpires \/ TimerWaits

Environment ==
    \/ SwitchPressed \/ CcIrq \/ RxIrq \/ HardResetIrq \/ VbusIrq \/ TcpcReset \/ McuReset

Next == Program \/ Environment

Spec == Init /\ [][Next]_vars
=============================================================================
