------------------------------ MODULE TcpmPort ------------------------------
(***************************************************************************)
(* The data of the Type-C port manager (tcpm.c): struct tcpm_port as a     *)
(* record, and the helpers of tcpm.c as functions from a port to a port.   *)
(* A helper that the C code calls in the middle of a handler is applied in *)
(* the middle of the expression that models the handler, in the same order. *)
(*                                                                         *)
(* The record also holds what the port controller (TCPC) was last told to  *)
(* do: rp, pd_rx, vconn and supply are TCPC registers that only tcpm.c and *)
(* tcpci.c write, and every regmap access of this port returns 0           *)
(* (tcpci_deps.h), so the register and the driver's view of it agree.      *)
(***************************************************************************)
EXTENDS Naturals

CONSTANTS
    NCaps,      \* PD_N_CAPS_COUNT (pd.h:478), 33 in the program
    NHard,      \* PD_N_HARD_RESET_COUNT (pd.h:479), 2 in the program
    Requests    \* the Request messages a sink may send: [index, mv, ma]

ASSUME CountsAssumption == NCaps \in Nat \ {0} /\ NHard \in Nat \ {0}
ASSUME RequestsAssumption == Requests \subseteq [index : Nat, mv : Nat, ma : Nat]

-----------------------------------------------------------------------------
(* The port.                                                               *)

\* The states of enum tcpm_state a source-only port can be in.
States == {
    "INVALID_STATE", "SRC_UNATTACHED", "SRC_ATTACH_WAIT", "SRC_ATTACHED",
    "SRC_STARTUP", "SRC_DISC_CABLE", "SRC_WAIT_CABLE", "SRC_SEND_CAPABILITIES",
    "SRC_NEGOTIATE_CAPABILITIES", "SRC_TRANSITION_SUPPLY", "SRC_READY",
    "SRC_WAIT_NEW_CAPABILITIES", "ACC_UNATTACHED", "DEBUG_ACC_ATTACHED",
    "AUDIO_ACC_ATTACHED", "AUDIO_ACC_DEBOUNCE", "HARD_RESET_SEND",
    "HARD_RESET_START", "SRC_HARD_RESET_VBUS_OFF", "SRC_HARD_RESET_VBUS_ON",
    "SOFT_RESET", "SOFT_RESET_SEND", "VCONN_SWAP_ACCEPT", "VCONN_SWAP_START",
    "VCONN_SWAP_WAIT_FOR_VCONN", "VCONN_SWAP_TURN_ON_VCONN",
    "VCONN_SWAP_TURN_OFF_VCONN", "BIST_RX", "GET_PPS_STATUS_SEND",
    "ERROR_RECOVERY", "PORT_RESET", "PORT_RESET_WAIT_OFF",
    "SRC_HARD_RESET_DISABLE_RP", "SRC_HARD_RESET_VBUS_OFF_DISABLE" }

\* What the port sees on a CC pin while it presents Rp (tcpci_to_typec_cc).
CcValues == {"OPEN", "RA", "RD"}
CcPairs  == CcValues \X CcValues
Nothing  == <<"OPEN", "OPEN">>

\* The advertised PDOs: 5 V and 9 V fixed, 3.3-11 V programmable, 3 A each.
NrSrcPdo     == 3
PdoType(i)   == IF i = 3 THEN "APDO" ELSE "FIXED"
FixedMv(i)   == IF i = 1 THEN 5000 ELSE 9000
MaxMa        == 3000
ApdoRange    == 3300..11000
VSafe5V      == 5000

NoRequest == [index |-> 0, mv |-> 0, ma |-> 0]

Port == [
    state            : States,
    enter_state      : States,
    prev_state       : States,
    delayed_state    : States,
    run              : BOOLEAN,          \* run_state_machine_flag
    running          : BOOLEAN,          \* state_machine_running
    queued           : BOOLEAN,          \* queued_message # PD_MSG_NONE
    cc               : CcPairs,          \* <<cc1, cc2>>
    polarity         : {"CC1", "CC2", "NONE"},
    attached         : BOOLEAN,
    vbus_present     : BOOLEAN,
    pd_capable       : BOOLEAN,
    explicit_contract: BOOLEAN,
    hard_reset_count : 0..NHard,         \* saturates: only "< NHard" is tested
    caps_count       : 0..(NCaps + 1),   \* saturates: only "> NCaps" is tested
    disc_cable_count : 0..3,             \* saturates: only "> 2" is tested
    sink_request     : Requests \cup {NoRequest},
    pdo_type         : {"FIXED", "APDO"},
    pdo_index        : Nat,
    last_pdo_index   : Nat,
    supply_voltage   : Nat,              \* requested voltage, mV
    force_disable_flag : BOOLEAN,
    bist_carrier2    : BOOLEAN,          \* bist_request asks for carrier mode 2
    rp               : {"OPEN", "RP_1_5", "RP_3_0"},   \* ROLE_CONTROL
    vconn            : BOOLEAN,          \* POWER_CONTROL, vconn_role
    pd_rx            : BOOLEAN,          \* RX_DETECT
    supply           : Nat ]             \* VBUS the TCPC was told to source, mV

-----------------------------------------------------------------------------
(* Predicates on the CC pins.                                              *)

IsSource(p) == (p.cc[1] = "RD") # (p.cc[2] = "RD")
IsDebug(p)  == p.cc = <<"RD", "RD">>
IsAudio(p)  == p.cc = <<"RA", "RA">>
IsAudioDetached(p) == p.cc \in {<<"RA", "OPEN">>, <<"OPEN", "RA">>}

IsDisconnected(p) ==
    \/ ~p.attached /\ p.cc = Nothing
    \/ /\ p.attached
       /\ \/ p.polarity = "CC1" /\ p.cc[1] = "OPEN"
          \/ p.polarity = "CC2" /\ p.cc[2] = "OPEN"

\* VCONN is wanted when the pin that carries no Rd carries Ra.
HasPoweredCable(p, polarity) ==
    \/ polarity = "CC1" /\ p.cc[2] = "RA"
    \/ polarity = "CC2" /\ p.cc[1] = "RA"

-----------------------------------------------------------------------------
(* Changing state.                                                         *)

\* tcpm_set_state with a delay only arms the timer.
SetAfter(p, s) == [p EXCEPT !.delayed_state = s]

\* Mutant: Rp is not put back at the end of an exchange.
RpNotRestored(p, s) ==
    IF p.prev_state = "SRC_READY" /\ s # "SRC_READY" THEN "RP_1_5" ELSE p.rp

\* The Rp value tcpm_set_state writes: txSinkNG when an exchange starts,
\* txSinkOK when it ends. The test is on prev_state, not on state.
RpOnChange(p, s) ==
    IF p.prev_state = "SRC_READY" /\ s # "SRC_READY" THEN "RP_1_5"
    ELSE IF p.prev_state # "SRC_READY" /\ s = "SRC_READY" /\ p.pd_capable
         THEN "RP_3_0" ELSE p.rp

\* Mutant: the state machine is not asked to run the new state.
SetNowUnqueued(p, s) ==
    [p EXCEPT !.rp = RpOnChange(p, s), !.delayed_state = "INVALID_STATE",
              !.prev_state = p.state, !.state = s]

\* tcpm_set_state without a delay.
SetNow(p, s) ==
    [p EXCEPT !.rp = RpOnChange(p, s),
              !.delayed_state = "INVALID_STATE",
              !.prev_state = p.state,
              !.state = s,
              !.run = @ \/ ~p.running]

\* tcpm_set_state_cond: skipped when the state changed since it was entered.
SetNowCond(p, s) == IF p.enter_state = p.state THEN SetNow(p, s) ELSE p
SetAfterCond(p, s) == IF p.enter_state = p.state THEN SetAfter(p, s) ELSE p

HardResetState(p) ==
    IF p.hard_reset_count < NHard THEN "HARD_RESET_SEND"
    ELSE IF p.pd_capable THEN "ERROR_RECOVERY" ELSE "SRC_UNATTACHED"

QueueMessage(p) == [p EXCEPT !.queued = TRUE]

\* tcpm_pd_transmit: what the outcome r of a transmission does to the port.
Transmit(p, r) ==
    IF r = "FAILED" /\ p.pd_capable THEN SetNowCond(p, "SOFT_RESET_SEND") ELSE p

\* tcpm_send_queued_message also forgets the pending delayed state.
SendQueued(p, r) ==
    [Transmit([p EXCEPT !.queued = FALSE], r)
        EXCEPT !.delayed_state = "INVALID_STATE"]

-----------------------------------------------------------------------------
(* VBUS, VCONN and attachment.                                             *)

SetCc(p, rp)      == [p EXCEPT !.rp = rp]
SetVconn(p, on)   == [p EXCEPT !.vconn = on]
SetPdRx(p, on)    == [p EXCEPT !.pd_rx = on]

\* Mutant: sourcing resumes at the voltage requested before the hard reset.
SetVbusResumes(p, on) ==
    [p EXCEPT !.supply = IF ~on THEN 0
                         ELSE IF p.supply_voltage # 0 THEN p.supply_voltage ELSE VSafe5V]

\* tcpci_set_vbus: sourcing starts at 5 V and rewrites the Rp value bits,
\* which leaves disconnected CC pins disconnected.
SetVbus(p, on) ==
    IF on THEN [p EXCEPT !.supply = VSafe5V,
                         !.rp = IF @ = "OPEN" THEN @ ELSE "RP_3_0"]
          ELSE [p EXCEPT !.supply = 0]

\* tcpci_set_vbus_hv.
SetVbusHv(p) == [p EXCEPT !.supply = p.supply_voltage]

\* Mutants: the reset forgets VBUS, VCONN, or the voltage granted.
ResetKeepsVbus(p) ==
    [SetVconn(p, FALSE)
        EXCEPT !.attached = FALSE, !.pd_capable = FALSE, !.supply_voltage = 0]
ResetKeepsVconn(p) ==
    [SetVbus(p, FALSE)
        EXCEPT !.attached = FALSE, !.pd_capable = FALSE, !.supply_voltage = 0]
ResetKeepsVoltage(p) ==
    [SetVbus(SetVconn(p, FALSE), FALSE) EXCEPT !.attached = FALSE, !.pd_capable = FALSE]

ResetPort(p) ==
    [SetVbus(SetVconn(p, FALSE), FALSE)
        EXCEPT !.attached = FALSE, !.pd_capable = FALSE, !.supply_voltage = 0]

SrcAttach(p) ==
    LET polarity == IF p.cc[2] = "RD" THEN "CC2" ELSE "CC1"
        q == SetPdRx([p EXCEPT !.polarity = polarity], TRUE)
        v == IF HasPoweredCable(p, polarity) THEN SetVconn(q, TRUE) ELSE q
    IN  IF p.attached THEN p
        ELSE [SetVbus(v, TRUE) EXCEPT !.pd_capable = FALSE, !.attached = TRUE]

AccAttach(p) == [p EXCEPT !.attached = TRUE]

Detach(p) ==
    IF ~p.attached THEN p
    ELSE ResetPort([p EXCEPT !.hard_reset_count = IF IsDisconnected(p) THEN 0 ELSE @])

-----------------------------------------------------------------------------
(* Requests.                                                               *)

\* tcpm_pd_check_request: the request is granted.
RequestOk(r) ==
    /\ r.index \in 1..NrSrcPdo
    /\ r.ma <= MaxMa
    /\ PdoType(r.index) = "APDO" => r.mv \in ApdoRange /\ r.ma >= 1000

\* Mutant: the requested voltage is stored before the request is validated.
CheckRequestEagerly(p) ==
    LET r == p.sink_request
    IN  [p EXCEPT !.pdo_index = r.index,
                  !.pdo_type = IF RequestOk(r) THEN PdoType(r.index) ELSE @,
                  !.supply_voltage = IF PdoType(r.index) = "APDO"
                                     THEN r.mv ELSE FixedMv(r.index)]

\* Its effect: pdo_index is stored before the request is validated.
CheckRequest(p) ==
    LET r == p.sink_request
        q == [p EXCEPT !.pdo_index = r.index]
    IN  IF ~RequestOk(r) THEN q
        ELSE [q EXCEPT !.pdo_type = PdoType(r.index),
                       !.supply_voltage = IF PdoType(r.index) = "APDO"
                                          THEN r.mv ELSE FixedMv(r.index)]

-----------------------------------------------------------------------------
(* Events.                                                                 *)

\* _tcpm_pd_hard_reset, called when the port is not disconnected.
HardResetEvent(p) ==
    IF IsDisconnected(p) THEN p
    ELSE SetNow(p, IF p.hard_reset_count < NHard THEN "HARD_RESET_START"
                   ELSE "ERROR_RECOVERY")

\* _tcpm_pd_vbus_on and _tcpm_pd_vbus_off.
VbusEvent(p, on) ==
    LET q == [p EXCEPT !.vbus_present = on]
    IN  CASE on /\ p.state = "SRC_ATTACHED" -> SetNow(q, "SRC_STARTUP")
          [] on /\ p.state = "SRC_HARD_RESET_VBUS_ON" -> SetAfter(q, "SRC_STARTUP")
          [] ~on /\ p.state = "PORT_RESET_WAIT_OFF" -> SetNow(q, "SRC_UNATTACHED")
          [] OTHER -> q

\* _tcpm_cc_change.
CcChange(p, cc) ==
    LET q == [p EXCEPT !.cc = cc]
        anyOpen == cc[1] = "OPEN" \/ cc[2] = "OPEN"
    IN  CASE p.state = "SRC_UNATTACHED" ->
               IF IsDebug(q) \/ IsAudio(q) \/ IsSource(q)
               THEN SetNow(q, "SRC_ATTACH_WAIT") ELSE q
          [] p.state = "SRC_ATTACH_WAIT" ->
               IF IsDisconnected(q) \/ IsAudioDetached(q)
               THEN SetNow(q, "SRC_UNATTACHED")
               ELSE IF cc # p.cc THEN SetNow(q, "SRC_ATTACH_WAIT") ELSE q
          [] p.state = "AUDIO_ACC_ATTACHED" ->
               IF anyOpen THEN SetNow(q, "AUDIO_ACC_DEBOUNCE") ELSE q
          [] p.state = "AUDIO_ACC_DEBOUNCE" ->
               IF IsAudio(q) THEN SetNow(q, "AUDIO_ACC_ATTACHED") ELSE q
          [] p.state = "DEBUG_ACC_ATTACHED" ->
               IF anyOpen THEN SetNow(q, "ACC_UNATTACHED") ELSE q
          [] p.state \in {"SRC_HARD_RESET_DISABLE_RP",
                          "SRC_HARD_RESET_VBUS_OFF_DISABLE"} -> q
          [] OTHER -> IF IsDisconnected(q) THEN SetNow(q, "SRC_UNATTACHED") ELSE q

-----------------------------------------------------------------------------
(* Received messages.                                                      *)

\* The messages the port tells apart: control messages, extended status
\* messages, the data messages it acts on, and every message whose only effect
\* is a queued reply ("OTHER": role swaps, Get_*, vendor messages, ...).
ExtKinds  == {"EXT_STATUS_PPS", "EXT_STATUS"}
DataKinds == {"REQUEST", "EPR_REQUEST", "BIST_CARRIER2", "BIST_OTHER"}
CtrlKinds == {"GET_SOURCE_CAP", "GET_SINK_CAP", "ACCEPT", "SOFT_RESET",
              "VCONN_SWAP", "PS_RDY", "OTHER"}
Kinds     == ExtKinds \cup DataKinds \cup CtrlKinds \cup {"ROLE_MISMATCH"}
Message   == [kind : Kinds, rdo : Requests \cup {NoRequest}]

\* tcpm_pd_ctrl_request.
CtrlRequest(p, kind) ==
    CASE kind = "GET_SOURCE_CAP" ->
           IF p.state = "SRC_READY"
           THEN SetNow([p EXCEPT !.caps_count = IF p.pd_capable THEN NCaps - 1 ELSE @],
                       "SRC_SEND_CAPABILITIES")
           ELSE QueueMessage(p)
      [] kind = "GET_SINK_CAP" ->
           IF p.state = "SRC_SEND_CAPABILITIES"
           THEN SetNow(p, "SOFT_RESET_SEND") ELSE QueueMessage(p)
      [] kind = "PS_RDY" ->
           IF p.state = "VCONN_SWAP_WAIT_FOR_VCONN"
           THEN SetNow(p, "VCONN_SWAP_TURN_OFF_VCONN") ELSE p
      [] kind = "ACCEPT" ->
           SetNow(p, IF p.state = "SOFT_RESET_SEND" THEN "SRC_SEND_CAPABILITIES"
                     ELSE "SOFT_RESET_SEND")
      [] kind = "SOFT_RESET" -> SetNow(p, "SOFT_RESET")
      [] kind = "VCONN_SWAP" ->
           IF p.state = "SRC_READY" THEN SetNow(p, "VCONN_SWAP_ACCEPT")
           ELSE QueueMessage(p)
      [] OTHER -> QueueMessage(p)

\* tcpm_pd_ext_msg_request: a source acts on status messages as a sink would.
ExtRequest(p, kind) ==
    SetNow(p, IF kind = "EXT_STATUS_PPS" THEN "GET_PPS_STATUS_SEND" ELSE "SRC_READY")

\* tcpm_pd_data_request: BIST is honoured only in SRC_READY at 5 V.
DataRequest(p, m) ==
    CASE m.kind = "REQUEST" ->
           SetNow([p EXCEPT !.sink_request = m.rdo], "SRC_NEGOTIATE_CAPABILITIES")
      [] m.kind = "EPR_REQUEST" -> SetNowCond(p, "HARD_RESET_SEND")
      [] OTHER ->
           IF p.state = "SRC_READY" /\ p.supply_voltage = VSafe5V
           THEN SetNow([p EXCEPT !.bist_carrier2 = (m.kind = "BIST_CARRIER2")], "BIST_RX")
           ELSE p

\* tcpm_pd_rx_handler, behind its message ID filter.
RxHandler(p, m) ==
    IF ~p.attached THEN p
    ELSE CASE m.kind = "ROLE_MISMATCH" -> SetNow(p, "ERROR_RECOVERY")
           [] m.kind \in ExtKinds     -> ExtRequest(p, m.kind)
           [] m.kind \in DataKinds    -> DataRequest(p, m)
           [] OTHER                   -> CtrlRequest(p, m.kind)

-----------------------------------------------------------------------------
(* The button.                                                             *)

\* tcpm_pd_disable, called by the mode switch.
PdDisable(p) ==
    SetNowCond([p EXCEPT !.force_disable_flag = TRUE], "HARD_RESET_SEND")
=============================================================================
