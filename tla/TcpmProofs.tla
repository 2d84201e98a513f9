----------------------------- MODULE TcpmProofs -----------------------------
(***************************************************************************)
(* Type correctness of the port manager, for every number of retries, set  *)
(* of plugs, messages and requests, and content of the memory at start.    *)
(* Each helper of TcpmPort maps a port to a port; each state of the state  *)
(* machine and each step of a pass is a composition of helpers.            *)
(***************************************************************************)
EXTENDS TcpmProps, TLAPS

LEMMA SetAfterType ==
    ASSUME NEW p \in Port, NEW s \in States PROVE SetAfter(p, s) \in Port
BY DEF SetAfter, Port

LEMMA RpOnChangeType ==
    ASSUME NEW p \in Port, NEW s \in States
    PROVE  RpOnChange(p, s) \in {"OPEN", "RP_1_5", "RP_3_0"}
BY DEF RpOnChange, Port

LEMMA StateUpdateType ==
    ASSUME NEW p \in Port, NEW s \in States, NEW t \in States, NEW d \in States,
           NEW b \in BOOLEAN, NEW rp \in {"OPEN", "RP_1_5", "RP_3_0"}
    PROVE  [p EXCEPT !.rp = rp, !.delayed_state = d, !.prev_state = t,
                     !.state = s, !.run = b] \in Port
BY DEF Port

LEMMA SetNowType ==
    ASSUME NEW p \in Port, NEW s \in States PROVE SetNow(p, s) \in Port
<1>1. "INVALID_STATE" \in States /\ p.state \in States
  BY DEF States, Port
<1>2. (p.run \/ ~p.running) \in BOOLEAN
  OBVIOUS
<1> QED
  BY <1>1, <1>2, RpOnChangeType, StateUpdateType DEF SetNow

LEMMA SetNowCondType ==
    ASSUME NEW p \in Port, NEW s \in States PROVE SetNowCond(p, s) \in Port
BY SetNowType DEF SetNowCond

LEMMA SetAfterCondType ==
    ASSUME NEW p \in Port, NEW s \in States PROVE SetAfterCond(p, s) \in Port
BY SetAfterType DEF SetAfterCond

LEMMA HardResetStateType ==
    ASSUME NEW p \in Port PROVE HardResetState(p) \in States
BY DEF HardResetState, States

LEMMA TransmitType ==
    ASSUME NEW p \in Port, NEW r PROVE Transmit(p, r) \in Port
BY SetNowCondType DEF Transmit, States

LEMMA SendQueuedType ==
    ASSUME NEW p \in Port, NEW r PROVE SendQueued(p, r) \in Port
<1>1. [p EXCEPT !.queued = FALSE] \in Port
  BY DEF Port
<1> DEFINE t == Transmit([p EXCEPT !.queued = FALSE], r)
<1>2. t \in Port
  BY <1>1, TransmitType
<1>3. SendQueued(p, r) = SetAfter(t, "INVALID_STATE")
  BY DEF SendQueued, SetAfter
<1> QED
  BY <1>2, <1>3, SetAfterType DEF States

-----------------------------------------------------------------------------
(* VBUS, VCONN, attachment and requests.                                   *)

LEMMA RegisterType ==
    ASSUME NEW p \in Port, NEW b \in BOOLEAN,
           NEW rp \in {"OPEN", "RP_1_5", "RP_3_0"}
    PROVE  /\ SetCc(p, rp) \in Port
           /\ SetVconn(p, b) \in Port
           /\ SetPdRx(p, b) \in Port
<1>1. SetCc(p, rp) \in Port
  BY DEF SetCc, Port
<1>2. SetVconn(p, b) \in Port
  BY DEF SetVconn, Port
<1>3. SetPdRx(p, b) \in Port
  BY DEF SetPdRx, Port
<1> QED
  BY <1>1, <1>2, <1>3

LEMMA SetVbusType ==
    ASSUME NEW p \in Port, NEW b \in BOOLEAN PROVE SetVbus(p, b) \in Port
<1> DEFINE rp == IF p.rp = "OPEN" THEN p.rp ELSE "RP_3_0"
<1>1. rp \in {"OPEN", "RP_1_5", "RP_3_0"}
  OBVIOUS
<1>2. VSafe5V \in Nat /\ 0 \in Nat
  BY DEF VSafe5V
<1>3. [p EXCEPT !.supply = VSafe5V, !.rp = rp] \in Port
  BY <1>1, <1>2 DEF Port
<1>4. [p EXCEPT !.supply = 0] \in Port
  BY <1>2 DEF Port
<1> QED
  BY <1>3, <1>4 DEF SetVbus

LEMMA SetVbusHvType ==
    ASSUME NEW p \in Port PROVE SetVbusHv(p) \in Port
BY DEF SetVbusHv, Port

LEMMA ResetPortType ==
    ASSUME NEW p \in Port PROVE ResetPort(p) \in Port
<1> DEFINE q == SetVbus(SetVconn(p, FALSE), FALSE)
<1>1. q \in Port
  BY RegisterType, SetVbusType
<1>2. [q EXCEPT !.attached = FALSE, !.pd_capable = FALSE, !.supply_voltage = 0] \in Port
  <2> HIDE DEF q
  <2> QED
    BY <1>1 DEF Port
<1> QED
  BY <1>2 DEF ResetPort

LEMMA SrcAttachType ==
    ASSUME NEW p \in Port PROVE SrcAttach(p) \in Port
<1> DEFINE polarity == IF p.cc[2] = "RD" THEN "CC2" ELSE "CC1"
           q == SetPdRx([p EXCEPT !.polarity = polarity], TRUE)
           v == IF HasPoweredCable(p, polarity) THEN SetVconn(q, TRUE) ELSE q
           w == SetVbus(v, TRUE)
<1>1. [p EXCEPT !.polarity = polarity] \in Port
  BY DEF Port
<1>2. q \in Port
  BY <1>1, RegisterType
<1>3. v \in Port
  BY <1>2, RegisterType
<1>4. w \in Port
  BY <1>3, SetVbusType
<1>5. [w EXCEPT !.pd_capable = FALSE, !.attached = TRUE] \in Port
  <2> HIDE DEF w
  <2> QED
    BY <1>4 DEF Port
<1> QED
  BY <1>5 DEF SrcAttach

LEMMA AccAttachType ==
    ASSUME NEW p \in Port PROVE AccAttach(p) \in Port
BY DEF AccAttach, Port

LEMMA DetachType ==
    ASSUME NEW p \in Port PROVE Detach(p) \in Port
<1> DEFINE n == IF IsDisconnected(p) THEN 0 ELSE p.hard_reset_count
<1>1. n \in 0..NHard
  BY CountsAssumption DEF Port
<1>2. [p EXCEPT !.hard_reset_count = n] \in Port
  BY <1>1 DEF Port
<1> QED
  BY <1>2, ResetPortType DEF Detach

LEMMA CheckRequestType ==
    ASSUME NEW p \in Port PROVE CheckRequest(p) \in Port
<1> DEFINE r == p.sink_request
           q == [p EXCEPT !.pdo_index = r.index]
           mv == IF PdoType(r.index) = "APDO" THEN r.mv ELSE FixedMv(r.index)
           t == PdoType(r.index)
<1>1. r.index \in Nat /\ r.mv \in Nat
  BY RequestsAssumption DEF Port, NoRequest
<1>2. q \in Port
  BY <1>1 DEF Port
<1>3. mv \in Nat
  BY <1>1 DEF FixedMv
<1>4. t \in {"FIXED", "APDO"}
  BY DEF PdoType
<1>5. [q EXCEPT !.pdo_type = t, !.supply_voltage = mv] \in Port
  <2> HIDE DEF q, t, mv
  <2> QED
    BY <1>2, <1>3, <1>4 DEF Port
<1> QED
  BY <1>2, <1>5 DEF CheckRequest

-----------------------------------------------------------------------------
(* Events and messages.                                                    *)

LEMMA HardResetEventType ==
    ASSUME NEW p \in Port PROVE HardResetEvent(p) \in Port
BY SetNowType DEF HardResetEvent, States

LEMMA VbusEventType ==
    ASSUME NEW p \in Port, NEW b \in BOOLEAN PROVE VbusEvent(p, b) \in Port
<1>1. [p EXCEPT !.vbus_present = b] \in Port
  BY DEF Port
<1> QED
  BY <1>1, SetNowType, SetAfterType DEF VbusEvent, States

LEMMA CcChangeType ==
    ASSUME NEW p \in Port, NEW cc \in CcPairs PROVE CcChange(p, cc) \in Port
<1> DEFINE q == [p EXCEPT !.cc = cc]
<1>1. q \in Port
  BY DEF Port
<1>2. {"SRC_ATTACH_WAIT", "SRC_UNATTACHED", "AUDIO_ACC_DEBOUNCE", "AUDIO_ACC_ATTACHED",
       "ACC_UNATTACHED"} \subseteq States
  BY DEF States
<1>3. CcChange(p, cc) = q
      \/ \E s \in {"SRC_ATTACH_WAIT", "SRC_UNATTACHED", "AUDIO_ACC_DEBOUNCE",
                    "AUDIO_ACC_ATTACHED", "ACC_UNATTACHED"} :
            CcChange(p, cc) = SetNow(q, s)
  <2> HIDE DEF q
  <2> QED
    BY DEF CcChange, q
<1> QED
  BY <1>1, <1>2, <1>3, SetNowType

LEMMA CtrlRequestType ==
    ASSUME NEW p \in Port, NEW kind PROVE CtrlRequest(p, kind) \in Port
<1> DEFINE n == IF p.pd_capable THEN NCaps - 1 ELSE p.caps_count
           q == [p EXCEPT !.caps_count = n]
<1>1. n \in 0..(NCaps + 1)
  BY CountsAssumption DEF Port
<1>2. q \in Port
  <2> HIDE DEF n
  <2> QED
    BY <1>1 DEF Port
<1>3. QueueMessage(p) \in Port
  BY DEF QueueMessage, Port
<1>4. {"SRC_SEND_CAPABILITIES", "SOFT_RESET_SEND", "SOFT_RESET", "VCONN_SWAP_ACCEPT",
       "VCONN_SWAP_TURN_OFF_VCONN"} \subseteq States
  BY DEF States
<1> HIDE DEF n
<1> QED
  BY <1>2, <1>3, <1>4, SetNowType DEF CtrlRequest, n

LEMMA DataRequestType ==
    ASSUME NEW p \in Port, NEW m, m.rdo \in Requests \cup {NoRequest}
    PROVE  DataRequest(p, m) \in Port
<1>1. [p EXCEPT !.sink_request = m.rdo] \in Port
  BY DEF Port
<1>2. [p EXCEPT !.bist_carrier2 = (m.kind = "BIST_CARRIER2")] \in Port
  <2>1. (m.kind = "BIST_CARRIER2") \in BOOLEAN
    OBVIOUS
  <2> QED
    BY <2>1 DEF Port
<1>3. {"SRC_NEGOTIATE_CAPABILITIES", "HARD_RESET_SEND", "BIST_RX"} \subseteq States
  BY DEF States
<1> QED
  BY <1>1, <1>2, <1>3, SetNowType, SetNowCondType DEF DataRequest

LEMMA RxHandlerType ==
    ASSUME NEW p \in Port, NEW m, m.rdo \in Requests \cup {NoRequest}
    PROVE  RxHandler(p, m) \in Port
<1>1. ExtRequest(p, m.kind) \in Port
  BY SetNowType DEF ExtRequest, States
<1>2. SetNow(p, "ERROR_RECOVERY") \in Port
  BY SetNowType DEF States
<1> QED
  BY <1>1, <1>2, DataRequestType, CtrlRequestType DEF RxHandler

LEMMA PdDisableType ==
    ASSUME NEW p \in Port PROVE PdDisable(p) \in Port
<1>1. [p EXCEPT !.force_disable_flag = TRUE] \in Port
  BY DEF Port
<1> QED
  BY <1>1, SetNowCondType DEF PdDisable, States

-----------------------------------------------------------------------------
(* Start.                                                                  *)

LEMMA RegisteredType ==
    ASSUME NEW p \in Port PROVE Registered(p) \in Port
<1>1. "INVALID_STATE" \in States
  BY DEF States
<1>2. Nothing \in CcPairs
  BY DEF Nothing, CcPairs, CcValues
<1> QED
  BY <1>1, <1>2 DEF Registered, Port

LEMMA TcpmInitType ==
    ASSUME NEW p \in Port, NEW v \in BOOLEAN, NEW cc \in CcPairs
    PROVE  TcpmInit(p, v, cc) \in Port
<1>1. ResetPort(p) \in Port
  BY ResetPortType
<1>2. [ResetPort(p) EXCEPT !.vbus_present = v] \in Port
  BY <1>1 DEF Port
<1>3. {"SRC_UNATTACHED", "PORT_RESET"} \subseteq States
  BY DEF States
<1> QED
  BY <1>2, <1>3, SetNowType, CcChangeType DEF TcpmInit

LEMMA ObservedType ==
    ASSUME NEW p, NEW l \in Lines PROVE Observed(p, l) \in CcPairs
BY LinesAssumption DEF Observed, Nothing, CcPairs, CcValues

-----------------------------------------------------------------------------
(* One iteration of the state machine.                                     *)

\* What a step of the program does to everything but port, todo and pc.
LEMMA BecomesType ==
    ASSUME TypeOK, NEW p \in Port, Becomes(p)
    PROVE  /\ port' \in Port /\ events' \subseteq Events /\ vbus' \in BOOLEAN
           /\ rx' \in Messages \cup {NoMessage} /\ line' \in Lines
           /\ left' \in [Inputs -> Nat]
BY DEF TypeOK, Becomes, Alerted, Discharged, Events

LEMMA RanType ==
    ASSUME TypeOK, NEW p \in Port, Ran(p)
    PROVE  TypeOK'
<1> DEFINE q == [p EXCEPT !.running = FALSE, !.run = FALSE]
           again == p.state # port.state /\ p.delayed_state = "INVALID_STATE"
           r == IF again THEN p ELSE q
<1>1. r \in Port
  <2>1. q \in Port
    BY DEF Port
  <2> QED
    BY <2>1
<1>2. Becomes(r) /\ pc' \in {"sm", "tail"} /\ todo' = todo
  BY DEF Ran
<1> HIDE DEF r
<1> QED
  BY <1>1, <1>2, BecomesType DEF TypeOK

LEMMA EnteredType ==
    ASSUME TypeOK PROVE Entered \in Port
<1>1. port \in Port /\ port.state \in States
  BY DEF TypeOK, Port
<1> QED
  BY <1>1 DEF Entered, Port

\* Every state of run_state_machine leaves a well-typed port.
LEMMA RunStateMachineType ==
    ASSUME TypeOK, RunStateMachine
    PROVE  TypeOK'
<1> DEFINE e == Entered
<1>0. e \in Port
  BY EnteredType
<1>s. HardResetState(e) \in States
  BY <1>0, HardResetStateType
<1> HIDE DEF e
<1>1. CASE SrcUnattached
  BY <1>0, <1>1, RegisterType, DetachType, RanType DEF SrcUnattached, e
<1>2. CASE SrcAttachWait
  BY <1>0, <1>2, SetAfterType, RanType DEF SrcAttachWait, e, States
<1>3. CASE SrcAttached
  <2>1. SetAfter(SetCc(SrcAttach(e), "RP_3_0"), "SRC_UNATTACHED") \in Port
    BY <1>0, SrcAttachType, RegisterType, SetAfterType DEF States
  <2> QED
    BY <1>3, <2>1, RanType DEF SrcAttached, e
<1>4. CASE SrcStartup
  <2> DEFINE q == [e EXCEPT !.attached = TRUE, !.disc_cable_count = 0,
                            !.caps_count = 0, !.explicit_contract = FALSE,
                            !.last_pdo_index = 0]
  <2>1. 0 \in 0..3 /\ 0 \in 0..(NCaps + 1) /\ 0 \in Nat
    BY CountsAssumption
  <2>2. q \in Port
    BY <1>0, <2>1 DEF Port
  <2>3. SetAfter(q, "SRC_DISC_CABLE") \in Port
    BY <2>2, SetAfterType DEF States
  <2> QED
    BY <1>4, <2>3, RanType DEF SrcStartup, e
<1>5. CASE SrcDiscCable
  <2> DEFINE n == IF e.disc_cable_count > 2 THEN e.disc_cable_count
                  ELSE e.disc_cable_count + 1
             p == [e EXCEPT !.disc_cable_count = n]
  <2>1. n \in 0..3
    BY <1>0 DEF Port
  <2>2. p \in Port
    <3> HIDE DEF n
    <3> QED
      BY <1>0, <2>1 DEF Port
  <2>3. {"SRC_SEND_CAPABILITIES", "SRC_WAIT_CABLE", "SRC_DISC_CABLE"} \subseteq States
    BY DEF States
  <2>4. /\ SetAfter(e, "SRC_SEND_CAPABILITIES") \in Port
        /\ SetNow(p, "SRC_SEND_CAPABILITIES") \in Port
        /\ \A r : /\ SetAfter(Transmit(p, r), "SRC_WAIT_CABLE") \in Port
                  /\ SetAfter(Transmit(p, r), "SRC_DISC_CABLE") \in Port
    <3> HIDE DEF p
    <3> QED
      BY <1>0, <2>2, <2>3, SetAfterType, SetNowType, TransmitType
  <2>5. \/ Ran(SetAfter(e, "SRC_SEND_CAPABILITIES"))
        \/ Ran(SetNow(p, "SRC_SEND_CAPABILITIES"))
        \/ \E r \in TxOutcomes : \/ Ran(SetAfter(Transmit(p, r), "SRC_WAIT_CABLE"))
                                 \/ Ran(SetAfter(Transmit(p, r), "SRC_DISC_CABLE"))
    BY <1>5 DEF SrcDiscCable, e
  <2> HIDE DEF p
  <2> QED
    BY <2>4, <2>5, RanType
<1>6. CASE SrcWaitCable
  BY <1>0, <1>6, SetNowType, RanType DEF SrcWaitCable, e, States
<1>7. CASE SrcSendCapabilities
  <2> DEFINE n == IF e.caps_count > NCaps THEN e.caps_count ELSE e.caps_count + 1
             p == [e EXCEPT !.caps_count = n]
             q == [p EXCEPT !.hard_reset_count = 0, !.caps_count = 0,
                            !.pd_capable = TRUE]
  <2>1. n \in 0..(NCaps + 1)
    BY <1>0, CountsAssumption DEF Port
  <2>2. p \in Port
    <3> HIDE DEF n
    <3> QED
      BY <1>0, <2>1 DEF Port
  <2>3. q \in Port
    <3>1. 0 \in 0..(NCaps + 1) /\ 0 \in 0..NHard
      BY CountsAssumption
    <3> HIDE DEF p
    <3> QED
      BY <2>2, <3>1 DEF Port
  <2>4. {"SRC_SEND_CAPABILITIES", "SRC_READY"} \subseteq States
    BY DEF States
  <2>5. /\ SetNow(p, "SRC_READY") \in Port
        /\ SetAfter(p, "SRC_SEND_CAPABILITIES") \in Port
        /\ SetAfterCond(q, HardResetState(q)) \in Port
        /\ \A r : Transmit(p, r) \in Port
    <3> HIDE DEF p, q
    <3> QED
      BY <2>2, <2>3, <2>4, SetNowType, SetAfterType, SetAfterCondType,
         HardResetStateType, TransmitType
  <2>6. \/ Ran(SetNow(p, "SRC_READY"))
        \/ Ran(SetAfterCond(q, HardResetState(q)))
        \/ Ran(SetAfter(p, "SRC_SEND_CAPABILITIES"))
        \/ \E r \in TxOutcomes : Ran(Transmit(p, r))
    BY <1>7 DEF SrcSendCapabilities, CapsSent, e
  <2> HIDE DEF p, q
  <2> QED
    BY <2>5, <2>6, RanType
<1>8. CASE SrcNegotiateCapabilities
  <2> DEFINE p == CheckRequest(e)
  <2>1. p \in Port
    BY <1>0, CheckRequestType
  <2> HIDE DEF p
  <2>2. ASSUME NEW r PROVE Reject(p, r) \in Port
    BY <2>1, TransmitType, SetNowType DEF Reject, States
  <2>3. ASSUME NEW r PROVE Accept(p, r) \in Port
    <3> DEFINE q == Transmit(p, r)
               t == IF p.pdo_type = "APDO" /\ p.pdo_index = p.last_pdo_index
                    THEN SetNow(q, "SRC_TRANSITION_SUPPLY")
                    ELSE SetAfter(q, "SRC_TRANSITION_SUPPLY")
    <3>1. t \in Port
      BY <2>1, TransmitType, SetNowType, SetAfterType DEF States
    <3>2. p.pdo_index \in Nat
      BY <2>1 DEF Port
    <3>3. Accept(p, r) = [t EXCEPT !.last_pdo_index = p.pdo_index]
      BY DEF Accept
    <3> HIDE DEF t
    <3> QED
      BY <3>1, <3>2, <3>3 DEF Port
  <2>4. \E r \in TxOutcomes : Ran(Accept(p, r)) \/ Ran(Reject(p, r))
    BY <1>8 DEF SrcNegotiateCapabilities, e, p
  <2> QED
    BY <2>2, <2>3, <2>4, RanType
<1>9. CASE SrcTransitionSupply
  <2>1. ASSUME NEW r
        PROVE  SetNowCond([Transmit(SetVbusHv(e), r) EXCEPT !.explicit_contract = TRUE],
                          "SRC_READY") \in Port
    <3> DEFINE t == Transmit(SetVbusHv(e), r)
    <3>1. t \in Port
      BY <1>0, SetVbusHvType, TransmitType
    <3>2. [t EXCEPT !.explicit_contract = TRUE] \in Port
      <4> HIDE DEF t
      <4> QED
        BY <3>1 DEF Port
    <3> QED
      BY <3>2, SetNowCondType DEF States
  <2> QED
    BY <1>9, <2>1, RanType DEF SrcTransitionSupply, e
<1>10. CASE SrcReady
  <2> DEFINE p == IF port.explicit_contract /\ port.pdo_type = "APDO"
                  THEN SetAfterCond(e, HardResetState(e)) ELSE e
  <2>1. p \in Port
    BY <1>0, <1>s, SetAfterCondType
  <2>2. 0 \in 0..NHard
    BY CountsAssumption
  <2>3. [p EXCEPT !.hard_reset_count = 0] \in Port
    <3> HIDE DEF p
    <3> QED
      BY <2>1, <2>2 DEF Port
  <2> QED
    BY <1>10, <2>3, RanType DEF SrcReady, e
<1>11. CASE AccUnattached
  BY <1>0, <1>11, DetachType, SetNowType, RanType DEF AccUnattached, e, States
<1>12. CASE AccAttached
  BY <1>0, <1>12, AccAttachType, RanType DEF AccAttached, e
<1>13. CASE AudioAccDebounce
  BY <1>0, <1>13, SetAfterType, RanType DEF AudioAccDebounce, e, States
<1>14. CASE HardResetSend
  BY <1>0, <1>14, TransmitType, SetNowType, RanType DEF HardResetSend, e, States
<1>15. CASE HardResetStart
  <2> DEFINE q == SetPdRx(e, FALSE)
             n == IF q.hard_reset_count < NHard THEN q.hard_reset_count + 1
                  ELSE q.hard_reset_count
             p == [q EXCEPT !.hard_reset_count = n]
  <2>1. q \in Port
    BY <1>0, RegisterType
  <2> HIDE DEF q
  <2>2. n \in 0..NHard
    BY <2>1, CountsAssumption DEF Port
  <2>3. p \in Port
    <3> HIDE DEF n
    <3> QED
      BY <2>1, <2>2 DEF Port
  <2>4. {"SRC_HARD_RESET_DISABLE_RP", "SRC_HARD_RESET_VBUS_OFF"} \subseteq States
    BY DEF States
  <2>5. \E s \in {"SRC_HARD_RESET_DISABLE_RP", "SRC_HARD_RESET_VBUS_OFF"} :
           Ran(SetAfter(p, s))
    BY <1>15 DEF HardResetStart, e, q
  <2> HIDE DEF p
  <2> QED
    BY <2>3, <2>4, <2>5, SetAfterType, RanType
<1>16. CASE SrcHardResetVbusOff
  <2>1. SetAfter(SetVbus(SetVconn(e, FALSE), FALSE), "SRC_HARD_RESET_VBUS_ON") \in Port
    BY <1>0, RegisterType, SetVbusType, SetAfterType DEF States
  <2> QED
    BY <1>16, <2>1, RanType DEF SrcHardResetVbusOff, e
<1>17. CASE SrcHardResetVbusOn
  <2> DEFINE p == SetVbus(SetPdRx(e, TRUE), TRUE)
             q == IF HasPoweredCable(p, p.polarity) THEN SetVconn(p, TRUE) ELSE p
  <2>1. p \in Port
    BY <1>0, RegisterType, SetVbusType
  <2>2. q \in Port
    BY <2>1, RegisterType
  <2>3. SetAfter(q, "SRC_UNATTACHED") \in Port
    BY <2>2, SetAfterType DEF States
  <2> QED
    BY <1>17, <2>3, RanType DEF SrcHardResetVbusOn, e
<1>18. CASE SoftReset
  BY <1>0, <1>18, TransmitType, SetNowType, RanType DEF SoftReset, e, States
<1>19. CASE SoftResetSend
  <2>1. ASSUME NEW r
        PROVE  LET p == Transmit(e, r) IN
               /\ SetAfterCond(p, HardResetState(p)) \in Port
               /\ SetNowCond(p, HardResetState(p)) \in Port
    BY <1>0, TransmitType, HardResetStateType, SetAfterCondType, SetNowCondType
  <2> QED
    BY <1>19, <2>1, RanType DEF SoftResetSend, e
<1>20. CASE VconnSwapAccept
  BY <1>0, <1>20, TransmitType, SetNowType, RanType DEF VconnSwapAccept, e, States
<1>21. CASE VconnSwapStart
  BY <1>0, <1>21, SetNowType, RanType DEF VconnSwapStart, e, States
<1>22. CASE VconnSwapWaitForVconn
  BY <1>0, <1>22, <1>s, SetAfterType, RanType DEF VconnSwapWaitForVconn, e
<1>23. CASE VconnSwapTurnOnVconn
  <2>1. ASSUME NEW r
        PROVE  SetNow(Transmit(SetVconn(e, TRUE), r), "SRC_READY") \in Port
    BY <1>0, RegisterType, TransmitType, SetNowType DEF States
  <2> QED
    BY <1>23, <2>1, RanType DEF VconnSwapTurnOnVconn, e
<1>24. CASE VconnSwapTurnOffVconn
  <2>1. SetNow(SetVconn(e, FALSE), "SRC_READY") \in Port
    BY <1>0, RegisterType, SetNowType DEF States
  <2> QED
    BY <1>24, <2>1, RanType DEF VconnSwapTurnOffVconn, e
<1>25. CASE BistRx
  BY <1>0, <1>25, TransmitType, SetNowType, RanType DEF BistRx, e, States
<1>26. CASE IdleState
  BY <1>0, <1>26, RanType DEF IdleState, e
<1>27. CASE PortReset
  <2>1. SetAfter(SetCc(ResetPort(e), "OPEN"), "PORT_RESET_WAIT_OFF") \in Port
    BY <1>0, ResetPortType, RegisterType, SetAfterType DEF States
  <2> QED
    BY <1>27, <2>1, RanType DEF PortReset, e
<1>28. CASE PortResetWaitOff
  BY <1>0, <1>28, SetAfterType, SetNowType, RanType DEF PortResetWaitOff, e, States
<1>29. CASE SrcHardResetDisableRp
  <2>1. SetAfter(SetCc(e, "OPEN"), "SRC_HARD_RESET_VBUS_OFF_DISABLE") \in Port
    BY <1>0, RegisterType, SetAfterType DEF States
  <2> QED
    BY <1>29, <2>1, RanType DEF SrcHardResetDisableRp, e
<1>30. CASE SrcHardResetVbusOffDisable
  <2> DEFINE q == SetVbus(SetVconn(e, FALSE), FALSE)
             p == [q EXCEPT !.force_disable_flag = FALSE]
  <2>1. q \in Port
    BY <1>0, RegisterType, SetVbusType
  <2>2. p \in Port
    <3> HIDE DEF q
    <3> QED
      BY <2>1 DEF Port
  <2>3. SetAfter(p, "SRC_UNATTACHED") \in Port
    BY <2>2, SetAfterType DEF States
  <2> QED
    BY <1>30, <2>3, RanType DEF SrcHardResetVbusOffDisable, e
<1> QED
  BY <1>1, <1>2, <1>3, <1>4, <1>5, <1>6, <1>7, <1>8, <1>9, <1>10, <1>11, <1>12,
     <1>13, <1>14, <1>15, <1>16, <1>17, <1>18, <1>19, <1>20, <1>21, <1>22, <1>23,
     <1>24, <1>25, <1>26, <1>27, <1>28, <1>29, <1>30 DEF RunStateMachine

-----------------------------------------------------------------------------
(* The rest of a pass, the interrupt handler and the resets.               *)

LEMMA HandleType ==
    ASSUME TypeOK, NEW e, NEW p \in Port, Handle(e, p)
    PROVE  TypeOK'
BY BecomesType DEF Handle, TypeOK

LEMMA ProgramType ==
    ASSUME TypeOK, Program
    PROVE  TypeOK'
<1>0. port \in Port /\ line \in Lines /\ vbus \in BOOLEAN
  BY DEF TypeOK
<1>1. CASE Snapshot
  BY <1>1 DEF Snapshot, TypeOK
<1>2. CASE HandleReset
  BY <1>0, <1>2, HardResetEventType, HandleType DEF HandleReset
<1>3. CASE HandleVbus
  BY <1>0, <1>3, VbusEventType, HandleType DEF HandleVbus
<1>4. CASE HandleCc
  BY <1>0, <1>4, ObservedType, CcChangeType, HandleType DEF HandleCc
<1>5. CASE HandleRx
  <2>1. rx.rdo \in Requests \cup {NoRequest}
    BY MessagesAssumption DEF TypeOK, Message, NoMessage
  <2> QED
    BY <1>0, <1>5, <2>1, RxHandlerType, HandleType DEF HandleRx
<1>6. CASE ClearEvent \/ StoreEvents
  BY <1>6 DEF ClearEvent, StoreEvents, TypeOK
<1>7. CASE StartWork
  <2> DEFINE p == [port EXCEPT !.running = TRUE]
  <2>1. p \in Port
    BY <1>0 DEF Port
  <2>2. \E q \in Port : Becomes(q)
    BY <1>7, <2>1, SendQueuedType DEF StartWork
  <2>3. pc' = "sm" /\ todo' = todo
    BY <1>7 DEF StartWork
  <2> QED
    BY <2>2, <2>3, BecomesType DEF TypeOK
<1>8. CASE RunStateMachine
  BY <1>8, RunStateMachineType
<1>9. CASE TimerExpires \/ TimerWaits
  <2>1. Requeued \in Port
    <3>1. [port EXCEPT !.run = TRUE] \in Port
      BY <1>0 DEF Port
    <3> QED
      BY <1>0, <3>1 DEF Requeued
  <2>2. port.delayed_state \in States
    BY <1>0 DEF Port
  <2>3. SetNow(Requeued, port.delayed_state) \in Port
    BY <2>1, <2>2, SetNowType
  <2>4. \E q \in Port : Becomes(q)
    BY <1>9, <2>1, <2>3 DEF TimerExpires, TimerWaits
  <2>5. pc' = "switch" /\ todo' = todo
    BY <1>9 DEF TimerExpires, TimerWaits
  <2> QED
    BY <2>4, <2>5, BecomesType DEF TypeOK
<1> QED
  BY <1>1, <1>2, <1>3, <1>4, <1>5, <1>6, <1>7, <1>8, <1>9 DEF Program

LEMMA SpendType ==
    ASSUME TypeOK, NEW i \in Inputs, Spend(i)
    PROVE  left' \in [Inputs -> Nat]
BY DEF TypeOK, Spend

LEMMA EnvironmentType ==
    ASSUME TypeOK, Environment
    PROVE  TypeOK'
<1>0. port \in Port /\ line \in Lines /\ vbus \in BOOLEAN
  BY DEF TypeOK
<1>i. Inputs = {"plug", "message", "hard_reset", "press", "tcpc_reset", "mcu_reset"}
  BY DEF Inputs
<1>1. CASE SwitchPressed
  <2>1. port' \in Port
    BY <1>0, <1>1, PdDisableType DEF SwitchPressed
  <2>2. left' \in [Inputs -> Nat]
    BY <1>i, <1>1, SpendType DEF SwitchPressed
  <2>3. events' \subseteq Events /\ vbus' \in BOOLEAN
    BY <1>1 DEF SwitchPressed, Alerted, Discharged, TypeOK, Events
  <2>4. pc' = "top" /\ UNCHANGED <<rx, todo, line>>
    BY <1>1 DEF SwitchPressed
  <2> QED
    BY <2>1, <2>2, <2>3, <2>4 DEF TypeOK
<1>2. CASE CcIrq
  <2>1. left' \in [Inputs -> Nat]
    BY <1>i, <1>2, SpendType DEF CcIrq
  <2>2. line' \in Lines /\ events' \subseteq Events
    BY <1>2 DEF CcIrq, Raised, TypeOK, Events
  <2> QED
    BY <1>2, <2>1, <2>2 DEF CcIrq, TypeOK
<1>3. CASE RxIrq
  <2>1. left' \in [Inputs -> Nat]
    BY <1>i, <1>3, SpendType DEF RxIrq
  <2> QED
    BY <1>3, <2>1 DEF RxIrq, Raised, TypeOK, Events
<1>4. CASE HardResetIrq
  <2>1. left' \in [Inputs -> Nat]
    BY <1>i, <1>4, SpendType DEF HardResetIrq
  <2> QED
    BY <1>4, <2>1 DEF HardResetIrq, Raised, TypeOK, Events
<1>5. CASE VbusIrq
  BY <1>5 DEF VbusIrq, Raised, TypeOK, Events
<1>6. CASE TcpcReset
  <2> DEFINE p == SetVbus(SetVconn(SetPdRx(SetCc(port, "OPEN"), FALSE), FALSE), FALSE)
  <2>1. p \in Port
    BY <1>0, RegisterType, SetVbusType
  <2>2. Nothing \in CcPairs
    BY DEF Nothing, CcPairs, CcValues
  <2>3. PICK v \in BOOLEAN : port' = TcpmInit(p, v, Nothing) /\ vbus' = v
    BY <1>0, <1>6 DEF TcpcReset, Discharged
  <2> HIDE DEF p
  <2>6. port' \in Port /\ vbus' \in BOOLEAN
    BY <2>1, <2>2, <2>3, TcpmInitType
  <2>4. left' \in [Inputs -> Nat]
    BY <1>i, <1>6, SpendType DEF TcpcReset
  <2>5. /\ events' \subseteq Events /\ pc' = "events"
        /\ UNCHANGED <<rx, todo, line>>
    BY <1>6 DEF TcpcReset, Events
  <2> QED
    BY <2>4, <2>5, <2>6 DEF TypeOK
<1>7. CASE McuReset
  <2>0. PICK v \in BOOLEAN :
           /\ port' = TcpmInit(Registered(port), v, Observed(port, line))
           /\ Alerted(port', {})
    BY <1>0, <1>7 DEF McuReset, Discharged
  <2> DEFINE q == TcpmInit(Registered(port), v, Observed(port, line))
  <2>1. q \in Port
    BY <1>0, RegisteredType, ObservedType, TcpmInitType
  <2>2. left' \in [Inputs -> Nat]
    BY <1>i, <1>7, SpendType DEF McuReset
  <2>3. port' = q /\ Alerted(q, {})
    BY <2>0
  <2>4. events' \subseteq Events /\ vbus' \in BOOLEAN
    <3> HIDE DEF q
    <3> QED
      BY <1>0, <2>3 DEF Alerted, Discharged, Events
  <2>5. rx' = NoMessage /\ todo' = {} /\ pc' = "top" /\ line' = line
    BY <1>7 DEF McuReset
  <2> HIDE DEF q
  <2> QED
    BY <2>1, <2>2, <2>3, <2>4, <2>5 DEF TypeOK
<1> QED
  BY <1>1, <1>2, <1>3, <1>4, <1>5, <1>6, <1>7 DEF Environment

-----------------------------------------------------------------------------

LEMMA InitType ==
    ASSUME Init PROVE TypeOK
<1>1. port \in Port
  <2>1. PICK h \in PowerOnHeap :
           port = TcpmInit(Registered(h), FALSE, Observed(h, line))
    BY DEF Init
  <2>2. h \in Port /\ line \in Lines
    BY HeapAssumption DEF Init
  <2> QED
    BY <2>1, <2>2, RegisteredType, ObservedType, TcpmInitType
<1>2. left \in [Inputs -> Nat]
  BY BudgetAssumption DEF Init
<1> QED
  BY <1>1, <1>2 DEF Init, TypeOK

\* The port stays well typed through every pass of the main loop: no sequence
\* of events, messages, presses and resets takes tcpm.c to a state without a
\* case, or a counter out of its range.
THEOREM TypeCorrect == Spec => []TypeOK
<1>1. Init => TypeOK
  BY InitType
<1>2. TypeOK /\ [Next]_vars => TypeOK'
  <2> SUFFICES ASSUME TypeOK, [Next]_vars PROVE TypeOK'
    OBVIOUS
  <2>1. CASE Next
    BY <2>1, ProgramType, EnvironmentType DEF Next
  <2>2. CASE UNCHANGED vars
    BY <2>2 DEF vars, TypeOK
  <2> QED
    BY <2>1, <2>2
<1> QED
  BY <1>1, <1>2, PTL DEF Spec
=============================================================================
