------------------------- MODULE TcpmVoltageProofs -------------------------
(***************************************************************************)
(* VBUS is above 5 V only under an explicit contract: the property          *)
(* HighVoltageUnderContract, from the inductive invariant VoltageInv on top *)
(* of PowerInv. The contract is forgotten in SRC_STARTUP and made in        *)
(* SRC_TRANSITION_SUPPLY, by other functions than those that move the       *)
(* supply. SRC_STARTUP is entered on a VBUS event, so the argument is that  *)
(* none is pending at a high voltage: the voltage moves only for a Request, *)
(* which needs VBUS to arrive, and VBUS then stays until it is switched off. *)
(*                                                                          *)
(* On top of it, that Tcpm implements PowerSource: every step of it is a    *)
(* step of the source, or none.                                             *)
(***************************************************************************)
EXTENDS TcpmPowerProofs

HighV(p) == p.supply \notin {0, VSafe5V}

\* The states that grant a request, and the timer between them.
Grants      == {"SRC_NEGOTIATE_CAPABILITIES", "SRC_TRANSITION_SUPPLY"}
Granting(p) == p.state \in Grants \/ p.delayed_state = "SRC_TRANSITION_SUPPLY"

\* A high voltage has its contract, and no state that starts over is reached with it.
Sound(p) ==
    /\ HighV(p) => p.attached /\ p.explicit_contract
    /\ p.state \in {"SRC_STARTUP", "SRC_HARD_RESET_VBUS_ON"} => ~HighV(p)
    /\ p.delayed_state = "SRC_HARD_RESET_VBUS_ON" => p.supply = 0
    /\ Granting(p) => p.attached

\* No VBUS event is pending at a high voltage, nor when the supply is about to move.
VoltageInv ==
    /\ Sound(port)
    /\ HighV(port) => vbus
    /\ "VBUS" \in events \cup todo => ~HighV(port)
    /\ Granting(port) => vbus
    /\ pc = "sm" /\ port.state \in Grants => "VBUS" \notin events
    /\ "RX" \in events \cup todo /\ port.attached => vbus
    /\ pc = "sm" /\ "RX" \in events /\ ~vbus => port.state = "SRC_UNATTACHED"

-----------------------------------------------------------------------------
(* What the helpers do to the fields the argument is about.                *)

\* q differs from p in the state and the timer only.
SameVolts(p, q) ==
    /\ q.attached = p.attached
    /\ q.explicit_contract = p.explicit_contract
    /\ q.supply = p.supply

SamePlace(p, q) ==
    /\ q.state = p.state
    /\ q.delayed_state = p.delayed_state
    /\ q.enter_state = p.enter_state

\* q differs from p in no such field.
Alike(p, q) == SameVolts(p, q) /\ SamePlace(p, q)

LEMMA AlikeSound ==
    ASSUME NEW p, NEW q, Alike(p, q)
    PROVE  (Sound(p) => Sound(q)) /\ (Granting(q) => Granting(p))
BY DEF Alike, SameVolts, SamePlace, Sound, HighV, Granting

LEMMA AlikeTrans ==
    ASSUME NEW p, NEW q, NEW r, Alike(p, q), Alike(q, r) PROVE Alike(p, r)
BY DEF Alike, SameVolts, SamePlace

LEMMA NowVolts ==
    ASSUME NEW p \in Port, NEW s
    PROVE  /\ SameVolts(p, SetNow(p, s))
           /\ SetNow(p, s).state = s
           /\ SetNow(p, s).delayed_state = "INVALID_STATE"
           /\ SetNow(p, s).enter_state = p.enter_state
<1>1. SameVolts(p, SetNow(p, s))
  BY DEF SameVolts, SetNow, Port
<1>2. /\ SetNow(p, s).state = s /\ SetNow(p, s).delayed_state = "INVALID_STATE"
      /\ SetNow(p, s).enter_state = p.enter_state
  BY DEF SetNow, Port
<1> QED
  BY <1>1, <1>2

LEMMA AfterVolts ==
    ASSUME NEW p \in Port, NEW s
    PROVE  /\ SameVolts(p, SetAfter(p, s))
           /\ SetAfter(p, s).state = p.state
           /\ SetAfter(p, s).delayed_state = s
           /\ SetAfter(p, s).enter_state = p.enter_state
BY DEF SameVolts, SetAfter, Port

LEMMA RegisterVolts ==
    ASSUME NEW p \in Port, NEW x
    PROVE  /\ Alike(p, SetCc(p, x))
           /\ Alike(p, SetVconn(p, x))
           /\ Alike(p, SetPdRx(p, x))
<1>1. Alike(p, SetCc(p, x))
  BY DEF Alike, SameVolts, SamePlace, SetCc, Port
<1>2. Alike(p, SetVconn(p, x))
  BY DEF Alike, SameVolts, SamePlace, SetVconn, Port
<1>3. Alike(p, SetPdRx(p, x))
  BY DEF Alike, SameVolts, SamePlace, SetPdRx, Port
<1> QED
  BY <1>1, <1>2, <1>3

LEMMA VbusVolts ==
    ASSUME NEW p \in Port
    PROVE  /\ LET q == SetVbus(p, TRUE) IN
              /\ SamePlace(p, q) /\ q.attached = p.attached
              /\ q.explicit_contract = p.explicit_contract /\ q.supply = VSafe5V
           /\ LET q == SetVbus(p, FALSE) IN
              /\ SamePlace(p, q) /\ q.attached = p.attached
              /\ q.explicit_contract = p.explicit_contract /\ q.supply = 0
<1>1. LET q == SetVbus(p, TRUE) IN
      /\ SamePlace(p, q) /\ q.attached = p.attached
      /\ q.explicit_contract = p.explicit_contract /\ q.supply = VSafe5V
  BY DEF SamePlace, SetVbus, Port
<1>2. LET q == SetVbus(p, FALSE) IN
      /\ SamePlace(p, q) /\ q.attached = p.attached
      /\ q.explicit_contract = p.explicit_contract /\ q.supply = 0
  BY DEF SamePlace, SetVbus, Port
<1> QED
  BY <1>1, <1>2

\* tcpm_reset_port leaves nothing attached and nothing sourced.
Bare(p, q) == q \in Port /\ SamePlace(p, q) /\ ~q.attached /\ q.supply = 0

LEMMA ResetPortBare ==
    ASSUME NEW p \in Port PROVE Bare(p, ResetPort(p))
<1> DEFINE q == SetVconn(p, FALSE)
           r == SetVbus(q, FALSE)
           u == [r EXCEPT !.attached = FALSE, !.pd_capable = FALSE, !.supply_voltage = 0]
<1>1. q \in Port /\ Alike(p, q)
  BY RegisterType, RegisterVolts
<1> HIDE DEF q
<1>2. r \in Port /\ SamePlace(q, r) /\ r.supply = 0
  BY <1>1, SetVbusType, VbusVolts
<1> HIDE DEF r
<1>3. SamePlace(r, u) /\ ~u.attached /\ u.supply = r.supply
  BY <1>2 DEF SamePlace, Port
<1>4. ResetPort(p) = u
  BY DEF ResetPort, r, q
<1> HIDE DEF u
<1> QED
  BY <1>1, <1>2, <1>3, <1>4, ResetPortType DEF Bare, SamePlace, Alike

LEMMA DetachVolts ==
    ASSUME NEW p \in Port PROVE Detach(p) = p \/ Bare(p, Detach(p))
<1> DEFINE n == IF IsDisconnected(p) THEN 0 ELSE p.hard_reset_count
           q == [p EXCEPT !.hard_reset_count = n]
<1>1. n \in 0..NHard
  BY CountsAssumption DEF Port
<1> HIDE DEF n
<1>2. q \in Port
  BY <1>1 DEF Port
<1>3. SamePlace(p, q)
  BY DEF SamePlace, Port
<1> HIDE DEF q
<1>4. Bare(q, ResetPort(q))
  BY <1>2, ResetPortBare
<1> QED
  BY <1>3, <1>4 DEF Detach, Bare, SamePlace, q, n

\* tcpm_src_attach sources 5 V, unless something is attached already.
LEMMA SrcAttachVolts ==
    ASSUME NEW p \in Port
    PROVE  LET q == SrcAttach(p) IN
           q.state = p.state /\ (Alike(p, q) \/ (q.attached /\ q.supply = VSafe5V))
<1> DEFINE polarity == IF p.cc[2] = "RD" THEN "CC2" ELSE "CC1"
           o == [p EXCEPT !.polarity = polarity]
           q == SetPdRx(o, TRUE)
           v == IF HasPoweredCable(p, polarity) THEN SetVconn(q, TRUE) ELSE q
           y == SetVbus(v, TRUE)
           x == [y EXCEPT !.pd_capable = FALSE, !.attached = TRUE]
<1>1. polarity \in {"CC1", "CC2", "NONE"}
  OBVIOUS
<1> HIDE DEF polarity
<1>2. o \in Port
  BY <1>1 DEF Port
<1>3. o.state = p.state
  BY DEF Port
<1> HIDE DEF o
<1>4. q \in Port /\ q.state = o.state
  BY <1>2, RegisterType, RegisterVolts DEF Alike, SamePlace
<1> HIDE DEF q
<1>5. v \in Port /\ v.state = q.state
  BY <1>4, RegisterType, RegisterVolts DEF Alike, SamePlace
<1> HIDE DEF v
<1>6. y \in Port /\ y.state = v.state /\ y.supply = VSafe5V
  BY <1>5, SetVbusType, VbusVolts DEF SamePlace
<1> HIDE DEF y
<1>7. x.state = y.state /\ x.supply = y.supply
  BY <1>6 DEF Port
<1>8. x.attached
  BY <1>6 DEF Port
<1>9. SrcAttach(p) = IF p.attached THEN p ELSE x
  BY DEF SrcAttach, x, y, v, q, o, polarity
<1> HIDE DEF x
<1>10. Alike(p, p)
  BY DEF Alike, SameVolts, SamePlace
<1>11. CASE p.attached
  BY <1>9, <1>10, <1>11
<1>12. CASE ~p.attached
  BY <1>3, <1>4, <1>5, <1>6, <1>7, <1>8, <1>9, <1>12
<1> QED
  BY <1>11, <1>12

-----------------------------------------------------------------------------
(* The changes that concern neither a grant nor a fresh start.             *)

CalmStates == States \ (Grants \cup {"SRC_STARTUP", "SRC_HARD_RESET_VBUS_ON"})
CalmTimers == States \ {"SRC_TRANSITION_SUPPLY", "SRC_HARD_RESET_VBUS_ON"}

Mild(p, q) ==
    /\ q \in Port /\ SameVolts(p, q)
    /\ q.state \in {p.state} \cup CalmStates
    /\ q.delayed_state \in {p.delayed_state} \cup CalmTimers

LEMMA MildSound ==
    ASSUME NEW p, NEW q, Mild(p, q), Sound(p)
    PROVE  Sound(q) /\ (Granting(q) => Granting(p))
<1>1. q.state \in Grants \cup {"SRC_STARTUP", "SRC_HARD_RESET_VBUS_ON"}
        => q.state = p.state
  BY DEF Mild, CalmStates
<1>2. q.delayed_state \in {"SRC_TRANSITION_SUPPLY", "SRC_HARD_RESET_VBUS_ON"}
        => q.delayed_state = p.delayed_state
  BY DEF Mild, CalmTimers
<1>3. Granting(q) => Granting(p)
  BY <1>1, <1>2 DEF Granting
<1>4. (HighV(q) <=> HighV(p)) /\ SameVolts(p, q)
  BY DEF Mild, SameVolts, HighV
<1> QED
  BY <1>1, <1>2, <1>3, <1>4 DEF Sound, SameVolts

LEMMA AlikeMild ==
    ASSUME NEW p, NEW q \in Port, Alike(p, q) PROVE Mild(p, q)
BY DEF Alike, SamePlace, Mild

LEMMA MildAlike ==
    ASSUME NEW p, NEW q, NEW r \in Port, Mild(p, q), Alike(q, r) PROVE Mild(p, r)
BY DEF Alike, SamePlace, SameVolts, Mild

LEMMA CalmTypes ==
    /\ CalmStates \subseteq States /\ CalmTimers \subseteq States
    /\ "INVALID_STATE" \in CalmTimers
BY DEF CalmStates, CalmTimers, States

LEMMA MildNow ==
    ASSUME NEW p, NEW q, NEW s \in CalmStates, Mild(p, q) PROVE Mild(p, SetNow(q, s))
<1> DEFINE r == SetNow(q, s)
<1>1. q \in Port
  BY DEF Mild
<1>2. r \in Port /\ SameVolts(q, r) /\ r.state = s /\ r.delayed_state = "INVALID_STATE"
  BY <1>1, CalmTypes, SetNowType, NowVolts
<1> HIDE DEF r
<1>3. Mild(p, r)
  BY <1>2, CalmTypes DEF Mild, SameVolts
<1> QED
  BY <1>3 DEF r

LEMMA MildAfter ==
    ASSUME NEW p, NEW q, NEW s \in CalmTimers, Mild(p, q) PROVE Mild(p, SetAfter(q, s))
<1> DEFINE r == SetAfter(q, s)
<1>1. q \in Port
  BY DEF Mild
<1>2. r \in Port /\ SameVolts(q, r) /\ r.state = q.state /\ r.delayed_state = s
  BY <1>1, CalmTypes, SetAfterType, AfterVolts
<1> HIDE DEF r
<1>3. Mild(p, r)
  BY <1>2 DEF Mild, SameVolts
<1> QED
  BY <1>3 DEF r

\* The states and timers that the cases below lead to.
LEMMA CalmTargets ==
    /\ {"SRC_UNATTACHED", "SRC_ATTACH_WAIT", "SRC_READY", "SRC_SEND_CAPABILITIES",
        "SRC_WAIT_NEW_CAPABILITIES", "ACC_UNATTACHED", "AUDIO_ACC_ATTACHED",
        "AUDIO_ACC_DEBOUNCE", "HARD_RESET_SEND", "HARD_RESET_START", "SOFT_RESET",
        "SOFT_RESET_SEND", "VCONN_SWAP_ACCEPT", "VCONN_SWAP_START",
        "VCONN_SWAP_WAIT_FOR_VCONN", "VCONN_SWAP_TURN_ON_VCONN",
        "VCONN_SWAP_TURN_OFF_VCONN", "BIST_RX", "GET_PPS_STATUS_SEND",
        "ERROR_RECOVERY", "PORT_RESET"} \subseteq CalmStates
    /\ {"SRC_UNATTACHED", "DEBUG_ACC_ATTACHED", "AUDIO_ACC_ATTACHED", "SRC_ATTACHED",
        "SRC_STARTUP", "SRC_DISC_CABLE", "SRC_SEND_CAPABILITIES", "SRC_WAIT_CABLE",
        "ACC_UNATTACHED", "HARD_RESET_SEND", "ERROR_RECOVERY",
        "SRC_HARD_RESET_DISABLE_RP", "SRC_HARD_RESET_VBUS_OFF",
        "SRC_HARD_RESET_VBUS_OFF_DISABLE", "PORT_RESET_WAIT_OFF",
        "INVALID_STATE"} \subseteq CalmTimers
BY DEF CalmStates, CalmTimers, States, Grants

LEMMA MildHardReset ==
    ASSUME NEW p PROVE HardResetState(p) \in CalmStates /\ HardResetState(p) \in CalmTimers
BY CalmTargets DEF HardResetState

LEMMA MildCond ==
    ASSUME NEW p, NEW q, NEW s \in CalmStates \cap CalmTimers, Mild(p, q)
    PROVE  Mild(p, SetNowCond(q, s)) /\ Mild(p, SetAfterCond(q, s))
BY MildNow, MildAfter DEF SetNowCond, SetAfterCond

\* A failed transmission asks for a soft reset.
LEMMA MildTransmit ==
    ASSUME NEW p, NEW q, NEW r, Mild(p, q) PROVE Mild(p, Transmit(q, r))
BY CalmTargets, MildNow DEF Transmit, SetNowCond

-----------------------------------------------------------------------------
(* Events, messages and the button.                                        *)

LEMMA HardResetEventMild ==
    ASSUME NEW p \in Port PROVE Mild(p, HardResetEvent(p))
<1>1. Mild(p, p)
  BY AlikeMild DEF Alike, SameVolts, SamePlace
<1> QED
  BY <1>1, CalmTargets, MildNow DEF HardResetEvent

LEMMA CcChangeMild ==
    ASSUME NEW p \in Port, NEW cc \in CcPairs PROVE Mild(p, CcChange(p, cc))
<1> DEFINE q == [p EXCEPT !.cc = cc]
           targets == {"SRC_ATTACH_WAIT", "SRC_UNATTACHED", "AUDIO_ACC_DEBOUNCE",
                       "AUDIO_ACC_ATTACHED", "ACC_UNATTACHED"}
<1>1. q \in Port
  BY DEF Port
<1>2. Alike(p, q)
  BY DEF Alike, SameVolts, SamePlace, Port
<1>3. CcChange(p, cc) = q \/ \E s \in targets : CcChange(p, cc) = SetNow(q, s)
  BY DEF CcChange
<1>4. targets \subseteq CalmStates
  BY CalmTargets
<1> HIDE DEF q, targets
<1>5. Mild(p, q)
  BY <1>1, <1>2, AlikeMild
<1> QED
  BY <1>3, <1>4, <1>5, MildNow

LEMMA PdDisableMild ==
    ASSUME NEW p \in Port PROVE Mild(p, PdDisable(p))
<1> DEFINE q == [p EXCEPT !.force_disable_flag = TRUE]
<1>1. q \in Port
  BY DEF Port
<1>2. Alike(p, q)
  BY DEF Alike, SameVolts, SamePlace, Port
<1> HIDE DEF q
<1> QED
  BY <1>1, <1>2, AlikeMild, CalmTargets, MildNow DEF PdDisable, SetNowCond, q

LEMMA CtrlRequestMild ==
    ASSUME NEW p \in Port, NEW kind PROVE Mild(p, CtrlRequest(p, kind))
<1> DEFINE n == IF p.pd_capable THEN NCaps - 1 ELSE p.caps_count
           q == [p EXCEPT !.caps_count = n]
           u == QueueMessage(p)
<1>1. n \in 0..(NCaps + 1)
  BY CountsAssumption DEF Port
<1> HIDE DEF n
<1>2. q \in Port
  BY <1>1 DEF Port
<1>3. Alike(p, q)
  BY DEF Alike, SameVolts, SamePlace, Port
<1> HIDE DEF q
<1>4. u \in Port
  BY DEF QueueMessage, Port
<1>5. Alike(p, u)
  BY DEF Alike, SameVolts, SamePlace, QueueMessage, Port
<1> HIDE DEF u
<1>6. Mild(p, p) /\ Mild(p, q) /\ Mild(p, u)
  <2>1. Alike(p, p)
    BY DEF Alike, SameVolts, SamePlace
  <2> QED
    BY <1>2, <1>3, <1>4, <1>5, <2>1, AlikeMild
<1>7. \A s \in CalmStates : Mild(p, SetNow(p, s)) /\ Mild(p, SetNow(q, s))
  BY <1>6, MildNow
<1> QED
  BY <1>6, <1>7, CalmTargets DEF CtrlRequest, q, n, u

\* A Request is the one message that leads to a grant.
LEMMA RxHandlerVolts ==
    ASSUME NEW p \in Port, NEW m, m.rdo \in Requests \cup {NoRequest}
    PROVE  LET q == RxHandler(p, m) IN
           \/ Mild(p, q)
           \/ /\ p.attached /\ q \in Port /\ SameVolts(p, q)
              /\ q.state = "SRC_NEGOTIATE_CAPABILITIES"
              /\ q.delayed_state = "INVALID_STATE"
<1> DEFINE q == [p EXCEPT !.sink_request = m.rdo]
           b == (m.kind = "BIST_CARRIER2")
           r == [p EXCEPT !.bist_carrier2 = b]
           v == SetNow(q, "SRC_NEGOTIATE_CAPABILITIES")
<1>1. q \in Port
  BY DEF Port
<1>2. SameVolts(p, q)
  BY DEF SameVolts, Port
<1>3. b \in BOOLEAN
  OBVIOUS
<1> HIDE DEF b, q
<1>4. r \in Port
  BY <1>3 DEF Port
<1>5. Alike(p, r)
  BY DEF Alike, SameVolts, SamePlace, Port
<1> HIDE DEF r
<1>6. "SRC_NEGOTIATE_CAPABILITIES" \in States
  BY DEF States
<1>7. /\ v \in Port /\ SameVolts(p, v) /\ v.state = "SRC_NEGOTIATE_CAPABILITIES"
      /\ v.delayed_state = "INVALID_STATE"
  BY <1>1, <1>2, <1>6, SetNowType, NowVolts DEF SameVolts
<1>8. Mild(p, p) /\ Mild(p, r)
  <2>1. Alike(p, p)
    BY DEF Alike, SameVolts, SamePlace
  <2> QED
    BY <1>4, <1>5, <2>1, AlikeMild
<1>9. \A s \in CalmStates : Mild(p, SetNow(p, s)) /\ Mild(p, SetNow(r, s))
  BY <1>8, MildNow
<1>10. Mild(p, ExtRequest(p, m.kind)) /\ Mild(p, SetNow(p, "ERROR_RECOVERY"))
  BY <1>9, CalmTargets DEF ExtRequest
<1>11. DataRequest(p, m) = v \/ Mild(p, DataRequest(p, m))
  BY <1>8, <1>9, CalmTargets DEF DataRequest, SetNowCond, v, q, r, b
<1> HIDE DEF v
<1>12. RxHandler(p, m) = p \/ (p.attached /\ RxHandler(p, m) \in
         {SetNow(p, "ERROR_RECOVERY"), ExtRequest(p, m.kind), DataRequest(p, m),
          CtrlRequest(p, m.kind)})
  BY DEF RxHandler
<1> QED
  BY <1>7, <1>8, <1>10, <1>11, <1>12, CtrlRequestMild

\* A fresh start at once is the answer to VBUS coming on.
LEMMA VbusEventVolts ==
    ASSUME NEW p \in Port, NEW on \in BOOLEAN
    PROVE  LET q == VbusEvent(p, on) IN
           \/ Mild(p, q)
           \/ /\ q \in Port /\ SameVolts(p, q) /\ q.state = "SRC_STARTUP"
              /\ q.delayed_state = "INVALID_STATE"
<1> DEFINE q == [p EXCEPT !.vbus_present = on]
           v == SetNow(q, "SRC_STARTUP")
<1>1. q \in Port
  BY DEF Port
<1>2. Alike(p, q)
  BY DEF Alike, SameVolts, SamePlace, Port
<1>3. VbusEvent(p, on) \in {q, v, SetAfter(q, "SRC_STARTUP"), SetNow(q, "SRC_UNATTACHED")}
  BY DEF VbusEvent
<1> HIDE DEF q
<1>4. "SRC_STARTUP" \in States
  BY DEF States
<1>5. /\ v \in Port /\ SameVolts(p, v) /\ v.state = "SRC_STARTUP"
      /\ v.delayed_state = "INVALID_STATE"
  BY <1>1, <1>2, <1>4, SetNowType, NowVolts DEF SameVolts, Alike
<1>6. Mild(p, q)
  BY <1>1, <1>2, AlikeMild
<1>7. Mild(p, SetAfter(q, "SRC_STARTUP")) /\ Mild(p, SetNow(q, "SRC_UNATTACHED"))
  BY <1>6, CalmTargets, MildNow, MildAfter
<1> HIDE DEF v
<1> QED
  BY <1>3, <1>5, <1>6, <1>7

-----------------------------------------------------------------------------
(* The pending events.                                                     *)

\* VBUS changes and is reported only when the supply is off.
LEMMA AlertedVolts ==
    ASSUME ~SlowDischarge, NEW p, NEW s, Alerted(p, s)
    PROVE  /\ p.supply # 0 => (vbus' <=> vbus) /\ ("VBUS" \in events' => "VBUS" \in s)
           /\ p.supply = 0 => ~vbus'
           /\ "RX" \in events' => "RX" \in s
BY DEF Alerted, Discharged

\* A step that leaves supply and attachment alone.
LEMMA HandledVolts ==
    ASSUME ~SlowDischarge, PowerInv, PowerInv', VoltageInv, NEW q, Sound(q),
           q.supply = port.supply, q.attached = port.attached, Granting(q) => vbus,
           port' = q, Alerted(q, events), todo' = todo, pc' = "sm" => events = {}
    PROVE  VoltageInv'
<1>1. Granting(q) => q.supply # 0
  BY DEF PowerInv, Powered, Granting, Grants, Fed
<1>2. "RX" \in events' \cup todo' /\ q.attached => q.supply # 0
  BY DEF PowerInv
<1>3. /\ q.supply # 0 => (vbus' <=> vbus) /\ ("VBUS" \in events' => "VBUS" \in events)
      /\ q.supply = 0 => ~vbus'
      /\ "RX" \in events' => "RX" \in events
  BY AlertedVolts
<1>4. (HighV(q) <=> HighV(port)) /\ (HighV(q) => q.supply # 0)
  BY DEF HighV
<1>5. HighV(q) => vbus'
  BY <1>3, <1>4 DEF VoltageInv
<1>6. "VBUS" \in events' \cup todo' => ~HighV(q)
  BY <1>3, <1>4 DEF VoltageInv
<1>7. Granting(q) => vbus'
  BY <1>1, <1>3
<1>8. pc' = "sm" /\ q.state \in Grants => "VBUS" \notin events'
  BY <1>1, <1>3 DEF Granting
<1>9. "RX" \in events' \cup todo' /\ q.attached => vbus'
  BY <1>2, <1>3 DEF VoltageInv
<1>10. pc' = "sm" => "RX" \notin events'
  BY <1>3
<1> QED
  BY <1>5, <1>6, <1>7, <1>8, <1>9, <1>10 DEF VoltageInv, Sound, HighV, Granting

\* The iteration for p.state may turn p into q.
Moved(p, q) ==
    /\ q \in Port /\ Sound(q)
    /\ HighV(q) => HighV(p) \/ p.state = "SRC_TRANSITION_SUPPLY"
    /\ Granting(q) => Granting(p)
    /\ q.state \in Grants => p.state \in Grants
    /\ p.state = "SRC_UNATTACHED" =>
         q.state = "SRC_UNATTACHED" /\ (q.attached => p.attached)
    /\ q.supply = 0 => p.supply = 0 \/ q.state \in {p.state, "SRC_UNATTACHED"}

LEMMA RanVolts ==
    ASSUME ~SlowDischarge, PowerInv, PowerInv', VoltageInv, pc = "sm", NEW p,
           Moved(port, p), Ran(p)
    PROVE  VoltageInv'
<1> DEFINE z == [p EXCEPT !.running = FALSE, !.run = FALSE]
<1>1. p \in Port
  BY DEF Moved
<1>2. z \in Port
  BY <1>1 DEF Port
<1>3. Alike(p, z)
  BY <1>1 DEF Alike, SameVolts, SamePlace, Port
<1>4. /\ todo' = todo /\ pc' \in {"sm", "tail"}
      /\ pc' = "sm" => p.state # port.state
      /\ Becomes(p) \/ Becomes(z)
  BY DEF Ran
<1> HIDE DEF z
<1>5. PICK q : Moved(port, q) /\ q.state = p.state /\ Becomes(q)
  <2>1. Moved(port, z) /\ z.state = p.state
    BY <1>2, <1>3, AlikeSound DEF Moved, Alike, SameVolts, SamePlace, HighV
  <2> QED
    BY <1>4, <2>1
<1>6. port' = q /\ Alerted(q, events) /\ todo' = {} /\ todo = {}
  BY <1>4, <1>5 DEF Becomes, PowerInv
<1>7. /\ q.supply # 0 => (vbus' <=> vbus) /\ ("VBUS" \in events' => "VBUS" \in events)
      /\ q.supply = 0 => ~vbus'
      /\ "RX" \in events' => "RX" \in events
  BY <1>6, AlertedVolts
<1>8. /\ Granting(q) => q.supply # 0
      /\ "RX" \in events' /\ q.attached => q.supply # 0
  BY <1>6 DEF PowerInv, Powered, Granting, Grants, Fed
<1>9. /\ HighV(q) => q.supply # 0
      /\ port.state = "SRC_TRANSITION_SUPPLY" => Granting(port) /\ port.state \in Grants
      /\ vbus => port.supply # 0
  BY DEF HighV, Granting, Grants, PowerInv
<1>10. HighV(q) => vbus'
  BY <1>5, <1>7, <1>9 DEF Moved, VoltageInv
<1>11. "VBUS" \in events' => ~HighV(q)
  BY <1>5, <1>7, <1>9 DEF Moved, VoltageInv
<1>12. Granting(q) => vbus'
  BY <1>5, <1>7, <1>8 DEF Moved, VoltageInv
<1>13. pc' = "sm" /\ q.state \in Grants => "VBUS" \notin events'
  BY <1>5, <1>7, <1>8 DEF Moved, VoltageInv, Granting
<1>14. "RX" \in events' /\ q.attached => vbus'
  BY <1>5, <1>7, <1>8 DEF Moved, VoltageInv
<1>15. pc' = "sm" /\ "RX" \in events' /\ ~vbus' => q.state = "SRC_UNATTACHED"
  BY <1>4, <1>5, <1>7, <1>9 DEF Moved, VoltageInv
<1> QED
  BY <1>5, <1>6, <1>10, <1>11, <1>12, <1>13, <1>14, <1>15
     DEF Moved, VoltageInv, Sound, HighV, Granting

\* Clearing the request to disable leaves a port.
LEMMA ForceClearedType ==
    ASSUME NEW p \in Port PROVE [p EXCEPT !.force_disable_flag = FALSE] \in Port
  BY DEF Port

\* Most states move neither supply nor contract.
LEMMA MildMoved ==
    ASSUME NEW p, NEW q, Mild(p, q), Sound(p), p.state # "SRC_UNATTACHED"
    PROVE  Moved(p, q)
<1>1. Sound(q) /\ (Granting(q) => Granting(p))
  BY MildSound
<1>2. q.state \in Grants => q.state = p.state
  BY DEF Mild, CalmStates
<1>3. (HighV(q) <=> HighV(p)) /\ q.supply = p.supply /\ q \in Port
  BY DEF Mild, SameVolts, HighV
<1> QED
  BY <1>1, <1>2, <1>3 DEF Moved

-----------------------------------------------------------------------------
\* Every state of run_state_machine keeps the contract with the voltage.
LEMMA RunStateMachineVolts ==
    ASSUME ~SlowDischarge, TypeOK, PowerInv, PowerInv', VoltageInv, RunStateMachine
    PROVE  VoltageInv'
<1> DEFINE e == Entered
<1>pc. pc = "sm"
  BY DEF RunStateMachine, SrcUnattached, SrcAttachWait, SrcAttached, SrcStartup,
     SrcDiscCable, SrcWaitCable, SrcSendCapabilities, SrcNegotiateCapabilities,
     SrcTransitionSupply, SrcReady, AccUnattached, AccAttached, AudioAccDebounce,
     HardResetSend, HardResetStart, SrcHardResetVbusOff, SrcHardResetVbusOn, SoftReset,
     SoftResetSend, VconnSwapAccept, VconnSwapStart, VconnSwapWaitForVconn,
     VconnSwapTurnOnVconn, VconnSwapTurnOffVconn, BistRx, IdleState, PortReset,
     PortResetWaitOff, SrcHardResetDisableRp, SrcHardResetVbusOffDisable, In
<1>0. /\ port \in Port /\ e \in Port /\ SameVolts(port, e) /\ e.state = port.state
      /\ e.delayed_state = port.delayed_state /\ e.enter_state = port.state
  <2>1. port \in Port /\ e \in Port
    BY EnteredType DEF TypeOK
  <2>2. SameVolts(port, e)
    BY <2>1 DEF Entered, SameVolts, Port
  <2>3. /\ e.state = port.state /\ e.delayed_state = port.delayed_state
        /\ e.enter_state = port.state
    BY <2>1 DEF Entered, Port
  <2> QED
    BY <2>1, <2>2, <2>3
<1>s. Sound(port) /\ Powered(port)
  BY DEF VoltageInv, PowerInv
<1>v. /\ port.attached \in BOOLEAN /\ e.attached \in BOOLEAN
      /\ port.explicit_contract \in BOOLEAN /\ e.explicit_contract \in BOOLEAN
  BY <1>0 DEF Port
<1>m. Mild(port, e)
  BY <1>0 DEF Mild
<1>q. ASSUME NEW p, Moved(port, p), Ran(p) PROVE VoltageInv'
  BY <1>pc, <1>q, RanVolts
<1>i. ASSUME NEW p, Mild(port, p), Ran(p), port.state # "SRC_UNATTACHED" PROVE VoltageInv'
  BY <1>i, <1>q, <1>s, MildMoved
<1>now. ASSUME NEW p, NEW t \in CalmStates, Mild(port, p) PROVE Mild(port, SetNow(p, t))
  BY <1>now, MildNow
<1>aft. ASSUME NEW p, NEW t \in CalmTimers, Mild(port, p) PROVE Mild(port, SetAfter(p, t))
  BY <1>aft, MildAfter
<1>tx. ASSUME NEW p, NEW r, Mild(port, p) PROVE Mild(port, Transmit(p, r))
  BY <1>tx, MildTransmit
<1>like. ASSUME NEW p, NEW u \in Port, Mild(port, p), Alike(p, u) PROVE Mild(port, u)
  BY <1>like, MildAlike
<1>reg. ASSUME NEW p, Mild(port, p), NEW b \in BOOLEAN,
               NEW rp \in {"OPEN", "RP_1_5", "RP_3_0"}
        PROVE  /\ Mild(port, SetCc(p, rp)) /\ Mild(port, SetVconn(p, b))
               /\ Mild(port, SetPdRx(p, b))
  <2>1. p \in Port
    BY <1>reg DEF Mild
  <2>2. SetCc(p, rp) \in Port /\ SetVconn(p, b) \in Port /\ SetPdRx(p, b) \in Port
    BY <2>1, RegisterType
  <2>3. Alike(p, SetCc(p, rp)) /\ Alike(p, SetVconn(p, b)) /\ Alike(p, SetPdRx(p, b))
    BY <2>1, RegisterVolts
  <2> QED
    BY <1>reg, <1>like, <2>2, <2>3
<1> HIDE DEF e
<1>1. CASE SrcUnattached
  <2>s. port.state = "SRC_UNATTACHED"
    BY <1>1 DEF SrcUnattached, In
  <2> DEFINE c == SetCc(e, "RP_3_0")
             p == Detach(c)
  <2>1. Mild(port, c) /\ c \in Port /\ c.state = port.state
    <3>1. c \in Port /\ Alike(e, c)
      BY <1>0, RegisterType, RegisterVolts
    <3> HIDE DEF c
    <3> QED
      BY <1>0, <1>m, <1>like, <3>1 DEF Alike, SamePlace
  <2>2. c.delayed_state = port.delayed_state
    BY <1>0, RegisterVolts DEF Alike, SamePlace
  <2>3. Ran(p)
    BY <1>1 DEF SrcUnattached, e
  <2> HIDE DEF c
  <2>4. p = c \/ Bare(c, p)
    BY <2>1, DetachVolts
  <2> HIDE DEF p
  <2>5. ~Granting(port)
    BY <1>s, <2>s DEF Granting, Grants, Powered
  <2>6. CASE p = c
    <3>1. Sound(c) /\ ~Granting(c)
      BY <1>s, <2>1, <2>5, MildSound
    <3>2. c.supply = port.supply /\ c.attached = port.attached
      BY <2>1 DEF Mild, SameVolts
    <3>3. Moved(port, c)
      BY <2>s, <2>1, <3>1, <3>2 DEF Moved, HighV, Grants
    <3> QED
      BY <1>q, <2>3, <2>6, <3>3
  <2>7. CASE Bare(c, p)
    <3>1. /\ p \in Port /\ p.state = port.state /\ ~p.attached /\ p.supply = 0
          /\ p.delayed_state = port.delayed_state
      BY <2>1, <2>2, <2>7 DEF Bare, SamePlace
    <3>2. ~HighV(p) /\ ~Granting(p)
      BY <2>5, <3>1 DEF HighV, Granting
    <3>3. Moved(port, p)
      BY <2>s, <3>1, <3>2 DEF Moved, Sound, Grants
    <3> QED
      BY <1>q, <2>3, <3>3
  <2> QED
    BY <2>4, <2>6, <2>7
<1>2. CASE SrcAttachWait
  <2>s. port.state = "SRC_ATTACH_WAIT"
    BY <1>2 DEF SrcAttachWait, In
  <2>1. \A t \in {"DEBUG_ACC_ATTACHED", "AUDIO_ACC_ATTACHED", "SRC_ATTACHED"} :
           Mild(port, SetAfter(e, t))
    BY <1>m, <1>aft, CalmTargets
  <2> QED
    BY <1>2, <1>i, <2>s, <1>m, <2>1 DEF SrcAttachWait, e
<1>3. CASE SrcAttached
  <2>s. port.state = "SRC_ATTACHED"
    BY <1>3 DEF SrcAttached, In
  <2> DEFINE a == SrcAttach(e)
             c == SetCc(a, "RP_3_0")
             p == SetAfter(c, "SRC_UNATTACHED")
  <2>1. a \in Port
    BY <1>0, SrcAttachType
  <2>2. a.state = port.state /\ (Alike(e, a) \/ (a.attached /\ a.supply = VSafe5V))
    BY <1>0, SrcAttachVolts
  <2>3. Ran(p)
    BY <1>3 DEF SrcAttached, e
  <2> HIDE DEF a
  <2>4. c \in Port /\ Alike(a, c)
    BY <2>1, RegisterType, RegisterVolts
  <2> HIDE DEF c
  <2>5. p \in Port /\ SameVolts(c, p) /\ p.state = c.state /\ p.delayed_state = "SRC_UNATTACHED"
    BY <2>4, SetAfterType, AfterVolts DEF States
  <2> HIDE DEF p
  <2>6. p.state = "SRC_ATTACHED" /\ ~Granting(p)
    BY <2>s, <2>2, <2>4, <2>5 DEF Alike, SamePlace, Granting, Grants
  <2>7. \/ SameVolts(port, p)
        \/ p.attached /\ p.supply = VSafe5V
    BY <1>0, <2>2, <2>4, <2>5 DEF Alike, SameVolts
  <2>8. Sound(p) /\ (HighV(p) => HighV(port)) /\ (p.supply = 0 => port.supply = 0)
    BY <1>s, <2>5, <2>6, <2>7 DEF Sound, HighV, SameVolts, VSafe5V
  <2>9. Moved(port, p)
    BY <2>s, <2>5, <2>6, <2>8 DEF Moved, Grants
  <2> QED
    BY <1>q, <2>3, <2>9
<1>4. CASE SrcStartup
  <2>s. port.state = "SRC_STARTUP"
    BY <1>4 DEF SrcStartup, In
  <2> DEFINE q == [e EXCEPT !.attached = TRUE, !.disc_cable_count = 0,
                            !.caps_count = 0, !.explicit_contract = FALSE,
                            !.last_pdo_index = 0]
             p == SetAfter(q, "SRC_DISC_CABLE")
  <2>1. 0 \in 0..3 /\ 0 \in 0..(NCaps + 1) /\ 0 \in Nat
    BY CountsAssumption
  <2>2. q \in Port
    BY <1>0, <2>1 DEF Port
  <2>3. q.state = e.state /\ q.supply = e.supply
    BY <1>0 DEF Port
  <2>4. Ran(p)
    BY <1>4 DEF SrcStartup, e
  <2> HIDE DEF q
  <2>5. /\ p \in Port /\ SameVolts(q, p) /\ p.state = q.state
        /\ p.delayed_state = "SRC_DISC_CABLE"
    BY <2>2, SetAfterType, AfterVolts DEF States
  <2> HIDE DEF p
  <2>6. p.state = "SRC_STARTUP" /\ p.supply = port.supply
    BY <1>0, <2>s, <2>3, <2>5 DEF SameVolts
  <2>7. ~HighV(p)
    BY <1>s, <2>s, <2>6 DEF Sound, HighV
  <2>8. ~Granting(p)
    BY <2>5, <2>6 DEF Granting, Grants
  <2>9. Moved(port, p)
    BY <2>s, <2>5, <2>6, <2>7, <2>8 DEF Moved, Sound, Grants
  <2> QED
    BY <1>q, <2>4, <2>9
<1>5. CASE SrcDiscCable
  <2>s. port.state = "SRC_DISC_CABLE"
    BY <1>5 DEF SrcDiscCable, In
  <2> DEFINE k == IF e.disc_cable_count > 2 THEN e.disc_cable_count
                  ELSE e.disc_cable_count + 1
             p == [e EXCEPT !.disc_cable_count = k]
  <2>1. k \in 0..3
    BY <1>0 DEF Port
  <2>2. \/ Ran(SetAfter(e, "SRC_SEND_CAPABILITIES"))
        \/ Ran(SetNow(p, "SRC_SEND_CAPABILITIES"))
        \/ \E r \in TxOutcomes, t \in {"SRC_WAIT_CABLE", "SRC_DISC_CABLE"} :
             Ran(SetAfter(Transmit(p, r), t))
    BY <1>5 DEF SrcDiscCable, e
  <2> HIDE DEF k
  <2>3. p \in Port
    BY <1>0, <2>1 DEF Port
  <2>4. Alike(e, p)
    BY <1>0 DEF Alike, SameVolts, SamePlace, Port
  <2> HIDE DEF p
  <2>5. Mild(port, p)
    BY <1>m, <1>like, <2>3, <2>4
  <2>6. /\ Mild(port, SetAfter(e, "SRC_SEND_CAPABILITIES"))
        /\ Mild(port, SetNow(p, "SRC_SEND_CAPABILITIES"))
    BY <1>m, <1>now, <1>aft, <2>5, CalmTargets
  <2>7. ASSUME NEW r, NEW t \in {"SRC_WAIT_CABLE", "SRC_DISC_CABLE"}
        PROVE  Mild(port, SetAfter(Transmit(p, r), t))
    BY <1>tx, <1>aft, <2>5, CalmTargets
  <2> QED
    BY <1>i, <2>s, <2>2, <2>6, <2>7
<1>6. CASE SrcWaitCable
  <2>s. port.state = "SRC_WAIT_CABLE"
    BY <1>6 DEF SrcWaitCable, In
  <2>1. Mild(port, SetNow(e, "SRC_SEND_CAPABILITIES"))
    BY <1>m, <1>now, CalmTargets
  <2> QED
    BY <1>6, <1>i, <2>s, <2>1 DEF SrcWaitCable, e
<1>7. CASE SrcSendCapabilities
  <2>s. port.state = "SRC_SEND_CAPABILITIES"
    BY <1>7 DEF SrcSendCapabilities, In
  <2> DEFINE k == IF e.caps_count > NCaps THEN e.caps_count ELSE e.caps_count + 1
             p == [e EXCEPT !.caps_count = k]
             q == [p EXCEPT !.hard_reset_count = 0, !.caps_count = 0,
                            !.pd_capable = TRUE]
  <2>1. k \in 0..(NCaps + 1)
    BY <1>0, CountsAssumption DEF Port
  <2>2. \/ Ran(SetNow(p, "SRC_READY"))
        \/ Ran(SetAfterCond(q, HardResetState(q)))
        \/ Ran(SetAfter(p, "SRC_SEND_CAPABILITIES"))
        \/ \E r \in TxOutcomes : Ran(Transmit(p, r))
    BY <1>7 DEF SrcSendCapabilities, CapsSent, e
  <2> HIDE DEF k
  <2>3. p \in Port
    BY <1>0, <2>1 DEF Port
  <2>4. Alike(e, p)
    BY <1>0 DEF Alike, SameVolts, SamePlace, Port
  <2> HIDE DEF p
  <2>5. 0 \in 0..(NCaps + 1) /\ 0 \in 0..NHard
    BY CountsAssumption
  <2>6. q \in Port
    BY <2>3, <2>5 DEF Port
  <2>7. Alike(p, q)
    BY <2>3 DEF Alike, SameVolts, SamePlace, Port
  <2> HIDE DEF q
  <2>8. Mild(port, p) /\ Mild(port, q)
    BY <1>m, <1>like, <2>3, <2>4, <2>6, <2>7
  <2>9. /\ Mild(port, SetNow(p, "SRC_READY"))
        /\ Mild(port, SetAfter(p, "SRC_SEND_CAPABILITIES"))
    BY <1>now, <1>aft, <2>8, CalmTargets
  <2>10. Mild(port, SetAfterCond(q, HardResetState(q)))
    BY <2>8, MildHardReset, MildCond
  <2> QED
    BY <1>i, <1>tx, <2>s, <2>2, <2>8, <2>9, <2>10
<1>8. CASE SrcNegotiateCapabilities
  <2>s. port.state = "SRC_NEGOTIATE_CAPABILITIES"
    BY <1>8 DEF SrcNegotiateCapabilities, In
  <2> DEFINE p == CheckRequest(e)
  <2>1. p \in Port
    BY <1>0, CheckRequestType
  <2>2. Alike(e, p)
    BY <1>0 DEF Alike, SameVolts, SamePlace, CheckRequest, Port
  <2>3. \E r \in TxOutcomes : Ran(Accept(p, r)) \/ Ran(Reject(p, r))
    BY <1>8 DEF SrcNegotiateCapabilities, e
  <2> HIDE DEF p
  <2>4. Mild(port, p)
    BY <1>m, <1>like, <2>1, <2>2
  <2>5. ASSUME NEW r PROVE Mild(port, Reject(p, r))
    BY <1>tx, <1>now, <2>4, CalmTargets DEF Reject
  <2>6. ASSUME NEW r PROVE Moved(port, Accept(p, r))
    <3> DEFINE q == Transmit(p, r)
               a == SetNow(q, "SRC_TRANSITION_SUPPLY")
               b == SetAfter(q, "SRC_TRANSITION_SUPPLY")
               t == IF p.pdo_type = "APDO" /\ p.pdo_index = p.last_pdo_index
                    THEN a ELSE b
               k == p.pdo_index
               u == [t EXCEPT !.last_pdo_index = k]
    <3>1. Mild(port, q) /\ q \in Port
      BY <1>tx, <2>4 DEF Mild
    <3>2. k \in Nat
      BY <2>1 DEF Port
    <3>3. Accept(p, r) = u
      BY DEF Accept
    <3> HIDE DEF q, k
    <3>t. "SRC_TRANSITION_SUPPLY" \in States
      BY DEF States
    <3>4. a \in Port /\ b \in Port
      BY <3>1, <3>t, SetNowType, SetAfterType
    <3>5. /\ SameVolts(q, a) /\ a.state = "SRC_TRANSITION_SUPPLY"
          /\ a.delayed_state = "INVALID_STATE"
      BY <3>1, NowVolts
    <3>6. /\ SameVolts(q, b) /\ b.state = q.state
          /\ b.delayed_state = "SRC_TRANSITION_SUPPLY"
      BY <3>1, AfterVolts
    <3> HIDE DEF a, b
    <3>7. /\ t \in Port /\ SameVolts(q, t)
          /\ t.state \in {q.state, "SRC_TRANSITION_SUPPLY"}
          /\ t.delayed_state # "SRC_HARD_RESET_VBUS_ON"
      BY <3>4, <3>5, <3>6
    <3> HIDE DEF t
    <3>8. u \in Port
      BY <3>2, <3>7 DEF Port
    <3>9. Alike(t, u)
      BY <3>7 DEF Alike, SameVolts, SamePlace, Port
    <3> HIDE DEF u
    <3>10. /\ SameVolts(port, u)
           /\ u.state \in {q.state, "SRC_TRANSITION_SUPPLY"}
           /\ u.delayed_state # "SRC_HARD_RESET_VBUS_ON"
      BY <3>1, <3>7, <3>9 DEF Alike, SamePlace, SameVolts, Mild
    <3>11. /\ u.state \notin {"SRC_STARTUP", "SRC_HARD_RESET_VBUS_ON"}
           /\ Granting(port) /\ port.state \in Grants
      BY <2>s, <3>1, <3>10 DEF Mild, CalmStates, Granting, Grants
    <3>12. Sound(u) /\ (HighV(u) => HighV(port))
      BY <1>s, <3>10, <3>11 DEF Sound, SameVolts, HighV
    <3> QED
      BY <2>s, <3>3, <3>8, <3>10, <3>11, <3>12 DEF Moved, SameVolts
  <2> QED
    BY <1>q, <1>i, <2>s, <2>3, <2>5, <2>6
<1>9. CASE SrcTransitionSupply
  <2>s. port.state = "SRC_TRANSITION_SUPPLY"
    BY <1>9 DEF SrcTransitionSupply, In
  <2>1. ASSUME NEW r
        PROVE  Moved(port, SetNowCond([Transmit(SetVbusHv(e), r)
                                         EXCEPT !.explicit_contract = TRUE], "SRC_READY"))
    <3> DEFINE h == SetVbusHv(e)
               t == Transmit(h, r)
               u == [t EXCEPT !.explicit_contract = TRUE]
               z == SetNow(u, "SRC_READY")
               f == SetNowCond(u, "SRC_READY")
    <3>1. h \in Port
      BY <1>0, SetVbusHvType
    <3>2. /\ SamePlace(e, h) /\ h.attached = e.attached /\ h.supply = e.supply_voltage
      BY <1>0 DEF SamePlace, SetVbusHv, Port
    <3>3. e.supply_voltage = port.supply_voltage /\ port.supply_voltage # 0 /\ port.attached
      <4>1. e.supply_voltage = port.supply_voltage
        BY <1>0 DEF Entered, Port, e
      <4> QED
        BY <1>s, <2>s, <4>1 DEF Powered, Sound, Granting, Grants
    <3> HIDE DEF h
    <3>4. /\ t \in Port /\ t.attached = h.attached /\ t.supply = h.supply
          /\ t.enter_state = port.state
          /\ \/ t.state = port.state
             \/ t.state = "SOFT_RESET_SEND" /\ t.delayed_state = "INVALID_STATE"
      <4> DEFINE g == SetNow(h, "SOFT_RESET_SEND")
      <4>1. g \in Port
        BY <3>1, SetNowType DEF States
      <4>2. /\ SameVolts(h, g) /\ g.state = "SOFT_RESET_SEND"
            /\ g.delayed_state = "INVALID_STATE" /\ g.enter_state = h.enter_state
        BY <3>1, NowVolts
      <4>3. t = h \/ t = g
        BY DEF Transmit, SetNowCond
      <4> HIDE DEF g, t
      <4> QED
        BY <1>0, <3>1, <3>2, <4>1, <4>2, <4>3 DEF SamePlace, SameVolts
    <3> HIDE DEF t
    <3>5. u \in Port
      BY <3>4 DEF Port
    <3>6. SamePlace(t, u) /\ u.attached = t.attached /\ u.supply = t.supply
      BY <3>4 DEF SamePlace, Port
    <3>6x. u.explicit_contract
      BY <3>4 DEF Port
    <3> HIDE DEF u
    <3>7. /\ z \in Port /\ SameVolts(u, z) /\ z.state = "SRC_READY"
          /\ z.delayed_state = "INVALID_STATE"
      BY <3>5, SetNowType, NowVolts DEF States
    <3> HIDE DEF z
    <3>8. /\ f \in Port /\ SameVolts(u, f)
          /\ f.state \in {"SRC_READY", "SOFT_RESET_SEND"}
          /\ f.delayed_state = "INVALID_STATE"
      <4>1. f = IF u.enter_state = u.state THEN z ELSE u
        BY DEF SetNowCond, z
      <4> HIDE DEF f
      <4>2. SameVolts(u, u)
        BY DEF SameVolts
      <4> QED
        BY <3>4, <3>5, <3>6, <3>7, <4>1, <4>2 DEF SamePlace
    <3> HIDE DEF f
    <3>9. f.attached /\ f.explicit_contract /\ f.supply # 0
      BY <1>0, <3>2, <3>3, <3>4, <3>6, <3>6x, <3>8 DEF SameVolts
    <3>10. ~Granting(f) /\ f.state \notin Grants
      BY <3>8 DEF Granting, Grants
    <3>11. Sound(f)
      BY <3>8, <3>9, <3>10 DEF Sound
    <3>12. Moved(port, f)
      BY <2>s, <3>8, <3>9, <3>10, <3>11 DEF Moved
    <3> QED
      BY <3>12 DEF f, u, t, h
  <2> QED
    BY <1>9, <1>q, <2>1 DEF SrcTransitionSupply, e
<1>10. CASE SrcReady
  <2>s. port.state = "SRC_READY"
    BY <1>10 DEF SrcReady, In
  <2> DEFINE p == IF port.explicit_contract /\ port.pdo_type = "APDO"
                  THEN SetAfterCond(e, HardResetState(e)) ELSE e
             q == [p EXCEPT !.hard_reset_count = 0]
  <2>1. Mild(port, p) /\ p \in Port
    BY <1>m, MildHardReset, MildCond DEF Mild
  <2>2. 0 \in 0..NHard
    BY CountsAssumption
  <2>3. Ran(q)
    BY <1>10 DEF SrcReady, e
  <2> HIDE DEF p
  <2>4. q \in Port
    BY <2>1, <2>2 DEF Port
  <2>5. Alike(p, q)
    BY <2>1 DEF Alike, SameVolts, SamePlace, Port
  <2> QED
    BY <1>i, <1>like, <2>s, <2>1, <2>3, <2>4, <2>5
<1>11. CASE AccUnattached
  <2>s. port.state = "ACC_UNATTACHED"
    BY <1>11 DEF AccUnattached, In
  <2> DEFINE d == Detach(e)
             p == SetNow(d, "SRC_UNATTACHED")
  <2>1. d = e \/ Bare(e, d)
    BY <1>0, DetachVolts
  <2>2. d \in Port
    BY <1>0, DetachType
  <2>3. Ran(p)
    BY <1>11 DEF AccUnattached, e
  <2> HIDE DEF d
  <2>4. /\ p \in Port /\ SameVolts(d, p) /\ p.state = "SRC_UNATTACHED"
        /\ p.delayed_state = "INVALID_STATE"
    BY <2>2, SetNowType, NowVolts DEF States
  <2> HIDE DEF p
  <2>5. SameVolts(port, p) \/ p.supply = 0
    BY <1>0, <2>1, <2>4 DEF Bare, SameVolts
  <2>6. ~Granting(p) /\ p.state \notin Grants
    BY <2>4 DEF Granting, Grants
  <2>7. Sound(p) /\ (HighV(p) => HighV(port))
    BY <1>s, <2>4, <2>5, <2>6 DEF Sound, SameVolts, HighV
  <2>8. Moved(port, p)
    BY <2>s, <2>4, <2>6, <2>7 DEF Moved
  <2> QED
    BY <1>q, <2>3, <2>8
<1>12. CASE AccAttached
  <2>s. port.state \in Accessory /\ port.state # "SRC_UNATTACHED"
    BY <1>12 DEF AccAttached, In, Accessory
  <2> DEFINE p == AccAttach(e)
  <2>1. p \in Port
    BY <1>0, AccAttachType
  <2>2. SamePlace(e, p) /\ p.supply = e.supply /\ p.explicit_contract = e.explicit_contract
    BY <1>0 DEF SamePlace, AccAttach, Port
  <2>3. p.attached
    BY <1>0 DEF AccAttach, Port
  <2>4. Ran(p)
    BY <1>12 DEF AccAttached, e
  <2> HIDE DEF p
  <2>5. p.state = port.state /\ p.delayed_state = port.delayed_state /\ p.supply = port.supply
    BY <1>0, <2>2 DEF SamePlace, SameVolts
  <2>6. Sound(p)
    BY <1>0, <1>s, <2>2, <2>3, <2>5 DEF Sound, HighV, SameVolts
  <2>7. Moved(port, p)
    BY <2>s, <2>1, <2>5, <2>6 DEF Moved, HighV, Granting
  <2> QED
    BY <1>q, <2>4, <2>7
<1>13. CASE AudioAccDebounce
  <2>s. port.state = "AUDIO_ACC_DEBOUNCE"
    BY <1>13 DEF AudioAccDebounce, In
  <2>1. Mild(port, SetAfter(e, "ACC_UNATTACHED"))
    BY <1>m, <1>aft, CalmTargets
  <2> QED
    BY <1>13, <1>i, <2>s, <2>1 DEF AudioAccDebounce, e
<1>14. CASE HardResetSend
  <2>s. port.state = "HARD_RESET_SEND"
    BY <1>14 DEF HardResetSend, In
  <2>1. ASSUME NEW r PROVE Mild(port, SetNow(Transmit(e, r), "HARD_RESET_START"))
    BY <1>m, <1>tx, <1>now, CalmTargets
  <2> QED
    BY <1>14, <1>i, <2>s, <2>1 DEF HardResetSend, e
<1>15. CASE HardResetStart
  <2>s. port.state = "HARD_RESET_START"
    BY <1>15 DEF HardResetStart, In
  <2> DEFINE q == SetPdRx(e, FALSE)
             k == IF q.hard_reset_count < NHard THEN q.hard_reset_count + 1
                  ELSE q.hard_reset_count
             p == [q EXCEPT !.hard_reset_count = k]
  <2>1. Mild(port, q) /\ q \in Port
    BY <1>m, <1>reg DEF Mild
  <2>2. \E t \in {"SRC_HARD_RESET_DISABLE_RP", "SRC_HARD_RESET_VBUS_OFF"} :
           Ran(SetAfter(p, t))
    BY <1>15 DEF HardResetStart, e
  <2> HIDE DEF q
  <2>3. k \in 0..NHard
    BY <2>1, CountsAssumption DEF Port
  <2> HIDE DEF k
  <2>4. p \in Port
    BY <2>1, <2>3 DEF Port
  <2>5. Alike(q, p)
    BY <2>1 DEF Alike, SameVolts, SamePlace, Port
  <2> HIDE DEF p
  <2>6. Mild(port, p)
    BY <1>like, <2>1, <2>4, <2>5
  <2>7. \A t \in {"SRC_HARD_RESET_DISABLE_RP", "SRC_HARD_RESET_VBUS_OFF"} :
           Mild(port, SetAfter(p, t))
    BY <1>aft, <2>6, CalmTargets
  <2> QED
    BY <1>i, <2>s, <2>2, <2>7
<1>16. CASE SrcHardResetVbusOff
  <2>s. port.state = "SRC_HARD_RESET_VBUS_OFF"
    BY <1>16 DEF SrcHardResetVbusOff, In
  <2> DEFINE v == SetVconn(e, FALSE)
             o == SetVbus(v, FALSE)
             q == o
             p == SetAfter(q, "SRC_HARD_RESET_VBUS_ON")
  <2>1. v \in Port
    BY <1>0, RegisterType
  <2>2. SamePlace(e, v)
    BY <1>0, RegisterVolts DEF Alike
  <2>3. Ran(p)
    BY <1>16 DEF SrcHardResetVbusOff, e
  <2> HIDE DEF v
  <2>4. o \in Port /\ SamePlace(v, o) /\ o.supply = 0
    BY <2>1, SetVbusType, VbusVolts
  <2> HIDE DEF o
  <2>5. q \in Port
    BY <2>4
  <2>6. SamePlace(o, q) /\ q.supply = o.supply
    BY DEF SamePlace
  <2> HIDE DEF q
  <2>7. p \in Port /\ SameVolts(q, p) /\ p.state = q.state /\ p.delayed_state = "SRC_HARD_RESET_VBUS_ON"
    BY <2>5, SetAfterType, AfterVolts DEF States
  <2> HIDE DEF p
  <2>8. p.state = port.state /\ p.supply = 0
    BY <1>0, <2>2, <2>4, <2>6, <2>7 DEF SamePlace, SameVolts
  <2>9. ~HighV(p) /\ ~Granting(p) /\ p.state \notin Grants
    BY <2>s, <2>7, <2>8 DEF HighV, Granting, Grants
  <2>10. Moved(port, p)
    BY <2>s, <2>7, <2>8, <2>9 DEF Moved, Sound
  <2> QED
    BY <1>q, <2>3, <2>10
<1>17. CASE SrcHardResetVbusOn
  <2>s. port.state = "SRC_HARD_RESET_VBUS_ON"
    BY <1>17 DEF SrcHardResetVbusOn, In
  <2> DEFINE x == SetPdRx(e, TRUE)
             v == SetVbus(x, TRUE)
             q == IF HasPoweredCable(v, v.polarity) THEN SetVconn(v, TRUE) ELSE v
             p == SetAfter(q, "SRC_UNATTACHED")
  <2>1. x \in Port
    BY <1>0, RegisterType
  <2>2. SamePlace(e, x)
    BY <1>0, RegisterVolts DEF Alike
  <2>3. Ran(p)
    BY <1>17 DEF SrcHardResetVbusOn, e
  <2> HIDE DEF x
  <2>4. v \in Port /\ SamePlace(x, v) /\ v.supply = VSafe5V
    BY <2>1, SetVbusType, VbusVolts
  <2> HIDE DEF v
  <2>5. q \in Port
    BY <2>4, RegisterType
  <2>6. SamePlace(v, q) /\ q.supply = v.supply
    <3>1. Alike(v, SetVconn(v, TRUE)) /\ Alike(v, v)
      BY <2>4, RegisterVolts DEF Alike, SameVolts, SamePlace
    <3> QED
      BY <3>1 DEF Alike, SameVolts
  <2> HIDE DEF q
  <2>7. /\ p \in Port /\ SameVolts(q, p) /\ p.state = q.state
        /\ p.delayed_state = "SRC_UNATTACHED"
    BY <2>5, SetAfterType, AfterVolts DEF States
  <2> HIDE DEF p
  <2>8. p.state = port.state /\ p.supply = VSafe5V /\ p.supply # 0
    BY <1>0, <2>2, <2>4, <2>6, <2>7 DEF SamePlace, SameVolts, VSafe5V
  <2>9. ~HighV(p) /\ ~Granting(p) /\ p.state \notin Grants
    BY <2>s, <2>7, <2>8 DEF HighV, Granting, Grants
  <2>10. Moved(port, p)
    BY <2>s, <2>7, <2>8, <2>9 DEF Moved, Sound
  <2> QED
    BY <1>q, <2>3, <2>10
<1>18. CASE SoftReset
  <2>s. port.state = "SOFT_RESET"
    BY <1>18 DEF SoftReset, In
  <2>1. ASSUME NEW r PROVE Mild(port, SetNow(Transmit(e, r), "SRC_SEND_CAPABILITIES"))
    BY <1>m, <1>tx, <1>now, CalmTargets
  <2> QED
    BY <1>18, <1>i, <2>s, <2>1 DEF SoftReset, e
<1>19. CASE SoftResetSend
  <2>s. port.state = "SOFT_RESET_SEND"
    BY <1>19 DEF SoftResetSend, In
  <2>1. ASSUME NEW r
        PROVE  LET p == Transmit(e, r) IN
               /\ Mild(port, SetAfterCond(p, HardResetState(p)))
               /\ Mild(port, SetNowCond(p, HardResetState(p)))
    BY <1>m, <1>tx, MildHardReset, MildCond
  <2> QED
    BY <1>19, <1>i, <2>s, <2>1 DEF SoftResetSend, e
<1>20. CASE VconnSwapAccept
  <2>s. port.state = "VCONN_SWAP_ACCEPT"
    BY <1>20 DEF VconnSwapAccept, In
  <2>1. ASSUME NEW r PROVE Mild(port, SetNow(Transmit(e, r), "VCONN_SWAP_START"))
    BY <1>m, <1>tx, <1>now, CalmTargets
  <2> QED
    BY <1>20, <1>i, <2>s, <2>1 DEF VconnSwapAccept, e
<1>21. CASE VconnSwapStart
  <2>s. port.state = "VCONN_SWAP_START"
    BY <1>21 DEF VconnSwapStart, In
  <2>1. /\ Mild(port, SetNow(e, "VCONN_SWAP_WAIT_FOR_VCONN"))
        /\ Mild(port, SetNow(e, "VCONN_SWAP_TURN_ON_VCONN"))
    BY <1>m, <1>now, CalmTargets
  <2> QED
    BY <1>21, <1>i, <2>s, <2>1 DEF VconnSwapStart, e
<1>22. CASE VconnSwapWaitForVconn
  <2>s. port.state = "VCONN_SWAP_WAIT_FOR_VCONN"
    BY <1>22 DEF VconnSwapWaitForVconn, In
  <2>1. Mild(port, SetAfter(e, HardResetState(e)))
    BY <1>m, <1>aft, MildHardReset
  <2> QED
    BY <1>22, <1>i, <2>s, <2>1 DEF VconnSwapWaitForVconn, e
<1>23. CASE VconnSwapTurnOnVconn
  <2>s. port.state = "VCONN_SWAP_TURN_ON_VCONN"
    BY <1>23 DEF VconnSwapTurnOnVconn, In
  <2>1. ASSUME NEW r PROVE Mild(port, SetNow(Transmit(SetVconn(e, TRUE), r), "SRC_READY"))
    BY <1>m, <1>reg, <1>tx, <1>now, CalmTargets
  <2> QED
    BY <1>23, <1>i, <2>s, <2>1 DEF VconnSwapTurnOnVconn, e
<1>24. CASE VconnSwapTurnOffVconn
  <2>s. port.state = "VCONN_SWAP_TURN_OFF_VCONN"
    BY <1>24 DEF VconnSwapTurnOffVconn, In
  <2>1. Mild(port, SetNow(SetVconn(e, FALSE), "SRC_READY"))
    BY <1>m, <1>reg, <1>now, CalmTargets
  <2> QED
    BY <1>24, <1>i, <2>s, <2>1 DEF VconnSwapTurnOffVconn, e
<1>25. CASE BistRx
  <2>s. port.state = "BIST_RX"
    BY <1>25 DEF BistRx, In
  <2>1. ASSUME NEW r PROVE Mild(port, SetNow(Transmit(e, r), "SRC_UNATTACHED"))
    BY <1>m, <1>tx, <1>now, CalmTargets
  <2> QED
    BY <1>25, <1>i, <2>s, <1>m, <2>1 DEF BistRx, e
<1>26. CASE IdleState
  <2>s. port.state # "SRC_UNATTACHED"
    BY <1>26 DEF IdleState, In
  <2> QED
    BY <1>26, <1>i, <1>m, <2>s DEF IdleState, e
<1>27. CASE PortReset
  <2>s. port.state = "PORT_RESET"
    BY <1>27 DEF PortReset, In
  <2> DEFINE o == ResetPort(e)
             q == SetCc(o, "OPEN")
             p == SetAfter(q, "PORT_RESET_WAIT_OFF")
  <2>1. Bare(e, o) /\ o \in Port
    BY <1>0, ResetPortBare DEF Bare
  <2>2. Ran(p)
    BY <1>27 DEF PortReset, e
  <2> HIDE DEF o
  <2>3. q \in Port /\ Alike(o, q)
    BY <2>1, RegisterType, RegisterVolts
  <2> HIDE DEF q
  <2>4. /\ p \in Port /\ SameVolts(q, p) /\ p.state = q.state
        /\ p.delayed_state = "PORT_RESET_WAIT_OFF"
    BY <2>3, SetAfterType, AfterVolts DEF States
  <2> HIDE DEF p
  <2>5. p.state = port.state /\ p.supply = 0
    BY <1>0, <2>1, <2>3, <2>4 DEF Bare, Alike, SamePlace, SameVolts
  <2>6. ~HighV(p) /\ ~Granting(p) /\ p.state \notin Grants
    BY <2>s, <2>4, <2>5 DEF HighV, Granting, Grants
  <2>7. Moved(port, p)
    BY <2>s, <2>4, <2>5, <2>6 DEF Moved, Sound
  <2> QED
    BY <1>q, <2>2, <2>7
<1>28. CASE PortResetWaitOff
  <2>s. port.state = "PORT_RESET_WAIT_OFF"
    BY <1>28 DEF PortResetWaitOff, In
  <2>1. /\ Mild(port, SetAfter(e, "SRC_UNATTACHED"))
        /\ Mild(port, SetNow(e, "SRC_UNATTACHED"))
    BY <1>m, <1>aft, <1>now, CalmTargets
  <2> QED
    BY <1>28, <1>i, <2>s, <2>1 DEF PortResetWaitOff, e
<1>29. CASE SrcHardResetDisableRp
  <2>s. port.state = "SRC_HARD_RESET_DISABLE_RP"
    BY <1>29 DEF SrcHardResetDisableRp, In
  <2>1. Mild(port, SetAfter(SetCc(e, "OPEN"), "SRC_HARD_RESET_VBUS_OFF_DISABLE"))
    BY <1>m, <1>reg, <1>aft, CalmTargets
  <2> QED
    BY <1>29, <1>i, <2>s, <2>1 DEF SrcHardResetDisableRp, e
<1>30. CASE SrcHardResetVbusOffDisable
  <2>s. port.state = "SRC_HARD_RESET_VBUS_OFF_DISABLE"
    BY <1>30 DEF SrcHardResetVbusOffDisable, In
  <2> DEFINE v == SetVconn(e, FALSE)
             o == SetVbus(v, FALSE)
             q == [o EXCEPT !.force_disable_flag = FALSE]
             p == SetAfter(q, "SRC_UNATTACHED")
  <2>1. v \in Port
    BY <1>0, RegisterType
  <2>2. SamePlace(e, v)
    BY <1>0, RegisterVolts DEF Alike
  <2>3. Ran(p)
    BY <1>30 DEF SrcHardResetVbusOffDisable, e
  <2> HIDE DEF v
  <2>4. o \in Port /\ SamePlace(v, o) /\ o.supply = 0
    BY <2>1, SetVbusType, VbusVolts
  <2> HIDE DEF o
  <2>5. q \in Port
    BY <2>4, ForceClearedType
  <2>6. SamePlace(o, q) /\ q.supply = o.supply
    BY <2>4 DEF SamePlace, Port
  <2> HIDE DEF q
  <2>7. p \in Port /\ SameVolts(q, p) /\ p.state = q.state /\ p.delayed_state = "SRC_UNATTACHED"
    BY <2>5, SetAfterType, AfterVolts DEF States
  <2> HIDE DEF p
  <2>8. p.state = port.state /\ p.supply = 0
    BY <1>0, <2>2, <2>4, <2>6, <2>7 DEF SamePlace, SameVolts
  <2>9. ~HighV(p) /\ ~Granting(p) /\ p.state \notin Grants
    BY <2>s, <2>7, <2>8 DEF HighV, Granting, Grants
  <2>10. Moved(port, p)
    BY <2>s, <2>7, <2>8, <2>9 DEF Moved, Sound
  <2> QED
    BY <1>q, <2>3, <2>10
<1> QED
  BY <1>1, <1>2, <1>3, <1>4, <1>5, <1>6, <1>7, <1>8, <1>9, <1>10, <1>11, <1>12,
     <1>13, <1>14, <1>15, <1>16, <1>17, <1>18, <1>19, <1>20, <1>21, <1>22, <1>23,
     <1>24, <1>25, <1>26, <1>27, <1>28, <1>29, <1>30 DEF RunStateMachine

-----------------------------------------------------------------------------
(* The rest of a pass.                                                     *)

\* A step that moves neither supply nor contract, outside the state machine.
LEMMA MildVolts ==
    ASSUME ~SlowDischarge, PowerInv, PowerInv', VoltageInv, NEW q, Mild(port, q),
           port' = q, Alerted(q, events), todo' = todo, pc' = "sm" => events = {}
    PROVE  VoltageInv'
<1>1. Sound(q) /\ (Granting(q) => vbus)
  BY MildSound DEF VoltageInv
<1>2. q.supply = port.supply /\ q.attached = port.attached
  BY DEF Mild, SameVolts
<1> QED
  BY <1>1, <1>2, HandledVolts

LEMMA StartWorkVolts ==
    ASSUME ~SlowDischarge, TypeOK, PowerInv, PowerInv', VoltageInv, StartWork
    PROVE  VoltageInv'
<1> DEFINE p == [port EXCEPT !.running = TRUE]
           o == [p EXCEPT !.queued = FALSE]
<1>0. port \in Port /\ events = {}
  BY DEF TypeOK, StartWork
<1>1. p \in Port
  BY <1>0 DEF Port
<1>2. Alike(port, p)
  BY <1>0 DEF Alike, SameVolts, SamePlace, Port
<1> HIDE DEF p
<1>3. o \in Port
  BY <1>1 DEF Port
<1>4. Alike(p, o)
  BY <1>1 DEF Alike, SameVolts, SamePlace, Port
<1> HIDE DEF o
<1>5. Mild(port, p) /\ Mild(port, o)
  BY <1>1, <1>2, <1>3, <1>4, AlikeMild, MildAlike
<1>6. ASSUME NEW r PROVE Mild(port, SendQueued(p, r))
  <2>1. Mild(port, SetAfter(Transmit(o, r), "INVALID_STATE"))
    BY <1>5, MildTransmit, MildAfter, CalmTypes
  <2>2. SendQueued(p, r) = SetAfter(Transmit(o, r), "INVALID_STATE")
    BY DEF SendQueued, SetAfter, o
  <2> QED
    BY <2>1, <2>2
<1>7. PICK q : Mild(port, q) /\ Becomes(q) /\ todo' = todo
  BY <1>5, <1>6 DEF StartWork, p
<1> QED
  BY <1>0, <1>7, MildVolts DEF Becomes

LEMMA TailVolts ==
    ASSUME ~SlowDischarge, TypeOK, PowerInv, PowerInv', VoltageInv,
           TimerExpires \/ TimerWaits
    PROVE  VoltageInv'
<1> DEFINE p == Requeued
           o == [port EXCEPT !.run = TRUE]
           s == port.delayed_state
           t == SetNow(p, s)
<1>0. port \in Port /\ s \in States /\ Sound(port) /\ Powered(port)
  BY DEF TypeOK, Port, VoltageInv, PowerInv
<1>1. o \in Port
  BY <1>0 DEF Port
<1>2. Alike(port, o)
  BY <1>0 DEF Alike, SameVolts, SamePlace, Port
<1> HIDE DEF o
<1>3. p \in Port /\ Alike(port, p)
  <2>1. Alike(port, port)
    BY DEF Alike, SameVolts, SamePlace
  <2> QED
    BY <1>0, <1>1, <1>2, <2>1 DEF Requeued, o
<1> HIDE DEF p
<1>4. /\ t \in Port /\ SameVolts(p, t) /\ t.state = s /\ t.delayed_state = "INVALID_STATE"
  BY <1>0, <1>3, SetNowType, NowVolts
<1>5. todo' = todo /\ pc' = "switch" /\ (Becomes(p) \/ Becomes(t))
  BY DEF TimerExpires, TimerWaits, p, t
<1> HIDE DEF t
<1>6. CASE Becomes(p)
  BY <1>3, <1>5, <1>6, AlikeMild, MildVolts DEF Becomes
<1>7. CASE Becomes(t)
  <2>1. SameVolts(port, t)
    BY <1>3, <1>4 DEF Alike, SameVolts
  <2>2. Granting(t) => Granting(port)
    BY <1>0, <1>4 DEF Granting, Grants, Powered
  <2>3. s \in {"SRC_STARTUP", "SRC_HARD_RESET_VBUS_ON"} => ~HighV(port)
    BY <1>0 DEF Powered, Sound, HighV
  <2>4. Sound(t)
    BY <1>0, <1>4, <2>1, <2>2, <2>3 DEF Sound, SameVolts, HighV
  <2>5. Granting(t) => vbus
    BY <2>2 DEF VoltageInv
  <2> QED
    BY <1>5, <1>7, <2>1, <2>4, <2>5, HandledVolts DEF Becomes, SameVolts
<1> QED
  BY <1>5, <1>6, <1>7

LEMMA ProgramVolts ==
    ASSUME ~SlowDischarge, TypeOK, PowerInv, PowerInv', VoltageInv, Program
    PROVE  VoltageInv'
<1>0. port \in Port /\ Sound(port) /\ line \in Lines /\ vbus \in BOOLEAN
  BY DEF TypeOK, VoltageInv
<1>h. ASSUME NEW x, NEW q, Mild(port, q), Handle(x, q) PROVE VoltageInv'
  BY <1>h, MildVolts DEF Handle, Becomes
<1>1. CASE Snapshot
  BY <1>1 DEF Snapshot, VoltageInv, Looping
<1>2. CASE HandleReset
  BY <1>0, <1>2, <1>h, HardResetEventMild DEF HandleReset
<1>3. CASE HandleVbus
  <2> DEFINE q == VbusEvent(port, vbus)
  <2>1. Handle("VBUS", q) /\ "VBUS" \in todo
    BY <1>3 DEF HandleVbus, Handle, First
  <2>2. \/ Mild(port, q)
        \/ q \in Port /\ SameVolts(port, q) /\ q.state = "SRC_STARTUP"
             /\ q.delayed_state = "INVALID_STATE"
    BY <1>0, VbusEventVolts
  <2> HIDE DEF q
  <2>3. ASSUME SameVolts(port, q), q.state = "SRC_STARTUP",
               q.delayed_state = "INVALID_STATE"
        PROVE  VoltageInv'
    <3>1. ~HighV(port)
      BY <2>1 DEF VoltageInv
    <3>2. ~HighV(q) /\ ~Granting(q)
      BY <2>3, <3>1 DEF SameVolts, HighV, Granting, Grants
    <3>3. Sound(q)
      BY <2>3, <3>2 DEF Sound
    <3> QED
      BY <2>1, <2>3, <3>2, <3>3, HandledVolts DEF Handle, Becomes, SameVolts
  <2> QED
    BY <1>h, <2>1, <2>2, <2>3
<1>4. CASE HandleCc
  BY <1>0, <1>4, <1>h, ObservedType, CcChangeMild DEF HandleCc
<1>5. CASE HandleRx
  <2> DEFINE q == RxHandler(port, rx)
  <2>1. rx.rdo \in Requests \cup {NoRequest}
    BY MessagesAssumption DEF TypeOK, Message, NoMessage
  <2>2. Handle("RX", q) /\ "RX" \in todo
    BY <1>5 DEF HandleRx, Handle, First, PowerInv, TypeOK, Events
  <2>3. \/ Mild(port, q)
        \/ port.attached /\ q \in Port /\ SameVolts(port, q)
             /\ q.state = "SRC_NEGOTIATE_CAPABILITIES" /\ q.delayed_state = "INVALID_STATE"
    BY <1>0, <2>1, RxHandlerVolts
  <2> HIDE DEF q
  <2>4. ASSUME port.attached, SameVolts(port, q), q.state = "SRC_NEGOTIATE_CAPABILITIES",
               q.delayed_state = "INVALID_STATE"
        PROVE  VoltageInv'
    <3>1. vbus
      BY <2>2, <2>4 DEF VoltageInv
    <3>2. Sound(q)
      BY <1>0, <2>4 DEF Sound, SameVolts, HighV
    <3> QED
      BY <2>2, <2>4, <3>1, <3>2, HandledVolts DEF Handle, Becomes, SameVolts
  <2> QED
    BY <1>h, <2>2, <2>3, <2>4
<1>6. CASE ClearEvent \/ StoreEvents
  <2>1. /\ port' = port /\ vbus' = vbus /\ pc' # "sm"
        /\ events' \subseteq events /\ todo' \subseteq todo
    BY <1>6 DEF ClearEvent, StoreEvents
  <2> QED
    BY <2>1 DEF VoltageInv
<1>7. CASE StartWork
  BY <1>7, StartWorkVolts
<1>8. CASE RunStateMachine
  BY <1>8, RunStateMachineVolts
<1>9. CASE TimerExpires \/ TimerWaits
  BY <1>9, TailVolts
<1> QED
  BY <1>1, <1>2, <1>3, <1>4, <1>5, <1>6, <1>7, <1>8, <1>9 DEF Program

-----------------------------------------------------------------------------
(* The interrupt handler, the button and the resets.                       *)

\* tcpm_init starts without a voltage.
LEMMA TcpmInitVolts ==
    ASSUME NEW p \in Port, NEW v \in BOOLEAN, NEW cc \in CcPairs
    PROVE  LET q == TcpmInit(p, v, cc) IN
           Sound(q) /\ ~HighV(q) /\ ~Granting(q) /\ q.supply = 0 /\ ~q.attached
<1> DEFINE r == ResetPort(p)
           q == [r EXCEPT !.vbus_present = v]
           u == SetNow(q, "SRC_UNATTACHED")
           c == CcChange(u, cc)
           z == SetNow(c, "PORT_RESET")
<1>1. r \in Port
  BY ResetPortType
<1> HIDE DEF r
<1>2. q \in Port
  BY <1>1 DEF Port
<1> HIDE DEF q
<1>3. u \in Port
  BY <1>2, SetNowType DEF States
<1> HIDE DEF u
<1>4. c \in Port
  BY <1>3, CcChangeType
<1> HIDE DEF c
<1>5. z.state = "PORT_RESET" /\ z.delayed_state = "INVALID_STATE"
  BY <1>4, NowVolts
<1>6. z = TcpmInit(p, v, cc)
  BY DEF TcpmInit, z, c, u, q, r
<1>7. z.supply = 0 /\ ~z.attached
  BY <1>6, TcpmInitPower
<1> HIDE DEF z
<1>8. ~HighV(z) /\ ~Granting(z)
  BY <1>5, <1>7 DEF HighV, Granting, Grants
<1>9. Sound(z)
  BY <1>5, <1>7, <1>8 DEF Sound
<1> QED
  BY <1>6, <1>7, <1>8, <1>9

LEMMA EnvironmentVolts ==
    ASSUME ~SlowDischarge, TypeOK, PowerInv, PowerInv', VoltageInv, Environment
    PROVE  VoltageInv'
<1>0. port \in Port /\ line \in Lines /\ vbus \in BOOLEAN
  BY DEF TypeOK
<1>1. CASE SwitchPressed
  BY <1>0, <1>1, PdDisableMild, MildVolts DEF SwitchPressed
<1>2. CASE CcIrq \/ HardResetIrq
  <2>1. /\ port' = port /\ pc' = pc /\ todo' = todo /\ vbus' = vbus
        /\ "RX" \in events' => "RX" \in events
        /\ "VBUS" \in events' => "VBUS" \in events
    BY <1>2 DEF CcIrq, HardResetIrq, Raised
  <2> QED
    BY <2>1 DEF VoltageInv
<1>3. CASE RxIrq
  <2>1. /\ port' = port /\ pc' = pc /\ todo' = todo /\ vbus' = vbus /\ vbus
        /\ "VBUS" \in events' => "VBUS" \in events
    BY <1>3 DEF RxIrq, Raised, CanTalk
  <2> QED
    BY <2>1 DEF VoltageInv
<1>4. CASE VbusIrq
  <2>1. /\ port' = port /\ pc' = pc /\ todo' = todo
        /\ ~vbus /\ vbus'
        /\ "RX" \in events' => "RX" \in events
    BY <1>0, <1>4 DEF VbusIrq, Raised, PowerInv
  <2>2. ~HighV(port) /\ port.state \notin Grants
    BY <2>1 DEF VoltageInv, Granting
  <2> QED
    BY <2>1, <2>2 DEF VoltageInv
<1>5. CASE TcpcReset
  <2> DEFINE a == SetCc(port, "OPEN")
             b == SetPdRx(a, FALSE)
             c == SetVconn(b, FALSE)
             d == SetVbus(c, FALSE)
  <2>1. d \in Port /\ Nothing \in CcPairs
    <3>1. a \in Port
      BY <1>0, RegisterType
    <3>2. b \in Port
      BY <3>1, RegisterType
    <3>3. c \in Port
      BY <3>2, RegisterType
    <3> QED
      BY <3>3, SetVbusType DEF Nothing, CcPairs, CcValues
  <2>2. PICK v \in BOOLEAN :
           port' = TcpmInit(d, v, Nothing) /\ pc' = "events" /\ todo' = todo
    BY <1>0, <1>5 DEF TcpcReset, Discharged
  <2> HIDE DEF d
  <2>3. /\ Sound(port') /\ ~HighV(port') /\ ~Granting(port') /\ ~port'.attached
    BY <2>1, <2>2, TcpmInitVolts
  <2> QED
    BY <2>2, <2>3 DEF VoltageInv, Sound, HighV, Granting
<1>6. CASE McuReset
  <2> DEFINE h == Registered(port)
  <2>1. h \in Port /\ Observed(port, line) \in CcPairs
    BY <1>0, RegisteredType, ObservedType
  <2>2. PICK v \in BOOLEAN :
           port' = TcpmInit(h, v, Observed(port, line)) /\ pc' = "top"
    BY <1>0, <1>6 DEF McuReset, Discharged
  <2> HIDE DEF h
  <2>3. /\ Sound(port') /\ ~HighV(port') /\ ~Granting(port') /\ ~port'.attached
    BY <2>1, <2>2, TcpmInitVolts
  <2> QED
    BY <2>2, <2>3 DEF VoltageInv, Sound, HighV, Granting
<1> QED
  BY <1>1, <1>2, <1>3, <1>4, <1>5, <1>6 DEF Environment

LEMMA InitVolts ==
    ASSUME Init PROVE VoltageInv
<1>1. PICK h \in PowerOnHeap :
         port = TcpmInit(Registered(h), FALSE, Observed(h, line))
  BY DEF Init
<1> DEFINE r == Registered(h)
<1>2. r \in Port /\ Observed(h, line) \in CcPairs
  BY HeapAssumption, RegisteredType, ObservedType DEF Init
<1> HIDE DEF r
<1>3. Sound(port) /\ ~HighV(port) /\ ~Granting(port)
  BY <1>1, <1>2, TcpmInitVolts DEF r
<1>4. events = {} /\ todo = {} /\ pc = "top"
  BY DEF Init
<1> QED
  BY <1>3, <1>4 DEF VoltageInv

-----------------------------------------------------------------------------

\* No event that starts over is pending at a high voltage, and none arrives while
\* the supply is about to move.
THEOREM VoltageInvariant ==
    ASSUME ~SlowDischarge
    PROVE  Spec => []VoltageInv
<1>1. Init => VoltageInv
  BY InitVolts
<1>2. TypeOK /\ PowerInv /\ (TypeOK /\ PowerInv)' /\ VoltageInv /\ [Next]_vars
        => VoltageInv'
  <2> SUFFICES ASSUME TypeOK, PowerInv, PowerInv', VoltageInv, [Next]_vars
               PROVE  VoltageInv'
    OBVIOUS
  <2>1. CASE Next
    BY <2>1, ProgramVolts, EnvironmentVolts DEF Next
  <2>2. CASE UNCHANGED vars
    BY <2>2 DEF vars, VoltageInv, Sound, HighV, Granting
  <2> QED
    BY <2>1, <2>2
<1>3. Spec => [](TypeOK /\ PowerInv)
  BY PowerInvariant
<1> QED
  BY <1>1, <1>2, <1>3, PTL DEF Spec

\* VBUS is above 5 V only under an explicit contract with what is attached, in
\* every order of requests, hard resets, unplugs, bounces, presses and restarts,
\* with VBUS reported as late as may be.
THEOREM VoltageNeedsContract ==
    ASSUME ~SlowDischarge
    PROVE  Spec => []HighVoltageUnderContract
<1>1. VoltageInv => HighVoltageUnderContract
  BY DEF VoltageInv, Sound, HighV, HighVoltageUnderContract
<1> QED
  BY <1>1, VoltageInvariant, PTL

-----------------------------------------------------------------------------
(* The port manager is the source PowerSource describes. Four fields matter *)
(* to it, and no helper but those below writes one of them.                 *)

Quiet(p, q) ==
    q \in Port /\ SameVolts(p, q) /\ q.supply_voltage = p.supply_voltage

\* tcpm_reset_port: nothing attached, sourced or granted.
Released(p, q) ==
    /\ q \in Port /\ ~q.attached /\ q.supply = 0 /\ q.supply_voltage = 0
    /\ q.explicit_contract = p.explicit_contract

LEMMA QuietTrans ==
    /\ \A p \in Port : Quiet(p, p)
    /\ \A p, q, r : Quiet(p, q) /\ Quiet(q, r) => Quiet(p, r)
    /\ \A p, q, r : Quiet(p, q) /\ Released(q, r) => Released(p, r)
    /\ \A p, q, r : Released(p, q) /\ Quiet(q, r) => Released(p, r)
BY DEF Quiet, Released, SameVolts

LEMMA NowQuiet ==
    ASSUME NEW p, NEW q, Quiet(p, q), NEW s \in States
    PROVE  Quiet(p, SetNow(q, s)) /\ Quiet(p, SetNowCond(q, s))
<1>1. q \in Port
  BY DEF Quiet
<1>2. SetNow(q, s) \in Port /\ SameVolts(q, SetNow(q, s))
  BY <1>1, SetNowType, NowVolts
<1>3. SetNow(q, s).supply_voltage = q.supply_voltage
  BY <1>1 DEF SetNow, Port
<1>4. Quiet(q, SetNow(q, s))
  BY <1>2, <1>3 DEF Quiet
<1> QED
  BY <1>4, QuietTrans DEF SetNowCond

LEMMA AfterQuiet ==
    ASSUME NEW p, NEW q, Quiet(p, q), NEW s \in States
    PROVE  Quiet(p, SetAfter(q, s)) /\ Quiet(p, SetAfterCond(q, s))
<1>1. q \in Port
  BY DEF Quiet
<1>2. SetAfter(q, s) \in Port /\ SameVolts(q, SetAfter(q, s))
  BY <1>1, SetAfterType, AfterVolts
<1>3. SetAfter(q, s).supply_voltage = q.supply_voltage
  BY <1>1 DEF SetAfter, Port
<1>4. Quiet(q, SetAfter(q, s))
  BY <1>2, <1>3 DEF Quiet
<1> QED
  BY <1>4, QuietTrans DEF SetAfterCond

LEMMA TransmitQuiet ==
    ASSUME NEW p, NEW q, Quiet(p, q), NEW r PROVE Quiet(p, Transmit(q, r))
BY NowQuiet DEF Transmit, States

LEMMA RegisterQuiet ==
    ASSUME NEW p, NEW q, Quiet(p, q), NEW b \in BOOLEAN,
           NEW rp \in {"OPEN", "RP_1_5", "RP_3_0"}
    PROVE  Quiet(p, SetCc(q, rp)) /\ Quiet(p, SetVconn(q, b)) /\ Quiet(p, SetPdRx(q, b))
<1>1. q \in Port
  BY DEF Quiet
<1>2. /\ SetCc(q, rp) \in Port /\ SetVconn(q, b) \in Port /\ SetPdRx(q, b) \in Port
      /\ SameVolts(q, SetCc(q, rp)) /\ SameVolts(q, SetVconn(q, b))
      /\ SameVolts(q, SetPdRx(q, b))
  BY <1>1, RegisterType, RegisterVolts DEF Alike
<1>3. SetCc(q, rp).supply_voltage = q.supply_voltage
  BY <1>1 DEF SetCc, Port
<1>4. SetVconn(q, b).supply_voltage = q.supply_voltage
  BY <1>1 DEF SetVconn, Port
<1>5. SetPdRx(q, b).supply_voltage = q.supply_voltage
  BY <1>1 DEF SetPdRx, Port
<1>6. Quiet(q, SetCc(q, rp)) /\ Quiet(q, SetVconn(q, b)) /\ Quiet(q, SetPdRx(q, b))
  BY <1>2, <1>3, <1>4, <1>5 DEF Quiet
<1> QED
  BY <1>6, QuietTrans

\* Counters, flags and the CC status may change too.
LEMMA FieldQuiet ==
    ASSUME NEW p \in Port
    PROVE  /\ \A b \in BOOLEAN :
                /\ Quiet(p, [p EXCEPT !.vbus_present = b])
                /\ Quiet(p, [p EXCEPT !.force_disable_flag = b])
                /\ Quiet(p, [p EXCEPT !.bist_carrier2 = b])
                /\ Quiet(p, [p EXCEPT !.run = b])
                /\ Quiet(p, [p EXCEPT !.running = b])
                /\ Quiet(p, [p EXCEPT !.queued = b])
           /\ \A cc \in CcPairs : Quiet(p, [p EXCEPT !.cc = cc])
           /\ \A r \in Requests \cup {NoRequest} : Quiet(p, [p EXCEPT !.sink_request = r])
           /\ \A n \in 0..NHard : Quiet(p, [p EXCEPT !.hard_reset_count = n])
           /\ \A n \in 0..(NCaps + 1) : Quiet(p, [p EXCEPT !.caps_count = n])
           /\ \A n \in 0..3 : Quiet(p, [p EXCEPT !.disc_cable_count = n])
           /\ \A n \in Nat : /\ Quiet(p, [p EXCEPT !.pdo_index = n])
                             /\ Quiet(p, [p EXCEPT !.last_pdo_index = n])
<1>1. ASSUME NEW b \in BOOLEAN
      PROVE  /\ Quiet(p, [p EXCEPT !.vbus_present = b])
             /\ Quiet(p, [p EXCEPT !.force_disable_flag = b])
             /\ Quiet(p, [p EXCEPT !.bist_carrier2 = b])
             /\ Quiet(p, [p EXCEPT !.run = b])
             /\ Quiet(p, [p EXCEPT !.running = b])
             /\ Quiet(p, [p EXCEPT !.queued = b])
  <2>1. Quiet(p, [p EXCEPT !.vbus_present = b])
    BY DEF Quiet, SameVolts, Port
  <2>2. Quiet(p, [p EXCEPT !.force_disable_flag = b])
    BY DEF Quiet, SameVolts, Port
  <2>3. Quiet(p, [p EXCEPT !.bist_carrier2 = b])
    BY DEF Quiet, SameVolts, Port
  <2>4. Quiet(p, [p EXCEPT !.run = b])
    BY DEF Quiet, SameVolts, Port
  <2>5. Quiet(p, [p EXCEPT !.running = b])
    BY DEF Quiet, SameVolts, Port
  <2>6. Quiet(p, [p EXCEPT !.queued = b])
    BY DEF Quiet, SameVolts, Port
  <2> QED
    BY <2>1, <2>2, <2>3, <2>4, <2>5, <2>6
<1>2. \A cc \in CcPairs : Quiet(p, [p EXCEPT !.cc = cc])
  BY DEF Quiet, SameVolts, Port
<1>3. \A r \in Requests \cup {NoRequest} : Quiet(p, [p EXCEPT !.sink_request = r])
  BY DEF Quiet, SameVolts, Port
<1>4. \A n \in 0..NHard : Quiet(p, [p EXCEPT !.hard_reset_count = n])
  BY DEF Quiet, SameVolts, Port
<1>5. \A n \in 0..(NCaps + 1) : Quiet(p, [p EXCEPT !.caps_count = n])
  BY DEF Quiet, SameVolts, Port
<1>6. \A n \in 0..3 : Quiet(p, [p EXCEPT !.disc_cable_count = n])
  BY DEF Quiet, SameVolts, Port
<1>7. ASSUME NEW n \in Nat
      PROVE  /\ Quiet(p, [p EXCEPT !.pdo_index = n])
             /\ Quiet(p, [p EXCEPT !.last_pdo_index = n])
  <2>1. Quiet(p, [p EXCEPT !.pdo_index = n])
    BY DEF Quiet, SameVolts, Port
  <2>2. Quiet(p, [p EXCEPT !.last_pdo_index = n])
    BY DEF Quiet, SameVolts, Port
  <2> QED
    BY <2>1, <2>2
<1> QED
  BY <1>1, <1>2, <1>3, <1>4, <1>5, <1>6, <1>7

-----------------------------------------------------------------------------
(* Events, messages and the button change none of the four.                *)

LEMMA EventsQuiet ==
    ASSUME NEW p \in Port
    PROVE  /\ Quiet(p, HardResetEvent(p))
           /\ Quiet(p, PdDisable(p))
           /\ \A on \in BOOLEAN : Quiet(p, VbusEvent(p, on))
           /\ \A cc \in CcPairs : Quiet(p, CcChange(p, cc))
<1> DEFINE d == [p EXCEPT !.force_disable_flag = TRUE]
<1>0. Quiet(p, p)
  BY QuietTrans
<1>s. {"HARD_RESET_START", "HARD_RESET_SEND", "ERROR_RECOVERY", "SRC_STARTUP",
       "SRC_UNATTACHED", "SRC_ATTACH_WAIT", "AUDIO_ACC_DEBOUNCE", "AUDIO_ACC_ATTACHED",
       "ACC_UNATTACHED"} \subseteq States
  BY DEF States
<1>1. Quiet(p, HardResetEvent(p))
  BY <1>0, <1>s, NowQuiet DEF HardResetEvent
<1>2. Quiet(p, PdDisable(p))
  <2>1. Quiet(p, d)
    BY FieldQuiet
  <2> HIDE DEF d
  <2>2. Quiet(p, SetNowCond(d, "HARD_RESET_SEND"))
    BY <2>1, <1>s, NowQuiet
  <2> QED
    BY <2>2 DEF PdDisable, d
<1>3. ASSUME NEW on \in BOOLEAN PROVE Quiet(p, VbusEvent(p, on))
  <2> DEFINE q == [p EXCEPT !.vbus_present = on]
  <2>1. Quiet(p, q)
    BY FieldQuiet
  <2>2. VbusEvent(p, on) \in
          {q, SetNow(q, "SRC_STARTUP"), SetAfter(q, "SRC_STARTUP"), SetNow(q, "SRC_UNATTACHED")}
    BY DEF VbusEvent
  <2> HIDE DEF q
  <2> QED
    BY <1>s, <2>1, <2>2, NowQuiet, AfterQuiet
<1>4. ASSUME NEW cc \in CcPairs PROVE Quiet(p, CcChange(p, cc))
  <2> DEFINE q == [p EXCEPT !.cc = cc]
             targets == {"SRC_ATTACH_WAIT", "SRC_UNATTACHED", "AUDIO_ACC_DEBOUNCE",
                         "AUDIO_ACC_ATTACHED", "ACC_UNATTACHED"}
  <2>1. Quiet(p, q) /\ targets \subseteq States
    BY <1>s, FieldQuiet
  <2>2. CcChange(p, cc) = q \/ \E s \in targets : CcChange(p, cc) = SetNow(q, s)
    BY DEF CcChange
  <2> HIDE DEF q, targets
  <2> QED
    BY <2>1, <2>2, NowQuiet
<1> QED
  BY <1>1, <1>2, <1>3, <1>4

LEMMA CtrlRequestQuiet ==
    ASSUME NEW p \in Port, NEW kind PROVE Quiet(p, CtrlRequest(p, kind))
<1> DEFINE n == IF p.pd_capable THEN NCaps - 1 ELSE p.caps_count
           q == [p EXCEPT !.caps_count = n]
           targets == {"SRC_SEND_CAPABILITIES", "SOFT_RESET_SEND",
                       "VCONN_SWAP_TURN_OFF_VCONN", "SOFT_RESET", "VCONN_SWAP_ACCEPT"}
<1>1. n \in 0..(NCaps + 1)
  BY CountsAssumption DEF Port
<1> HIDE DEF n
<1>2. Quiet(p, p) /\ Quiet(p, q) /\ Quiet(p, QueueMessage(p))
  BY <1>1, FieldQuiet, QuietTrans DEF QueueMessage
<1>3. \/ CtrlRequest(p, kind) \in {p, QueueMessage(p)}
      \/ \E s \in targets, r \in {p, q} : CtrlRequest(p, kind) = SetNow(r, s)
  BY DEF CtrlRequest, n
<1>4. targets \subseteq States
  BY DEF States
<1> HIDE DEF q, targets
<1> QED
  BY <1>2, <1>3, <1>4, NowQuiet

LEMMA RxHandlerQuiet ==
    ASSUME NEW p \in Port, NEW m, m.rdo \in Requests \cup {NoRequest}
    PROVE  Quiet(p, RxHandler(p, m))
<1> DEFINE q == [p EXCEPT !.sink_request = m.rdo]
           b == (m.kind = "BIST_CARRIER2")
           r == [p EXCEPT !.bist_carrier2 = b]
           targets == {"GET_PPS_STATUS_SEND", "SRC_READY", "ERROR_RECOVERY",
                       "SRC_NEGOTIATE_CAPABILITIES", "BIST_RX", "HARD_RESET_SEND"}
<1>1. Quiet(p, p) /\ Quiet(p, q)
  BY FieldQuiet, QuietTrans
<1>2. b \in BOOLEAN
  OBVIOUS
<1> HIDE DEF b
<1>3. Quiet(p, r)
  BY <1>2, FieldQuiet
<1>4. \/ RxHandler(p, m) \in {p, CtrlRequest(p, m.kind)}
      \/ \E s \in targets, u \in {p, q, r} : RxHandler(p, m) = SetNow(u, s)
  BY DEF RxHandler, ExtRequest, DataRequest, SetNowCond, b
<1>5. targets \subseteq States
  BY DEF States
<1> HIDE DEF q, r, targets
<1> QED
  BY <1>1, <1>3, <1>4, <1>5, CtrlRequestQuiet, NowQuiet
-----------------------------------------------------------------------------
(* The helpers that write one of the four.                                 *)

LEMMA SetVbusSource ==
    ASSUME NEW p \in Port, NEW on \in BOOLEAN
    PROVE  LET q == SetVbus(p, on) IN
           /\ q \in Port /\ q.attached = p.attached
           /\ q.explicit_contract = p.explicit_contract
           /\ q.supply_voltage = p.supply_voltage
           /\ q.supply = IF on THEN VSafe5V ELSE 0
<1> DEFINE q == SetVbus(p, on)
<1>1. q \in Port
  BY SetVbusType
<1>2. q.supply_voltage = p.supply_voltage
  BY DEF SetVbus, Port
<1>3. /\ q.attached = p.attached /\ q.explicit_contract = p.explicit_contract
      /\ q.supply = IF on THEN VSafe5V ELSE 0
  BY VbusVolts
<1> QED
  BY <1>1, <1>2, <1>3

LEMMA ResetPortReleases ==
    ASSUME NEW p \in Port PROVE Released(p, ResetPort(p))
<1> DEFINE q == SetVconn(p, FALSE)
           r == SetVbus(q, FALSE)
           u == [r EXCEPT !.attached = FALSE, !.pd_capable = FALSE, !.supply_voltage = 0]
<1>1. Quiet(p, q) /\ q \in Port
  BY QuietTrans, RegisterQuiet DEF Quiet
<1> HIDE DEF q
<1>2. r \in Port /\ r.explicit_contract = q.explicit_contract /\ r.supply = 0
  BY <1>1, SetVbusSource
<1> HIDE DEF r
<1>3. ~u.attached /\ u.supply_voltage = 0
  BY <1>2 DEF Port
<1>4. u.explicit_contract = r.explicit_contract /\ u.supply = r.supply
  BY <1>2 DEF Port
<1>5. ResetPort(p) = u
  BY DEF ResetPort, r, q
<1> HIDE DEF u
<1> QED
  BY <1>1, <1>2, <1>3, <1>4, <1>5, ResetPortType DEF Released, Quiet, SameVolts

LEMMA DetachReleases ==
    ASSUME NEW p \in Port PROVE Quiet(p, Detach(p)) \/ Released(p, Detach(p))
<1> DEFINE n == IF IsDisconnected(p) THEN 0 ELSE p.hard_reset_count
           q == [p EXCEPT !.hard_reset_count = n]
<1>1. n \in 0..NHard
  BY CountsAssumption DEF Port
<1>2. Detach(p) = p \/ Detach(p) = ResetPort(q)
  BY DEF Detach
<1> HIDE DEF n
<1>3. Quiet(p, p) /\ Quiet(p, q) /\ q \in Port
  BY <1>1, FieldQuiet, QuietTrans DEF Quiet
<1> HIDE DEF q
<1>4. Released(p, ResetPort(q))
  BY <1>3, ResetPortReleases, QuietTrans
<1> QED
  BY <1>2, <1>3, <1>4

\* tcpm_src_attach gives 5 V to what was not attached.
LEMMA SrcAttachSource ==
    ASSUME NEW p \in Port
    PROVE  LET q == SrcAttach(p) IN
           \/ Quiet(p, q)
           \/ /\ ~p.attached /\ q \in Port /\ q.attached /\ q.supply = VSafe5V
              /\ q.explicit_contract = p.explicit_contract
              /\ q.supply_voltage = p.supply_voltage
<1> DEFINE polarity == IF p.cc[2] = "RD" THEN "CC2" ELSE "CC1"
           o == [p EXCEPT !.polarity = polarity]
           q == SetPdRx(o, TRUE)
           v == IF HasPoweredCable(p, polarity) THEN SetVconn(q, TRUE) ELSE q
           y == SetVbus(v, TRUE)
           x == [y EXCEPT !.pd_capable = FALSE, !.attached = TRUE]
<1>1. polarity \in {"CC1", "CC2", "NONE"}
  OBVIOUS
<1> HIDE DEF polarity
<1>2. o \in Port
  BY <1>1 DEF Port
<1>3. SameVolts(p, o) /\ o.supply_voltage = p.supply_voltage
  BY DEF SameVolts, Port
<1>4. Quiet(p, o)
  BY <1>2, <1>3 DEF Quiet
<1> HIDE DEF o
<1>5. Quiet(p, q)
  BY <1>4, RegisterQuiet
<1> HIDE DEF q
<1>6. Quiet(p, v) /\ v \in Port
  BY <1>5, RegisterQuiet DEF Quiet
<1> HIDE DEF v
<1>7. /\ y \in Port /\ y.supply = VSafe5V /\ y.explicit_contract = v.explicit_contract
      /\ y.supply_voltage = v.supply_voltage
  BY <1>6, SetVbusSource
<1> HIDE DEF y
<1>8. x.attached
  BY <1>7 DEF Port
<1>9. /\ x.supply = y.supply /\ x.explicit_contract = y.explicit_contract
      /\ x.supply_voltage = y.supply_voltage
  BY <1>7 DEF Port
<1>10. SrcAttach(p) = IF p.attached THEN p ELSE x
  BY DEF SrcAttach, x, y, v, q, o, polarity
<1> HIDE DEF x
<1>11. CASE p.attached
  BY <1>10, <1>11, QuietTrans
<1>12. CASE ~p.attached
  <2>1. x \in Port
    BY <1>10, <1>12, SrcAttachType
  <2> QED
    BY <1>6, <1>7, <1>8, <1>9, <1>10, <1>12, <2>1 DEF Quiet, SameVolts
<1> QED
  BY <1>11, <1>12

\* tcpm_pd_check_request grants nothing but what is advertised.
LEMMA CheckRequestSource ==
    ASSUME NEW p \in Port
    PROVE  LET q == CheckRequest(p) IN
           /\ q \in Port /\ SameVolts(p, q)
           /\ q.supply_voltage \in {p.supply_voltage} \cup Advertised
<1> DEFINE r == p.sink_request
           i == r.index
           t == PdoType(i)
           mv == IF t = "APDO" THEN r.mv ELSE FixedMv(i)
           o == [p EXCEPT !.pdo_index = i]
           q == [o EXCEPT !.pdo_type = t, !.supply_voltage = mv]
<1>1. CheckRequest(p) \in Port
  BY CheckRequestType
<1>2. RequestOk(r) => mv \in Advertised
  <2> SUFFICES ASSUME RequestOk(r) PROVE mv \in Advertised
    OBVIOUS
  <2>1. i \in {1, 2, 3} /\ (t = "APDO" => r.mv \in ApdoRange)
    BY DEF RequestOk, NrSrcPdo
  <2>2. t # "APDO" => i \in {1, 2}
    BY <2>1 DEF PdoType
  <2> QED
    BY <2>1, <2>2 DEF Advertised
<1>3. CheckRequest(p) = IF RequestOk(r) THEN q ELSE o
  BY DEF CheckRequest
<1> HIDE DEF mv, t, i, r
<1>4. SameVolts(p, o) /\ o.supply_voltage = p.supply_voltage
  BY DEF SameVolts, Port
<1>5. SameVolts(o, q)
  BY DEF SameVolts, Port
<1>6. q.supply_voltage = mv
  BY DEF Port
<1> HIDE DEF o, q
<1>7. CASE RequestOk(r)
  BY <1>1, <1>2, <1>3, <1>4, <1>5, <1>6, <1>7 DEF SameVolts
<1>8. CASE ~RequestOk(r)
  BY <1>1, <1>3, <1>4, <1>8
<1> QED
  BY <1>7, <1>8

\* tcpm_init resets the port.
LEMMA TcpmInitReleases ==
    ASSUME NEW p \in Port, NEW v \in BOOLEAN, NEW cc \in CcPairs
    PROVE  Released(p, TcpmInit(p, v, cc))
<1> DEFINE r == ResetPort(p)
           q == [r EXCEPT !.vbus_present = v]
           u == SetNow(q, "SRC_UNATTACHED")
           c == CcChange(u, cc)
           z == SetNow(c, "PORT_RESET")
<1>s. "SRC_UNATTACHED" \in States /\ "PORT_RESET" \in States
  BY DEF States
<1>1. Released(p, r) /\ r \in Port
  BY ResetPortReleases DEF Released
<1>2. TcpmInit(p, v, cc) = z
  BY DEF TcpmInit
<1> HIDE DEF r
<1>3. Quiet(r, q)
  BY <1>1, FieldQuiet
<1> HIDE DEF q
<1>4. Quiet(r, u) /\ u \in Port
  BY <1>s, <1>3, NowQuiet DEF Quiet
<1> HIDE DEF u
<1>5. Quiet(r, c)
  BY <1>4, EventsQuiet, QuietTrans
<1> HIDE DEF c
<1>6. Quiet(r, z)
  BY <1>s, <1>5, NowQuiet
<1> QED
  BY <1>1, <1>2, <1>6, QuietTrans

-----------------------------------------------------------------------------
(* The steps of the source.                                                *)

\* One step of PowerSource, or none, from p to q.
Powers(p, q) ==
    \/ Quiet(p, q)
    \/ Released(p, q)
    \/ /\ q \in Port /\ q.supply_voltage = p.supply_voltage
       /\ \/ /\ ~p.attached /\ q.attached /\ p.supply_voltage = 0 /\ ~HighV(p)
             /\ q.supply \in {p.supply, VSafe5V}
             /\ q.explicit_contract = p.explicit_contract
          \/ /\ p.supply = VSafe5V /\ q.supply = VSafe5V
             /\ q.attached /\ ~q.explicit_contract
          \/ /\ p.attached /\ q.attached /\ p.supply # 0 /\ p.supply_voltage \in Advertised
             /\ q.supply = p.supply_voltage /\ q.explicit_contract
          \/ /\ q.attached = p.attached /\ q.explicit_contract = p.explicit_contract
             /\ q.supply \in {p.supply, 0} \cup (IF p.supply = 0 THEN {VSafe5V} ELSE {})
    \/ /\ q \in Port /\ SameVolts(p, q) /\ p.attached /\ p.supply # 0
       /\ q.supply_voltage \in Advertised

\* What is granted and what is sourced is advertised, and nothing is granted to nobody.
Granted(p) ==
    /\ p.supply \in {0, VSafe5V} \cup Advertised
    /\ p.supply_voltage \in {0} \cup Advertised
    /\ ~p.attached => p.supply_voltage = 0

LEMMA PowersGranted ==
    ASSUME NEW p, Granted(p), NEW q, Powers(p, q) PROVE Granted(q)
BY DEF Granted, Powers, Quiet, Released, SameVolts

LEMMA PowersQuiet ==
    ASSUME NEW p, NEW q, NEW r, Powers(p, q), Quiet(q, r) PROVE Powers(p, r)
<1>1. /\ r \in Port /\ SameVolts(q, r) /\ r.supply_voltage = q.supply_voltage
  BY DEF Quiet
<1>2. CASE Quiet(p, q) \/ Released(p, q)
  BY <1>2, QuietTrans DEF Powers
<1>3. CASE ~(Quiet(p, q) \/ Released(p, q))
  BY <1>1, <1>3 DEF Powers, SameVolts
<1> QED
  BY <1>2, <1>3

\* A step of the program or its environment that takes the port to q.
LEMMA SourceSteps ==
    ASSUME TypeOK, Granted(port), Powers(port, port')
    PROVE  [Source!Next]_(Source!vars) /\ Granted(port')
<1> SUFFICES [Source!Next]_(Source!vars)
  BY PowersGranted
<1>1. port \in Port /\ port.attached \in BOOLEAN /\ port.explicit_contract \in BOOLEAN
  BY DEF TypeOK, Port
<1>2. port' \in Port /\ port'.attached \in BOOLEAN /\ port'.explicit_contract \in BOOLEAN
  <2>1. port' \in Port
    BY DEF Powers, Quiet, Released
  <2> QED
    BY <2>1 DEF Port
<1>3. CASE Quiet(port, port')
  BY <1>3 DEF Quiet, SameVolts, Source!vars
<1>4. CASE Released(port, port')
  BY <1>4 DEF Released, Source!Release, Source!Next
<1>5. CASE /\ port'.supply_voltage = port.supply_voltage
           /\ ~port.attached /\ port'.attached /\ port.supply_voltage = 0 /\ ~HighV(port)
           /\ port'.supply \in {port.supply, VSafe5V}
           /\ port'.explicit_contract = port.explicit_contract
  BY <1>5 DEF HighV, Source!Low, Source!Attach, Source!Next
<1>6. CASE /\ port'.supply_voltage = port.supply_voltage
           /\ port.supply = VSafe5V /\ port'.supply = VSafe5V
           /\ port'.attached /\ ~port'.explicit_contract
  BY <1>6 DEF Source!StartOver, Source!Next
<1>7. CASE /\ port'.supply_voltage = port.supply_voltage
           /\ port.attached /\ port'.attached /\ port.supply # 0
           /\ port.supply_voltage \in Advertised
           /\ port'.supply = port.supply_voltage /\ port'.explicit_contract
  BY <1>1, <1>2, <1>7 DEF Source!Transition, Source!Next
<1>8. CASE /\ port'.supply_voltage = port.supply_voltage
           /\ port'.attached = port.attached
           /\ port'.explicit_contract = port.explicit_contract
           /\ port'.supply \in {port.supply, 0}
                \cup (IF port.supply = 0 THEN {VSafe5V} ELSE {})
  BY <1>8 DEF Source!SwitchOff, Source!SwitchOn, Source!Next, Source!vars
<1>9. CASE /\ SameVolts(port, port') /\ port.attached /\ port.supply # 0
           /\ port'.supply_voltage \in Advertised
  BY <1>9 DEF SameVolts, Source!Grant, Source!Next
<1> QED
  BY <1>3, <1>4, <1>5, <1>6, <1>7, <1>8, <1>9 DEF Powers
-----------------------------------------------------------------------------
(* Every step of the program and around it is a step of the source.        *)

LEMMA RanPowers ==
    ASSUME NEW p, Powers(port, p), Ran(p) PROVE Powers(port, port')
<1> DEFINE q == [p EXCEPT !.running = FALSE]
           z == [q EXCEPT !.run = FALSE]
<1>1. p \in Port
  BY DEF Powers, Quiet, Released
<1>2. Quiet(p, p) /\ Quiet(p, q) /\ q \in Port
  BY <1>1, FieldQuiet, QuietTrans DEF Quiet
<1>3. Ran(p) => port' = p \/ port' = z
  BY DEF Ran, Becomes
<1> HIDE DEF q
<1>4. Quiet(q, z)
  BY <1>2, FieldQuiet
<1> HIDE DEF z
<1>5. Quiet(p, z)
  BY <1>2, <1>4, QuietTrans
<1> QED
  BY <1>2, <1>3, <1>5, PowersQuiet

\* Every state of run_state_machine moves the supply as a source may.
LEMMA RunStateMachinePowers ==
    ASSUME TypeOK, PowerInv, VoltageInv, Granted(port), RunStateMachine
    PROVE  Powers(port, port')
<1> DEFINE e == Entered
<1>0. port \in Port /\ e \in Port /\ Quiet(port, e)
  <2>1. port \in Port /\ e \in Port
    BY EnteredType DEF TypeOK
  <2>2. SameVolts(port, e) /\ e.supply_voltage = port.supply_voltage
    BY <2>1 DEF Entered, SameVolts, Port
  <2> QED
    BY <2>1, <2>2 DEF Quiet
<1>e. /\ e.attached = port.attached /\ e.explicit_contract = port.explicit_contract
      /\ e.supply = port.supply /\ e.supply_voltage = port.supply_voltage
  BY <1>0 DEF Quiet, SameVolts
<1>s. Sound(port) /\ Powered(port)
  BY DEF VoltageInv, PowerInv
<1>t. /\ {"SRC_UNATTACHED", "DEBUG_ACC_ATTACHED", "AUDIO_ACC_ATTACHED", "SRC_ATTACHED",
          "SRC_DISC_CABLE", "SRC_WAIT_CABLE", "SRC_SEND_CAPABILITIES", "SRC_READY",
          "SRC_WAIT_NEW_CAPABILITIES", "SRC_TRANSITION_SUPPLY", "ACC_UNATTACHED",
          "HARD_RESET_START", "SRC_HARD_RESET_VBUS_OFF"} \subseteq States
      /\ {"SRC_HARD_RESET_VBUS_ON", "SRC_HARD_RESET_DISABLE_RP", "VCONN_SWAP_START",
          "SRC_HARD_RESET_VBUS_OFF_DISABLE", "VCONN_SWAP_WAIT_FOR_VCONN",
          "VCONN_SWAP_TURN_ON_VCONN", "PORT_RESET_WAIT_OFF"} \subseteq States
      /\ \A p \in Port : HardResetState(p) \in States
  BY HardResetStateType DEF States
<1>q. ASSUME NEW p, Powers(port, p), Ran(p) PROVE Powers(port, port')
  BY <1>q, RanPowers
<1>i. ASSUME NEW p, Quiet(port, p), Ran(p) PROVE Powers(port, port')
  BY <1>i, <1>q DEF Powers
<1>now. ASSUME NEW p, NEW t \in States, Quiet(port, p)
        PROVE  Quiet(port, SetNow(p, t)) /\ Quiet(port, SetNowCond(p, t))
  BY <1>now, NowQuiet
<1>aft. ASSUME NEW p, NEW t \in States, Quiet(port, p)
        PROVE  Quiet(port, SetAfter(p, t)) /\ Quiet(port, SetAfterCond(p, t))
  BY <1>aft, AfterQuiet
<1>tx. ASSUME NEW p, NEW r, Quiet(port, p) PROVE Quiet(port, Transmit(p, r))
  BY <1>tx, TransmitQuiet
<1>reg. ASSUME NEW p, Quiet(port, p), NEW b \in BOOLEAN,
               NEW rp \in {"OPEN", "RP_1_5", "RP_3_0"}
        PROVE  /\ Quiet(port, SetCc(p, rp)) /\ Quiet(port, SetVconn(p, b))
               /\ Quiet(port, SetPdRx(p, b))
  BY <1>reg, RegisterQuiet
<1>like. ASSUME NEW p, NEW u, Quiet(port, p), Quiet(p, u) PROVE Quiet(port, u)
  BY <1>like, QuietTrans
<1>port. ASSUME NEW p, Quiet(port, p) PROVE p \in Port
  BY <1>port DEF Quiet
<1> HIDE DEF e
<1>1. CASE SrcUnattached
  <2> DEFINE c == SetCc(e, "RP_3_0")
             p == Detach(c)
  <2>1. Quiet(port, c) /\ c \in Port
    BY <1>0, <1>reg, <1>port
  <2>2. Ran(p)
    BY <1>1 DEF SrcUnattached, e
  <2> HIDE DEF c
  <2>3. Quiet(c, p) \/ Released(c, p)
    BY <2>1, DetachReleases
  <2> HIDE DEF p
  <2>4. Powers(port, p)
    BY <2>1, <2>3, QuietTrans DEF Powers
  <2> QED
    BY <1>q, <2>2, <2>4
<1>2. CASE SrcAttachWait
  <2>1. \A t \in {"DEBUG_ACC_ATTACHED", "AUDIO_ACC_ATTACHED", "SRC_ATTACHED"} :
           Quiet(port, SetAfter(e, t))
    BY <1>0, <1>aft, <1>t
  <2> QED
    BY <1>2, <1>i, <1>0, <2>1 DEF SrcAttachWait, e
<1>3. CASE SrcAttached
  <2> DEFINE a == SrcAttach(e)
             c == SetCc(a, "RP_3_0")
             p == SetAfter(c, "SRC_UNATTACHED")
  <2>1. \/ Quiet(e, a)
        \/ /\ ~e.attached /\ a \in Port /\ a.attached /\ a.supply = VSafe5V
           /\ a.explicit_contract = e.explicit_contract
           /\ a.supply_voltage = e.supply_voltage
    BY <1>0, SrcAttachSource
  <2>2. Ran(p)
    BY <1>3 DEF SrcAttached, e
  <2> HIDE DEF a
  <2>3. Powers(port, a) /\ a \in Port
    <3>1. CASE Quiet(e, a)
      BY <1>0, <1>like, <1>port, <3>1 DEF Powers
    <3>2. CASE ~Quiet(e, a)
      <4>1. ~port.attached /\ port.supply_voltage = 0 /\ ~HighV(port)
        BY <1>e, <1>s, <2>1, <3>2 DEF Granted, Sound
      <4> QED
        BY <1>e, <2>1, <3>2, <4>1 DEF Powers
    <3> QED
      BY <3>1, <3>2
  <2>4. Quiet(a, c)
    BY <2>3, QuietTrans, RegisterQuiet
  <2> HIDE DEF c
  <2>5. Quiet(a, p)
    BY <1>t, <2>4, AfterQuiet
  <2> HIDE DEF p
  <2> QED
    BY <1>q, <2>2, <2>3, <2>5, PowersQuiet
<1>4. CASE SrcStartup
  <2>s. port.state = "SRC_STARTUP"
    BY <1>4 DEF SrcStartup, In
  <2> DEFINE q == [e EXCEPT !.attached = TRUE, !.disc_cable_count = 0,
                            !.caps_count = 0, !.explicit_contract = FALSE,
                            !.last_pdo_index = 0]
             p == SetAfter(q, "SRC_DISC_CABLE")
  <2>1. 0 \in 0..3 /\ 0 \in 0..(NCaps + 1) /\ 0 \in Nat
    BY CountsAssumption
  <2>2. q \in Port
    BY <1>0, <2>1 DEF Port
  <2>3. q.supply = e.supply /\ q.supply_voltage = e.supply_voltage
    BY <1>0 DEF Port
  <2>4. q.attached /\ ~q.explicit_contract
    BY <1>0 DEF Port
  <2>5. Ran(p)
    BY <1>4 DEF SrcStartup, e
  <2> HIDE DEF q
  <2>6. port.supply = VSafe5V
    BY <1>s, <2>s DEF Sound, Powered, Fed, HighV
  <2>7. Powers(port, q)
    BY <1>e, <2>2, <2>3, <2>4, <2>6 DEF Powers
  <2>8. Quiet(q, p)
    BY <1>t, <2>2, QuietTrans, AfterQuiet
  <2> HIDE DEF p
  <2> QED
    BY <1>q, <2>5, <2>7, <2>8, PowersQuiet
<1>5. CASE SrcDiscCable
  <2> DEFINE k == IF e.disc_cable_count > 2 THEN e.disc_cable_count
                  ELSE e.disc_cable_count + 1
             p == [e EXCEPT !.disc_cable_count = k]
  <2>1. k \in 0..3
    BY <1>0 DEF Port
  <2>2. \/ Ran(SetAfter(e, "SRC_SEND_CAPABILITIES"))
        \/ Ran(SetNow(p, "SRC_SEND_CAPABILITIES"))
        \/ \E r \in TxOutcomes, t \in {"SRC_WAIT_CABLE", "SRC_DISC_CABLE"} :
             Ran(SetAfter(Transmit(p, r), t))
    BY <1>5 DEF SrcDiscCable, e
  <2> HIDE DEF k
  <2>3. Quiet(port, p)
    BY <1>0, <1>like, <2>1, FieldQuiet
  <2> HIDE DEF p
  <2>4. /\ Quiet(port, SetAfter(e, "SRC_SEND_CAPABILITIES"))
        /\ Quiet(port, SetNow(p, "SRC_SEND_CAPABILITIES"))
    BY <1>0, <1>now, <1>aft, <1>t, <2>3
  <2>5. ASSUME NEW r, NEW t \in {"SRC_WAIT_CABLE", "SRC_DISC_CABLE"}
        PROVE  Quiet(port, SetAfter(Transmit(p, r), t))
    BY <1>tx, <1>aft, <1>t, <2>3
  <2> QED
    BY <1>i, <2>2, <2>4, <2>5
<1>6. CASE SrcWaitCable
  <2>1. Quiet(port, SetNow(e, "SRC_SEND_CAPABILITIES"))
    BY <1>0, <1>now, <1>t
  <2> QED
    BY <1>6, <1>i, <2>1 DEF SrcWaitCable, e
<1>7. CASE SrcSendCapabilities
  <2> DEFINE k == IF e.caps_count > NCaps THEN e.caps_count ELSE e.caps_count + 1
             p == [e EXCEPT !.caps_count = k]
             q == [p EXCEPT !.hard_reset_count = 0, !.caps_count = 0,
                            !.pd_capable = TRUE]
  <2>1. k \in 0..(NCaps + 1)
    BY <1>0, CountsAssumption DEF Port
  <2>2. \/ Ran(SetNow(p, "SRC_READY"))
        \/ Ran(SetAfterCond(q, HardResetState(q)))
        \/ Ran(SetAfter(p, "SRC_SEND_CAPABILITIES"))
        \/ \E r \in TxOutcomes : Ran(Transmit(p, r))
    BY <1>7 DEF SrcSendCapabilities, CapsSent, e
  <2> HIDE DEF k
  <2>3. Quiet(port, p) /\ p \in Port
    BY <1>0, <1>like, <1>port, <2>1, FieldQuiet
  <2> HIDE DEF p
  <2>4. 0 \in 0..(NCaps + 1) /\ 0 \in 0..NHard
    BY CountsAssumption
  <2>5. q \in Port
    BY <2>3, <2>4 DEF Port
  <2>6. SameVolts(p, q) /\ q.supply_voltage = p.supply_voltage
    BY <2>3 DEF SameVolts, Port
  <2> HIDE DEF q
  <2>7. Quiet(port, q)
    BY <1>like, <2>3, <2>5, <2>6 DEF Quiet
  <2>8. /\ Quiet(port, SetNow(p, "SRC_READY"))
        /\ Quiet(port, SetAfter(p, "SRC_SEND_CAPABILITIES"))
        /\ Quiet(port, SetAfterCond(q, HardResetState(q)))
    BY <1>now, <1>aft, <1>t, <2>3, <2>5, <2>7
  <2> QED
    BY <1>i, <1>tx, <2>2, <2>3, <2>8
<1>8. CASE SrcNegotiateCapabilities
  <2>s. port.state = "SRC_NEGOTIATE_CAPABILITIES"
    BY <1>8 DEF SrcNegotiateCapabilities, In
  <2> DEFINE p == CheckRequest(e)
  <2>1. /\ p \in Port /\ SameVolts(e, p)
        /\ p.supply_voltage \in {e.supply_voltage} \cup Advertised
    BY <1>0, CheckRequestSource
  <2>2. \E r \in TxOutcomes : Ran(Accept(p, r)) \/ Ran(Reject(p, r))
    BY <1>8 DEF SrcNegotiateCapabilities, e
  <2> HIDE DEF p
  <2>3. port.attached /\ port.supply # 0
    BY <1>s, <2>s DEF Sound, Granting, Grants, Powered, Fed
  <2>4. Powers(port, p)
    BY <1>e, <2>1, <2>3 DEF Powers, Quiet, SameVolts
  <2>5. ASSUME NEW r PROVE Quiet(p, Transmit(p, r))
    BY <2>1, QuietTrans, TransmitQuiet
  <2>6. ASSUME NEW r PROVE Quiet(p, Reject(p, r))
    BY <1>t, <2>5, NowQuiet DEF Reject
  <2>7. ASSUME NEW r PROVE Quiet(p, Accept(p, r))
    <3> DEFINE q == Transmit(p, r)
               t == IF p.pdo_type = "APDO" /\ p.pdo_index = p.last_pdo_index
                    THEN SetNow(q, "SRC_TRANSITION_SUPPLY")
                    ELSE SetAfter(q, "SRC_TRANSITION_SUPPLY")
               k == p.pdo_index
    <3>1. k \in Nat
      BY <2>1 DEF Port
    <3>2. Accept(p, r) = [t EXCEPT !.last_pdo_index = k]
      BY DEF Accept
    <3>3. Quiet(p, t) /\ t \in Port
      BY <1>t, <2>5, NowQuiet, AfterQuiet DEF Quiet
    <3> HIDE DEF t, k
    <3>4. Quiet(t, [t EXCEPT !.last_pdo_index = k])
      BY <3>1, <3>3, FieldQuiet
    <3> QED
      BY <3>2, <3>3, <3>4, QuietTrans
  <2> QED
    BY <1>q, <2>2, <2>4, <2>6, <2>7, PowersQuiet
<1>9. CASE SrcTransitionSupply
  <2>s. port.state = "SRC_TRANSITION_SUPPLY"
    BY <1>9 DEF SrcTransitionSupply, In
  <2>1. /\ port.attached /\ port.supply # 0 /\ port.supply_voltage # 0
        /\ port.supply_voltage \in Advertised
    BY <1>s, <2>s DEF Sound, Granting, Grants, Powered, Fed, Granted
  <2>2. ASSUME NEW r
        PROVE  Powers(port, SetNowCond([Transmit(SetVbusHv(e), r)
                                          EXCEPT !.explicit_contract = TRUE], "SRC_READY"))
    <3> DEFINE h == SetVbusHv(e)
               t == Transmit(h, r)
               u == [t EXCEPT !.explicit_contract = TRUE]
    <3>1. h \in Port
      BY <1>0, SetVbusHvType
    <3>2. /\ h.attached = e.attached /\ h.supply = e.supply_voltage
          /\ h.supply_voltage = e.supply_voltage
      BY <1>0 DEF SetVbusHv, Port
    <3> HIDE DEF h
    <3>3. Quiet(h, t) /\ t \in Port
      BY <3>1, QuietTrans, TransmitQuiet DEF Quiet
    <3> HIDE DEF t
    <3>4. u \in Port
      BY <3>3 DEF Port
    <3>5. u.attached = t.attached /\ u.supply = t.supply /\ u.supply_voltage = t.supply_voltage
      BY <3>3 DEF Port
    <3>6. u.explicit_contract
      BY <3>3 DEF Port
    <3> HIDE DEF u
    <3>7. Powers(port, u)
      BY <1>e, <2>1, <3>2, <3>3, <3>4, <3>5, <3>6 DEF Powers, Quiet, SameVolts
    <3>8. Quiet(u, SetNowCond(u, "SRC_READY"))
      BY <1>t, <3>4, QuietTrans, NowQuiet
    <3> QED
      BY <3>7, <3>8, PowersQuiet DEF u, t, h
  <2> QED
    BY <1>9, <1>q, <2>2 DEF SrcTransitionSupply, e
<1>10. CASE SrcReady
  <2> DEFINE p == IF port.explicit_contract /\ port.pdo_type = "APDO"
                  THEN SetAfterCond(e, HardResetState(e)) ELSE e
             q == [p EXCEPT !.hard_reset_count = 0]
  <2>1. Quiet(port, p) /\ p \in Port
    BY <1>0, <1>aft, <1>t, <1>port
  <2>2. 0 \in 0..NHard
    BY CountsAssumption
  <2>3. Ran(q)
    BY <1>10 DEF SrcReady, e
  <2> HIDE DEF p
  <2>4. Quiet(port, q)
    BY <1>like, <2>1, <2>2, FieldQuiet
  <2> HIDE DEF q
  <2> QED
    BY <1>i, <2>3, <2>4
<1>11. CASE AccUnattached
  <2> DEFINE d == Detach(e)
             p == SetNow(d, "SRC_UNATTACHED")
  <2>1. Powers(port, d) /\ d \in Port
    BY <1>0, DetachReleases, DetachType, QuietTrans DEF Powers
  <2>2. Ran(p)
    BY <1>11 DEF AccUnattached, e
  <2> HIDE DEF d
  <2>3. Quiet(d, p)
    BY <1>t, <2>1, QuietTrans, NowQuiet
  <2> HIDE DEF p
  <2> QED
    BY <1>q, <2>1, <2>2, <2>3, PowersQuiet
<1>12. CASE AccAttached
  <2> DEFINE p == AccAttach(e)
  <2>1. p \in Port
    BY <1>0, AccAttachType
  <2>2. /\ p.supply = e.supply /\ p.explicit_contract = e.explicit_contract
        /\ p.supply_voltage = e.supply_voltage
    BY <1>0 DEF AccAttach, Port
  <2>3. p.attached
    BY <1>0 DEF AccAttach, Port
  <2>4. Ran(p)
    BY <1>12 DEF AccAttached, e
  <2> HIDE DEF p
  <2>5. port.attached \in BOOLEAN /\ p.attached \in BOOLEAN
    BY <1>0, <2>1 DEF Port
  <2>6. CASE port.attached
    BY <1>e, <1>q, <2>1, <2>2, <2>3, <2>4, <2>5, <2>6 DEF Powers
  <2>7. CASE ~port.attached
    <3>1. port.supply_voltage = 0 /\ ~HighV(port)
      BY <1>s, <2>7 DEF Granted, Sound
    <3> QED
      BY <1>e, <1>q, <2>1, <2>2, <2>3, <2>4, <2>7, <3>1 DEF Powers
  <2> QED
    BY <2>6, <2>7
<1>13. CASE AudioAccDebounce
  <2>1. Quiet(port, SetAfter(e, "ACC_UNATTACHED"))
    BY <1>0, <1>now, <1>aft, <1>reg, <1>t
  <2> QED
    BY <1>13, <1>i, <2>1 DEF AudioAccDebounce, e
<1>14. CASE HardResetSend
  <2>1. ASSUME NEW r PROVE Quiet(port, SetNow(Transmit(e, r), "HARD_RESET_START"))
    BY <1>0, <1>reg, <1>tx, <1>now, <1>t
  <2> QED
    BY <1>14, <1>i, <1>0, <2>1 DEF HardResetSend, e
<1>15. CASE HardResetStart
  <2> DEFINE q == SetPdRx(e, FALSE)
             k == IF q.hard_reset_count < NHard THEN q.hard_reset_count + 1
                  ELSE q.hard_reset_count
             p == [q EXCEPT !.hard_reset_count = k]
  <2>1. Quiet(port, q) /\ q \in Port
    BY <1>0, <1>reg, <1>port
  <2>2. \E t \in {"SRC_HARD_RESET_DISABLE_RP", "SRC_HARD_RESET_VBUS_OFF"} :
           Ran(SetAfter(p, t))
    BY <1>15 DEF HardResetStart, e
  <2> HIDE DEF q
  <2>3. k \in 0..NHard
    BY <2>1, CountsAssumption DEF Port
  <2> HIDE DEF k
  <2>4. Quiet(port, p)
    BY <1>like, <2>1, <2>3, FieldQuiet
  <2> HIDE DEF p
  <2>5. \A t \in {"SRC_HARD_RESET_DISABLE_RP", "SRC_HARD_RESET_VBUS_OFF"} :
           Quiet(port, SetAfter(p, t))
    BY <1>aft, <1>t, <2>4
  <2> QED
    BY <1>i, <2>2, <2>5
<1>16. CASE SrcHardResetVbusOff
  <2> DEFINE v == SetVconn(e, FALSE)
             o == SetVbus(v, FALSE)
             p == SetAfter(o, "SRC_HARD_RESET_VBUS_ON")
  <2>1. Quiet(port, v) /\ v \in Port
    BY <1>0, <1>reg, <1>port
  <2>2. Ran(p)
    BY <1>16 DEF SrcHardResetVbusOff, e
  <2> HIDE DEF v
  <2>3. /\ o \in Port /\ o.attached = v.attached /\ o.supply = 0
        /\ o.explicit_contract = v.explicit_contract /\ o.supply_voltage = v.supply_voltage
    BY <2>1, SetVbusSource
  <2> HIDE DEF o
  <2>4. Powers(port, o)
    BY <2>1, <2>3 DEF Powers, Quiet, SameVolts
  <2>6. Quiet(o, p)
    BY <1>t, <2>3, QuietTrans, AfterQuiet
  <2> HIDE DEF p
  <2> QED
    BY <1>q, <2>2, <2>4, <2>6, PowersQuiet
<1>17. CASE SrcHardResetVbusOn
  <2>s. port.state = "SRC_HARD_RESET_VBUS_ON"
    BY <1>17 DEF SrcHardResetVbusOn, In
  <2> DEFINE x == SetPdRx(e, TRUE)
             v == SetVbus(x, TRUE)
             q == IF HasPoweredCable(v, v.polarity) THEN SetVconn(v, TRUE) ELSE v
             p == SetAfter(q, "SRC_UNATTACHED")
  <2>1. Quiet(port, x) /\ x \in Port
    BY <1>0, <1>reg, <1>port
  <2>2. Ran(p)
    BY <1>17 DEF SrcHardResetVbusOn, e
  <2> HIDE DEF x
  <2>3. /\ v \in Port /\ v.attached = x.attached /\ v.supply = VSafe5V
        /\ v.explicit_contract = x.explicit_contract /\ v.supply_voltage = x.supply_voltage
    BY <2>1, SetVbusSource
  <2> HIDE DEF v
  <2>4. port.supply \in {0, VSafe5V}
    BY <1>s, <2>s DEF Sound, HighV
  <2>5. Powers(port, v)
    BY <2>1, <2>3, <2>4 DEF Powers, Quiet, SameVolts
  <2>6. Quiet(v, q)
    BY <2>3, QuietTrans, RegisterQuiet
  <2> HIDE DEF q
  <2>7. Quiet(v, p)
    BY <1>t, <2>6, AfterQuiet
  <2> HIDE DEF p
  <2> QED
    BY <1>q, <2>2, <2>5, <2>7, PowersQuiet
<1>18. CASE SoftReset
  <2>1. ASSUME NEW r PROVE Quiet(port, SetNow(Transmit(e, r), "SRC_SEND_CAPABILITIES"))
    BY <1>0, <1>reg, <1>tx, <1>now, <1>t
  <2> QED
    BY <1>18, <1>i, <1>0, <2>1 DEF SoftReset, e
<1>19. CASE SoftResetSend
  <2>1. ASSUME NEW r
        PROVE  LET p == Transmit(e, r) IN
               /\ Quiet(port, SetAfterCond(p, HardResetState(p)))
               /\ Quiet(port, SetNowCond(p, HardResetState(p)))
    BY <1>0, <1>tx, <1>now, <1>aft, <1>port, <1>t
  <2> QED
    BY <1>19, <1>i, <2>1 DEF SoftResetSend, e
<1>20. CASE VconnSwapAccept
  <2>1. ASSUME NEW r PROVE Quiet(port, SetNow(Transmit(e, r), "VCONN_SWAP_START"))
    BY <1>0, <1>reg, <1>tx, <1>now, <1>t
  <2> QED
    BY <1>20, <1>i, <1>0, <2>1 DEF VconnSwapAccept, e
<1>21. CASE VconnSwapStart
  <2>1. /\ Quiet(port, SetNow(e, "VCONN_SWAP_WAIT_FOR_VCONN"))
        /\ Quiet(port, SetNow(e, "VCONN_SWAP_TURN_ON_VCONN"))
    BY <1>0, <1>now, <1>t
  <2> QED
    BY <1>21, <1>i, <2>1 DEF VconnSwapStart, e
<1>22. CASE VconnSwapWaitForVconn
  <2>1. Quiet(port, SetAfter(e, HardResetState(e)))
    BY <1>0, <1>now, <1>aft, <1>reg, <1>t
  <2> QED
    BY <1>22, <1>i, <2>1 DEF VconnSwapWaitForVconn, e
<1>23. CASE VconnSwapTurnOnVconn
  <2>1. ASSUME NEW r PROVE Quiet(port, SetNow(Transmit(SetVconn(e, TRUE), r), "SRC_READY"))
    BY <1>0, <1>reg, <1>tx, <1>now, <1>t
  <2> QED
    BY <1>23, <1>i, <1>0, <2>1 DEF VconnSwapTurnOnVconn, e
<1>24. CASE VconnSwapTurnOffVconn
  <2>1. Quiet(port, SetNow(SetVconn(e, FALSE), "SRC_READY"))
    BY <1>0, <1>now, <1>aft, <1>reg, <1>t
  <2> QED
    BY <1>24, <1>i, <2>1 DEF VconnSwapTurnOffVconn, e
<1>25. CASE BistRx
  <2>1. ASSUME NEW r PROVE Quiet(port, SetNow(Transmit(e, r), "SRC_UNATTACHED"))
    BY <1>0, <1>reg, <1>tx, <1>now, <1>t
  <2> QED
    BY <1>25, <1>i, <1>0, <2>1 DEF BistRx, e
<1>26. CASE IdleState
  BY <1>26, <1>i, <1>0 DEF IdleState, e
<1>27. CASE PortReset
  <2> DEFINE o == ResetPort(e)
             q == SetCc(o, "OPEN")
             p == SetAfter(q, "PORT_RESET_WAIT_OFF")
  <2>1. Powers(port, o) /\ o \in Port
    BY <1>0, ResetPortReleases, QuietTrans DEF Powers, Released
  <2>2. Ran(p)
    BY <1>27 DEF PortReset, e
  <2> HIDE DEF o
  <2>3. Quiet(o, q)
    BY <2>1, QuietTrans, RegisterQuiet
  <2> HIDE DEF q
  <2>4. Quiet(o, p)
    BY <1>t, <2>3, AfterQuiet
  <2> HIDE DEF p
  <2> QED
    BY <1>q, <2>1, <2>2, <2>4, PowersQuiet
<1>28. CASE PortResetWaitOff
  <2>1. /\ Quiet(port, SetAfter(e, "SRC_UNATTACHED"))
        /\ Quiet(port, SetNow(e, "SRC_UNATTACHED"))
    BY <1>0, <1>aft, <1>now, <1>t
  <2> QED
    BY <1>28, <1>i, <2>1 DEF PortResetWaitOff, e
<1>29. CASE SrcHardResetDisableRp
  <2>1. Quiet(port, SetAfter(SetCc(e, "OPEN"), "SRC_HARD_RESET_VBUS_OFF_DISABLE"))
    BY <1>0, <1>now, <1>aft, <1>reg, <1>t
  <2> QED
    BY <1>29, <1>i, <2>1 DEF SrcHardResetDisableRp, e
<1>30. CASE SrcHardResetVbusOffDisable
  <2> DEFINE v == SetVconn(e, FALSE)
             o == SetVbus(v, FALSE)
             q == [o EXCEPT !.force_disable_flag = FALSE]
             p == SetAfter(q, "SRC_UNATTACHED")
  <2>1. Quiet(port, v) /\ v \in Port
    BY <1>0, <1>reg, <1>port
  <2>2. Ran(p)
    BY <1>30 DEF SrcHardResetVbusOffDisable, e
  <2> HIDE DEF v
  <2>3. /\ o \in Port /\ o.attached = v.attached /\ o.supply = 0
        /\ o.explicit_contract = v.explicit_contract /\ o.supply_voltage = v.supply_voltage
    BY <2>1, SetVbusSource
  <2> HIDE DEF o
  <2>4. Powers(port, o)
    BY <2>1, <2>3 DEF Powers, Quiet, SameVolts
  <2>5. Quiet(o, q)
    BY <2>3, FieldQuiet
  <2> HIDE DEF q
  <2>6. Quiet(o, p)
    BY <1>t, <2>3, <2>5, QuietTrans, AfterQuiet
  <2> HIDE DEF p
  <2> QED
    BY <1>q, <2>2, <2>4, <2>6, PowersQuiet
<1> QED
  BY <1>1, <1>2, <1>3, <1>4, <1>5, <1>6, <1>7, <1>8, <1>9, <1>10, <1>11, <1>12,
     <1>13, <1>14, <1>15, <1>16, <1>17, <1>18, <1>19, <1>20, <1>21, <1>22, <1>23,
     <1>24, <1>25, <1>26, <1>27, <1>28, <1>29, <1>30 DEF RunStateMachine

LEMMA ProgramPowers ==
    ASSUME TypeOK, PowerInv, VoltageInv, Granted(port), Program
    PROVE  Powers(port, port')
<1>0. port \in Port /\ line \in Lines /\ vbus \in BOOLEAN /\ port.delayed_state \in States
  BY DEF TypeOK, Port
<1>q. ASSUME NEW q, Quiet(port, q), port' = q PROVE Powers(port, port')
  BY <1>q DEF Powers
<1>h. ASSUME NEW x, NEW q, Quiet(port, q), Handle(x, q) PROVE Powers(port, port')
  BY <1>h, <1>q DEF Handle, Becomes
<1>1. CASE Snapshot \/ ClearEvent \/ StoreEvents
  <2>1. port' = port
    BY <1>1 DEF Snapshot, ClearEvent, StoreEvents
  <2> QED
    BY <1>0, <1>q, <2>1, QuietTrans
<1>2. CASE HandleReset
  BY <1>0, <1>2, <1>h, EventsQuiet DEF HandleReset
<1>3. CASE HandleVbus
  BY <1>0, <1>3, <1>h, EventsQuiet DEF HandleVbus
<1>4. CASE HandleCc
  BY <1>0, <1>4, <1>h, ObservedType, EventsQuiet DEF HandleCc
<1>5. CASE HandleRx
  <2>1. rx.rdo \in Requests \cup {NoRequest}
    BY MessagesAssumption DEF TypeOK, Message, NoMessage
  <2> QED
    BY <1>0, <1>5, <1>h, <2>1, RxHandlerQuiet DEF HandleRx
<1>6. CASE StartWork
  <2> DEFINE p == [port EXCEPT !.running = TRUE]
             o == [p EXCEPT !.queued = FALSE]
  <2>1. Quiet(port, p) /\ p \in Port
    BY <1>0, FieldQuiet DEF Quiet
  <2>2. \A r : SendQueued(p, r) = SetAfter(Transmit(o, r), "INVALID_STATE")
    BY DEF SendQueued, SetAfter
  <2>3. port' = p \/ \E r : port' = SendQueued(p, r)
    BY <1>6 DEF StartWork, Becomes
  <2> HIDE DEF p
  <2>4. Quiet(port, o)
    BY <2>1, FieldQuiet, QuietTrans
  <2> HIDE DEF o
  <2>5. ASSUME NEW r PROVE Quiet(port, SetAfter(Transmit(o, r), "INVALID_STATE"))
    BY <2>4, TransmitQuiet, AfterQuiet DEF States
  <2> QED
    BY <1>q, <2>1, <2>2, <2>3, <2>5
<1>7. CASE RunStateMachine
  BY <1>7, RunStateMachinePowers
<1>8. CASE TimerExpires \/ TimerWaits
  <2>1. Quiet(port, Requeued)
    BY <1>0, FieldQuiet, QuietTrans DEF Requeued
  <2>2. Quiet(port, SetNow(Requeued, port.delayed_state))
    BY <1>0, <2>1, NowQuiet
  <2> QED
    BY <1>8, <1>q, <2>1, <2>2 DEF TimerExpires, TimerWaits, Becomes
<1> QED
  BY <1>1, <1>2, <1>3, <1>4, <1>5, <1>6, <1>7, <1>8 DEF Program

\* The resets release what was attached; nothing else outside the program acts on it.
LEMMA EnvironmentPowers ==
    ASSUME TypeOK, Environment PROVE Powers(port, port')
<1>0. port \in Port /\ line \in Lines /\ vbus \in BOOLEAN
  BY DEF TypeOK
<1>1. CASE SwitchPressed
  BY <1>0, <1>1, EventsQuiet DEF SwitchPressed, Powers
<1>2. CASE CcIrq \/ RxIrq \/ HardResetIrq \/ VbusIrq
  <2>1. port' = port
    BY <1>2 DEF CcIrq, RxIrq, HardResetIrq, VbusIrq
  <2> QED
    BY <1>0, <2>1, QuietTrans DEF Powers
<1>3. CASE TcpcReset
  <2> DEFINE a == SetCc(port, "OPEN")
             b == SetPdRx(a, FALSE)
             c == SetVconn(b, FALSE)
             d == SetVbus(c, FALSE)
  <2>1. Quiet(port, a)
    BY <1>0, QuietTrans, RegisterQuiet
  <2>2. PICK v \in BOOLEAN :
           port' = TcpmInit(d, v, Nothing) /\ Nothing \in CcPairs
    BY <1>0, <1>3 DEF TcpcReset, Discharged, Nothing, CcPairs, CcValues
  <2> HIDE DEF a
  <2>3. Quiet(port, b)
    BY <2>1, RegisterQuiet
  <2> HIDE DEF b
  <2>4. Quiet(port, c) /\ c \in Port
    BY <2>3, RegisterQuiet DEF Quiet
  <2> HIDE DEF c
  <2>5. d \in Port /\ d.explicit_contract = port.explicit_contract
    BY <2>4, SetVbusSource DEF Quiet, SameVolts
  <2> HIDE DEF d
  <2>6. Released(d, port')
    BY <2>2, <2>5, TcpmInitReleases
  <2> QED
    BY <2>5, <2>6 DEF Powers, Released
<1>4. CASE McuReset
  <2> DEFINE h == Registered(port)
  <2>1. h \in Port /\ Observed(port, line) \in CcPairs
    BY <1>0, RegisteredType, ObservedType
  <2>2. h.explicit_contract = port.explicit_contract
    BY <1>0 DEF Registered, Port
  <2>3. PICK v \in BOOLEAN : port' = TcpmInit(h, v, Observed(port, line))
    BY <1>0, <1>4 DEF McuReset, Discharged
  <2> HIDE DEF h
  <2>4. Released(h, port')
    BY <2>1, <2>3, TcpmInitReleases
  <2> QED
    BY <2>2, <2>4 DEF Powers, Released
<1> QED
  BY <1>1, <1>2, <1>3, <1>4 DEF Environment

LEMMA InitSource == ASSUME Init PROVE Source!Init /\ Granted(port)
<1>1. PICK h \in PowerOnHeap :
         port = TcpmInit(Registered(h), FALSE, Observed(h, line))
  BY DEF Init
<1> DEFINE r == Registered(h)
<1>2. r \in Port /\ Observed(h, line) \in CcPairs
  BY HeapAssumption, RegisteredType, ObservedType DEF Init
<1> HIDE DEF r
<1>3. Released(r, port)
  BY <1>1, <1>2, TcpmInitReleases DEF r
<1>4. port.explicit_contract \in BOOLEAN
  BY <1>3 DEF Released, Port
<1> QED
  BY <1>3, <1>4 DEF Released, Granted, Source!Init

-----------------------------------------------------------------------------

\* VBUS is off, at 5 V or at an advertised voltage; what is granted is advertised,
\* and granted to something attached: no sink inherits the grant of another.
THEOREM GrantsAreAdvertised ==
    ASSUME ~SlowDischarge
    PROVE  Spec => []Granted(port)
<1>1. Init => Granted(port)
  BY InitSource
<1>2. TypeOK /\ PowerInv /\ VoltageInv /\ Granted(port) /\ [Next]_vars => Granted(port)'
  <2> SUFFICES ASSUME TypeOK, PowerInv, VoltageInv, Granted(port), [Next]_vars
               PROVE  Granted(port')
    OBVIOUS
  <2>1. CASE Next
    BY <2>1, ProgramPowers, EnvironmentPowers, PowersGranted DEF Next
  <2>2. CASE UNCHANGED vars
    BY <2>2 DEF vars
  <2> QED
    BY <2>1, <2>2
<1>3. Spec => [](TypeOK /\ PowerInv)
  BY PowerInvariant
<1> QED
  BY <1>1, <1>2, <1>3, VoltageInvariant, PTL DEF Spec

\* The port manager implements PowerSource: in every order of requests, hard
\* resets, unplugs, presses and restarts, VBUS, the grant, the attachment and the
\* contract move only as its seven steps allow.
THEOREM PowerSourceImplemented ==
    ASSUME ~SlowDischarge
    PROVE  Spec => PowersAsPromised
<1>1. Init => Source!Init
  BY InitSource
<1>2. TypeOK /\ PowerInv /\ VoltageInv /\ Granted(port) /\ [Next]_vars
        => [Source!Next]_(Source!vars)
  <2> SUFFICES ASSUME TypeOK, PowerInv, VoltageInv, Granted(port), [Next]_vars
               PROVE  [Source!Next]_(Source!vars)
    OBVIOUS
  <2>1. CASE Next
    BY <2>1, ProgramPowers, EnvironmentPowers, SourceSteps DEF Next
  <2>2. CASE UNCHANGED vars
    BY <2>2 DEF vars, Source!vars
  <2> QED
    BY <2>1, <2>2
<1>3. Spec => [](TypeOK /\ PowerInv)
  BY PowerInvariant
<1> QED
  BY <1>1, <1>2, <1>3, VoltageInvariant, GrantsAreAdvertised, PTL
     DEF Spec, PowersAsPromised, Source!Spec
=============================================================================
