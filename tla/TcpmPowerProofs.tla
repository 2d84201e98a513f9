-------------------------- MODULE TcpmPowerProofs --------------------------
(***************************************************************************)
(* VBUS never comes up at a negotiated voltage: VbusStartsAt5V, from the   *)
(* inductive invariant PowerInv. A Request may be handled in any attached  *)
(* state, so the argument is that no message is pending while an attached  *)
(* port sources nothing: a message needs VBUS and reception, a hard reset  *)
(* stops reception before it switches VBUS off, and every other way of     *)
(* switching VBUS off also clears attached.                                *)
(***************************************************************************)
EXTENDS TcpmProofs

\* The states of a hard reset that run without reception.
Off == {"SRC_HARD_RESET_VBUS_OFF", "SRC_HARD_RESET_DISABLE_RP",
        "SRC_HARD_RESET_VBUS_OFF_DISABLE"}

\* The states that attach an accessory without sourcing VBUS.
Accessory == {"DEBUG_ACC_ATTACHED", "AUDIO_ACC_ATTACHED"}

\* The states that rely on VBUS being sourced.
Fed == {"SRC_STARTUP", "SRC_NEGOTIATE_CAPABILITIES", "SRC_TRANSITION_SUPPLY"}

\* Neither the state nor the armed timer leads to a supply that moves from off.
Powered(p) ==
    /\ p.state \in Fed => p.supply # 0
    /\ p.state = "SRC_TRANSITION_SUPPLY" => p.supply_voltage # 0
    /\ p.delayed_state = "SRC_TRANSITION_SUPPLY" =>
         /\ p.state \in {"SRC_NEGOTIATE_CAPABILITIES", "SOFT_RESET_SEND"}
         /\ p.supply # 0 /\ p.supply_voltage # 0
    /\ p.delayed_state = "SRC_STARTUP" =>
         p.state = "SRC_HARD_RESET_VBUS_ON" /\ p.supply # 0
    /\ p.delayed_state # "SRC_NEGOTIATE_CAPABILITIES"
    /\ p.delayed_state \in Off =>
         p.state \in {"HARD_RESET_START", "SRC_HARD_RESET_DISABLE_RP"} /\ ~p.pd_rx
    /\ p.state \in Off => ~p.pd_rx

\* A pending message finds an attached port sourcing VBUS, now and after the
\* iteration that is about to run.
PowerInv ==
    /\ Powered(port)
    /\ vbus => port.supply # 0
    /\ "RX" \in events \cup todo /\ port.attached => port.supply # 0
    /\ pc = "sm" /\ "RX" \in events =>
         port.state \notin Off /\ (port.state \in Accessory => port.supply # 0)
    /\ pc \notin {"handle", "clear", "store"} => todo = {}
    /\ pc = "handle" => todo # {}

-----------------------------------------------------------------------------
(* What the helpers do to the fields the argument is about.                *)

\* q differs from p in no such field.
SamePower(p, q) ==
    /\ q.state = p.state
    /\ q.delayed_state = p.delayed_state
    /\ q.attached = p.attached
    /\ q.pd_rx = p.pd_rx
    /\ q.supply = p.supply
    /\ q.supply_voltage = p.supply_voltage

\* q differs from p in the state and the timer only.
SameSupply(p, q) ==
    /\ q.attached = p.attached
    /\ q.pd_rx = p.pd_rx
    /\ q.supply = p.supply
    /\ q.supply_voltage = p.supply_voltage

LEMMA SamePowerKeeps ==
    ASSUME NEW p, NEW q, SamePower(p, q), Powered(p) PROVE Powered(q)
BY DEF SamePower, Powered

LEMMA RegisterPower ==
    ASSUME NEW p \in Port, NEW x
    PROVE  SamePower(p, SetCc(p, x)) /\ SamePower(p, SetVconn(p, x))
<1>1. SamePower(p, SetCc(p, x))
  BY DEF SamePower, SetCc, Port
<1>2. SamePower(p, SetVconn(p, x))
  BY DEF SamePower, SetVconn, Port
<1> QED
  BY <1>1, <1>2

LEMMA SetNowPower ==
    ASSUME NEW p \in Port, NEW s
    PROVE  /\ SameSupply(p, SetNow(p, s))
           /\ SetNow(p, s).state = s
           /\ SetNow(p, s).delayed_state = "INVALID_STATE"
<1>1. SameSupply(p, SetNow(p, s))
  BY DEF SameSupply, SetNow, Port
<1>2. SetNow(p, s).state = s /\ SetNow(p, s).delayed_state = "INVALID_STATE"
  BY DEF SetNow, Port
<1> QED
  BY <1>1, <1>2

LEMMA SetAfterPower ==
    ASSUME NEW p \in Port, NEW s
    PROVE  /\ SameSupply(p, SetAfter(p, s))
           /\ SetAfter(p, s).state = p.state
           /\ SetAfter(p, s).delayed_state = s
BY DEF SameSupply, SetAfter, Port

\* The states that rely on nothing, and what may be armed in any state.
Plain == States \ (Off \cup Accessory \cup Fed)
Later == States \ (Off \cup Fed)

LEMMA PlainPowered ==
    ASSUME NEW p \in Port, NEW s \in Plain \cup Accessory PROVE Powered(SetNow(p, s))
<1>1. /\ s \notin Off \cup Fed /\ s # "SRC_TRANSITION_SUPPLY"
      /\ "INVALID_STATE" \notin Off \cup Fed
  BY DEF Plain, Off, Fed, Accessory
<1> DEFINE q == SetNow(p, s)
<1>2. q.state = s /\ q.delayed_state = "INVALID_STATE"
  BY SetNowPower
<1> HIDE DEF q
<1>3. Powered(q)
  BY <1>1, <1>2 DEF Powered
<1> QED
  BY <1>3 DEF q

LEMMA LaterPowered ==
    ASSUME NEW p \in Port, Powered(p), NEW s \in Later PROVE Powered(SetAfter(p, s))
<1>1. /\ s \notin Off /\ s # "SRC_TRANSITION_SUPPLY" /\ s # "SRC_STARTUP"
      /\ s # "SRC_NEGOTIATE_CAPABILITIES"
  BY DEF Later, Fed
<1> DEFINE q == SetAfter(p, s)
<1>2. SameSupply(p, q) /\ q.state = p.state /\ q.delayed_state = s
  BY SetAfterPower
<1> HIDE DEF q
<1>3. Powered(q)
  BY <1>1, <1>2 DEF Powered, SameSupply
<1> QED
  BY <1>3 DEF q

LEMMA Targets ==
    /\ {"SRC_UNATTACHED", "SRC_ATTACH_WAIT", "SRC_SEND_CAPABILITIES", "SRC_READY",
        "SRC_WAIT_NEW_CAPABILITIES", "ACC_UNATTACHED", "AUDIO_ACC_DEBOUNCE",
        "HARD_RESET_SEND", "HARD_RESET_START", "SOFT_RESET", "SOFT_RESET_SEND",
        "VCONN_SWAP_ACCEPT", "VCONN_SWAP_START", "VCONN_SWAP_WAIT_FOR_VCONN",
        "VCONN_SWAP_TURN_ON_VCONN", "VCONN_SWAP_TURN_OFF_VCONN", "BIST_RX",
        "GET_PPS_STATUS_SEND", "ERROR_RECOVERY", "PORT_RESET"} \subseteq Plain
    /\ {"SRC_UNATTACHED", "DEBUG_ACC_ATTACHED", "AUDIO_ACC_ATTACHED", "SRC_ATTACHED",
        "SRC_DISC_CABLE", "SRC_WAIT_CABLE", "SRC_SEND_CAPABILITIES", "ACC_UNATTACHED",
        "HARD_RESET_SEND", "ERROR_RECOVERY", "SRC_HARD_RESET_VBUS_ON",
        "PORT_RESET_WAIT_OFF"} \subseteq Later
    /\ Plain \subseteq States /\ Later \subseteq States
BY DEF Plain, Later, States, Off, Fed, Accessory

LEMMA HardResetStateTarget ==
    ASSUME NEW p PROVE HardResetState(p) \in Plain /\ HardResetState(p) \in Later
BY Targets DEF HardResetState

-----------------------------------------------------------------------------
(* Event handlers and the button change neither supply nor attachment.     *)

Handled(p, q) ==
    q \in Port /\ Powered(q) /\ q.supply = p.supply /\ q.attached = p.attached

LEMMA SameHandled ==
    ASSUME NEW p \in Port, Powered(p), NEW q \in Port, SamePower(p, q)
    PROVE  Handled(p, q)
BY SamePowerKeeps DEF Handled, SamePower

LEMMA NowHandled ==
    ASSUME NEW p \in Port, NEW q \in Port, SamePower(p, q),
           NEW s \in Plain \cup Accessory
    PROVE  Handled(p, SetNow(q, s))
<1>1. s \in States
  BY DEF Plain, Accessory, States
<1> QED
  BY <1>1, SetNowType, SetNowPower, PlainPowered DEF Handled, SamePower, SameSupply

LEMMA SelfSame == ASSUME NEW p PROVE SamePower(p, p)
BY DEF SamePower

LEMMA HardResetEventHandled ==
    ASSUME NEW p \in Port, Powered(p) PROVE Handled(p, HardResetEvent(p))
BY Targets, SelfSame, SameHandled, NowHandled DEF HardResetEvent

LEMMA VbusEventHandled ==
    ASSUME NEW p \in Port, Powered(p), NEW on \in BOOLEAN, on => p.supply # 0
    PROVE  Handled(p, VbusEvent(p, on))
<1> DEFINE q == [p EXCEPT !.vbus_present = on]
<1>1. q \in Port
  BY DEF Port
<1>2. SamePower(p, q)
  BY DEF SamePower, Port
<1> HIDE DEF q
<1>3. Handled(p, q)
  BY <1>1, <1>2, SameHandled
<1>4. Handled(p, SetNow(q, "SRC_UNATTACHED"))
  BY <1>1, <1>2, Targets, NowHandled
<1>5. "SRC_STARTUP" \in States
  BY DEF States
<1>6. on => Handled(p, SetNow(q, "SRC_STARTUP"))
  <2> SUFFICES ASSUME on PROVE Handled(p, SetNow(q, "SRC_STARTUP"))
    OBVIOUS
  <2> DEFINE t == SetNow(q, "SRC_STARTUP")
  <2>1. /\ t \in Port /\ SameSupply(q, t) /\ t.state = "SRC_STARTUP"
        /\ t.delayed_state = "INVALID_STATE"
    BY <1>1, <1>5, SetNowType, SetNowPower
  <2> HIDE DEF t
  <2>2. t.supply = p.supply /\ t.attached = p.attached /\ t.supply # 0
    BY <1>2, <2>1 DEF SamePower, SameSupply
  <2>3. Powered(t)
    BY <2>1, <2>2 DEF Powered, Off
  <2> QED
    BY <2>1, <2>2, <2>3 DEF Handled, t
<1>7. on /\ p.state = "SRC_HARD_RESET_VBUS_ON" => Handled(p, SetAfter(q, "SRC_STARTUP"))
  <2> SUFFICES ASSUME on, p.state = "SRC_HARD_RESET_VBUS_ON"
               PROVE  Handled(p, SetAfter(q, "SRC_STARTUP"))
    OBVIOUS
  <2> DEFINE t == SetAfter(q, "SRC_STARTUP")
  <2>1. /\ t \in Port /\ SameSupply(q, t) /\ t.state = "SRC_HARD_RESET_VBUS_ON"
        /\ t.delayed_state = "SRC_STARTUP"
    BY <1>1, <1>2, <1>5, SetAfterType, SetAfterPower DEF SamePower
  <2> HIDE DEF t
  <2>2. t.supply = p.supply /\ t.attached = p.attached /\ t.supply # 0
    BY <1>2, <2>1 DEF SamePower, SameSupply
  <2>3. Powered(t)
    BY <2>1, <2>2 DEF Powered, Off, Fed
  <2> QED
    BY <2>1, <2>2, <2>3 DEF Handled, t
<1> QED
  BY <1>3, <1>4, <1>6, <1>7 DEF VbusEvent, q

LEMMA CcChangeHandled ==
    ASSUME NEW p \in Port, Powered(p), NEW cc \in CcPairs
    PROVE  Handled(p, CcChange(p, cc))
<1> DEFINE q == [p EXCEPT !.cc = cc]
           targets == {"SRC_ATTACH_WAIT", "SRC_UNATTACHED", "AUDIO_ACC_DEBOUNCE",
                       "AUDIO_ACC_ATTACHED", "ACC_UNATTACHED"}
<1>1. q \in Port
  BY DEF Port
<1>2. SamePower(p, q)
  BY DEF SamePower, Port
<1>3. targets \subseteq Plain \cup Accessory
  BY Targets DEF Accessory
<1>4. CcChange(p, cc) = q \/ \E s \in targets : CcChange(p, cc) = SetNow(q, s)
  BY DEF CcChange
<1> HIDE DEF q, targets
<1> QED
  BY <1>1, <1>2, <1>3, <1>4, SameHandled, NowHandled

LEMMA CtrlRequestHandled ==
    ASSUME NEW p \in Port, Powered(p), NEW kind
    PROVE  Handled(p, CtrlRequest(p, kind))
<1> DEFINE n == IF p.pd_capable THEN NCaps - 1 ELSE p.caps_count
           q == [p EXCEPT !.caps_count = n]
           o == QueueMessage(p)
<1>1. n \in 0..(NCaps + 1)
  BY CountsAssumption DEF Port
<1> HIDE DEF n
<1>2. q \in Port
  BY <1>1 DEF Port
<1>3. SamePower(p, q)
  BY DEF SamePower, Port
<1>4. o \in Port
  BY DEF QueueMessage, Port
<1>5. SamePower(p, o)
  BY DEF SamePower, QueueMessage, Port
<1> HIDE DEF q, o
<1>6. Handled(p, SetNow(q, "SRC_SEND_CAPABILITIES")) /\ Handled(p, o) /\ Handled(p, p)
  BY <1>2, <1>3, <1>4, <1>5, Targets, SelfSame, NowHandled, SameHandled
<1>7. \A s \in Plain : Handled(p, SetNow(p, s))
  BY SelfSame, NowHandled
<1> QED
  BY <1>6, <1>7, Targets DEF CtrlRequest, q, n, o

LEMMA DataRequestHandled ==
    ASSUME NEW p \in Port, Powered(p), p.supply # 0, NEW m,
           m.rdo \in Requests \cup {NoRequest}
    PROVE  Handled(p, DataRequest(p, m))
<1> DEFINE q == [p EXCEPT !.sink_request = m.rdo]
           b == (m.kind = "BIST_CARRIER2")
           r == [p EXCEPT !.bist_carrier2 = b]
           t == SetNow(q, "SRC_NEGOTIATE_CAPABILITIES")
<1>1. q \in Port
  BY DEF Port
<1>2. SamePower(p, q)
  BY DEF SamePower, Port
<1>3. b \in BOOLEAN
  OBVIOUS
<1> HIDE DEF b
<1>4. r \in Port
  BY <1>3 DEF Port
<1>5. SamePower(p, r)
  BY DEF SamePower, Port
<1> HIDE DEF q, r
<1>6. "SRC_NEGOTIATE_CAPABILITIES" \in States
  BY DEF States
<1>7. /\ t \in Port /\ SameSupply(q, t) /\ t.state = "SRC_NEGOTIATE_CAPABILITIES"
      /\ t.delayed_state = "INVALID_STATE"
  BY <1>1, <1>6, SetNowType, SetNowPower
<1> HIDE DEF t
<1>8. t.supply = p.supply /\ t.attached = p.attached
  BY <1>2, <1>7 DEF SamePower, SameSupply
<1>9. Powered(t)
  BY <1>7, <1>8 DEF Powered, Off, Fed
<1>10. Handled(p, t)
  BY <1>7, <1>8, <1>9 DEF Handled
<1>11. /\ Handled(p, SetNow(r, "BIST_RX")) /\ Handled(p, p)
       /\ Handled(p, SetNowCond(p, "HARD_RESET_SEND"))
  BY <1>4, <1>5, Targets, SelfSame, NowHandled, SameHandled DEF SetNowCond
<1> QED
  BY <1>10, <1>11 DEF DataRequest, t, q, r, b

LEMMA RxHandlerHandled ==
    ASSUME NEW p \in Port, Powered(p), p.attached => p.supply # 0, NEW m,
           m.rdo \in Requests \cup {NoRequest}
    PROVE  Handled(p, RxHandler(p, m))
<1>1. \A s \in Plain : Handled(p, SetNow(p, s))
  BY SelfSame, NowHandled
<1>2. Handled(p, ExtRequest(p, m.kind))
  BY <1>1, Targets DEF ExtRequest
<1>3. Handled(p, SetNow(p, "ERROR_RECOVERY"))
  BY <1>1, Targets
<1>4. Handled(p, p)
  BY SelfSame, SameHandled
<1> QED
  BY <1>2, <1>3, <1>4, DataRequestHandled, CtrlRequestHandled DEF RxHandler

LEMMA PdDisableHandled ==
    ASSUME NEW p \in Port, Powered(p) PROVE Handled(p, PdDisable(p))
<1> DEFINE q == [p EXCEPT !.force_disable_flag = TRUE]
<1>1. q \in Port
  BY DEF Port
<1>2. SamePower(p, q)
  BY DEF SamePower, Port
<1> HIDE DEF q
<1> QED
  BY <1>1, <1>2, Targets, NowHandled, SameHandled DEF PdDisable, SetNowCond, q

-----------------------------------------------------------------------------
(* One iteration of the state machine.                                     *)

\* The iteration for p.state may turn p into q: an accessory is entered by an
\* event or a timer only, and what is attached stays fed, except in Off.
Stepped(p, q) ==
    /\ q \in Port /\ Powered(q)
    /\ q.state = p.state \/ q.state \notin Off \cup Accessory
    /\ \/ q.supply # 0 \/ ~q.attached \/ p.state \in Off
       \/ q.supply = p.supply /\ (q.attached = p.attached \/ p.state \in Accessory)
    /\ p.supply = 0 => q.supply \in {0, VSafe5V}

LEMMA SteppedSame ==
    ASSUME NEW p, NEW q, NEW r \in Port, Stepped(p, q), SamePower(q, r)
    PROVE  Stepped(p, r)
BY SamePowerKeeps DEF Stepped, SamePower

LEMMA SteppedNow ==
    ASSUME NEW p, NEW q, NEW s \in Plain, Stepped(p, q)
    PROVE  Stepped(p, SetNow(q, s))
<1> DEFINE r == SetNow(q, s)
<1>1. q \in Port /\ s \in States /\ s \notin Off \cup Accessory
  BY Targets DEF Stepped, Plain
<1>2. r \in Port /\ Powered(r)
  BY <1>1, SetNowType, PlainPowered
<1>3. SameSupply(q, r) /\ r.state = s
  BY <1>1, SetNowPower
<1> HIDE DEF r
<1>4. Stepped(p, r)
  BY <1>1, <1>2, <1>3 DEF Stepped, SameSupply
<1> QED
  BY <1>4 DEF r

LEMMA SteppedAfter ==
    ASSUME NEW p, NEW q, NEW s \in Later, Stepped(p, q)
    PROVE  Stepped(p, SetAfter(q, s))
<1> DEFINE r == SetAfter(q, s)
<1>1. q \in Port /\ s \in States
  BY Targets DEF Stepped
<1>2. r \in Port /\ Powered(r)
  BY <1>1, SetAfterType, LaterPowered DEF Stepped
<1>3. SameSupply(q, r) /\ r.state = q.state
  BY <1>1, SetAfterPower
<1> HIDE DEF r
<1>4. Stepped(p, r)
  BY <1>1, <1>2, <1>3 DEF Stepped, SameSupply
<1> QED
  BY <1>4 DEF r

LEMMA SteppedCond ==
    ASSUME NEW p, NEW q, NEW s \in Plain \cap Later, Stepped(p, q)
    PROVE  Stepped(p, SetNowCond(q, s)) /\ Stepped(p, SetAfterCond(q, s))
BY SteppedNow, SteppedAfter DEF SetNowCond, SetAfterCond

LEMMA SteppedTransmit ==
    ASSUME NEW p, NEW q, NEW r, Stepped(p, q)
    PROVE  LET t == Transmit(q, r) IN
           /\ Stepped(p, t)
           /\ SameSupply(q, t)
           /\ t.state \in {q.state, "SOFT_RESET_SEND"}
<1> DEFINE n == SetNow(q, "SOFT_RESET_SEND")
<1>1. q \in Port
  BY DEF Stepped
<1>2. Stepped(p, n) /\ SameSupply(q, n) /\ n.state = "SOFT_RESET_SEND"
  BY <1>1, Targets, SteppedNow, SetNowPower
<1>3. SameSupply(q, q)
  BY DEF SameSupply
<1> HIDE DEF n
<1>4. Transmit(q, r) = q \/ Transmit(q, r) = n
  BY DEF Transmit, SetNowCond, n
<1> QED
  BY <1>2, <1>3, <1>4

LEMMA SteppedRegister ==
    ASSUME NEW p, NEW q, Stepped(p, q), NEW b \in BOOLEAN,
           NEW rp \in {"OPEN", "RP_1_5", "RP_3_0"}
    PROVE  Stepped(p, SetCc(q, rp)) /\ Stepped(p, SetVconn(q, b))
<1>1. q \in Port
  BY DEF Stepped
<1> QED
  BY <1>1, RegisterType, RegisterPower, SteppedSame

\* Switching VBUS on feeds every state.
LEMMA SteppedVbusOn ==
    ASSUME NEW p, NEW q, Stepped(p, q) PROVE Stepped(p, SetVbus(q, TRUE))
<1> DEFINE r == SetVbus(q, TRUE)
<1>1. q \in Port
  BY DEF Stepped
<1>2. r \in Port
  BY <1>1, SetVbusType
<1>3. /\ r.state = q.state /\ r.delayed_state = q.delayed_state
      /\ r.attached = q.attached /\ r.pd_rx = q.pd_rx
      /\ r.supply = VSafe5V /\ r.supply_voltage = q.supply_voltage
  BY <1>1 DEF SetVbus, Port
<1> HIDE DEF r
<1>4. VSafe5V # 0
  BY DEF VSafe5V
<1>5. Stepped(p, r)
  BY <1>2, <1>3, <1>4 DEF Stepped, Powered
<1> QED
  BY <1>5 DEF r

\* Switching VBUS off is safe in a state of a hard reset.
LEMMA SteppedVbusOff ==
    ASSUME NEW p, NEW q, Stepped(p, q), p.state \in Off, q.state = p.state
    PROVE  Stepped(p, SetVbus(q, FALSE))
<1> DEFINE r == SetVbus(q, FALSE)
<1>1. q \in Port
  BY DEF Stepped
<1>2. r \in Port
  BY <1>1, SetVbusType
<1>3. /\ r.state = q.state /\ r.delayed_state = q.delayed_state
      /\ r.attached = q.attached /\ r.pd_rx = q.pd_rx
      /\ r.supply = 0 /\ r.supply_voltage = q.supply_voltage
  BY <1>1 DEF SetVbus, Port
<1> HIDE DEF r
<1>4. Stepped(p, r)
  BY <1>2, <1>3 DEF Stepped, Powered, Off, Fed
<1> QED
  BY <1>4 DEF r

\* tcpm_reset_port also detaches.
LEMMA ResetPortPower ==
    ASSUME NEW p \in Port
    PROVE  LET q == ResetPort(p) IN
           /\ q.state = p.state /\ q.delayed_state = p.delayed_state
           /\ q.pd_rx = p.pd_rx /\ q.supply = 0 /\ ~q.attached
<1> DEFINE v == SetVconn(p, FALSE)
           w == SetVbus(v, FALSE)
           q == [w EXCEPT !.attached = FALSE, !.pd_capable = FALSE, !.supply_voltage = 0]
<1>1. v \in Port
  BY RegisterType
<1>2. SamePower(p, v)
  BY RegisterPower
<1> HIDE DEF v
<1>3. w \in Port
  BY <1>1, SetVbusType
<1>4. /\ w.state = v.state /\ w.delayed_state = v.delayed_state
      /\ w.pd_rx = v.pd_rx /\ w.supply = 0
  BY <1>1 DEF SetVbus, Port
<1> HIDE DEF w
<1>5. /\ q.state = w.state /\ q.delayed_state = w.delayed_state
      /\ q.pd_rx = w.pd_rx /\ q.supply = w.supply /\ q.attached = FALSE
  BY <1>3 DEF Port
<1> QED
  BY <1>2, <1>4, <1>5 DEF SamePower, ResetPort, w, v

LEMMA SteppedReset ==
    ASSUME NEW p, NEW q, Stepped(p, q),
           q.state \in {"SRC_UNATTACHED", "ACC_UNATTACHED", "PORT_RESET"}
    PROVE  Stepped(p, ResetPort(q))
<1> DEFINE r == ResetPort(q)
<1>1. q \in Port
  BY DEF Stepped
<1>2. r \in Port
  BY <1>1, ResetPortType
<1>3. /\ r.state = q.state /\ r.delayed_state = q.delayed_state
      /\ r.pd_rx = q.pd_rx /\ r.supply = 0 /\ ~r.attached
  BY <1>1, ResetPortPower
<1> HIDE DEF r
<1>4. Stepped(p, r)
  BY <1>2, <1>3 DEF Stepped, Powered, Fed
<1> QED
  BY <1>4 DEF r

LEMMA SteppedDetach ==
    ASSUME NEW p, NEW q, Stepped(p, q),
           q.state \in {"SRC_UNATTACHED", "ACC_UNATTACHED"}
    PROVE  Stepped(p, Detach(q))
<1> DEFINE n == IF IsDisconnected(q) THEN 0 ELSE q.hard_reset_count
           r == [q EXCEPT !.hard_reset_count = n]
<1>1. q \in Port
  BY DEF Stepped
<1>2. n \in 0..NHard
  BY <1>1, CountsAssumption DEF Port
<1> HIDE DEF n
<1>3. r \in Port
  BY <1>1, <1>2 DEF Port
<1>4. SamePower(q, r)
  BY <1>1 DEF SamePower, Port
<1> HIDE DEF r
<1>5. Stepped(p, ResetPort(r))
  BY <1>3, <1>4, SteppedSame, SteppedReset DEF SamePower
<1> QED
  BY <1>5 DEF Detach, r, n

LEMMA SteppedSrcAttach ==
    ASSUME NEW p, NEW q, Stepped(p, q), q.state = "SRC_ATTACHED"
    PROVE  Stepped(p, SrcAttach(q))
<1> DEFINE polarity == IF q.cc[2] = "RD" THEN "CC2" ELSE "CC1"
           o == [q EXCEPT !.polarity = polarity]
           x == SetPdRx(o, TRUE)
           v == IF HasPoweredCable(q, polarity) THEN SetVconn(x, TRUE) ELSE x
           w == SetVbus(v, TRUE)
           r == [w EXCEPT !.pd_capable = FALSE, !.attached = TRUE]
<1>1. q \in Port
  BY DEF Stepped
<1>2. polarity \in {"CC1", "CC2", "NONE"}
  OBVIOUS
<1> HIDE DEF polarity
<1>3. o \in Port
  BY <1>1, <1>2 DEF Port
<1>4. SamePower(q, o)
  BY <1>1 DEF SamePower, Port
<1> HIDE DEF o
<1>5. Stepped(p, o)
  BY <1>3, <1>4, SteppedSame
<1>6. x \in Port
  BY <1>3, RegisterType
<1>7. /\ x.state = o.state /\ x.delayed_state = o.delayed_state
      /\ x.attached = o.attached /\ x.supply = o.supply
      /\ x.supply_voltage = o.supply_voltage
  BY <1>3 DEF SetPdRx, Port
<1> HIDE DEF x
<1>8. Stepped(p, x)
  BY <1>4, <1>5, <1>6, <1>7 DEF Stepped, Powered, SamePower, Off
<1>9. Stepped(p, v)
  BY <1>8, SteppedRegister
<1> HIDE DEF v
<1>10. Stepped(p, w) /\ w \in Port
  BY <1>9, SteppedVbusOn DEF Stepped
<1>11. w.supply = VSafe5V
  BY <1>9 DEF Stepped, SetVbus, Port
<1> HIDE DEF w
<1>12. r \in Port
  BY <1>10 DEF Port
<1>13. /\ r.state = w.state /\ r.delayed_state = w.delayed_state
       /\ r.pd_rx = w.pd_rx /\ r.supply = w.supply
       /\ r.supply_voltage = w.supply_voltage
  BY <1>10 DEF Port
<1> HIDE DEF r
<1>14. VSafe5V # 0
  BY DEF VSafe5V
<1>15. Stepped(p, r)
  BY <1>10, <1>11, <1>12, <1>13, <1>14 DEF Stepped, Powered
<1> QED
  BY <1>15 DEF SrcAttach, r, w, v, x, o, polarity

\* SRC_STARTUP attaches, and finds VBUS sourced.
LEMMA SteppedStartup ==
    ASSUME NEW p, NEW q, Stepped(p, q), q.state = "SRC_STARTUP"
    PROVE  Stepped(p, [q EXCEPT !.attached = TRUE, !.disc_cable_count = 0,
                                !.caps_count = 0, !.explicit_contract = FALSE,
                                !.last_pdo_index = 0])
<1> DEFINE r == [q EXCEPT !.attached = TRUE, !.disc_cable_count = 0, !.caps_count = 0,
                          !.explicit_contract = FALSE, !.last_pdo_index = 0]
<1>1. q \in Port
  BY DEF Stepped
<1>2. 0 \in 0..3 /\ 0 \in 0..(NCaps + 1) /\ 0 \in Nat
  BY CountsAssumption
<1>3. r \in Port
  BY <1>1, <1>2 DEF Port
<1>4. /\ r.state = q.state /\ r.delayed_state = q.delayed_state
      /\ r.pd_rx = q.pd_rx /\ r.supply = q.supply
      /\ r.supply_voltage = q.supply_voltage
  BY <1>1 DEF Port
<1> HIDE DEF r
<1>5. Stepped(p, r)
  BY <1>3, <1>4 DEF Stepped, Powered, Fed
<1> QED
  BY <1>5 DEF r

LEMMA SteppedAccAttach ==
    ASSUME NEW p, NEW q, Stepped(p, q), SamePower(p, q), p.state \in Accessory
    PROVE  Stepped(p, AccAttach(q))
<1> DEFINE r == AccAttach(q)
<1>1. q \in Port
  BY DEF Stepped
<1>2. r \in Port
  BY <1>1, AccAttachType
<1>3. /\ r.state = q.state /\ r.delayed_state = q.delayed_state
      /\ r.pd_rx = q.pd_rx /\ r.supply = q.supply
      /\ r.supply_voltage = q.supply_voltage
  BY <1>1 DEF AccAttach, Port
<1> HIDE DEF r
<1>4. Stepped(p, r)
  BY <1>2, <1>3 DEF Stepped, Powered, SamePower
<1> QED
  BY <1>4 DEF r

\* A granted request asks for a voltage that is not 0.
LEMMA CheckRequestPower ==
    ASSUME NEW q \in Port
    PROVE  LET r == CheckRequest(q) IN
           /\ r.state = q.state /\ r.delayed_state = q.delayed_state
           /\ r.attached = q.attached /\ r.pd_rx = q.pd_rx /\ r.supply = q.supply
           /\ IF RequestOk(q.sink_request) THEN r.supply_voltage # 0
              ELSE r.supply_voltage = q.supply_voltage
<1> DEFINE m == q.sink_request
           o == [q EXCEPT !.pdo_index = m.index]
           mv == IF PdoType(m.index) = "APDO" THEN m.mv ELSE FixedMv(m.index)
           t == PdoType(m.index)
           r == [o EXCEPT !.pdo_type = t, !.supply_voltage = mv]
<1>1. RequestOk(m) => mv # 0
  <2>1. FixedMv(m.index) # 0
    BY DEF FixedMv
  <2>2. 0 \notin ApdoRange
    BY DEF ApdoRange
  <2> QED
    BY <2>1, <2>2 DEF RequestOk
<1>2. m.index \in Nat
  BY RequestsAssumption DEF Port, NoRequest
<1> HIDE DEF mv, t
<1>3. o \in Port
  BY <1>2 DEF Port
<1>4. SamePower(q, o)
  BY DEF SamePower, Port
<1> HIDE DEF o
<1>5. /\ r.state = o.state /\ r.delayed_state = o.delayed_state
      /\ r.attached = o.attached /\ r.pd_rx = o.pd_rx /\ r.supply = o.supply
      /\ r.supply_voltage = mv
  BY <1>3 DEF Port
<1> HIDE DEF r
<1>6. CheckRequest(q) = IF ~RequestOk(m) THEN o ELSE r
  BY DEF CheckRequest, o, r, t, mv
<1> QED
  BY <1>1, <1>4, <1>5, <1>6 DEF SamePower

LEMMA SteppedCheckRequest ==
    ASSUME NEW p, NEW q, Stepped(p, q), q.state = "SRC_NEGOTIATE_CAPABILITIES"
    PROVE  Stepped(p, CheckRequest(q))
<1> DEFINE r == CheckRequest(q)
<1>1. q \in Port
  BY DEF Stepped
<1>2. r \in Port
  BY <1>1, CheckRequestType
<1>3. /\ r.state = q.state /\ r.delayed_state = q.delayed_state
      /\ r.attached = q.attached /\ r.pd_rx = q.pd_rx /\ r.supply = q.supply
      /\ r.supply_voltage # 0 \/ r.supply_voltage = q.supply_voltage
  BY <1>1, CheckRequestPower
<1> HIDE DEF r
<1>4. Stepped(p, r)
  BY <1>2, <1>3 DEF Stepped, Powered
<1> QED
  BY <1>4 DEF r

\* The accepted request leads to SRC_TRANSITION_SUPPLY with VBUS sourced.
LEMMA SteppedAccept ==
    ASSUME NEW p, NEW q, NEW r, Stepped(p, q), q.supply_voltage # 0,
           q.state = "SRC_NEGOTIATE_CAPABILITIES"
    PROVE  Stepped(p, Accept(q, r))
<1> DEFINE x == Transmit(q, r)
           a == SetNow(x, "SRC_TRANSITION_SUPPLY")
           b == SetAfter(x, "SRC_TRANSITION_SUPPLY")
           t == IF q.pdo_type = "APDO" /\ q.pdo_index = q.last_pdo_index THEN a ELSE b
           n == q.pdo_index
           z == [t EXCEPT !.last_pdo_index = n]
<1>1. /\ Stepped(p, x) /\ SameSupply(q, x)
      /\ x.state \in {"SRC_NEGOTIATE_CAPABILITIES", "SOFT_RESET_SEND"}
  BY SteppedTransmit
<1>2. q \in Port /\ x \in Port /\ "SRC_TRANSITION_SUPPLY" \in States
  BY <1>1 DEF Stepped, States
<1>3. q.supply # 0
  BY DEF Stepped, Powered, Fed
<1> HIDE DEF x
<1>4. x.supply # 0 /\ x.supply_voltage # 0
  BY <1>1, <1>3 DEF SameSupply
<1>5. /\ a \in Port /\ SameSupply(x, a) /\ a.state = "SRC_TRANSITION_SUPPLY"
      /\ a.delayed_state = "INVALID_STATE"
  BY <1>2, SetNowType, SetNowPower
<1>6. /\ b \in Port /\ SameSupply(x, b) /\ b.state = x.state
      /\ b.delayed_state = "SRC_TRANSITION_SUPPLY"
  BY <1>2, SetAfterType, SetAfterPower
<1> HIDE DEF a, b
<1>7. Stepped(p, a)
  <2>1. Powered(a)
    BY <1>4, <1>5 DEF Powered, SameSupply, Off
  <2> QED
    BY <1>1, <1>4, <1>5, <2>1 DEF Stepped, SameSupply, Off, Accessory
<1>8. Stepped(p, b)
  <2>1. Powered(b)
    BY <1>1, <1>4, <1>6 DEF Powered, SameSupply, Off
  <2> QED
    BY <1>1, <1>4, <1>6, <2>1 DEF Stepped, SameSupply
<1>9. Stepped(p, t) /\ t \in Port
  BY <1>7, <1>8 DEF Stepped
<1>10. Accept(q, r) = z
  BY DEF Accept, z, t, a, b, x
<1> HIDE DEF t
<1>11. n \in Nat
  BY <1>2 DEF Port
<1> HIDE DEF n
<1>12. z \in Port
  BY <1>9, <1>11 DEF Port
<1>13. SamePower(t, z)
  BY <1>9 DEF SamePower, Port
<1> HIDE DEF z
<1> QED
  BY <1>9, <1>10, <1>12, <1>13, SteppedSame

\* The supply moves from on to on.
LEMMA SteppedVbusHv ==
    ASSUME NEW p, NEW q, Stepped(p, q), SamePower(p, q),
           q.state = "SRC_TRANSITION_SUPPLY"
    PROVE  Stepped(p, SetVbusHv(q))
<1> DEFINE r == SetVbusHv(q)
<1>1. q \in Port
  BY DEF Stepped
<1>2. r \in Port
  BY <1>1, SetVbusHvType
<1>3. /\ r.state = q.state /\ r.delayed_state = q.delayed_state
      /\ r.attached = q.attached /\ r.pd_rx = q.pd_rx
      /\ r.supply = q.supply_voltage /\ r.supply_voltage = q.supply_voltage
  BY <1>1 DEF SetVbusHv, Port
<1> HIDE DEF r
<1>4. q.supply # 0 /\ q.supply_voltage # 0 /\ p.supply = q.supply
  BY DEF Stepped, Powered, Fed, SamePower
<1>5. Stepped(p, r)
  BY <1>2, <1>3, <1>4 DEF Stepped, Powered
<1> QED
  BY <1>5 DEF r

\* Reception off is safe everywhere, reception on in the state that ends a
\* hard reset.
LEMMA SteppedPdRx ==
    ASSUME NEW p, NEW q, Stepped(p, q), NEW on \in BOOLEAN,
           on => q.state = "SRC_HARD_RESET_VBUS_ON"
    PROVE  /\ Stepped(p, SetPdRx(q, on))
           /\ SetPdRx(q, on).state = q.state
           /\ SetPdRx(q, on).pd_rx = on
<1> DEFINE r == SetPdRx(q, on)
<1>1. q \in Port
  BY DEF Stepped
<1>2. r \in Port
  BY <1>1, RegisterType
<1>3. /\ r.state = q.state /\ r.delayed_state = q.delayed_state
      /\ r.attached = q.attached /\ r.pd_rx = on /\ r.supply = q.supply
      /\ r.supply_voltage = q.supply_voltage
  BY <1>1 DEF SetPdRx, Port
<1> HIDE DEF r
<1>4. Stepped(p, r)
  BY <1>2, <1>3 DEF Stepped, Powered, Off
<1> QED
  BY <1>3, <1>4 DEF r

\* A hard reset arms a state of Off with reception off.
LEMMA SteppedOff ==
    ASSUME NEW p, NEW q, Stepped(p, q), ~q.pd_rx, NEW s \in Off,
           q.state \in {"HARD_RESET_START", "SRC_HARD_RESET_DISABLE_RP"}
    PROVE  Stepped(p, SetAfter(q, s))
<1> DEFINE r == SetAfter(q, s)
<1>1. q \in Port /\ s \in States
  BY DEF Stepped, Off, States
<1>2. /\ r \in Port /\ SameSupply(q, r) /\ r.state = q.state
      /\ r.delayed_state = s
  BY <1>1, SetAfterType, SetAfterPower
<1> HIDE DEF r
<1>3. s \notin Fed
  BY DEF Off, Fed
<1>4. Powered(r)
  BY <1>2, <1>3 DEF Stepped, Powered, SameSupply, Fed
<1>5. Stepped(p, r)
  BY <1>2, <1>4 DEF Stepped, SameSupply
<1> QED
  BY <1>5 DEF r

-----------------------------------------------------------------------------
(* The end of an iteration.                                                *)

\* What register writes do to VBUS and to the pending events.
LEMMA AlertedPower ==
    ASSUME ~SlowDischarge, NEW p, NEW s, Alerted(p, s)
    PROVE  /\ vbus' => p.supply # 0
           /\ "RX" \in events' => "RX" \in s
BY DEF Alerted, Discharged

LEMMA RanPower ==
    ASSUME ~SlowDischarge, PowerInv, pc = "sm", NEW p, Stepped(port, p), Ran(p)
    PROVE  PowerInv' /\ (port.supply = 0 => port'.supply \in {0, VSafe5V})
<1> DEFINE q == [p EXCEPT !.running = FALSE, !.run = FALSE]
<1>1. p \in Port
  BY DEF Stepped
<1>2. q \in Port
  BY <1>1 DEF Port
<1>3. SamePower(p, q)
  BY <1>1 DEF SamePower, Port
<1>4. /\ todo' = todo /\ pc' \in {"sm", "tail"}
      /\ pc' = "sm" => p.state # port.state
      /\ Becomes(p) \/ Becomes(q)
  BY DEF Ran
<1> HIDE DEF q
<1>5. PICK r : Stepped(port, r) /\ SamePower(p, r) /\ Becomes(r)
  BY <1>2, <1>3, <1>4, SteppedSame, SelfSame
<1>6. /\ port' = r
      /\ vbus' => r.supply # 0
      /\ "RX" \in events' => "RX" \in events
  BY <1>5, AlertedPower DEF Becomes
<1>7. todo' = {}
  BY <1>4 DEF PowerInv
<1>8. "RX" \in events' /\ r.attached => r.supply # 0
  BY <1>5, <1>6 DEF PowerInv, Stepped
<1>9. pc' = "sm" => r.state \notin Off \cup Accessory
  BY <1>4, <1>5 DEF Stepped, SamePower
<1>10. PowerInv'
  BY <1>4, <1>5, <1>6, <1>7, <1>8, <1>9 DEF PowerInv, Stepped, Powered
<1>11. port.supply = 0 => port'.supply \in {0, VSafe5V}
  BY <1>5, <1>6 DEF Stepped
<1> QED
  BY <1>10, <1>11

\* Every state of run_state_machine keeps PowerInv.
LEMMA RunStateMachinePower ==
    ASSUME TypeOK, PowerInv, ~SlowDischarge, RunStateMachine
    PROVE  PowerInv' /\ (port.supply = 0 => port'.supply \in {0, VSafe5V})
<1> DEFINE e == Entered
           Done == PowerInv' /\ (port.supply = 0 => port'.supply \in {0, VSafe5V})
<1> SUFFICES Done
  OBVIOUS
<1>pc. pc = "sm"
  BY DEF RunStateMachine, SrcUnattached, SrcAttachWait, SrcAttached, SrcStartup,
     SrcDiscCable, SrcWaitCable, SrcSendCapabilities, SrcNegotiateCapabilities,
     SrcTransitionSupply, SrcReady, AccUnattached, AccAttached, AudioAccDebounce,
     HardResetSend, HardResetStart, SrcHardResetVbusOff, SrcHardResetVbusOn, SoftReset,
     SoftResetSend, VconnSwapAccept, VconnSwapStart, VconnSwapWaitForVconn,
     VconnSwapTurnOnVconn, VconnSwapTurnOffVconn, BistRx, IdleState, PortReset,
     PortResetWaitOff, SrcHardResetDisableRp, SrcHardResetVbusOffDisable, In
<1>0. e \in Port /\ SamePower(port, e) /\ Stepped(port, e) /\ e.state = port.state
  <2>1. port \in Port /\ Powered(port)
    BY DEF TypeOK, PowerInv
  <2>2. SamePower(port, e)
    BY <2>1 DEF Entered, SamePower, Port
  <2>3. e \in Port
    BY EnteredType
  <2> HIDE DEF e
  <2>4. Powered(e)
    BY <2>1, <2>2, SamePowerKeeps
  <2> QED
    BY <2>2, <2>3, <2>4 DEF Stepped, SamePower
<1>q. ASSUME NEW p, Stepped(port, p), Ran(p) PROVE Done
  BY <1>pc, <1>q, RanPower
<1>t. ASSUME NEW p, Stepped(port, p), NEW r, NEW s \in Plain
      PROVE  Stepped(port, SetNow(Transmit(p, r), s))
  BY <1>t, SteppedTransmit, SteppedNow
<1>l. {"SRC_UNATTACHED", "SRC_SEND_CAPABILITIES", "ACC_UNATTACHED"} \subseteq Later
  BY Targets
<1> HIDE DEF e, Done
<1>1. CASE SrcUnattached
  <2>1. LET p == SetCc(e, "RP_3_0") IN Stepped(port, p) /\ p.state = "SRC_UNATTACHED"
    BY <1>0, <1>1, SteppedRegister, RegisterPower DEF SrcUnattached, In, SamePower
  <2>2. Stepped(port, Detach(SetCc(e, "RP_3_0")))
    BY <2>1, SteppedDetach
  <2> QED
    BY <1>1, <1>q, <2>2 DEF SrcUnattached, e
<1>2. CASE SrcAttachWait
  <2>1. /\ Stepped(port, SetAfter(e, "DEBUG_ACC_ATTACHED"))
        /\ Stepped(port, SetAfter(e, "AUDIO_ACC_ATTACHED"))
        /\ Stepped(port, SetAfter(e, "SRC_ATTACHED"))
    BY <1>0, Targets, SteppedAfter
  <2> QED
    BY <1>0, <1>2, <1>q, <2>1 DEF SrcAttachWait, e
<1>3. CASE SrcAttached
  <2>1. Stepped(port, SrcAttach(e))
    BY <1>0, <1>3, SteppedSrcAttach DEF SrcAttached, In
  <2>2. Stepped(port, SetAfter(SetCc(SrcAttach(e), "RP_3_0"), "SRC_UNATTACHED"))
    BY <2>1, Targets, SteppedRegister, SteppedAfter
  <2> QED
    BY <1>3, <1>q, <2>2 DEF SrcAttached, e
<1>4. CASE SrcStartup
  <2> DEFINE q == [e EXCEPT !.attached = TRUE, !.disc_cable_count = 0,
                            !.caps_count = 0, !.explicit_contract = FALSE,
                            !.last_pdo_index = 0]
  <2>1. Stepped(port, q)
    BY <1>0, <1>4, SteppedStartup DEF SrcStartup, In
  <2> HIDE DEF q
  <2>2. Stepped(port, SetAfter(q, "SRC_DISC_CABLE"))
    BY <2>1, Targets, SteppedAfter
  <2> QED
    BY <1>4, <1>q, <2>2 DEF SrcStartup, e, q
<1>5. CASE SrcDiscCable
  <2> DEFINE n == IF e.disc_cable_count > 2 THEN e.disc_cable_count
                  ELSE e.disc_cable_count + 1
             p == [e EXCEPT !.disc_cable_count = n]
  <2>1. n \in 0..3
    BY <1>0 DEF Port
  <2>2. Stepped(port, p)
    <3> HIDE DEF n
    <3>1. p \in Port
      BY <1>0, <2>1 DEF Port
    <3>2. SamePower(e, p)
      BY <1>0 DEF SamePower, Port
    <3> QED
      BY <1>0, <3>1, <3>2, SteppedSame
  <2>3. \/ Ran(SetAfter(e, "SRC_SEND_CAPABILITIES"))
        \/ Ran(SetNow(p, "SRC_SEND_CAPABILITIES"))
        \/ \E r \in TxOutcomes, s \in {"SRC_WAIT_CABLE", "SRC_DISC_CABLE"} :
             Ran(SetAfter(Transmit(p, r), s))
    BY <1>5 DEF SrcDiscCable, e
  <2> HIDE DEF p
  <2>4. /\ Stepped(port, SetAfter(e, "SRC_SEND_CAPABILITIES"))
        /\ Stepped(port, SetNow(p, "SRC_SEND_CAPABILITIES"))
    BY <1>0, <2>2, Targets, SteppedAfter, SteppedNow
  <2>5. ASSUME NEW r, NEW s \in {"SRC_WAIT_CABLE", "SRC_DISC_CABLE"}
        PROVE  Stepped(port, SetAfter(Transmit(p, r), s))
    BY <2>2, Targets, SteppedTransmit, SteppedAfter
  <2> QED
    BY <1>q, <2>3, <2>4, <2>5
<1>6. CASE SrcWaitCable
  BY <1>0, <1>6, <1>q, Targets, SteppedNow DEF SrcWaitCable, e
<1>7. CASE SrcSendCapabilities
  <2> DEFINE n == IF e.caps_count > NCaps THEN e.caps_count ELSE e.caps_count + 1
             p == [e EXCEPT !.caps_count = n]
             q == [p EXCEPT !.hard_reset_count = 0, !.caps_count = 0,
                            !.pd_capable = TRUE]
  <2>1. n \in 0..(NCaps + 1)
    BY <1>0, CountsAssumption DEF Port
  <2>2. p \in Port /\ Stepped(port, p)
    <3> HIDE DEF n
    <3>1. p \in Port
      BY <1>0, <2>1 DEF Port
    <3>2. SamePower(e, p)
      BY <1>0 DEF SamePower, Port
    <3> QED
      BY <1>0, <3>1, <3>2, SteppedSame
  <2>4. \/ Ran(SetNow(p, "SRC_READY"))
        \/ Ran(SetAfterCond(q, HardResetState(q)))
        \/ Ran(SetAfter(p, "SRC_SEND_CAPABILITIES"))
        \/ \E r \in TxOutcomes : Ran(Transmit(p, r))
    BY <1>7 DEF SrcSendCapabilities, CapsSent, e
  <2> HIDE DEF p
  <2>3. Stepped(port, q)
    <3>1. 0 \in 0..(NCaps + 1) /\ 0 \in 0..NHard
      BY CountsAssumption
    <3>2. q \in Port
      BY <2>2, <3>1 DEF Port
    <3>3. SamePower(p, q)
      BY <2>2 DEF SamePower, Port
    <3> QED
      BY <2>2, <3>2, <3>3, SteppedSame
  <2> HIDE DEF q
  <2>5. /\ Stepped(port, SetNow(p, "SRC_READY"))
        /\ Stepped(port, SetAfter(p, "SRC_SEND_CAPABILITIES"))
        /\ Stepped(port, SetAfterCond(q, HardResetState(q)))
    BY <2>2, <2>3, Targets, HardResetStateTarget, SteppedNow, SteppedAfter, SteppedCond
  <2>6. ASSUME NEW r PROVE Stepped(port, Transmit(p, r))
    BY <2>2, SteppedTransmit
  <2> QED
    BY <1>q, <2>4, <2>5, <2>6
<1>8. CASE SrcNegotiateCapabilities
  <2> DEFINE p == CheckRequest(e)
  <2>1. e.state = "SRC_NEGOTIATE_CAPABILITIES"
    BY <1>0, <1>8 DEF SrcNegotiateCapabilities, In
  <2>2. Stepped(port, p)
    BY <1>0, <2>1, SteppedCheckRequest
  <2>3. /\ p.state = "SRC_NEGOTIATE_CAPABILITIES"
        /\ RequestOk(e.sink_request) => p.supply_voltage # 0
    BY <1>0, <2>1, CheckRequestPower
  <2>4. e.sink_request = port.sink_request
    BY DEF e, Entered, TypeOK, Port
  <2>5. \E r \in TxOutcomes :
           \/ RequestOk(e.sink_request) /\ Ran(Accept(p, r))
           \/ Ran(Reject(p, r))
    BY <1>8, <2>4 DEF SrcNegotiateCapabilities, e
  <2> HIDE DEF p
  <2>6. ASSUME NEW r PROVE Stepped(port, Reject(p, r))
    BY <1>t, <2>2, Targets DEF Reject
  <2>7. ASSUME NEW r, RequestOk(e.sink_request) PROVE Stepped(port, Accept(p, r))
    BY <2>2, <2>3, <2>7, SteppedAccept
  <2> QED
    BY <1>q, <2>5, <2>6, <2>7
<1>9. CASE SrcTransitionSupply
  <2>1. Stepped(port, SetVbusHv(e))
    BY <1>0, <1>9, SteppedVbusHv DEF SrcTransitionSupply, In
  <2>2. ASSUME NEW r
        PROVE  Stepped(port, SetNowCond([Transmit(SetVbusHv(e), r)
                                 EXCEPT !.explicit_contract = TRUE], "SRC_READY"))
    <3> DEFINE t == Transmit(SetVbusHv(e), r)
               u == [t EXCEPT !.explicit_contract = TRUE]
    <3>1. Stepped(port, t) /\ t \in Port
      BY <2>1, SteppedTransmit DEF Stepped
    <3> HIDE DEF t
    <3>2. u \in Port
      BY <3>1 DEF Port
    <3>3. SamePower(t, u)
      BY <3>1 DEF SamePower, Port
    <3> HIDE DEF u
    <3>4. Stepped(port, SetNowCond(u, "SRC_READY"))
      BY <3>1, <3>2, <3>3, Targets, SteppedSame, SteppedNow DEF SetNowCond
    <3> QED
      BY <3>4 DEF u, t
  <2> QED
    BY <1>9, <1>q, <2>2 DEF SrcTransitionSupply, e
<1>10. CASE SrcReady
  <2> DEFINE p == IF port.explicit_contract /\ port.pdo_type = "APDO"
                  THEN SetAfterCond(e, HardResetState(e)) ELSE e
             q == [p EXCEPT !.hard_reset_count = 0]
  <2>1. Stepped(port, p) /\ p \in Port
    BY <1>0, HardResetStateTarget, SteppedCond DEF Stepped
  <2>2. Ran(q)
    BY <1>10 DEF SrcReady, e
  <2> HIDE DEF p
  <2>3. 0 \in 0..NHard
    BY CountsAssumption
  <2>4. q \in Port
    BY <2>1, <2>3 DEF Port
  <2>5. SamePower(p, q)
    BY <2>1 DEF SamePower, Port
  <2> HIDE DEF q
  <2> QED
    BY <1>q, <2>1, <2>2, <2>4, <2>5, SteppedSame
<1>11. CASE AccUnattached
  <2>1. Stepped(port, Detach(e))
    BY <1>0, <1>11, SteppedDetach DEF AccUnattached, In
  <2>2. Stepped(port, SetNow(Detach(e), "SRC_UNATTACHED"))
    BY <2>1, Targets, SteppedNow
  <2> QED
    BY <1>11, <1>q, <2>2 DEF AccUnattached, e
<1>12. CASE AccAttached
  <2>1. Stepped(port, AccAttach(e))
    BY <1>0, <1>12, SteppedAccAttach DEF AccAttached, In, Accessory
  <2> QED
    BY <1>12, <1>q, <2>1 DEF AccAttached, e
<1>13. CASE AudioAccDebounce
  BY <1>0, <1>13, <1>l, <1>q, SteppedAfter DEF AudioAccDebounce, e
<1>14. CASE HardResetSend \/ SoftReset \/ VconnSwapAccept
  <2>1. ASSUME NEW r
        PROVE  /\ Stepped(port, SetNow(Transmit(e, r), "HARD_RESET_START"))
               /\ Stepped(port, SetNow(Transmit(e, r), "SRC_SEND_CAPABILITIES"))
               /\ Stepped(port, SetNow(Transmit(e, r), "VCONN_SWAP_START"))
    BY <1>0, <1>t, Targets
  <2> QED
    BY <1>14, <1>q, <2>1 DEF HardResetSend, SoftReset, VconnSwapAccept, e
<1>15. CASE HardResetStart
  <2> DEFINE q == SetPdRx(e, FALSE)
             n == IF q.hard_reset_count < NHard THEN q.hard_reset_count + 1
                  ELSE q.hard_reset_count
             p == [q EXCEPT !.hard_reset_count = n]
  <2>1. Stepped(port, q) /\ q.state = "HARD_RESET_START" /\ ~q.pd_rx
    BY <1>0, <1>15, SteppedPdRx DEF HardResetStart, In
  <2>2. \E s \in Off : Ran(SetAfter(p, s))
    BY <1>15 DEF HardResetStart, e, Off
  <2> HIDE DEF q
  <2>3. q \in Port
    BY <2>1 DEF Stepped
  <2>4. n \in 0..NHard
    BY <2>3, CountsAssumption DEF Port
  <2> HIDE DEF n
  <2>5. p \in Port
    BY <2>3, <2>4 DEF Port
  <2>6. SamePower(q, p)
    BY <2>3 DEF SamePower, Port
  <2> HIDE DEF p
  <2>7. Stepped(port, p) /\ p.state = "HARD_RESET_START" /\ ~p.pd_rx
    BY <2>1, <2>5, <2>6, SteppedSame DEF SamePower
  <2> QED
    BY <1>q, <2>2, <2>7, SteppedOff
<1>16. CASE SrcHardResetVbusOff
  <2> DEFINE p == SetVconn(e, FALSE)
  <2>1. Stepped(port, p) /\ p.state = port.state /\ port.state \in Off
    BY <1>0, <1>16, SteppedRegister, RegisterPower DEF SrcHardResetVbusOff, In, SamePower, Off
  <2> HIDE DEF p
  <2>2. Stepped(port, SetAfter(SetVbus(p, FALSE), "SRC_HARD_RESET_VBUS_ON"))
    BY <2>1, Targets, SteppedVbusOff, SteppedAfter
  <2> QED
    BY <1>16, <1>q, <2>2 DEF SrcHardResetVbusOff, e, p
<1>17. CASE SrcHardResetVbusOn
  <2> DEFINE p == SetVbus(SetPdRx(e, TRUE), TRUE)
             q == IF HasPoweredCable(p, p.polarity) THEN SetVconn(p, TRUE) ELSE p
  <2>1. Stepped(port, SetPdRx(e, TRUE))
    BY <1>0, <1>17, SteppedPdRx DEF SrcHardResetVbusOn, In
  <2>2. Stepped(port, p)
    BY <2>1, SteppedVbusOn
  <2>3. Stepped(port, q)
    <3> HIDE DEF p
    <3> QED
      BY <2>2, SteppedRegister
  <2>4. Stepped(port, SetAfter(q, "SRC_UNATTACHED"))
    BY <2>3, <1>l, SteppedAfter
  <2> QED
    BY <1>17, <1>q, <2>4 DEF SrcHardResetVbusOn, e
<1>18. CASE SoftResetSend
  <2>1. ASSUME NEW r
        PROVE  LET p == Transmit(e, r) IN
               /\ Stepped(port, SetAfterCond(p, HardResetState(p)))
               /\ Stepped(port, SetNowCond(p, HardResetState(p)))
    BY <1>0, SteppedTransmit, HardResetStateTarget, SteppedCond
  <2> QED
    BY <1>18, <1>q, <2>1 DEF SoftResetSend, e
<1>19. CASE VconnSwapStart
  BY <1>0, <1>19, <1>q, Targets, SteppedNow DEF VconnSwapStart, e
<1>20. CASE VconnSwapWaitForVconn
  BY <1>0, <1>20, <1>q, HardResetStateTarget, SteppedAfter DEF VconnSwapWaitForVconn, e
<1>21. CASE VconnSwapTurnOnVconn \/ VconnSwapTurnOffVconn
  <2>1. Stepped(port, SetVconn(e, TRUE)) /\ Stepped(port, SetVconn(e, FALSE))
    BY <1>0, SteppedRegister
  <2>2. ASSUME NEW r PROVE Stepped(port, SetNow(Transmit(SetVconn(e, TRUE), r), "SRC_READY"))
    BY <1>t, <2>1, Targets
  <2>3. Stepped(port, SetNow(SetVconn(e, FALSE), "SRC_READY"))
    BY <2>1, Targets, SteppedNow
  <2> QED
    BY <1>21, <1>q, <2>2, <2>3 DEF VconnSwapTurnOnVconn, VconnSwapTurnOffVconn, e
<1>22. CASE BistRx \/ IdleState
  <2>1. ASSUME NEW r PROVE Stepped(port, SetNow(Transmit(e, r), "SRC_UNATTACHED"))
    BY <1>0, <1>t, Targets
  <2> QED
    BY <1>0, <1>22, <1>q, <2>1 DEF BistRx, IdleState, e
<1>23. CASE PortReset
  <2>1. Stepped(port, ResetPort(e))
    BY <1>0, <1>23, SteppedReset DEF PortReset, In
  <2>2. Stepped(port, SetAfter(SetCc(ResetPort(e), "OPEN"), "PORT_RESET_WAIT_OFF"))
    BY <2>1, Targets, SteppedRegister, SteppedAfter
  <2> QED
    BY <1>23, <1>q, <2>2 DEF PortReset, e
<1>24. CASE PortResetWaitOff
  <2>1. /\ Stepped(port, SetAfter(e, "SRC_UNATTACHED"))
        /\ Stepped(port, SetNow(e, "SRC_UNATTACHED"))
    BY <1>0, Targets, SteppedAfter, SteppedNow
  <2> QED
    BY <1>24, <1>q, <2>1 DEF PortResetWaitOff, e
<1>25. CASE SrcHardResetDisableRp
  <2> DEFINE p == SetCc(e, "OPEN")
  <2>1. Stepped(port, p) /\ p.state = "SRC_HARD_RESET_DISABLE_RP"
    BY <1>0, <1>25, SteppedRegister, RegisterPower
       DEF SrcHardResetDisableRp, In, SamePower
  <2> HIDE DEF p
  <2>2. ~p.pd_rx /\ "SRC_HARD_RESET_VBUS_OFF_DISABLE" \in Off
    BY <2>1 DEF Stepped, Powered, Off
  <2>3. Stepped(port, SetAfter(p, "SRC_HARD_RESET_VBUS_OFF_DISABLE"))
    BY <2>1, <2>2, SteppedOff
  <2> QED
    BY <1>25, <1>q, <2>3 DEF SrcHardResetDisableRp, e, p
<1>26. CASE SrcHardResetVbusOffDisable
  <2> DEFINE v == SetVconn(e, FALSE)
             q == SetVbus(v, FALSE)
             p == [q EXCEPT !.force_disable_flag = FALSE]
  <2>1. Stepped(port, v) /\ v.state = port.state /\ port.state \in Off
    BY <1>0, <1>26, SteppedRegister, RegisterPower
       DEF SrcHardResetVbusOffDisable, In, SamePower, Off
  <2> HIDE DEF v
  <2>2. Stepped(port, q) /\ q \in Port
    BY <2>1, SteppedVbusOff DEF Stepped
  <2> HIDE DEF q
  <2>3. p \in Port
    BY <2>2 DEF Port
  <2>4. SamePower(q, p)
    BY <2>2 DEF SamePower, Port
  <2> HIDE DEF p
  <2>5. Stepped(port, SetAfter(p, "SRC_UNATTACHED"))
    BY <1>l, <2>2, <2>3, <2>4, SteppedSame, SteppedAfter
  <2> QED
    BY <1>26, <1>q, <2>5 DEF SrcHardResetVbusOffDisable, e, v, q, p
<1> QED
  BY <1>1, <1>2, <1>3, <1>4, <1>5, <1>6, <1>7, <1>8, <1>9, <1>10, <1>11, <1>12,
     <1>13, <1>14, <1>15, <1>16, <1>17, <1>18, <1>19, <1>20, <1>21, <1>22, <1>23,
     <1>24, <1>25, <1>26 DEF RunStateMachine

-----------------------------------------------------------------------------
(* The rest of a pass.                                                     *)

\* A step that changes neither supply nor attachment.
LEMMA HandledPower ==
    ASSUME ~SlowDischarge, PowerInv, NEW q, Handled(port, q), port' = q,
           Alerted(q, events), todo' = todo,
           pc' \in {"clear", "sm", "switch", "top"},
           pc' = "clear" \/ todo = {}, pc' = "sm" => events = {}
    PROVE  PowerInv' /\ (port.supply = 0 => port'.supply \in {0, VSafe5V})
<1>1. (vbus' => q.supply # 0) /\ ("RX" \in events' => "RX" \in events)
  BY AlertedPower
<1>2. Powered(q) /\ q.supply = port.supply /\ q.attached = port.attached
  BY DEF Handled
<1>3. "RX" \in events' \cup todo' /\ q.attached => q.supply # 0
  BY <1>1, <1>2 DEF PowerInv
<1>4. ~(pc' = "sm" /\ "RX" \in events')
  BY <1>1
<1>5. PowerInv'
  BY <1>1, <1>2, <1>3, <1>4 DEF PowerInv, Powered
<1> QED
  BY <1>2, <1>5

LEMMA StartWorkPower ==
    ASSUME ~SlowDischarge, TypeOK, PowerInv, StartWork
    PROVE  PowerInv' /\ (port.supply = 0 => port'.supply \in {0, VSafe5V})
<1> DEFINE p == [port EXCEPT !.running = TRUE]
           o == [p EXCEPT !.queued = FALSE]
<1>0. port \in Port /\ Powered(port) /\ todo = {} /\ events = {}
  BY DEF TypeOK, PowerInv, StartWork, Looping
<1>1. p \in Port
  BY <1>0 DEF Port
<1>2. SamePower(port, p)
  BY <1>0 DEF SamePower, Port
<1> HIDE DEF p
<1>3. o \in Port
  BY <1>1 DEF Port
<1>4. SamePower(p, o)
  BY <1>1 DEF SamePower, Port
<1> HIDE DEF o
<1>5. Handled(port, p)
  BY <1>0, <1>1, <1>2, SameHandled
<1>6. ASSUME NEW r PROVE Handled(port, SendQueued(p, r))
  <2> DEFINE t == Transmit(o, r)
             u == SetAfter(t, "INVALID_STATE")
  <2>1. SamePower(port, o)
    BY <1>2, <1>4 DEF SamePower
  <2>2. Handled(port, t)
    BY <1>0, <1>3, <2>1, Targets, SameHandled, NowHandled DEF Transmit, SetNowCond
  <2> HIDE DEF t
  <2>3. t \in Port /\ Powered(t) /\ t.supply = port.supply /\ t.attached = port.attached
    BY <2>2 DEF Handled
  <2>4. "INVALID_STATE" \in Later /\ "INVALID_STATE" \in States
    BY DEF Later, States, Off, Fed
  <2>5. u \in Port /\ Powered(u) /\ SameSupply(t, u)
    BY <2>3, <2>4, SetAfterType, LaterPowered, SetAfterPower
  <2>6. SendQueued(p, r) = u
    BY DEF SendQueued, SetAfter, t, o
  <2> HIDE DEF u
  <2> QED
    BY <2>3, <2>5, <2>6 DEF Handled, SameSupply
<1>7. PICK q : Handled(port, q) /\ Becomes(q) /\ pc' = "sm" /\ todo' = todo
  BY <1>5, <1>6 DEF StartWork, p
<1> QED
  BY <1>0, <1>7, HandledPower DEF Becomes

LEMMA TailPower ==
    ASSUME ~SlowDischarge, TypeOK, PowerInv, TimerExpires \/ TimerWaits
    PROVE  PowerInv' /\ (port.supply = 0 => port'.supply \in {0, VSafe5V})
<1> DEFINE p == Requeued
           o == [port EXCEPT !.run = TRUE]
           s == port.delayed_state
           t == SetNow(p, s)
<1>0. port \in Port /\ Powered(port) /\ todo = {} /\ s \in States
  BY DEF TypeOK, PowerInv, TimerExpires, TimerWaits, AtTail, Looping, Port
<1>1. o \in Port
  BY <1>0 DEF Port
<1>2. SamePower(port, o)
  BY <1>0 DEF SamePower, Port
<1> HIDE DEF o
<1>3. p \in Port /\ SamePower(port, p)
  BY <1>0, <1>1, <1>2, SelfSame DEF Requeued, o
<1> HIDE DEF p
<1>4. Handled(port, p)
  BY <1>0, <1>3, SameHandled
<1>5. Handled(port, t)
  <2>1. /\ t \in Port /\ SameSupply(p, t) /\ t.state = s
        /\ t.delayed_state = "INVALID_STATE"
    BY <1>0, <1>3, SetNowType, SetNowPower
  <2> HIDE DEF t
  <2>2. /\ t.supply = port.supply /\ t.supply_voltage = port.supply_voltage
        /\ t.pd_rx = port.pd_rx /\ t.attached = port.attached
    BY <1>3, <2>1 DEF SamePower, SameSupply
  <2>3. Powered(t)
    BY <1>0, <2>1, <2>2 DEF Powered, Fed, Off
  <2> QED
    BY <2>1, <2>2, <2>3 DEF Handled
<1> HIDE DEF t
<1>6. PICK q : Handled(port, q) /\ Becomes(q) /\ pc' = "switch" /\ todo' = todo
  BY <1>4, <1>5 DEF TimerExpires, TimerWaits, p, t
<1> QED
  BY <1>0, <1>6, HandledPower DEF Becomes

LEMMA ProgramPower ==
    ASSUME ~SlowDischarge, TypeOK, PowerInv, Program
    PROVE  PowerInv' /\ (port.supply = 0 => port'.supply \in {0, VSafe5V})
<1> DEFINE Done == PowerInv' /\ (port.supply = 0 => port'.supply \in {0, VSafe5V})
<1> SUFFICES Done
  OBVIOUS
<1>0. port \in Port /\ Powered(port) /\ line \in Lines /\ vbus \in BOOLEAN
  BY DEF TypeOK, PowerInv
<1>h. ASSUME NEW e, NEW q, Handled(port, q), Handle(e, q) PROVE Done
  BY <1>h, HandledPower DEF Handle, Becomes
<1>1. CASE Snapshot
  BY <1>1 DEF Snapshot, Looping, PowerInv, Powered
<1>2. CASE HandleReset
  BY <1>0, <1>2, <1>h, HardResetEventHandled DEF HandleReset
<1>3. CASE HandleVbus
  BY <1>0, <1>3, <1>h, VbusEventHandled DEF HandleVbus, PowerInv
<1>4. CASE HandleCc
  BY <1>0, <1>4, <1>h, ObservedType, CcChangeHandled DEF HandleCc
<1>5. CASE HandleRx
  <2>1. rx.rdo \in Requests \cup {NoRequest}
    BY MessagesAssumption DEF TypeOK, Message, NoMessage
  <2>2. "RX" \in todo
    BY <1>5 DEF HandleRx, Handle, First, PowerInv, TypeOK, Events
  <2>3. port.attached => port.supply # 0
    BY <2>2 DEF PowerInv
  <2> QED
    BY <1>0, <1>5, <1>h, <2>1, <2>3, RxHandlerHandled DEF HandleRx
<1>6. CASE ClearEvent \/ StoreEvents
  BY <1>6 DEF ClearEvent, StoreEvents, PowerInv, Powered
<1>7. CASE StartWork
  BY <1>7, StartWorkPower
<1>8. CASE RunStateMachine
  BY <1>8, RunStateMachinePower
<1>9. CASE TimerExpires \/ TimerWaits
  BY <1>9, TailPower
<1> QED
  BY <1>1, <1>2, <1>3, <1>4, <1>5, <1>6, <1>7, <1>8, <1>9 DEF Program

-----------------------------------------------------------------------------
(* The interrupt handler, the button and the resets.                       *)

\* tcpm_init leaves nothing attached and nothing sourced.
LEMMA TcpmInitPower ==
    ASSUME NEW p \in Port, NEW v \in BOOLEAN, NEW cc \in CcPairs
    PROVE  LET q == TcpmInit(p, v, cc) IN Powered(q) /\ q.supply = 0 /\ ~q.attached
<1> DEFINE r == ResetPort(p)
           q == [r EXCEPT !.vbus_present = v]
           u == SetNow(q, "SRC_UNATTACHED")
           c == CcChange(u, cc)
           z == SetNow(c, "PORT_RESET")
<1>1. r \in Port /\ r.supply = 0 /\ ~r.attached
  BY ResetPortType, ResetPortPower
<1> HIDE DEF r
<1>2. q \in Port
  BY <1>1 DEF Port
<1>3. SamePower(r, q)
  BY <1>1 DEF SamePower, Port
<1> HIDE DEF q
<1>4. u \in Port /\ Powered(u) /\ SameSupply(q, u)
  BY <1>2, Targets, SetNowType, PlainPowered, SetNowPower
<1> HIDE DEF u
<1>5. Handled(u, c)
  BY <1>4, CcChangeHandled
<1> HIDE DEF c
<1>6. c \in Port
  BY <1>5 DEF Handled
<1>7. Powered(z) /\ SameSupply(c, z)
  BY <1>6, Targets, PlainPowered, SetNowPower
<1> HIDE DEF z
<1>8. z.supply = 0 /\ ~z.attached
  BY <1>1, <1>3, <1>4, <1>5, <1>7 DEF SamePower, SameSupply, Handled
<1> QED
  BY <1>7, <1>8 DEF TcpmInit, z, c, u, q, r

LEMMA EnvironmentPower ==
    ASSUME ~SlowDischarge, TypeOK, PowerInv, Environment
    PROVE  PowerInv' /\ (port.supply = 0 => port'.supply \in {0, VSafe5V})
<1> DEFINE Done == PowerInv' /\ (port.supply = 0 => port'.supply \in {0, VSafe5V})
<1> SUFFICES Done
  OBVIOUS
<1>0. port \in Port /\ Powered(port) /\ line \in Lines /\ vbus \in BOOLEAN
  BY DEF TypeOK, PowerInv
<1>1. CASE SwitchPressed
  <2>1. todo = {}
    BY <1>1 DEF SwitchPressed, PowerInv
  <2>2. Handled(port, PdDisable(port))
    BY <1>0, PdDisableHandled
  <2> QED
    BY <1>1, <2>1, <2>2, HandledPower DEF SwitchPressed
<1>2. CASE CcIrq \/ HardResetIrq
  <2>1. /\ port' = port /\ pc' = pc /\ todo' = todo /\ vbus' = vbus
        /\ "RX" \in events' => "RX" \in events
    BY <1>2 DEF CcIrq, HardResetIrq, Raised
  <2> QED
    BY <2>1 DEF PowerInv, Powered
<1>3. CASE RxIrq
  <2>1. port' = port /\ pc' = pc /\ todo' = todo /\ vbus' = vbus
    BY <1>3 DEF RxIrq
  <2>2. port.supply # 0 /\ port.state \notin Off
    BY <1>0, <1>3 DEF RxIrq, CanTalk, PowerInv, Powered
  <2> QED
    BY <2>1, <2>2 DEF PowerInv, Powered
<1>4. CASE VbusIrq
  <2>1. /\ port' = port /\ pc' = pc /\ todo' = todo
        /\ vbus' => port.supply # 0
        /\ "RX" \in events' => "RX" \in events
    BY <1>0, <1>4 DEF VbusIrq, Raised
  <2> QED
    BY <2>1 DEF PowerInv, Powered
<1>5. CASE TcpcReset
  <2> DEFINE a == SetCc(port, "OPEN")
             b == SetPdRx(a, FALSE)
             c == SetVconn(b, FALSE)
             d == SetVbus(c, FALSE)
  <2>1. d \in Port /\ Nothing \in CcPairs
    <3>1. a \in Port
      BY <1>0, RegisterType
    <3>2. b \in Port
      BY <3>1, RegisterType
    <3>3. c \in Port
      BY <3>2, RegisterType
    <3> QED
      BY <3>3, SetVbusType DEF Nothing, CcPairs, CcValues
  <2>2. /\ port' = TcpmInit(d, FALSE, Nothing) /\ pc' = "events" /\ todo' = todo
        /\ pc \in {"switch", "top"} /\ vbus' = FALSE /\ "RX" \notin events'
    BY <1>5 DEF TcpcReset, Discharged
  <2> HIDE DEF d
  <2>3. PICK q : port' = q /\ Powered(q) /\ q.supply = 0 /\ ~q.attached
    BY <2>1, <2>2, TcpmInitPower
  <2>4. todo' = {}
    BY <2>2 DEF PowerInv
  <2> QED
    BY <2>2, <2>3, <2>4 DEF PowerInv, Powered
<1>6. CASE McuReset
  <2> DEFINE h == Registered(port)
  <2>1. h \in Port /\ Observed(port, line) \in CcPairs
    BY <1>0, RegisteredType, ObservedType
  <2>2. /\ port' = TcpmInit(h, FALSE, Observed(port, line)) /\ pc' = "top"
        /\ todo' = {} /\ Alerted(port', {})
    BY <1>6 DEF McuReset, Discharged
  <2> HIDE DEF h
  <2>3. PICK q : port' = q /\ Powered(q) /\ q.supply = 0 /\ ~q.attached
    BY <2>1, <2>2, TcpmInitPower
  <2>4. Alerted(q, {})
    BY <2>2, <2>3
  <2>5. ~vbus' /\ "RX" \notin events'
    BY <2>3, <2>4, AlertedPower
  <2> QED
    BY <2>2, <2>3, <2>5 DEF PowerInv, Powered
<1> QED
  BY <1>1, <1>2, <1>3, <1>4, <1>5, <1>6 DEF Environment

LEMMA InitPower ==
    ASSUME Init PROVE PowerInv
<1>1. PICK h \in PowerOnHeap :
         port = TcpmInit(Registered(h), FALSE, Observed(h, line))
  BY DEF Init
<1> DEFINE r == Registered(h)
<1>2. r \in Port /\ Observed(h, line) \in CcPairs
  BY HeapAssumption, RegisteredType, ObservedType DEF Init
<1> HIDE DEF r
<1>3. Powered(port) /\ port.supply = 0 /\ ~port.attached
  BY <1>1, <1>2, TcpmInitPower DEF r
<1>4. vbus = FALSE /\ events = {} /\ todo = {} /\ pc = "top"
  BY DEF Init
<1> QED
  BY <1>3, <1>4 DEF PowerInv

-----------------------------------------------------------------------------

\* If tcpci_set_vbus(false) outlasts the discharge, no message is pending while
\* an attached port sources nothing.
THEOREM PowerInvariant ==
    ASSUME ~SlowDischarge
    PROVE  Spec => [](TypeOK /\ PowerInv)
<1>1. Init => TypeOK /\ PowerInv
  BY InitType, InitPower
<1>2. TypeOK /\ PowerInv /\ [Next]_vars => (TypeOK /\ PowerInv)'
  <2> SUFFICES ASSUME TypeOK, PowerInv, [Next]_vars PROVE PowerInv' /\ TypeOK'
    OBVIOUS
  <2>1. CASE Next
    BY <2>1, ProgramPower, EnvironmentPower, ProgramType, EnvironmentType DEF Next
  <2>2. CASE UNCHANGED vars
    BY <2>2 DEF vars, PowerInv, Powered, TypeOK
  <2> QED
    BY <2>1, <2>2
<1> QED
  BY <1>1, <1>2, PTL DEF Spec

\* VBUS comes up at 5 V: no step takes it from off to a negotiated voltage,
\* whatever the order of requests, unplugs, hard resets, presses and restarts.
THEOREM VbusComesUpAt5V ==
    ASSUME ~SlowDischarge
    PROVE  Spec => VbusStartsAt5V
<1>1. TypeOK /\ PowerInv /\ [Next]_vars
        => [port.supply = 0 => port'.supply \in {0, VSafe5V}]_vars
  <2> SUFFICES ASSUME TypeOK, PowerInv, Next
               PROVE  port.supply = 0 => port'.supply \in {0, VSafe5V}
    BY DEF vars
  <2> QED
    BY ProgramPower, EnvironmentPower DEF Next
<1> QED
  BY <1>1, PowerInvariant, PTL DEF Spec, VbusStartsAt5V
=============================================================================
