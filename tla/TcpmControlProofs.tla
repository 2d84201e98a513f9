------------------------- MODULE TcpmControlProofs -------------------------
(***************************************************************************)
(* The event handler and the state machine share the run flag, the running *)
(* flag and the current state. Whatever the order in which events, timers, *)
(* presses and resets change the state, the state machine is asked to run  *)
(* the new state: StateEntered, from the inductive invariant ControlInv.   *)
(* A port that rests in a transient state has a timer armed: TimerArmed.   *)
(* A port with nothing attached sources nothing, but after a hard reset    *)
(* that came too late: NoOrphanVbus and NoOrphanVconn, from Kept. With a   *)
(* sink that waits for its turn, a port at rest in SRC_READY supplies what *)
(* it granted and presents txSinkOK: ContractVoltage and RpOkInReady, from *)
(* SettledInv.                                                             *)
(***************************************************************************)
EXTENDS TcpmProofs

\* The flags of a port between two steps: a running state machine was asked to
\* run, and one that is not asked to has entered the current state.
Control(p) ==
    /\ p.running => p.run
    /\ ~p.run => p.enter_state = p.state \/ Overtaken(p)

ControlInv ==
    /\ Control(port)
    /\ pc = "sm" => port.running

-----------------------------------------------------------------------------
(* What the helpers leave alone.                                           *)

\* q differs from p in nothing the control flow depends on.
SameControl(p, q) ==
    /\ q.state = p.state
    /\ q.enter_state = p.enter_state
    /\ q.delayed_state = p.delayed_state
    /\ q.run = p.run
    /\ q.running = p.running

LEMMA SameControlKeeps ==
    ASSUME NEW p, NEW q, SameControl(p, q), Control(p) PROVE Control(q)
BY DEF SameControl, Control, Overtaken

LEMMA RegisterControl ==
    ASSUME NEW p \in Port, NEW x
    PROVE  /\ SameControl(p, SetCc(p, x))
           /\ SameControl(p, SetVconn(p, x))
           /\ SameControl(p, SetPdRx(p, x))
<1>1. SameControl(p, SetCc(p, x))
  BY DEF SameControl, SetCc, Port
<1>2. SameControl(p, SetVconn(p, x))
  BY DEF SameControl, SetVconn, Port
<1>3. SameControl(p, SetPdRx(p, x))
  BY DEF SameControl, SetPdRx, Port
<1> QED
  BY <1>1, <1>2, <1>3

LEMMA SetVbusControl ==
    ASSUME NEW p \in Port, NEW x PROVE SameControl(p, SetVbus(p, x))
BY DEF SameControl, SetVbus, Port

LEMMA ResetPortControl ==
    ASSUME NEW p \in Port PROVE SameControl(p, ResetPort(p))
<1> DEFINE q == SetVconn(p, FALSE)
           r == SetVbus(q, FALSE)
<1>1. SameControl(p, q) /\ q \in Port
  BY RegisterControl, RegisterType
<1> HIDE DEF q
<1>2. SameControl(q, r) /\ r \in Port
  BY <1>1, SetVbusControl, SetVbusType
<1>3. SameControl(r, [r EXCEPT !.attached = FALSE, !.pd_capable = FALSE,
                               !.supply_voltage = 0])
  <2> HIDE DEF r
  <2> QED
    BY <1>2 DEF SameControl, Port
<1> QED
  BY <1>1, <1>2, <1>3 DEF SameControl, ResetPort, q

\* tcpm_set_state asks for a run, unless the state machine is running.
LEMMA SetNowControl ==
    ASSUME NEW p \in Port, NEW s \in States, p.running => p.run
    PROVE  /\ SetNow(p, s).run
           /\ SetNow(p, s).running = p.running
           /\ SetNow(p, s).state = s
           /\ SetNow(p, s).enter_state = p.enter_state
           /\ SetNow(p, s).delayed_state = "INVALID_STATE"
           /\ Control(SetNow(p, s))
<1> DEFINE q == SetNow(p, s)
<1>1. /\ q.run = (p.run \/ ~p.running)
      /\ q.running = p.running
      /\ q.state = s
      /\ q.enter_state = p.enter_state
      /\ q.delayed_state = "INVALID_STATE"
  BY DEF SetNow, Port
<1> HIDE DEF q
<1>2. q.run
  BY <1>1
<1> QED
  BY <1>1, <1>2 DEF Control, q

LEMMA SetNowCondControl ==
    ASSUME NEW p \in Port, NEW s \in States, Control(p)
    PROVE  Control(SetNowCond(p, s))
BY SetNowControl DEF SetNowCond, Control

-----------------------------------------------------------------------------
(* Events, messages, the button and the resets.                            *)

LEMMA HardResetEventControl ==
    ASSUME NEW p \in Port, Control(p) PROVE Control(HardResetEvent(p))
BY SetNowControl DEF HardResetEvent, Control, States

LEMMA VbusEventControl ==
    ASSUME NEW p \in Port, NEW on \in BOOLEAN, Control(p)
    PROVE  Control(VbusEvent(p, on))
<1> DEFINE q == [p EXCEPT !.vbus_present = on]
<1>1. q \in Port /\ SameControl(p, q)
  <2>1. q \in Port
    BY DEF Port
  <2>2. SameControl(p, q)
    BY DEF SameControl, Port
  <2> QED
    BY <2>1, <2>2
<1>2. Control(q)
  BY <1>1, SameControlKeeps
<1>3. p.state = "SRC_HARD_RESET_VBUS_ON" => Control(SetAfter(q, "SRC_STARTUP"))
  <2> SUFFICES ASSUME p.state = "SRC_HARD_RESET_VBUS_ON"
               PROVE  Control(SetAfter(q, "SRC_STARTUP"))
    OBVIOUS
  <2>1. q.state = "SRC_HARD_RESET_VBUS_ON"
    BY <1>1 DEF SameControl
  <2> HIDE DEF q
  <2>2. LET r == SetAfter(q, "SRC_STARTUP")
        IN  /\ r.state = q.state /\ r.enter_state = q.enter_state
            /\ r.run = q.run /\ r.running = q.running
    BY <1>1 DEF SetAfter, Port
  <2> QED
    BY <1>2, <2>1, <2>2 DEF Control, Overtaken
<1>4. Control(SetNow(q, "SRC_STARTUP")) /\ Control(SetNow(q, "SRC_UNATTACHED"))
  <2>1. "SRC_STARTUP" \in States /\ "SRC_UNATTACHED" \in States
    BY DEF States
  <2>2. q.running => q.run
    BY <1>2 DEF Control
  <2> HIDE DEF q
  <2> QED
    BY <1>1, <2>1, <2>2, SetNowControl
<1> HIDE DEF q
<1> QED
  BY <1>2, <1>3, <1>4 DEF VbusEvent, q

LEMMA CcChangeControl ==
    ASSUME NEW p \in Port, NEW cc \in CcPairs, Control(p)
    PROVE  Control(CcChange(p, cc))
<1> DEFINE q == [p EXCEPT !.cc = cc]
           targets == {"SRC_ATTACH_WAIT", "SRC_UNATTACHED", "AUDIO_ACC_DEBOUNCE",
                       "AUDIO_ACC_ATTACHED", "ACC_UNATTACHED"}
<1>1. q \in Port
  BY DEF Port
<1>2. SameControl(p, q)
  BY DEF SameControl, Port
<1>3. Control(q)
  BY <1>2, SameControlKeeps
<1>4. targets \subseteq States
  BY DEF States
<1>5. CcChange(p, cc) = q \/ \E s \in targets : CcChange(p, cc) = SetNow(q, s)
  BY DEF CcChange
<1> HIDE DEF q, targets
<1> QED
  BY <1>1, <1>3, <1>4, <1>5, SetNowControl DEF Control

LEMMA QueueMessageControl ==
    ASSUME NEW p \in Port, Control(p) PROVE Control(QueueMessage(p))
<1>1. SameControl(p, QueueMessage(p))
  BY DEF SameControl, QueueMessage, Port
<1> QED
  BY <1>1, SameControlKeeps

LEMMA CtrlRequestControl ==
    ASSUME NEW p \in Port, NEW kind, Control(p)
    PROVE  Control(CtrlRequest(p, kind))
<1> DEFINE n == IF p.pd_capable THEN NCaps - 1 ELSE p.caps_count
           q == [p EXCEPT !.caps_count = n]
<1>1. n \in 0..(NCaps + 1)
  BY CountsAssumption DEF Port
<1> HIDE DEF n
<1>2. q \in Port
  BY <1>1 DEF Port
<1>3. SameControl(p, q)
  BY DEF SameControl, Port
<1> HIDE DEF q
<1>4. Control(SetNow(q, "SRC_SEND_CAPABILITIES"))
  BY <1>2, <1>3, SameControlKeeps, SetNowControl DEF Control, States
<1>5. \A s \in States : Control(SetNow(p, s))
  BY SetNowControl DEF Control
<1>6. {"SOFT_RESET_SEND", "SRC_SEND_CAPABILITIES", "SOFT_RESET", "VCONN_SWAP_ACCEPT",
       "VCONN_SWAP_TURN_OFF_VCONN"} \subseteq States
  BY DEF States
<1> QED
  BY <1>4, <1>5, <1>6, QueueMessageControl DEF CtrlRequest, q, n

LEMMA DataRequestControl ==
    ASSUME NEW p \in Port, NEW m, m.rdo \in Requests \cup {NoRequest}, Control(p)
    PROVE  Control(DataRequest(p, m))
<1> DEFINE q == [p EXCEPT !.sink_request = m.rdo]
           b == (m.kind = "BIST_CARRIER2")
           r == [p EXCEPT !.bist_carrier2 = b]
<1>1. q \in Port /\ SameControl(p, q)
  <2>1. q \in Port
    BY DEF Port
  <2>2. SameControl(p, q)
    BY DEF SameControl, Port
  <2> QED
    BY <2>1, <2>2
<1>2. r \in Port /\ SameControl(p, r)
  <2>1. b \in BOOLEAN
    OBVIOUS
  <2> HIDE DEF b
  <2>2. r \in Port
    BY <2>1 DEF Port
  <2>3. SameControl(p, r)
    BY DEF SameControl, Port
  <2> QED
    BY <2>2, <2>3
<1> HIDE DEF q, r
<1>3. {"SRC_NEGOTIATE_CAPABILITIES", "HARD_RESET_SEND", "BIST_RX"} \subseteq States
  BY DEF States
<1>4. /\ Control(SetNow(q, "SRC_NEGOTIATE_CAPABILITIES"))
      /\ Control(SetNow(r, "BIST_RX"))
      /\ Control(SetNowCond(p, "HARD_RESET_SEND"))
  <2>1. Control(q) /\ Control(r)
    BY <1>1, <1>2, SameControlKeeps
  <2> QED
    BY <1>1, <1>2, <1>3, <2>1, SetNowControl, SetNowCondControl DEF Control
<1> QED
  BY <1>4 DEF DataRequest, q, r

LEMMA RxHandlerControl ==
    ASSUME NEW p \in Port, NEW m, m.rdo \in Requests \cup {NoRequest}, Control(p)
    PROVE  Control(RxHandler(p, m))
<1>1. \A s \in States : Control(SetNow(p, s))
  BY SetNowControl DEF Control
<1>2. Control(ExtRequest(p, m.kind))
  BY <1>1 DEF ExtRequest, States
<1>3. Control(SetNow(p, "ERROR_RECOVERY"))
  BY <1>1 DEF States
<1> QED
  BY <1>2, <1>3, DataRequestControl, CtrlRequestControl DEF RxHandler

LEMMA PdDisableControl ==
    ASSUME NEW p \in Port, Control(p) PROVE Control(PdDisable(p))
<1> DEFINE q == [p EXCEPT !.force_disable_flag = TRUE]
<1>1. q \in Port
  BY DEF Port
<1>2. SameControl(p, q)
  BY DEF SameControl, Port
<1> HIDE DEF q
<1> QED
  BY <1>1, <1>2, SameControlKeeps, SetNowCondControl DEF PdDisable, q, States

\* tcpm_init ends in PORT_RESET and asks for a run, whatever came before.
LEMMA TcpmInitControl ==
    ASSUME NEW p \in Port, NEW v \in BOOLEAN, NEW cc \in CcPairs, p.running => p.run
    PROVE  Control(TcpmInit(p, v, cc))
<1> DEFINE r == ResetPort(p)
           q == [r EXCEPT !.vbus_present = v]
           u == SetNow(q, "SRC_UNATTACHED")
           c == CcChange(u, cc)
<1>1. r \in Port /\ (r.running => r.run)
  BY ResetPortType, ResetPortControl DEF SameControl
<1> HIDE DEF r
<1>2. q \in Port
  BY <1>1 DEF Port
<1>3. q.running => q.run
  <2>1. q.running = r.running /\ q.run = r.run
    BY <1>1 DEF Port
  <2> QED
    BY <1>1, <2>1
<1> HIDE DEF q
<1>4. {"SRC_UNATTACHED", "PORT_RESET"} \subseteq States
  BY DEF States
<1>5. u \in Port /\ Control(u)
  BY <1>2, <1>3, <1>4, SetNowType, SetNowControl
<1> HIDE DEF u
<1>6. c \in Port /\ Control(c)
  BY <1>5, CcChangeType, CcChangeControl
<1> HIDE DEF c
<1> QED
  BY <1>4, <1>6, SetNowControl DEF TcpmInit, c, u, q, r, Control

LEMMA RegisteredControl ==
    ASSUME NEW p \in Port, p.running => p.run
    PROVE  Registered(p).running => Registered(p).run
<1>1. Registered(p).running = p.running /\ Registered(p).run = p.run
  BY DEF Registered, Port
<1> QED
  BY <1>1

-----------------------------------------------------------------------------
(* One iteration of the state machine.                                     *)

\* p is a port the state machine is running, in the iteration for state s.
Running(p, s) == p \in Port /\ p.running /\ p.run /\ p.enter_state = s

\* The iteration for s ends with p: the next iteration follows, or s is still
\* the state, or the timer of s overtook a soft reset.
Iterated(p, s) ==
    /\ Running(p, s)
    /\ p.state = s \/ p.delayed_state = "INVALID_STATE" \/ Overtaken(p)

LEMMA EnteredRunning ==
    ASSUME TypeOK, ControlInv, pc = "sm"
    PROVE  /\ Running(Entered, port.state)
           /\ Entered.state = port.state
           /\ Entered.delayed_state = port.delayed_state
<1>1. port \in Port /\ port.running /\ port.run
  BY DEF TypeOK, ControlInv, Control
<1>2. /\ Entered.running = port.running /\ Entered.run = port.run
      /\ Entered.enter_state = port.state /\ Entered.state = port.state
      /\ Entered.delayed_state = port.delayed_state
  BY <1>1 DEF Entered, Port
<1> QED
  BY <1>1, <1>2, EnteredType DEF Running

LEMMA SameControlRunning ==
    ASSUME NEW p, NEW q \in Port, NEW s, Running(p, s), SameControl(p, q)
    PROVE  Running(q, s)
BY DEF Running, SameControl

\* Changing the state at once lets the next iteration follow.
LEMMA SetNowIterated ==
    ASSUME NEW p, NEW s, NEW t \in States, Running(p, s)
    PROVE  Iterated(SetNow(p, t), s)
BY SetNowControl, SetNowType DEF Running, Iterated

\* Arming a timer stays in the state.
LEMMA SetAfterIterated ==
    ASSUME NEW p, NEW s, NEW t \in States, Running(p, s), p.state = s
    PROVE  Iterated(SetAfter(p, t), s)
<1>1. p \in Port
  BY DEF Running
<1>2. LET q == SetAfter(p, t)
      IN  /\ q.state = p.state /\ q.enter_state = p.enter_state
          /\ q.run = p.run /\ q.running = p.running
  BY <1>1 DEF SetAfter, Port
<1> QED
  BY <1>1, <1>2, SetAfterType DEF Running, Iterated

\* A transmission leaves the port running; if it changed the state, then to
\* SOFT_RESET_SEND, and without a timer.
LEMMA TransmitIterated ==
    ASSUME NEW p, NEW s, NEW r, Running(p, s), p.state = s
    PROVE  LET q == Transmit(p, r) IN
           /\ Iterated(q, s)
           /\ Running(q, s)
           /\ q.state = s \/ (q.state = "SOFT_RESET_SEND" /\ r = "FAILED")
<1>1. "SOFT_RESET_SEND" \in States
  BY DEF States
<1>2. p \in Port /\ (p.running => p.run)
  BY DEF Running
<1>3. Iterated(SetNow(p, "SOFT_RESET_SEND"), s)
  BY <1>1, SetNowIterated
<1>4. SetNow(p, "SOFT_RESET_SEND").state = "SOFT_RESET_SEND"
  BY <1>1, <1>2, SetNowControl
<1>5. Iterated(p, s)
  BY DEF Iterated
<1> QED
  BY <1>3, <1>4, <1>5 DEF Transmit, SetNowCond, Iterated

\* tcpm_set_state_cond ends an iteration too.
LEMMA CondIterated ==
    ASSUME NEW p, NEW s, NEW t \in States, Iterated(p, s)
    PROVE  Iterated(SetNowCond(p, t), s) /\ Iterated(SetAfterCond(p, t), s)
<1>1. Running(p, s)
  BY DEF Iterated
<1>2. Iterated(SetNow(p, t), s)
  BY <1>1, SetNowIterated
<1>3. p.state = s => Iterated(SetAfter(p, t), s)
  BY <1>1, SetAfterIterated
<1> QED
  BY <1>1, <1>2, <1>3 DEF SetNowCond, SetAfterCond, Running

\* The iteration is followed by the next one, or the run flag is cleared in a
\* state that was entered.
LEMMA RanControl ==
    ASSUME TypeOK, NEW p, Iterated(p, port.state), Ran(p)
    PROVE  ControlInv'
<1> DEFINE again == p.state # port.state /\ p.delayed_state = "INVALID_STATE"
           q == [p EXCEPT !.running = FALSE, !.run = FALSE]
<1>1. p \in Port /\ p.running /\ p.run /\ p.enter_state = port.state
  BY DEF Iterated, Running
<1>2. CASE again
  <2>1. port' = p
    BY <1>2 DEF Ran, Becomes
  <2> QED
    BY <1>1, <2>1 DEF ControlInv, Control
<1>3. CASE ~again
  <2>1. port' = q /\ pc' = "tail"
    BY <1>3 DEF Ran, Becomes
  <2>2. /\ q.run = FALSE /\ q.running = FALSE /\ q.state = p.state
        /\ q.enter_state = p.enter_state /\ q.delayed_state = p.delayed_state
    BY <1>1 DEF Port
  <2> HIDE DEF q
  <2>3. p.enter_state = p.state \/ Overtaken(p)
    BY <1>1, <1>3 DEF Iterated
  <2> QED
    BY <2>1, <2>2, <2>3 DEF ControlInv, Control, Overtaken
<1> QED
  BY <1>2, <1>3

-----------------------------------------------------------------------------
(* The helpers a state is made of leave the port in that state.            *)

At(p, s) == Running(p, s) /\ p.state = s

LEMMA AtIterated ==
    ASSUME NEW p, NEW s, At(p, s)
    PROVE  /\ Iterated(p, s)
           /\ \A t \in States : /\ Iterated(SetNow(p, t), s)
                               /\ Iterated(SetAfter(p, t), s)
<1>1. Iterated(p, s)
  BY DEF At, Iterated
<1>2. ASSUME NEW t \in States
      PROVE  Iterated(SetNow(p, t), s) /\ Iterated(SetAfter(p, t), s)
  BY SetNowIterated, SetAfterIterated DEF At
<1> QED
  BY <1>1, <1>2

LEMMA SameControlAt ==
    ASSUME NEW p, NEW q \in Port, NEW s, At(p, s), SameControl(p, q)
    PROVE  At(q, s)
BY SameControlRunning DEF At, SameControl

LEMMA RegisterAt ==
    ASSUME NEW p, NEW s, At(p, s), NEW b \in BOOLEAN,
           NEW rp \in {"OPEN", "RP_1_5", "RP_3_0"}
    PROVE  /\ At(SetCc(p, rp), s) /\ At(SetVconn(p, b), s) /\ At(SetPdRx(p, b), s)
           /\ At(SetVbus(p, b), s)
<1>1. p \in Port
  BY DEF At, Running
<1> QED
  BY <1>1, RegisterType, SetVbusType, RegisterControl, SetVbusControl, SameControlAt

LEMMA SetVbusHvAt ==
    ASSUME NEW p, NEW s, At(p, s) PROVE At(SetVbusHv(p), s)
<1>1. p \in Port
  BY DEF At, Running
<1>2. SameControl(p, SetVbusHv(p))
  BY <1>1 DEF SameControl, SetVbusHv, Port
<1> QED
  BY <1>1, <1>2, SetVbusHvType, SameControlAt

LEMMA ResetPortAt ==
    ASSUME NEW p, NEW s, At(p, s) PROVE At(ResetPort(p), s)
<1>1. p \in Port
  BY DEF At, Running
<1> QED
  BY <1>1, ResetPortType, ResetPortControl, SameControlAt

LEMMA DetachAt ==
    ASSUME NEW p, NEW s, At(p, s) PROVE At(Detach(p), s)
<1> DEFINE n == IF IsDisconnected(p) THEN 0 ELSE p.hard_reset_count
           q == [p EXCEPT !.hard_reset_count = n]
<1>1. p \in Port
  BY DEF At, Running
<1>2. n \in 0..NHard
  BY <1>1, CountsAssumption DEF Port
<1> HIDE DEF n
<1>3. q \in Port
  BY <1>1, <1>2 DEF Port
<1>4. SameControl(p, q)
  BY <1>1 DEF SameControl, Port
<1> HIDE DEF q
<1>5. At(ResetPort(q), s)
  BY <1>3, <1>4, SameControlAt, ResetPortAt
<1> QED
  BY <1>5 DEF Detach, q, n

LEMMA SrcAttachAt ==
    ASSUME NEW p, NEW s, At(p, s) PROVE At(SrcAttach(p), s)
<1> DEFINE polarity == IF p.cc[2] = "RD" THEN "CC2" ELSE "CC1"
           o == [p EXCEPT !.polarity = polarity]
           q == SetPdRx(o, TRUE)
           v == IF HasPoweredCable(p, polarity) THEN SetVconn(q, TRUE) ELSE q
           w == SetVbus(v, TRUE)
           x == [w EXCEPT !.pd_capable = FALSE, !.attached = TRUE]
<1>1. p \in Port
  BY DEF At, Running
<1>2. polarity \in {"CC1", "CC2", "NONE"}
  OBVIOUS
<1> HIDE DEF polarity
<1>3. o \in Port
  BY <1>1, <1>2 DEF Port
<1>4. SameControl(p, o)
  BY <1>1 DEF SameControl, Port
<1> HIDE DEF o
<1>5. At(o, s)
  BY <1>3, <1>4, SameControlAt
<1>6. At(q, s)
  BY <1>5, RegisterAt
<1> HIDE DEF q
<1>7. At(v, s)
  BY <1>6, RegisterAt
<1> HIDE DEF v
<1>8. At(w, s)
  BY <1>7, RegisterAt
<1> HIDE DEF w
<1>9. w \in Port
  BY <1>8 DEF At, Running
<1>10. x \in Port
  BY <1>9 DEF Port
<1>11. SameControl(w, x)
  BY <1>9 DEF SameControl, Port
<1> HIDE DEF x
<1>12. At(x, s)
  BY <1>8, <1>10, <1>11, SameControlAt
<1> QED
  BY <1>12 DEF SrcAttach, x, w, v, q, o, polarity

LEMMA AccAttachAt ==
    ASSUME NEW p, NEW s, At(p, s) PROVE At(AccAttach(p), s)
<1>1. p \in Port
  BY DEF At, Running
<1>2. SameControl(p, AccAttach(p))
  BY <1>1 DEF SameControl, AccAttach, Port
<1> QED
  BY <1>1, <1>2, AccAttachType, SameControlAt

LEMMA CheckRequestAt ==
    ASSUME NEW p, NEW s, At(p, s) PROVE At(CheckRequest(p), s)
<1>1. p \in Port
  BY DEF At, Running
<1>2. SameControl(p, CheckRequest(p))
  BY <1>1 DEF SameControl, CheckRequest, Port
<1> QED
  BY <1>1, <1>2, CheckRequestType, SameControlAt

-----------------------------------------------------------------------------
(* The states that update a counter or a flag of their own.                *)

LEMMA StartupAt ==
    ASSUME NEW p, NEW s, At(p, s)
    PROVE  At([p EXCEPT !.attached = TRUE, !.disc_cable_count = 0, !.caps_count = 0,
                        !.explicit_contract = FALSE, !.last_pdo_index = 0], s)
<1> DEFINE q == [p EXCEPT !.attached = TRUE, !.disc_cable_count = 0, !.caps_count = 0,
                          !.explicit_contract = FALSE, !.last_pdo_index = 0]
<1>1. p \in Port
  BY DEF At, Running
<1>2. 0 \in 0..3 /\ 0 \in 0..(NCaps + 1) /\ 0 \in Nat
  BY CountsAssumption
<1>3. q \in Port
  BY <1>1, <1>2 DEF Port
<1>4. SameControl(p, q)
  BY <1>1 DEF SameControl, Port
<1> HIDE DEF q
<1>5. At(q, s)
  BY <1>3, <1>4, SameControlAt
<1> QED
  BY <1>5 DEF q

LEMMA DiscCountAt ==
    ASSUME NEW p, NEW s, At(p, s), NEW n \in 0..3
    PROVE  At([p EXCEPT !.disc_cable_count = n], s)
<1> DEFINE q == [p EXCEPT !.disc_cable_count = n]
<1>1. p \in Port
  BY DEF At, Running
<1>2. q \in Port
  BY <1>1 DEF Port
<1>3. SameControl(p, q)
  BY <1>1 DEF SameControl, Port
<1> QED
  BY <1>2, <1>3, SameControlAt

LEMMA CapsCountAt ==
    ASSUME NEW p, NEW s, At(p, s), NEW n \in 0..(NCaps + 1)
    PROVE  At([p EXCEPT !.caps_count = n], s)
<1> DEFINE q == [p EXCEPT !.caps_count = n]
<1>1. p \in Port
  BY DEF At, Running
<1>2. q \in Port
  BY <1>1 DEF Port
<1>3. SameControl(p, q)
  BY <1>1 DEF SameControl, Port
<1> QED
  BY <1>2, <1>3, SameControlAt

LEMMA ResetCountAt ==
    ASSUME NEW p, NEW s, At(p, s), NEW n \in 0..NHard
    PROVE  At([p EXCEPT !.hard_reset_count = n], s)
<1> DEFINE q == [p EXCEPT !.hard_reset_count = n]
<1>1. p \in Port
  BY DEF At, Running
<1>2. q \in Port
  BY <1>1 DEF Port
<1>3. SameControl(p, q)
  BY <1>1 DEF SameControl, Port
<1> QED
  BY <1>2, <1>3, SameControlAt

\* Fields that an iteration sets after it may have changed the state.
LEMMA LastFieldIterated ==
    ASSUME NEW p, NEW s, Iterated(p, s), NEW n \in Nat, NEW k \in 0..NHard
    PROVE  /\ Iterated([p EXCEPT !.last_pdo_index = n], s)
           /\ Iterated([p EXCEPT !.explicit_contract = TRUE], s)
           /\ Iterated([p EXCEPT !.hard_reset_count = k], s)
<1>1. p \in Port
  BY DEF Iterated, Running
<1>2. ASSUME NEW q \in Port, SameControl(p, q) PROVE Iterated(q, s)
  BY <1>2, SameControlRunning DEF Iterated, SameControl, Overtaken
<1> DEFINE a == [p EXCEPT !.last_pdo_index = n]
           b == [p EXCEPT !.explicit_contract = TRUE]
           c == [p EXCEPT !.hard_reset_count = k]
<1>3. a \in Port
  BY <1>1 DEF Port
<1>4. SameControl(p, a)
  BY <1>1 DEF SameControl, Port
<1>5. b \in Port
  BY <1>1 DEF Port
<1>6. SameControl(p, b)
  BY <1>1 DEF SameControl, Port
<1>7. c \in Port
  BY <1>1 DEF Port
<1>8. SameControl(p, c)
  BY <1>1 DEF SameControl, Port
<1> HIDE DEF a, b, c
<1>9. Iterated(a, s) /\ Iterated(b, s) /\ Iterated(c, s)
  BY <1>2, <1>3, <1>4, <1>5, <1>6, <1>7, <1>8
<1> QED
  BY <1>9 DEF a, b, c

\* A transmission followed by an unconditional change of state.
LEMMA TransmitThenIterated ==
    ASSUME NEW p, NEW s, At(p, s), NEW r, NEW t \in States
    PROVE  Iterated(SetNow(Transmit(p, r), t), s)
BY TransmitIterated, SetNowIterated DEF At

-----------------------------------------------------------------------------
\* Every state of run_state_machine ends its iteration properly: it is left at
\* once, stayed in, or it is one of the two that overtake a soft reset.
LEMMA RunStateMachineControl ==
    ASSUME TypeOK, ControlInv, RunStateMachine
    PROVE  ControlInv'
<1> DEFINE e == Entered
           s == port.state
<1>pc. pc = "sm"
  BY DEF RunStateMachine, SrcUnattached, SrcAttachWait, SrcAttached, SrcStartup,
     SrcDiscCable, SrcWaitCable, SrcSendCapabilities, SrcNegotiateCapabilities,
     SrcTransitionSupply, SrcReady, AccUnattached, AccAttached, AudioAccDebounce,
     HardResetSend, HardResetStart, SrcHardResetVbusOff, SrcHardResetVbusOn, SoftReset,
     SoftResetSend, VconnSwapAccept, VconnSwapStart, VconnSwapWaitForVconn,
     VconnSwapTurnOnVconn, VconnSwapTurnOffVconn, BistRx, IdleState, PortReset,
     PortResetWaitOff, SrcHardResetDisableRp, SrcHardResetVbusOffDisable, In
<1>0. At(e, s) /\ e \in Port
  BY <1>pc, EnteredRunning, EnteredType DEF At
<1>r. HardResetState(e) \in States
  BY <1>0, HardResetStateType
<1>q. ASSUME NEW p, Iterated(p, s), Ran(p) PROVE ControlInv'
  BY <1>q, RanControl
<1> HIDE DEF e
<1>1. CASE SrcUnattached
  <2>1. Iterated(Detach(SetCc(e, "RP_3_0")), s)
    BY <1>0, RegisterAt, DetachAt, AtIterated
  <2> QED
    BY <1>1, <1>q, <2>1 DEF SrcUnattached, e
<1>2. CASE SrcAttachWait
  <2>1. /\ Iterated(e, s)
        /\ Iterated(SetAfter(e, "DEBUG_ACC_ATTACHED"), s)
        /\ Iterated(SetAfter(e, "AUDIO_ACC_ATTACHED"), s)
        /\ Iterated(SetAfter(e, "SRC_ATTACHED"), s)
    BY <1>0, AtIterated DEF States
  <2> QED
    BY <1>2, <1>q, <2>1 DEF SrcAttachWait, e
<1>3. CASE SrcAttached
  <2>1. At(SetCc(SrcAttach(e), "RP_3_0"), s)
    BY <1>0, SrcAttachAt, RegisterAt
  <2>2. Iterated(SetAfter(SetCc(SrcAttach(e), "RP_3_0"), "SRC_UNATTACHED"), s)
    BY <2>1, AtIterated DEF States
  <2> QED
    BY <1>3, <1>q, <2>2 DEF SrcAttached, e
<1>4. CASE SrcStartup
  <2> DEFINE q == [e EXCEPT !.attached = TRUE, !.disc_cable_count = 0,
                            !.caps_count = 0, !.explicit_contract = FALSE,
                            !.last_pdo_index = 0]
  <2>1. At(q, s)
    BY <1>0, StartupAt
  <2> HIDE DEF q
  <2>2. Iterated(SetAfter(q, "SRC_DISC_CABLE"), s)
    BY <2>1, AtIterated DEF States
  <2> QED
    BY <1>4, <1>q, <2>2 DEF SrcStartup, e, q
<1>5. CASE SrcDiscCable
  <2> DEFINE n == IF e.disc_cable_count > 2 THEN e.disc_cable_count
                  ELSE e.disc_cable_count + 1
             p == [e EXCEPT !.disc_cable_count = n]
  <2>s. s = "SRC_DISC_CABLE"
    BY <1>5 DEF SrcDiscCable, In
  <2>1. n \in 0..3
    BY <1>0 DEF Port
  <2>2. At(p, s)
    <3> HIDE DEF n
    <3> QED
      BY <1>0, <2>1, DiscCountAt
  <2>3. \/ Ran(SetAfter(e, "SRC_SEND_CAPABILITIES"))
        \/ Ran(SetNow(p, "SRC_SEND_CAPABILITIES"))
        \/ \E r \in TxOutcomes :
             \/ r = "SUCCESS" /\ Ran(SetAfter(Transmit(p, r), "SRC_WAIT_CABLE"))
             \/ Ran(SetAfter(Transmit(p, r), "SRC_DISC_CABLE"))
    BY <1>5 DEF SrcDiscCable, e
  <2> HIDE DEF p
  <2>t. {"SRC_SEND_CAPABILITIES", "SRC_WAIT_CABLE", "SRC_DISC_CABLE"} \subseteq States
    BY DEF States
  <2>4. /\ Iterated(SetAfter(e, "SRC_SEND_CAPABILITIES"), s)
        /\ Iterated(SetNow(p, "SRC_SEND_CAPABILITIES"), s)
    BY <1>0, <2>2, <2>t, AtIterated
  <2>5. Iterated(SetAfter(Transmit(p, "SUCCESS"), "SRC_WAIT_CABLE"), s)
    BY <2>2, <2>t, AtIterated DEF Transmit
  <2>6. ASSUME NEW r PROVE Iterated(SetAfter(Transmit(p, r), "SRC_DISC_CABLE"), s)
    <3> DEFINE q == Transmit(p, r)
               t == SetAfter(q, "SRC_DISC_CABLE")
    <3>1. Running(q, s) /\ (q.state = s \/ q.state = "SOFT_RESET_SEND")
      BY <2>2, TransmitIterated DEF At
    <3> HIDE DEF q
    <3>2. q \in Port
      BY <3>1 DEF Running
    <3>3. /\ t.state = q.state /\ t.enter_state = q.enter_state /\ t.run = q.run
          /\ t.running = q.running /\ t.delayed_state = "SRC_DISC_CABLE"
      BY <3>2 DEF SetAfter, Port
    <3>4. t \in Port
      BY <3>2, <2>t, SetAfterType
    <3> HIDE DEF t
    <3>5. Iterated(t, s)
      BY <2>s, <3>1, <3>3, <3>4 DEF Iterated, Running, Overtaken
    <3> QED
      BY <3>5 DEF t, q
  <2> QED
    BY <1>q, <2>3, <2>4, <2>5, <2>6
<1>6. CASE SrcWaitCable
  <2>1. Iterated(SetNow(e, "SRC_SEND_CAPABILITIES"), s)
    BY <1>0, AtIterated DEF States
  <2> QED
    BY <1>6, <1>q, <2>1 DEF SrcWaitCable, e
<1>7. CASE SrcSendCapabilities
  <2> DEFINE n == IF e.caps_count > NCaps THEN e.caps_count ELSE e.caps_count + 1
             p == [e EXCEPT !.caps_count = n]
             q == [p EXCEPT !.hard_reset_count = 0, !.caps_count = 0,
                            !.pd_capable = TRUE]
  <2>1. n \in 0..(NCaps + 1)
    BY <1>0, CountsAssumption DEF Port
  <2>2. At(p, s)
    <3> HIDE DEF n
    <3> QED
      BY <1>0, <2>1, CapsCountAt
  <2>3. At(q, s)
    <3>1. 0 \in 0..(NCaps + 1) /\ 0 \in 0..NHard
      BY CountsAssumption
    <3>2. p \in Port
      BY <2>2 DEF At, Running
    <3> HIDE DEF p
    <3>3. q \in Port
      BY <3>1, <3>2 DEF Port
    <3>4. SameControl(p, q)
      BY <3>2 DEF SameControl, Port
    <3> QED
      BY <2>2, <3>3, <3>4, SameControlAt
  <2>4. \/ Ran(SetNow(p, "SRC_READY"))
        \/ Ran(SetAfterCond(q, HardResetState(q)))
        \/ Ran(SetAfter(p, "SRC_SEND_CAPABILITIES"))
        \/ \E r \in TxOutcomes : Ran(Transmit(p, r))
    BY <1>7 DEF SrcSendCapabilities, CapsSent, e
  <2> HIDE DEF p, q
  <2>t. {"SRC_READY", "SRC_SEND_CAPABILITIES"} \subseteq States
    BY DEF States
  <2>5. /\ Iterated(SetNow(p, "SRC_READY"), s)
        /\ Iterated(SetAfter(p, "SRC_SEND_CAPABILITIES"), s)
    BY <2>2, <2>t, AtIterated
  <2>6. Iterated(SetAfterCond(q, HardResetState(q)), s)
    <3>1. q \in Port
      BY <2>3 DEF At, Running
    <3> QED
      BY <2>3, <3>1, HardResetStateType, AtIterated, CondIterated
  <2>7. ASSUME NEW r PROVE Iterated(Transmit(p, r), s)
    BY <2>2, TransmitIterated DEF At
  <2> QED
    BY <1>q, <2>4, <2>5, <2>6, <2>7
<1>8. CASE SrcNegotiateCapabilities
  <2> DEFINE p == CheckRequest(e)
  <2>s. s = "SRC_NEGOTIATE_CAPABILITIES"
    BY <1>8 DEF SrcNegotiateCapabilities, In
  <2>1. At(p, s)
    BY <1>0, CheckRequestAt
  <2>2. \E r \in TxOutcomes : Ran(Accept(p, r)) \/ Ran(Reject(p, r))
    BY <1>8 DEF SrcNegotiateCapabilities, e
  <2> HIDE DEF p
  <2>t. {"SRC_READY", "SRC_WAIT_NEW_CAPABILITIES", "SRC_TRANSITION_SUPPLY"} \subseteq States
    BY DEF States
  <2>3. ASSUME NEW r PROVE Iterated(Reject(p, r), s)
    BY <2>1, <2>t, TransmitThenIterated DEF Reject
  <2>4. ASSUME NEW r PROVE Iterated(Accept(p, r), s)
    <3> DEFINE q == Transmit(p, r)
               a == SetNow(q, "SRC_TRANSITION_SUPPLY")
               b == SetAfter(q, "SRC_TRANSITION_SUPPLY")
               t == IF p.pdo_type = "APDO" /\ p.pdo_index = p.last_pdo_index
                    THEN a ELSE b
    <3>1. Running(q, s) /\ (q.state = s \/ q.state = "SOFT_RESET_SEND")
      BY <2>1, TransmitIterated DEF At
    <3>2. Iterated(a, s)
      BY <2>1, <2>t, TransmitThenIterated
    <3> HIDE DEF q
    <3>3. q \in Port
      BY <3>1 DEF Running
    <3>4. /\ b.state = q.state /\ b.enter_state = q.enter_state /\ b.run = q.run
          /\ b.running = q.running /\ b.delayed_state = "SRC_TRANSITION_SUPPLY"
      BY <3>3 DEF SetAfter, Port
    <3>5. b \in Port
      BY <3>3, <2>t, SetAfterType
    <3> HIDE DEF a, b
    <3>6. Iterated(b, s)
      BY <2>s, <3>1, <3>4, <3>5 DEF Iterated, Running, Overtaken
    <3>7. Iterated(t, s)
      BY <3>2, <3>6
    <3>8. p.pdo_index \in Nat
      BY <2>1 DEF At, Running, Port
    <3>9. 0 \in 0..NHard
      BY CountsAssumption
    <3>10. Accept(p, r) = [t EXCEPT !.last_pdo_index = p.pdo_index]
      BY DEF Accept, a, b, q
    <3> HIDE DEF t
    <3> DEFINE n == p.pdo_index
    <3>11. n \in Nat
      BY <3>8
    <3> HIDE DEF n
    <3>12. Iterated([t EXCEPT !.last_pdo_index = n], s)
      BY <3>7, <3>9, <3>11, LastFieldIterated
    <3> QED
      BY <3>10, <3>12 DEF n
  <2> QED
    BY <1>q, <2>2, <2>3, <2>4
<1>9. CASE SrcTransitionSupply
  <2>1. ASSUME NEW r
        PROVE  Iterated(SetNowCond([Transmit(SetVbusHv(e), r)
                                      EXCEPT !.explicit_contract = TRUE], "SRC_READY"), s)
    <3> DEFINE t == Transmit(SetVbusHv(e), r)
    <3>1. Iterated(t, s)
      BY <1>0, SetVbusHvAt, TransmitIterated DEF At
    <3> HIDE DEF t
    <3>2. 0 \in Nat /\ 0 \in 0..NHard
      BY CountsAssumption
    <3>3. Iterated([t EXCEPT !.explicit_contract = TRUE], s)
      BY <3>1, <3>2, LastFieldIterated
    <3> QED
      BY <3>3, CondIterated DEF States, t
  <2> QED
    BY <1>9, <1>q, <2>1 DEF SrcTransitionSupply, e
<1>10. CASE SrcReady
  <2> DEFINE p == IF port.explicit_contract /\ port.pdo_type = "APDO"
                  THEN SetAfterCond(e, HardResetState(e)) ELSE e
  <2>1. Iterated(p, s)
    BY <1>0, <1>r, AtIterated, CondIterated
  <2>2. 0 \in Nat /\ 0 \in 0..NHard
    BY CountsAssumption
  <2>3. Iterated([p EXCEPT !.hard_reset_count = 0], s)
    <3> HIDE DEF p
    <3> QED
      BY <2>1, <2>2, LastFieldIterated
  <2> QED
    BY <1>10, <1>q, <2>3 DEF SrcReady, e
<1>11. CASE AccUnattached
  <2>1. Iterated(SetNow(Detach(e), "SRC_UNATTACHED"), s)
    BY <1>0, DetachAt, AtIterated DEF States
  <2> QED
    BY <1>11, <1>q, <2>1 DEF AccUnattached, e
<1>12. CASE AccAttached
  <2>1. Iterated(AccAttach(e), s)
    BY <1>0, AccAttachAt, AtIterated
  <2> QED
    BY <1>12, <1>q, <2>1 DEF AccAttached, e
<1>13. CASE AudioAccDebounce
  <2>1. Iterated(SetAfter(e, "ACC_UNATTACHED"), s)
    BY <1>0, AtIterated DEF States
  <2> QED
    BY <1>13, <1>q, <2>1 DEF AudioAccDebounce, e
<1>14. CASE HardResetSend
  <2>1. ASSUME NEW r PROVE Iterated(SetNow(Transmit(e, r), "HARD_RESET_START"), s)
    BY <1>0, TransmitThenIterated DEF States
  <2> QED
    BY <1>14, <1>q, <2>1 DEF HardResetSend, e
<1>15. CASE HardResetStart
  <2> DEFINE q == SetPdRx(e, FALSE)
             n == IF q.hard_reset_count < NHard THEN q.hard_reset_count + 1
                  ELSE q.hard_reset_count
             p == [q EXCEPT !.hard_reset_count = n]
  <2>1. At(q, s)
    BY <1>0, RegisterAt
  <2>2. \E t \in {"SRC_HARD_RESET_DISABLE_RP", "SRC_HARD_RESET_VBUS_OFF"} :
           Ran(SetAfter(p, t))
    BY <1>15 DEF HardResetStart, e
  <2> HIDE DEF q
  <2>3. q \in Port
    BY <2>1 DEF At, Running
  <2>4. n \in 0..NHard
    BY <2>3, CountsAssumption DEF Port
  <2> HIDE DEF n
  <2>5. At(p, s)
    BY <2>1, <2>4, ResetCountAt
  <2> HIDE DEF p
  <2>6. {"SRC_HARD_RESET_DISABLE_RP", "SRC_HARD_RESET_VBUS_OFF"} \subseteq States
    BY DEF States
  <2> QED
    BY <1>q, <2>2, <2>5, <2>6, AtIterated
<1>16. CASE SrcHardResetVbusOff
  <2>1. At(SetVbus(SetVconn(e, FALSE), FALSE), s)
    BY <1>0, RegisterAt
  <2>2. Iterated(SetAfter(SetVbus(SetVconn(e, FALSE), FALSE), "SRC_HARD_RESET_VBUS_ON"), s)
    BY <2>1, AtIterated DEF States
  <2> QED
    BY <1>16, <1>q, <2>2 DEF SrcHardResetVbusOff, e
<1>17. CASE SrcHardResetVbusOn
  <2> DEFINE p == SetVbus(SetPdRx(e, TRUE), TRUE)
             q == IF HasPoweredCable(p, p.polarity) THEN SetVconn(p, TRUE) ELSE p
  <2>1. At(p, s)
    BY <1>0, RegisterAt
  <2>2. At(q, s)
    <3> HIDE DEF p
    <3> QED
      BY <2>1, RegisterAt
  <2>3. Iterated(SetAfter(q, "SRC_UNATTACHED"), s)
    BY <2>2, AtIterated DEF States
  <2> QED
    BY <1>17, <1>q, <2>3 DEF SrcHardResetVbusOn, e
<1>18. CASE SoftReset
  <2>1. ASSUME NEW r PROVE Iterated(SetNow(Transmit(e, r), "SRC_SEND_CAPABILITIES"), s)
    BY <1>0, TransmitThenIterated DEF States
  <2> QED
    BY <1>18, <1>q, <2>1 DEF SoftReset, e
<1>19. CASE SoftResetSend
  <2>1. ASSUME NEW r
        PROVE  LET p == Transmit(e, r) IN
               /\ Iterated(SetAfterCond(p, HardResetState(p)), s)
               /\ Iterated(SetNowCond(p, HardResetState(p)), s)
    <3> DEFINE p == Transmit(e, r)
    <3>1. Iterated(p, s)
      BY <1>0, TransmitIterated DEF At
    <3>2. HardResetState(p) \in States
      BY <1>0, TransmitType, HardResetStateType
    <3> HIDE DEF p
    <3>3. /\ Iterated(SetAfterCond(p, HardResetState(p)), s)
          /\ Iterated(SetNowCond(p, HardResetState(p)), s)
      BY <3>1, <3>2, CondIterated
    <3> QED
      BY <3>3 DEF p
  <2> QED
    BY <1>19, <1>q, <2>1 DEF SoftResetSend, e
<1>20. CASE VconnSwapAccept
  <2>1. ASSUME NEW r PROVE Iterated(SetNow(Transmit(e, r), "VCONN_SWAP_START"), s)
    BY <1>0, TransmitThenIterated DEF States
  <2> QED
    BY <1>20, <1>q, <2>1 DEF VconnSwapAccept, e
<1>21. CASE VconnSwapStart
  <2>1. /\ Iterated(SetNow(e, "VCONN_SWAP_WAIT_FOR_VCONN"), s)
        /\ Iterated(SetNow(e, "VCONN_SWAP_TURN_ON_VCONN"), s)
    BY <1>0, AtIterated DEF States
  <2> QED
    BY <1>21, <1>q, <2>1 DEF VconnSwapStart, e
<1>22. CASE VconnSwapWaitForVconn
  <2>1. Iterated(SetAfter(e, HardResetState(e)), s)
    BY <1>0, <1>r, AtIterated
  <2> QED
    BY <1>22, <1>q, <2>1 DEF VconnSwapWaitForVconn, e
<1>23. CASE VconnSwapTurnOnVconn
  <2>1. ASSUME NEW r
        PROVE  Iterated(SetNow(Transmit(SetVconn(e, TRUE), r), "SRC_READY"), s)
    BY <1>0, RegisterAt, TransmitThenIterated DEF States
  <2> QED
    BY <1>23, <1>q, <2>1 DEF VconnSwapTurnOnVconn, e
<1>24. CASE VconnSwapTurnOffVconn
  <2>1. Iterated(SetNow(SetVconn(e, FALSE), "SRC_READY"), s)
    BY <1>0, RegisterAt, AtIterated DEF States
  <2> QED
    BY <1>24, <1>q, <2>1 DEF VconnSwapTurnOffVconn, e
<1>25. CASE BistRx
  <2>1. ASSUME NEW r PROVE Iterated(SetNow(Transmit(e, r), "SRC_UNATTACHED"), s)
    BY <1>0, TransmitThenIterated DEF States
  <2>2. Iterated(e, s)
    BY <1>0, AtIterated
  <2> QED
    BY <1>25, <1>q, <2>1, <2>2 DEF BistRx, e
<1>26. CASE IdleState
  BY <1>0, <1>26, <1>q, AtIterated DEF IdleState, e
<1>27. CASE PortReset
  <2>1. At(SetCc(ResetPort(e), "OPEN"), s)
    BY <1>0, ResetPortAt, RegisterAt
  <2>2. Iterated(SetAfter(SetCc(ResetPort(e), "OPEN"), "PORT_RESET_WAIT_OFF"), s)
    BY <2>1, AtIterated DEF States
  <2> QED
    BY <1>27, <1>q, <2>2 DEF PortReset, e
<1>28. CASE PortResetWaitOff
  <2>1. /\ Iterated(SetAfter(e, "SRC_UNATTACHED"), s)
        /\ Iterated(SetNow(e, "SRC_UNATTACHED"), s)
    BY <1>0, AtIterated DEF States
  <2> QED
    BY <1>28, <1>q, <2>1 DEF PortResetWaitOff, e
<1>29. CASE SrcHardResetDisableRp
  <2>1. Iterated(SetAfter(SetCc(e, "OPEN"), "SRC_HARD_RESET_VBUS_OFF_DISABLE"), s)
    BY <1>0, RegisterAt, AtIterated DEF States
  <2> QED
    BY <1>29, <1>q, <2>1 DEF SrcHardResetDisableRp, e
<1>30. CASE SrcHardResetVbusOffDisable
  <2> DEFINE q == SetVbus(SetVconn(e, FALSE), FALSE)
             p == [q EXCEPT !.force_disable_flag = FALSE]
  <2>1. At(q, s)
    BY <1>0, RegisterAt
  <2>2. At(p, s)
    <3> HIDE DEF q
    <3>1. q \in Port
      BY <2>1 DEF At, Running
    <3>2. p \in Port
      BY <3>1 DEF Port
    <3>3. SameControl(q, p)
      BY <3>1 DEF SameControl, Port
    <3> QED
      BY <2>1, <3>2, <3>3, SameControlAt
  <2>3. Iterated(SetAfter(p, "SRC_UNATTACHED"), s)
    <3> HIDE DEF p
    <3> QED
      BY <2>2, AtIterated DEF States
  <2> QED
    BY <1>30, <1>q, <2>3 DEF SrcHardResetVbusOffDisable, e
<1> QED
  BY <1>1, <1>2, <1>3, <1>4, <1>5, <1>6, <1>7, <1>8, <1>9, <1>10, <1>11, <1>12,
     <1>13, <1>14, <1>15, <1>16, <1>17, <1>18, <1>19, <1>20, <1>21, <1>22, <1>23,
     <1>24, <1>25, <1>26, <1>27, <1>28, <1>29, <1>30 DEF RunStateMachine

-----------------------------------------------------------------------------
(* The rest of a pass.                                                     *)

LEMMA StartWorkControl ==
    ASSUME TypeOK, ControlInv, StartWork
    PROVE  ControlInv'
<1> DEFINE p == [port EXCEPT !.running = TRUE]
           o == [p EXCEPT !.queued = FALSE]
<1>0. port \in Port /\ port.run /\ Control(port)
  BY DEF TypeOK, ControlInv, StartWork
<1>1. p \in Port
  BY <1>0 DEF Port
<1>2. p.running = TRUE /\ p.run = port.run /\ p.state = port.state
  BY <1>0 DEF Port
<1> HIDE DEF p
<1>3. o \in Port
  BY <1>1 DEF Port
<1>4. SameControl(p, o)
  BY <1>1 DEF SameControl, Port
<1> HIDE DEF o
<1>5. o.running /\ o.run
  BY <1>0, <1>2, <1>4 DEF SameControl
<1>6. ASSUME NEW r PROVE SendQueued(p, r).running /\ SendQueued(p, r).run
  <2> DEFINE t == Transmit(o, r)
             u == [t EXCEPT !.delayed_state = "INVALID_STATE"]
  <2>1. "SOFT_RESET_SEND" \in States
    BY DEF States
  <2>2. t.running /\ t.run
    BY <1>3, <1>5, <2>1, SetNowControl DEF Transmit, SetNowCond
  <2>3. t \in Port
    BY <1>3, TransmitType
  <2> HIDE DEF t
  <2>4. u.running = t.running /\ u.run = t.run
    BY <2>3 DEF Port
  <2>5. SendQueued(p, r) = u
    BY DEF SendQueued, t, o
  <2> QED
    BY <2>2, <2>4, <2>5
<1>7. pc' = "sm" /\ \E q : q.running /\ q.run /\ port' = q
  BY <1>0, <1>2, <1>6 DEF StartWork, Becomes, p
<1> QED
  BY <1>7 DEF ControlInv, Control

LEMMA TailControl ==
    ASSUME TypeOK, ControlInv, TimerExpires \/ TimerWaits
    PROVE  ControlInv'
<1> DEFINE q == [port EXCEPT !.run = TRUE]
           p == Requeued
<1>0. port \in Port /\ Control(port) /\ port.delayed_state \in States
  BY DEF TypeOK, ControlInv, Port
<1>1. q \in Port
  BY <1>0 DEF Port
<1>2. q.run = TRUE
  BY <1>0 DEF Port
<1>3. p \in Port /\ Control(p)
  <2> HIDE DEF q
  <2>1. Control(q)
    BY <1>2 DEF Control
  <2> QED
    BY <1>0, <1>1, <2>1 DEF Requeued, q
<1> HIDE DEF p, q
<1>4. Control(SetNow(p, port.delayed_state))
  BY <1>0, <1>3, SetNowControl DEF Control
<1>5. pc' = "switch" /\ (port' = p \/ port' = SetNow(p, port.delayed_state))
  BY DEF TimerExpires, TimerWaits, Becomes, p
<1>6. Control(port')
  BY <1>3, <1>4, <1>5
<1> QED
  BY <1>5, <1>6 DEF ControlInv

LEMMA ProgramControl ==
    ASSUME TypeOK, ControlInv, Program
    PROVE  ControlInv'
<1>0. port \in Port /\ line \in Lines /\ vbus \in BOOLEAN /\ Control(port)
  BY DEF TypeOK, ControlInv
<1>h. ASSUME NEW e, NEW p, Control(p), Handle(e, p) PROVE ControlInv'
  BY <1>h DEF Handle, Becomes, ControlInv
<1>1. CASE Snapshot
  BY <1>1 DEF Snapshot, ControlInv
<1>2. CASE HandleReset
  BY <1>0, <1>2, <1>h, HardResetEventControl DEF HandleReset
<1>3. CASE HandleVbus
  BY <1>0, <1>3, <1>h, VbusEventControl DEF HandleVbus
<1>4. CASE HandleCc
  BY <1>0, <1>4, <1>h, ObservedType, CcChangeControl DEF HandleCc
<1>5. CASE HandleRx
  <2>1. rx.rdo \in Requests \cup {NoRequest}
    BY MessagesAssumption DEF TypeOK, Message, NoMessage
  <2> QED
    BY <1>0, <1>5, <1>h, <2>1, RxHandlerControl DEF HandleRx
<1>6. CASE ClearEvent \/ StoreEvents
  BY <1>6 DEF ClearEvent, StoreEvents, ControlInv
<1>7. CASE StartWork
  BY <1>7, StartWorkControl
<1>8. CASE RunStateMachine
  BY <1>8, RunStateMachineControl
<1>9. CASE TimerExpires \/ TimerWaits
  BY <1>9, TailControl
<1> QED
  BY <1>1, <1>2, <1>3, <1>4, <1>5, <1>6, <1>7, <1>8, <1>9 DEF Program

LEMMA EnvironmentControl ==
    ASSUME TypeOK, ControlInv, Environment
    PROVE  ControlInv'
<1>0. port \in Port /\ line \in Lines /\ vbus \in BOOLEAN /\ Control(port) /\ (port.running => port.run)
  BY DEF TypeOK, ControlInv, Control
<1>1. CASE SwitchPressed
  BY <1>0, <1>1, PdDisableControl DEF SwitchPressed, ControlInv
<1>2. CASE CcIrq \/ RxIrq \/ HardResetIrq \/ VbusIrq
  BY <1>2 DEF CcIrq, RxIrq, HardResetIrq, VbusIrq, ControlInv
<1>3. CASE TcpcReset
  <2> DEFINE a == SetCc(port, "OPEN")
             b == SetPdRx(a, FALSE)
             c == SetVconn(b, FALSE)
             d == SetVbus(c, FALSE)
  <2>1. a \in Port /\ SameControl(port, a)
    <3>1. a \in Port
      BY <1>0, RegisterType
    <3>2. SameControl(port, a)
      BY <1>0, RegisterControl
    <3> QED
      BY <3>1, <3>2
  <2> HIDE DEF a
  <2>2. b \in Port /\ SameControl(a, b)
    <3>1. b \in Port
      BY <2>1, RegisterType
    <3>2. SameControl(a, b)
      BY <2>1, RegisterControl
    <3> QED
      BY <3>1, <3>2
  <2> HIDE DEF b
  <2>3. c \in Port /\ SameControl(b, c)
    <3>1. c \in Port
      BY <2>2, RegisterType
    <3>2. SameControl(b, c)
      BY <2>2, RegisterControl
    <3> QED
      BY <3>1, <3>2
  <2> HIDE DEF c
  <2>4. d \in Port /\ (d.running => d.run)
    <3>1. d \in Port /\ SameControl(c, d)
      BY <2>3, SetVbusType, SetVbusControl
    <3> HIDE DEF d
    <3> QED
      BY <1>0, <2>1, <2>2, <2>3, <3>1 DEF SameControl
  <2> HIDE DEF d
  <2>5. Nothing \in CcPairs
    BY DEF Nothing, CcPairs, CcValues
  <2>6. PICK v \in BOOLEAN : port' = TcpmInit(d, v, Nothing) /\ pc' = "events"
    BY <1>0, <1>3 DEF TcpcReset, Discharged, d, c, b, a
  <2>7. Control(TcpmInit(d, v, Nothing))
    BY <2>4, <2>5, TcpmInitControl
  <2> QED
    BY <2>6, <2>7 DEF ControlInv
<1>4. CASE McuReset
  <2> DEFINE q == Registered(port)
  <2>1. q \in Port /\ (q.running => q.run)
    BY <1>0, RegisteredType, RegisteredControl
  <2>2. PICK v \in BOOLEAN :
           port' = TcpmInit(q, v, Observed(port, line)) /\ pc' = "top"
    BY <1>0, <1>4 DEF McuReset, Discharged
  <2>3. Control(TcpmInit(q, v, Observed(port, line)))
    <3> HIDE DEF q
    <3> QED
      BY <1>0, <2>1, ObservedType, TcpmInitControl
  <2> HIDE DEF q
  <2> QED
    BY <2>2, <2>3 DEF ControlInv
<1> QED
  BY <1>1, <1>2, <1>3, <1>4 DEF Environment

-----------------------------------------------------------------------------

\* What malloc must not return at power-on: a state machine that seems to be
\* running and was not asked to run would never be asked again.
HeapRuns == \A h \in PowerOnHeap : h.running => h.run

\* The run flag, the running flag and the state never drift apart, from any
\* memory but the one that HeapRuns excludes.
THEOREM ControlInvariant ==
    ASSUME HeapRuns
    PROVE  Spec => [](TypeOK /\ ControlInv)
<1>1. Init => TypeOK /\ ControlInv
  <2> SUFFICES ASSUME Init PROVE TypeOK /\ ControlInv
    OBVIOUS
  <2>1. PICK h \in PowerOnHeap :
           port = TcpmInit(Registered(h), FALSE, Observed(h, line))
    BY DEF Init
  <2>2. h \in Port /\ line \in Lines /\ (h.running => h.run)
    BY HeapAssumption, HeapRuns DEF Init, HeapRuns
  <2> DEFINE q == Registered(h)
  <2>3. q \in Port /\ (q.running => q.run)
    BY <2>2, RegisteredType, RegisteredControl
  <2>4. Control(port)
    <3> HIDE DEF q
    <3>1. Control(TcpmInit(q, FALSE, Observed(h, line)))
      BY <2>2, <2>3, ObservedType, TcpmInitControl
    <3> QED
      BY <2>1, <3>1 DEF q
  <2>5. pc = "top"
    BY DEF Init
  <2> QED
    BY <2>4, <2>5, InitType DEF ControlInv
<1>2. TypeOK /\ ControlInv /\ [Next]_vars => (TypeOK /\ ControlInv)'
  <2> SUFFICES ASSUME TypeOK, ControlInv, [Next]_vars PROVE ControlInv' /\ TypeOK'
    OBVIOUS
  <2>1. CASE Next
    BY <2>1, ProgramControl, EnvironmentControl, ProgramType, EnvironmentType DEF Next
  <2>2. CASE UNCHANGED vars
    BY <2>2 DEF vars, ControlInv, TypeOK
  <2> QED
    BY <2>1, <2>2
<1> QED
  BY <1>1, <1>2, PTL DEF Spec

\* Whenever the state machine is not asked to run, it has run the state the port is
\* in, or a timer has overtaken a soft reset. (A state overwritten before it ran is
\* not run; of that the theorem says nothing.)
THEOREM StatesAreEntered ==
    ASSUME HeapRuns
    PROVE  Spec => []StateEntered
<1>1. ControlInv => StateEntered
  BY DEF ControlInv, Control, StateEntered
<1> QED
  BY <1>1, ControlInvariant, PTL

-----------------------------------------------------------------------------
(* The port waits in no transient state without a timer: TimerArmed. Each   *)
(* case of run_state_machine leaves its state or arms a timer, and whoever  *)
(* disarms that timer afterwards changes the state and asks for a run, from *)
(* the inductive invariant TimerInv on top of ControlInv.                   *)

\* A port whose state machine is not asked to run will leave a transient state.
Armed(p) == ~p.run /\ p.state \in Transient => p.delayed_state # "INVALID_STATE"

TimerInv == Armed(port)

-----------------------------------------------------------------------------
(* Events, messages, the button and the resets.                            *)

LEMMA SameControlArmed ==
    ASSUME NEW p, NEW q, SameControl(p, q), Armed(p) PROVE Armed(q)
BY DEF SameControl, Armed

\* tcpm_set_state disarms the timer, and asks for a run.
LEMMA SetNowArmed ==
    ASSUME NEW p \in Port, NEW s \in States, p.running => p.run
    PROVE  Armed(SetNow(p, s))
BY SetNowControl DEF Armed

LEMMA SetAfterArmed ==
    ASSUME NEW p \in Port, NEW s \in States \ {"INVALID_STATE"}
    PROVE  Armed(SetAfter(p, s))
<1>1. SetAfter(p, s).delayed_state = s
  BY DEF SetAfter, Port
<1> QED
  BY <1>1 DEF Armed

LEMMA HardResetEventArmed ==
    ASSUME NEW p \in Port, Control(p), Armed(p) PROVE Armed(HardResetEvent(p))
<1>1. {"HARD_RESET_START", "ERROR_RECOVERY"} \subseteq States
  BY DEF States
<1> QED
  BY <1>1, SetNowArmed DEF HardResetEvent, Control

LEMMA VbusEventArmed ==
    ASSUME NEW p \in Port, NEW on \in BOOLEAN, Control(p), Armed(p)
    PROVE  Armed(VbusEvent(p, on))
<1> DEFINE q == [p EXCEPT !.vbus_present = on]
<1>1. q \in Port
  BY DEF Port
<1>2. SameControl(p, q)
  BY DEF SameControl, Port
<1>3. VbusEvent(p, on) \in {q, SetNow(q, "SRC_STARTUP"), SetAfter(q, "SRC_STARTUP"),
                            SetNow(q, "SRC_UNATTACHED")}
  BY DEF VbusEvent
<1> HIDE DEF q
<1>4. /\ {"SRC_STARTUP", "SRC_UNATTACHED"} \subseteq States
      /\ "SRC_STARTUP" # "INVALID_STATE"
  BY DEF States
<1>5. Armed(q) /\ (q.running => q.run)
  BY <1>2, SameControlArmed DEF SameControl, Control
<1>6. /\ Armed(SetNow(q, "SRC_STARTUP")) /\ Armed(SetNow(q, "SRC_UNATTACHED"))
      /\ Armed(SetAfter(q, "SRC_STARTUP"))
  BY <1>1, <1>4, <1>5, SetNowArmed, SetAfterArmed
<1> QED
  BY <1>3, <1>5, <1>6

LEMMA CcChangeArmed ==
    ASSUME NEW p \in Port, NEW cc \in CcPairs, Control(p), Armed(p)
    PROVE  Armed(CcChange(p, cc))
<1> DEFINE q == [p EXCEPT !.cc = cc]
           targets == {"SRC_ATTACH_WAIT", "SRC_UNATTACHED", "AUDIO_ACC_DEBOUNCE",
                       "AUDIO_ACC_ATTACHED", "ACC_UNATTACHED"}
<1>1. q \in Port
  BY DEF Port
<1>2. SameControl(p, q)
  BY DEF SameControl, Port
<1>3. targets \subseteq States
  BY DEF States
<1>4. CcChange(p, cc) = q \/ \E s \in targets : CcChange(p, cc) = SetNow(q, s)
  BY DEF CcChange
<1> HIDE DEF q, targets
<1>5. Armed(q) /\ (q.running => q.run)
  BY <1>2, SameControlArmed DEF SameControl, Control
<1> QED
  BY <1>1, <1>3, <1>4, <1>5, SetNowArmed

LEMMA CtrlRequestArmed ==
    ASSUME NEW p \in Port, NEW kind, Control(p), Armed(p)
    PROVE  Armed(CtrlRequest(p, kind))
<1> DEFINE n == IF p.pd_capable THEN NCaps - 1 ELSE p.caps_count
           q == [p EXCEPT !.caps_count = n]
<1>1. n \in 0..(NCaps + 1)
  BY CountsAssumption DEF Port
<1> HIDE DEF n
<1>2. q \in Port
  BY <1>1 DEF Port
<1>3. SameControl(p, q)
  BY DEF SameControl, Port
<1> HIDE DEF q
<1>4. {"SOFT_RESET_SEND", "SRC_SEND_CAPABILITIES", "SOFT_RESET", "VCONN_SWAP_ACCEPT",
       "VCONN_SWAP_TURN_OFF_VCONN"} \subseteq States
  BY DEF States
<1>5. \A s \in States : Armed(SetNow(p, s))
  BY SetNowArmed DEF Control
<1>6. Armed(SetNow(q, "SRC_SEND_CAPABILITIES"))
  BY <1>2, <1>3, <1>4, SetNowArmed DEF Control, SameControl
<1>7. SameControl(p, QueueMessage(p))
  BY DEF SameControl, QueueMessage, Port
<1>8. Armed(QueueMessage(p))
  BY <1>7, SameControlArmed
<1> QED
  BY <1>4, <1>5, <1>6, <1>8 DEF CtrlRequest, q, n

LEMMA DataRequestArmed ==
    ASSUME NEW p \in Port, NEW m, m.rdo \in Requests \cup {NoRequest}, Control(p), Armed(p)
    PROVE  Armed(DataRequest(p, m))
<1> DEFINE q == [p EXCEPT !.sink_request = m.rdo]
           b == (m.kind = "BIST_CARRIER2")
           r == [p EXCEPT !.bist_carrier2 = b]
<1>1. q \in Port
  BY DEF Port
<1>2. SameControl(p, q)
  BY DEF SameControl, Port
<1>3. b \in BOOLEAN
  OBVIOUS
<1> HIDE DEF b
<1>4. r \in Port
  BY <1>3 DEF Port
<1>5. SameControl(p, r)
  BY DEF SameControl, Port
<1> HIDE DEF q, r
<1>6. {"SRC_NEGOTIATE_CAPABILITIES", "HARD_RESET_SEND", "BIST_RX"} \subseteq States
  BY DEF States
<1>7. /\ Armed(SetNow(q, "SRC_NEGOTIATE_CAPABILITIES"))
      /\ Armed(SetNow(r, "BIST_RX"))
      /\ Armed(SetNow(p, "HARD_RESET_SEND"))
  BY <1>1, <1>2, <1>4, <1>5, <1>6, SetNowArmed DEF Control, SameControl
<1> QED
  BY <1>7 DEF DataRequest, SetNowCond, q, r, b

LEMMA RxHandlerArmed ==
    ASSUME NEW p \in Port, NEW m, m.rdo \in Requests \cup {NoRequest}, Control(p), Armed(p)
    PROVE  Armed(RxHandler(p, m))
<1>1. {"ERROR_RECOVERY", "GET_PPS_STATUS_SEND", "SRC_READY"} \subseteq States
  BY DEF States
<1>2. \A s \in States : Armed(SetNow(p, s))
  BY SetNowArmed DEF Control
<1>3. Armed(ExtRequest(p, m.kind))
  BY <1>1, <1>2 DEF ExtRequest
<1> QED
  BY <1>1, <1>2, <1>3, DataRequestArmed, CtrlRequestArmed DEF RxHandler

LEMMA PdDisableArmed ==
    ASSUME NEW p \in Port, Control(p), Armed(p) PROVE Armed(PdDisable(p))
<1> DEFINE q == [p EXCEPT !.force_disable_flag = TRUE]
<1>1. q \in Port
  BY DEF Port
<1>2. SameControl(p, q)
  BY DEF SameControl, Port
<1>3. "HARD_RESET_SEND" \in States
  BY DEF States
<1> HIDE DEF q
<1>4. Armed(q) /\ (q.running => q.run)
  BY <1>2, SameControlArmed DEF SameControl, Control
<1> QED
  BY <1>1, <1>3, <1>4, SetNowArmed DEF PdDisable, SetNowCond, q

\* tcpm_init ends by asking for a run of PORT_RESET.
LEMMA TcpmInitArmed ==
    ASSUME NEW p \in Port, NEW v \in BOOLEAN, NEW cc \in CcPairs, p.running => p.run
    PROVE  Armed(TcpmInit(p, v, cc))
<1> DEFINE r == ResetPort(p)
           q == [r EXCEPT !.vbus_present = v]
           u == SetNow(q, "SRC_UNATTACHED")
           c == CcChange(u, cc)
<1>1. r \in Port /\ (r.running => r.run)
  BY ResetPortType, ResetPortControl DEF SameControl
<1> HIDE DEF r
<1>2. q \in Port
  BY <1>1 DEF Port
<1>3. q.running = r.running /\ q.run = r.run
  BY <1>1 DEF Port
<1> HIDE DEF q
<1>4. {"SRC_UNATTACHED", "PORT_RESET"} \subseteq States
  BY DEF States
<1>5. u \in Port /\ Control(u)
  BY <1>1, <1>2, <1>3, <1>4, SetNowType, SetNowControl
<1> HIDE DEF u
<1>6. c \in Port /\ Control(c)
  BY <1>5, CcChangeType, CcChangeControl
<1> HIDE DEF c
<1> QED
  BY <1>4, <1>6, SetNowArmed DEF TcpmInit, c, u, q, r, Control

-----------------------------------------------------------------------------
(* One iteration of the state machine.                                     *)

\* The iteration for s ends with p: s is left, at once or by a timer.
Leaves(p, s) ==
    /\ p \in Port
    /\ p.state = s /\ s \in Transient => p.delayed_state # "INVALID_STATE"

LEMMA NowLeaves ==
    ASSUME NEW p \in Port, NEW s, NEW t \in States, t # s
    PROVE  Leaves(SetNow(p, t), s)
<1>1. SetNow(p, t).state = t
  BY DEF SetNow, Port
<1> QED
  BY <1>1, SetNowType DEF Leaves

LEMMA AfterLeaves ==
    ASSUME NEW p \in Port, NEW s, NEW t \in States, t # "INVALID_STATE"
    PROVE  Leaves(SetAfter(p, t), s)
<1>1. SetAfter(p, t).delayed_state = t
  BY DEF SetAfter, Port
<1> QED
  BY <1>1, SetAfterType DEF Leaves

LEMMA StayLeaves ==
    ASSUME NEW p \in Port, NEW s, s \notin Transient PROVE Leaves(p, s)
BY DEF Leaves

\* The hard reset is a way out of every state but itself.
LEMMA HardResetLeaves ==
    ASSUME NEW p \in Port
    PROVE  HardResetState(p) \in {"HARD_RESET_SEND", "ERROR_RECOVERY", "SRC_UNATTACHED"}
BY DEF HardResetState

\* A field that plays no part may be written last.
LEMMA SameControlLeaves ==
    ASSUME NEW p, NEW q \in Port, NEW s, Leaves(p, s), SameControl(p, q)
    PROVE  Leaves(q, s)
BY DEF Leaves, SameControl

\* The state machine goes on, or stops in a state that a timer will end.
LEMMA RanArmed ==
    ASSUME NEW p, Leaves(p, port.state), ControlInv', Ran(p)
    PROVE  TimerInv'
<1> DEFINE again == p.state # port.state /\ p.delayed_state = "INVALID_STATE"
           q == [p EXCEPT !.running = FALSE, !.run = FALSE]
<1>1. CASE again
  <2>1. pc' = "sm"
    BY <1>1 DEF Ran
  <2>2. port'.run
    BY <2>1 DEF ControlInv, Control
  <2> QED
    BY <2>2 DEF TimerInv, Armed
<1>2. CASE ~again
  <2>1. port' = q
    BY <1>2 DEF Ran, Becomes
  <2>2. q.state = p.state /\ q.delayed_state = p.delayed_state
    BY DEF Leaves, Port
  <2> HIDE DEF q
  <2>3. Armed(q)
    BY <1>2, <2>2 DEF Leaves, Armed
  <2> QED
    BY <2>1, <2>3 DEF TimerInv
<1> QED
  BY <1>1, <1>2

\* Every transient state is left at once or arms a timer, whatever becomes of the
\* message it sends.
LEMMA RunStateMachineArmed ==
    ASSUME TypeOK, ControlInv, ControlInv', RunStateMachine
    PROVE  TimerInv'
<1> DEFINE e == Entered
           s == port.state
<1>pc. pc = "sm"
  BY DEF RunStateMachine, SrcUnattached, SrcAttachWait, SrcAttached, SrcStartup,
     SrcDiscCable, SrcWaitCable, SrcSendCapabilities, SrcNegotiateCapabilities,
     SrcTransitionSupply, SrcReady, AccUnattached, AccAttached, AudioAccDebounce,
     HardResetSend, HardResetStart, SrcHardResetVbusOff, SrcHardResetVbusOn, SoftReset,
     SoftResetSend, VconnSwapAccept, VconnSwapStart, VconnSwapWaitForVconn,
     VconnSwapTurnOnVconn, VconnSwapTurnOffVconn, BistRx, IdleState, PortReset,
     PortResetWaitOff, SrcHardResetDisableRp, SrcHardResetVbusOffDisable, In
<1>0. At(e, s) /\ e \in Port
  BY <1>pc, EnteredRunning, EnteredType DEF At
<1>q. ASSUME NEW p, Leaves(p, s), Ran(p) PROVE TimerInv'
  BY <1>q, RanArmed
<1>a. ASSUME NEW p, NEW x, At(p, x) PROVE p \in Port
  BY <1>a DEF At, Running
<1>t. ASSUME NEW p \in Port, NEW r PROVE Transmit(p, r) \in Port
  BY <1>t, TransmitType
<1> HIDE DEF e
<1>1. CASE SrcUnattached
  <2>1. Detach(SetCc(e, "RP_3_0")) \in Port
    BY <1>0, <1>a, RegisterAt, DetachAt
  <2>2. s \notin Transient
    BY <1>1 DEF SrcUnattached, In, Transient
  <2> QED
    BY <1>1, <1>q, <2>1, <2>2, StayLeaves DEF SrcUnattached, e
<1>2. CASE SrcAttachWait
  <2>1. \A t \in {"DEBUG_ACC_ATTACHED", "AUDIO_ACC_ATTACHED", "SRC_ATTACHED"} :
           Leaves(SetAfter(e, t), s)
    BY <1>0, AfterLeaves DEF States
  <2>2. Leaves(e, s)
    BY <1>0, <1>2, StayLeaves DEF SrcAttachWait, In, Transient
  <2> QED
    BY <1>2, <1>q, <2>1, <2>2 DEF SrcAttachWait, e
<1>3. CASE SrcAttached
  <2>1. SetCc(SrcAttach(e), "RP_3_0") \in Port
    BY <1>0, <1>a, SrcAttachAt, RegisterAt
  <2>2. Leaves(SetAfter(SetCc(SrcAttach(e), "RP_3_0"), "SRC_UNATTACHED"), s)
    BY <2>1, AfterLeaves DEF States
  <2> QED
    BY <1>3, <1>q, <2>2 DEF SrcAttached, e
<1>4. CASE SrcStartup
  <2> DEFINE q == [e EXCEPT !.attached = TRUE, !.disc_cable_count = 0,
                            !.caps_count = 0, !.explicit_contract = FALSE,
                            !.last_pdo_index = 0]
  <2>1. q \in Port
    BY <1>0, <1>a, StartupAt
  <2> HIDE DEF q
  <2>2. Leaves(SetAfter(q, "SRC_DISC_CABLE"), s)
    BY <2>1, AfterLeaves DEF States
  <2> QED
    BY <1>4, <1>q, <2>2 DEF SrcStartup, e, q
<1>5. CASE SrcDiscCable
  <2>s. s = "SRC_DISC_CABLE"
    BY <1>5 DEF SrcDiscCable, In
  <2> DEFINE n == IF e.disc_cable_count > 2 THEN e.disc_cable_count
                  ELSE e.disc_cable_count + 1
             p == [e EXCEPT !.disc_cable_count = n]
  <2>1. n \in 0..3
    BY <1>0 DEF Port
  <2>2. p \in Port
    <3> HIDE DEF n
    <3> QED
      BY <1>0, <1>a, <2>1, DiscCountAt
  <2>3. \/ Ran(SetAfter(e, "SRC_SEND_CAPABILITIES"))
        \/ Ran(SetNow(p, "SRC_SEND_CAPABILITIES"))
        \/ \E r \in TxOutcomes, t \in {"SRC_WAIT_CABLE", "SRC_DISC_CABLE"} :
             Ran(SetAfter(Transmit(p, r), t))
    BY <1>5 DEF SrcDiscCable, e
  <2> HIDE DEF p
  <2>4. /\ Leaves(SetAfter(e, "SRC_SEND_CAPABILITIES"), s)
        /\ Leaves(SetNow(p, "SRC_SEND_CAPABILITIES"), s)
    BY <1>0, <2>s, <2>2, AfterLeaves, NowLeaves DEF States
  <2>5. ASSUME NEW r, NEW t \in {"SRC_WAIT_CABLE", "SRC_DISC_CABLE"}
        PROVE  Leaves(SetAfter(Transmit(p, r), t), s)
    BY <2>2, <1>t, AfterLeaves DEF States
  <2> QED
    BY <1>q, <2>3, <2>4, <2>5
<1>6. CASE SrcWaitCable
  <2>s. s = "SRC_WAIT_CABLE"
    BY <1>6 DEF SrcWaitCable, In
  <2>1. Leaves(SetNow(e, "SRC_SEND_CAPABILITIES"), s)
    BY <1>0, <2>s, NowLeaves DEF States
  <2> QED
    BY <1>6, <1>q, <2>1 DEF SrcWaitCable, e
<1>7. CASE SrcSendCapabilities
  <2>s. s = "SRC_SEND_CAPABILITIES"
    BY <1>7 DEF SrcSendCapabilities, In
  <2> DEFINE n == IF e.caps_count > NCaps THEN e.caps_count ELSE e.caps_count + 1
             p == [e EXCEPT !.caps_count = n]
             q == [p EXCEPT !.hard_reset_count = 0, !.caps_count = 0,
                            !.pd_capable = TRUE]
  <2>1. n \in 0..(NCaps + 1)
    BY <1>0, CountsAssumption DEF Port
  <2>2. At(p, s) /\ p \in Port
    <3> HIDE DEF n
    <3> QED
      BY <1>0, <1>a, <2>1, CapsCountAt
  <2>3. \/ Ran(SetNow(p, "SRC_READY"))
        \/ Ran(SetAfterCond(q, HardResetState(q)))
        \/ Ran(SetAfter(p, "SRC_SEND_CAPABILITIES"))
        \/ p.pd_capable /\ Ran(Transmit(p, "FAILED"))
    <3>1. p.pd_capable = e.pd_capable
      BY <1>0 DEF Port
    <3> QED
      BY <1>7, <3>1 DEF SrcSendCapabilities, CapsSent, e
  <2> HIDE DEF p
  <2>4. q \in Port /\ q.enter_state = q.state
    <3>1. 0 \in 0..(NCaps + 1) /\ 0 \in 0..NHard
      BY CountsAssumption
    <3>2. q \in Port
      BY <2>2, <3>1 DEF Port
    <3>3. q.enter_state = p.enter_state /\ q.state = p.state
      BY <2>2 DEF Port
    <3> QED
      BY <2>2, <3>2, <3>3 DEF At, Running
  <2> HIDE DEF q
  <2>5. /\ Leaves(SetNow(p, "SRC_READY"), s)
        /\ Leaves(SetAfter(p, "SRC_SEND_CAPABILITIES"), s)
    BY <2>s, <2>2, NowLeaves, AfterLeaves DEF States
  <2>6. Leaves(SetAfterCond(q, HardResetState(q)), s)
    BY <2>4, HardResetLeaves, AfterLeaves DEF SetAfterCond, States
  <2>7. p.pd_capable => Leaves(Transmit(p, "FAILED"), s)
    BY <2>s, <2>2, NowLeaves DEF Transmit, SetNowCond, At, Running, States
  <2> QED
    BY <1>q, <2>3, <2>5, <2>6, <2>7
<1>8. CASE SrcNegotiateCapabilities
  <2>s. s = "SRC_NEGOTIATE_CAPABILITIES"
    BY <1>8 DEF SrcNegotiateCapabilities, In
  <2> DEFINE p == CheckRequest(e)
  <2>1. p \in Port
    BY <1>0, <1>a, CheckRequestAt
  <2>2. \E r \in TxOutcomes : Ran(Accept(p, r)) \/ Ran(Reject(p, r))
    BY <1>8 DEF SrcNegotiateCapabilities, e
  <2> HIDE DEF p
  <2>t. {"SRC_READY", "SRC_WAIT_NEW_CAPABILITIES", "SRC_TRANSITION_SUPPLY"} \subseteq
          States \ {"INVALID_STATE", s}
    BY <2>s DEF States
  <2>3. ASSUME NEW r PROVE Leaves(Reject(p, r), s)
    BY <1>t, <2>1, <2>t, NowLeaves DEF Reject
  <2>4. ASSUME NEW r PROVE Leaves(Accept(p, r), s)
    <3> DEFINE q == Transmit(p, r)
               t == IF p.pdo_type = "APDO" /\ p.pdo_index = p.last_pdo_index
                    THEN SetNow(q, "SRC_TRANSITION_SUPPLY")
                    ELSE SetAfter(q, "SRC_TRANSITION_SUPPLY")
               n == p.pdo_index
               u == [t EXCEPT !.last_pdo_index = n]
    <3>1. q \in Port
      BY <1>t, <2>1
    <3>2. n \in Nat
      BY <2>1 DEF Port
    <3>3. Accept(p, r) = u
      BY DEF Accept
    <3> HIDE DEF q, n
    <3>4. Leaves(t, s)
      BY <2>t, <3>1, NowLeaves, AfterLeaves
    <3> HIDE DEF t
    <3>5. t \in Port
      BY <3>4 DEF Leaves
    <3>6. u \in Port
      BY <3>2, <3>5 DEF Port
    <3>7. SameControl(t, u)
      BY <3>5 DEF SameControl, Port
    <3> HIDE DEF u
    <3> QED
      BY <3>3, <3>4, <3>6, <3>7, SameControlLeaves
  <2> QED
    BY <1>q, <2>2, <2>3, <2>4
<1>9. CASE SrcTransitionSupply
  <2>s. s = "SRC_TRANSITION_SUPPLY"
    BY <1>9 DEF SrcTransitionSupply, In
  <2>1. ASSUME NEW r
        PROVE  Leaves(SetNowCond([Transmit(SetVbusHv(e), r)
                                    EXCEPT !.explicit_contract = TRUE], "SRC_READY"), s)
    <3> DEFINE t == Transmit(SetVbusHv(e), r)
               u == [t EXCEPT !.explicit_contract = TRUE]
    <3>1. t \in Port /\ t.enter_state = s
      BY <1>0, SetVbusHvAt, TransmitIterated DEF At, Running
    <3> HIDE DEF t
    <3>2. u \in Port
      BY <3>1 DEF Port
    <3>3. u.enter_state = t.enter_state
      BY <3>1 DEF Port
    <3> HIDE DEF u
    <3>4. Leaves(SetNow(u, "SRC_READY"), s)
      BY <2>s, <3>2, NowLeaves DEF States
    <3>5. u.enter_state # u.state => Leaves(u, s)
      BY <3>1, <3>2, <3>3 DEF Leaves
    <3>6. Leaves(SetNowCond(u, "SRC_READY"), s)
      BY <3>4, <3>5 DEF SetNowCond
    <3> QED
      BY <3>6 DEF u, t
  <2> QED
    BY <1>9, <1>q, <2>1 DEF SrcTransitionSupply, e
<1>10. CASE SrcReady
  <2> DEFINE p == IF port.explicit_contract /\ port.pdo_type = "APDO"
                  THEN SetAfterCond(e, HardResetState(e)) ELSE e
             q == [p EXCEPT !.hard_reset_count = 0]
  <2>1. p \in Port
    BY <1>0, HardResetStateType, SetAfterCondType
  <2>2. 0 \in 0..NHard
    BY CountsAssumption
  <2>3. s \notin Transient
    BY <1>10 DEF SrcReady, In, Transient
  <2>4. Ran(q)
    BY <1>10 DEF SrcReady, e
  <2> HIDE DEF p
  <2>5. q \in Port
    BY <2>1, <2>2 DEF Port
  <2> QED
    BY <1>q, <2>3, <2>4, <2>5, StayLeaves
<1>11. CASE AccUnattached
  <2>s. s = "ACC_UNATTACHED"
    BY <1>11 DEF AccUnattached, In
  <2>1. Detach(e) \in Port
    BY <1>0, <1>a, DetachAt
  <2>2. Leaves(SetNow(Detach(e), "SRC_UNATTACHED"), s)
    BY <2>s, <2>1, NowLeaves DEF States
  <2> QED
    BY <1>11, <1>q, <2>2 DEF AccUnattached, e
<1>12. CASE AccAttached
  <2>1. AccAttach(e) \in Port
    BY <1>0, <1>a, AccAttachAt
  <2>2. s \notin Transient
    BY <1>12 DEF AccAttached, In, Transient
  <2> QED
    BY <1>12, <1>q, <2>1, <2>2, StayLeaves DEF AccAttached, e
<1>13. CASE AudioAccDebounce
  <2>1. e \in Port
    BY <1>0, <1>a
  <2>2. Leaves(SetAfter(e, "ACC_UNATTACHED"), s)
    BY <2>1, AfterLeaves DEF States
  <2> QED
    BY <1>13, <1>q, <2>2 DEF AudioAccDebounce, e
<1>14. CASE HardResetSend
  <2>s. s = "HARD_RESET_SEND"
    BY <1>14 DEF HardResetSend, In
  <2>1. ASSUME NEW r PROVE Leaves(SetNow(Transmit(e, r), "HARD_RESET_START"), s)
    <3>1. Transmit(e, r) \in Port
      BY <1>0, <1>t
    <3> QED
      BY <2>s, <3>1, NowLeaves DEF States
  <2> QED
    BY <1>14, <1>q, <2>1 DEF HardResetSend, e
<1>15. CASE HardResetStart
  <2> DEFINE q == SetPdRx(e, FALSE)
             n == IF q.hard_reset_count < NHard THEN q.hard_reset_count + 1
                  ELSE q.hard_reset_count
             p == [q EXCEPT !.hard_reset_count = n]
  <2>1. q \in Port
    BY <1>0, <1>a, RegisterAt
  <2>2. \E t \in {"SRC_HARD_RESET_DISABLE_RP", "SRC_HARD_RESET_VBUS_OFF"} :
           Ran(SetAfter(p, t))
    BY <1>15 DEF HardResetStart, e
  <2> HIDE DEF q
  <2>3. n \in 0..NHard
    BY <2>1, CountsAssumption DEF Port
  <2> HIDE DEF n
  <2>4. p \in Port
    BY <2>1, <2>3 DEF Port
  <2> HIDE DEF p
  <2>5. \A t \in {"SRC_HARD_RESET_DISABLE_RP", "SRC_HARD_RESET_VBUS_OFF"} :
           Leaves(SetAfter(p, t), s)
    BY <2>4, AfterLeaves DEF States
  <2> QED
    BY <1>q, <2>2, <2>5
<1>16. CASE SrcHardResetVbusOff
  <2>1. SetVbus(SetVconn(e, FALSE), FALSE) \in Port
    BY <1>0, <1>a, RegisterAt
  <2>2. Leaves(SetAfter(SetVbus(SetVconn(e, FALSE), FALSE), "SRC_HARD_RESET_VBUS_ON"), s)
    BY <2>1, AfterLeaves DEF States
  <2> QED
    BY <1>16, <1>q, <2>2 DEF SrcHardResetVbusOff, e
<1>17. CASE SrcHardResetVbusOn
  <2> DEFINE p == SetVbus(SetPdRx(e, TRUE), TRUE)
             q == IF HasPoweredCable(p, p.polarity) THEN SetVconn(p, TRUE) ELSE p
  <2>1. p \in Port
    BY <1>0, <1>a, RegisterAt
  <2>2. q \in Port
    <3> HIDE DEF p
    <3> QED
      BY <2>1, RegisterType
  <2>3. Ran(SetAfter(q, "SRC_UNATTACHED"))
    BY <1>17 DEF SrcHardResetVbusOn, e
  <2> HIDE DEF q
  <2>4. Leaves(SetAfter(q, "SRC_UNATTACHED"), s)
    BY <2>2, AfterLeaves DEF States
  <2> QED
    BY <1>q, <2>3, <2>4
<1>18. CASE SoftReset
  <2>s. s = "SOFT_RESET"
    BY <1>18 DEF SoftReset, In
  <2>1. ASSUME NEW r PROVE Leaves(SetNow(Transmit(e, r), "SRC_SEND_CAPABILITIES"), s)
    <3>1. Transmit(e, r) \in Port
      BY <1>0, <1>t
    <3> QED
      BY <2>s, <3>1, NowLeaves DEF States
  <2> QED
    BY <1>18, <1>q, <2>1 DEF SoftReset, e
<1>19. CASE SoftResetSend
  <2>s. s = "SOFT_RESET_SEND"
    BY <1>19 DEF SoftResetSend, In
  <2>1. ASSUME NEW r
        PROVE  LET p == Transmit(e, r) IN
               /\ r = "SUCCESS" => Leaves(SetAfterCond(p, HardResetState(p)), s)
               /\ Leaves(SetNowCond(p, HardResetState(p)), s)
    <3> DEFINE p == Transmit(e, r)
               h == HardResetState(p)
    <3>1. p \in Port /\ p.enter_state = s
      BY <1>0, TransmitIterated DEF At, Running
    <3>2. r = "SUCCESS" => p.state = s
      BY <1>0 DEF Transmit, At
    <3> HIDE DEF p
    <3>3. h \in States /\ h # "INVALID_STATE" /\ h # s
      BY <2>s, <3>1, HardResetLeaves DEF States
    <3> HIDE DEF h
    <3>4. Leaves(SetAfter(p, h), s) /\ Leaves(SetNow(p, h), s)
      BY <3>1, <3>3, AfterLeaves, NowLeaves
    <3>5. p.enter_state # p.state => Leaves(p, s)
      BY <3>1 DEF Leaves
    <3>6. /\ r = "SUCCESS" => Leaves(SetAfterCond(p, h), s)
          /\ Leaves(SetNowCond(p, h), s)
      BY <3>1, <3>2, <3>4, <3>5 DEF SetAfterCond, SetNowCond
    <3> QED
      BY <3>6 DEF p, h
  <2> QED
    BY <1>19, <1>q, <2>1 DEF SoftResetSend, e
<1>20. CASE VconnSwapAccept
  <2>s. s = "VCONN_SWAP_ACCEPT"
    BY <1>20 DEF VconnSwapAccept, In
  <2>1. ASSUME NEW r PROVE Leaves(SetNow(Transmit(e, r), "VCONN_SWAP_START"), s)
    <3>1. Transmit(e, r) \in Port
      BY <1>0, <1>t
    <3> QED
      BY <2>s, <3>1, NowLeaves DEF States
  <2> QED
    BY <1>20, <1>q, <2>1 DEF VconnSwapAccept, e
<1>21. CASE VconnSwapStart
  <2>s. s = "VCONN_SWAP_START"
    BY <1>21 DEF VconnSwapStart, In
  <2>1. /\ Leaves(SetNow(e, "VCONN_SWAP_WAIT_FOR_VCONN"), s)
        /\ Leaves(SetNow(e, "VCONN_SWAP_TURN_ON_VCONN"), s)
    BY <1>0, <2>s, NowLeaves DEF States
  <2> QED
    BY <1>21, <1>q, <2>1 DEF VconnSwapStart, e
<1>22. CASE VconnSwapWaitForVconn
  <2>1. Leaves(SetAfter(e, HardResetState(e)), s)
    BY <1>0, HardResetLeaves, AfterLeaves DEF States
  <2> QED
    BY <1>22, <1>q, <2>1 DEF VconnSwapWaitForVconn, e
<1>23. CASE VconnSwapTurnOnVconn
  <2>s. s = "VCONN_SWAP_TURN_ON_VCONN"
    BY <1>23 DEF VconnSwapTurnOnVconn, In
  <2>1. ASSUME NEW r PROVE Leaves(SetNow(Transmit(SetVconn(e, TRUE), r), "SRC_READY"), s)
    <3>1. Transmit(SetVconn(e, TRUE), r) \in Port
      BY <1>0, RegisterType, <1>t
    <3> QED
      BY <2>s, <3>1, NowLeaves DEF States
  <2> QED
    BY <1>23, <1>q, <2>1 DEF VconnSwapTurnOnVconn, e
<1>24. CASE VconnSwapTurnOffVconn
  <2>s. s = "VCONN_SWAP_TURN_OFF_VCONN"
    BY <1>24 DEF VconnSwapTurnOffVconn, In
  <2>1. SetVconn(e, FALSE) \in Port
    BY <1>0, <1>a, RegisterAt
  <2>2. Leaves(SetNow(SetVconn(e, FALSE), "SRC_READY"), s)
    BY <2>s, <2>1, NowLeaves DEF States
  <2> QED
    BY <1>24, <1>q, <2>2 DEF VconnSwapTurnOffVconn, e
<1>25. CASE BistRx
  <2>1. ASSUME NEW r PROVE SetNow(Transmit(e, r), "SRC_UNATTACHED") \in Port
    BY <1>0, <1>t, SetNowType DEF States
  <2>2. s \notin Transient
    BY <1>25 DEF BistRx, In, Transient
  <2> QED
    BY <1>25, <1>0, <1>q, <2>1, <2>2, StayLeaves DEF BistRx, e
<1>26. CASE IdleState
  <2>1. s \notin Transient
    BY <1>26 DEF IdleState, In, Transient
  <2> QED
    BY <1>26, <1>0, <1>q, <2>1, StayLeaves DEF IdleState, e
<1>27. CASE PortReset
  <2>1. SetCc(ResetPort(e), "OPEN") \in Port
    BY <1>0, <1>a, ResetPortAt, RegisterAt
  <2>2. Leaves(SetAfter(SetCc(ResetPort(e), "OPEN"), "PORT_RESET_WAIT_OFF"), s)
    BY <2>1, AfterLeaves DEF States
  <2> QED
    BY <1>27, <1>q, <2>2 DEF PortReset, e
<1>28. CASE PortResetWaitOff
  <2>s. s = "PORT_RESET_WAIT_OFF"
    BY <1>28 DEF PortResetWaitOff, In
  <2>1. /\ Leaves(SetAfter(e, "SRC_UNATTACHED"), s)
        /\ Leaves(SetNow(e, "SRC_UNATTACHED"), s)
    BY <1>0, <2>s, AfterLeaves, NowLeaves DEF States
  <2> QED
    BY <1>28, <1>q, <2>1 DEF PortResetWaitOff, e
<1>29. CASE SrcHardResetDisableRp
  <2>1. SetCc(e, "OPEN") \in Port
    BY <1>0, <1>a, RegisterAt
  <2>2. Leaves(SetAfter(SetCc(e, "OPEN"), "SRC_HARD_RESET_VBUS_OFF_DISABLE"), s)
    BY <2>1, AfterLeaves DEF States
  <2> QED
    BY <1>29, <1>q, <2>2 DEF SrcHardResetDisableRp, e
<1>30. CASE SrcHardResetVbusOffDisable
  <2> DEFINE q == SetVbus(SetVconn(e, FALSE), FALSE)
             p == [q EXCEPT !.force_disable_flag = FALSE]
  <2>1. q \in Port
    BY <1>0, <1>a, RegisterAt
  <2>2. Ran(SetAfter(p, "SRC_UNATTACHED"))
    BY <1>30 DEF SrcHardResetVbusOffDisable, e
  <2> HIDE DEF q
  <2>3. p \in Port
    BY <2>1 DEF Port
  <2> HIDE DEF p
  <2>4. Leaves(SetAfter(p, "SRC_UNATTACHED"), s)
    BY <2>3, AfterLeaves DEF States
  <2> QED
    BY <1>q, <2>2, <2>4
<1> QED
  BY <1>1, <1>2, <1>3, <1>4, <1>5, <1>6, <1>7, <1>8, <1>9, <1>10, <1>11, <1>12,
     <1>13, <1>14, <1>15, <1>16, <1>17, <1>18, <1>19, <1>20, <1>21, <1>22, <1>23,
     <1>24, <1>25, <1>26, <1>27, <1>28, <1>29, <1>30 DEF RunStateMachine

-----------------------------------------------------------------------------
(* The rest of a pass.                                                     *)

LEMMA ProgramArmed ==
    ASSUME TypeOK, ControlInv, TimerInv, ControlInv', Program
    PROVE  TimerInv'
<1>0. /\ port \in Port /\ line \in Lines /\ vbus \in BOOLEAN
      /\ Control(port) /\ Armed(port)
  BY DEF TypeOK, ControlInv, TimerInv
<1>h. ASSUME NEW x, NEW p, Armed(p), Handle(x, p) PROVE TimerInv'
  BY <1>h DEF Handle, Becomes, TimerInv
<1>1. CASE Snapshot \/ ClearEvent \/ StoreEvents
  BY <1>1 DEF Snapshot, ClearEvent, StoreEvents, TimerInv
<1>2. CASE HandleReset
  BY <1>0, <1>2, <1>h, HardResetEventArmed DEF HandleReset
<1>3. CASE HandleVbus
  BY <1>0, <1>3, <1>h, VbusEventArmed DEF HandleVbus
<1>4. CASE HandleCc
  BY <1>0, <1>4, <1>h, ObservedType, CcChangeArmed DEF HandleCc
<1>5. CASE HandleRx
  <2>1. rx.rdo \in Requests \cup {NoRequest}
    BY MessagesAssumption DEF TypeOK, Message, NoMessage
  <2> QED
    BY <1>0, <1>5, <1>h, <2>1, RxHandlerArmed DEF HandleRx
<1>6. CASE StartWork
  <2>1. pc' = "sm"
    BY <1>6 DEF StartWork
  <2>2. port'.run
    BY <2>1 DEF ControlInv, Control
  <2> QED
    BY <2>2 DEF TimerInv, Armed
<1>7. CASE RunStateMachine
  BY <1>7, RunStateMachineArmed
<1>8. CASE TimerExpires \/ TimerWaits
  <2> DEFINE q == [port EXCEPT !.run = TRUE]
             p == Requeued
  <2>1. q \in Port
    BY <1>0 DEF Port
  <2>2. q.run = TRUE
    BY <1>0 DEF Port
  <2> HIDE DEF q
  <2>3. p \in {port, q}
    BY DEF Requeued, q
  <2> HIDE DEF p
  <2>4. p \in Port /\ (p.running => p.run) /\ Armed(p)
    BY <1>0, <2>1, <2>2, <2>3 DEF Armed, Control
  <2>5. Armed(SetNow(p, port.delayed_state))
    BY <1>0, <2>4, SetNowArmed DEF Port
  <2>6. port' \in {p, SetNow(p, port.delayed_state)}
    BY <1>8 DEF TimerExpires, TimerWaits, Becomes, p
  <2> QED
    BY <2>4, <2>5, <2>6 DEF TimerInv
<1> QED
  BY <1>1, <1>2, <1>3, <1>4, <1>5, <1>6, <1>7, <1>8 DEF Program

LEMMA EnvironmentArmed ==
    ASSUME TypeOK, ControlInv, TimerInv, Environment
    PROVE  TimerInv'
<1>0. /\ port \in Port /\ line \in Lines /\ vbus \in BOOLEAN /\ Control(port) /\ Armed(port)
      /\ (port.running => port.run)
  BY DEF TypeOK, ControlInv, TimerInv, Control
<1>1. CASE SwitchPressed
  BY <1>0, <1>1, PdDisableArmed DEF SwitchPressed, TimerInv
<1>2. CASE CcIrq \/ RxIrq \/ HardResetIrq \/ VbusIrq
  BY <1>2 DEF CcIrq, RxIrq, HardResetIrq, VbusIrq, TimerInv
<1>3. CASE TcpcReset
  <2> DEFINE a == SetCc(port, "OPEN")
             b == SetPdRx(a, FALSE)
             c == SetVconn(b, FALSE)
             d == SetVbus(c, FALSE)
  <2>1. a \in Port /\ SameControl(port, a)
    BY <1>0, RegisterType, RegisterControl
  <2> HIDE DEF a
  <2>2. b \in Port /\ SameControl(a, b)
    BY <2>1, RegisterType, RegisterControl
  <2> HIDE DEF b
  <2>3. c \in Port /\ SameControl(b, c)
    BY <2>2, RegisterType, RegisterControl
  <2> HIDE DEF c
  <2>4. d \in Port /\ SameControl(c, d)
    BY <2>3, SetVbusType, SetVbusControl
  <2> HIDE DEF d
  <2>5. d.running => d.run
    BY <1>0, <2>1, <2>2, <2>3, <2>4 DEF SameControl
  <2>6. Nothing \in CcPairs
    BY DEF Nothing, CcPairs, CcValues
  <2>7. PICK v \in BOOLEAN : port' = TcpmInit(d, v, Nothing)
    BY <1>0, <1>3 DEF TcpcReset, Discharged, d, c, b, a
  <2> QED
    BY <2>4, <2>5, <2>6, <2>7, TcpmInitArmed DEF TimerInv
<1>4. CASE McuReset
  <2> DEFINE q == Registered(port)
  <2>1. q \in Port /\ (q.running => q.run)
    BY <1>0, RegisteredType, RegisteredControl
  <2>2. PICK v \in BOOLEAN : port' = TcpmInit(q, v, Observed(port, line))
    BY <1>0, <1>4 DEF McuReset, Discharged
  <2> HIDE DEF q
  <2> QED
    BY <1>0, <2>1, <2>2, ObservedType, TcpmInitArmed DEF TimerInv
<1> QED
  BY <1>1, <1>2, <1>3, <1>4 DEF Environment

-----------------------------------------------------------------------------

\* A port that is not asked to run waits in no transient state without a timer,
\* whoever disarmed the timer that the state had armed.
THEOREM TimerInvariant ==
    ASSUME HeapRuns
    PROVE  Spec => []TimerInv
<1>1. Init => TimerInv
  <2> SUFFICES ASSUME Init PROVE TimerInv
    OBVIOUS
  <2>1. PICK h \in PowerOnHeap :
           port = TcpmInit(Registered(h), FALSE, Observed(h, line))
    BY DEF Init
  <2>2. h \in Port /\ line \in Lines /\ (h.running => h.run)
    BY HeapAssumption, HeapRuns DEF Init, HeapRuns
  <2> DEFINE q == Registered(h)
  <2>3. q \in Port /\ (q.running => q.run)
    BY <2>2, RegisteredType, RegisteredControl
  <2>4. port = TcpmInit(q, FALSE, Observed(h, line))
    BY <2>1
  <2> HIDE DEF q
  <2> QED
    BY <2>2, <2>3, <2>4, ObservedType, TcpmInitArmed DEF TimerInv
<1>2. TypeOK /\ ControlInv /\ (TypeOK /\ ControlInv)' /\ TimerInv /\ [Next]_vars
        => TimerInv'
  <2> SUFFICES ASSUME TypeOK, ControlInv, ControlInv', TimerInv, [Next]_vars
               PROVE  TimerInv'
    OBVIOUS
  <2>1. CASE Next
    BY <2>1, ProgramArmed, EnvironmentArmed DEF Next
  <2>2. CASE UNCHANGED vars
    BY <2>2 DEF vars, TimerInv
  <2> QED
    BY <2>1, <2>2
<1>3. Spec => [](TypeOK /\ ControlInv)
  BY ControlInvariant
<1> QED
  BY <1>1, <1>2, <1>3, PTL DEF Spec

\* At rest in a transient state, a timer is armed to leave it.
THEOREM TimersAreArmed ==
    ASSUME HeapRuns
    PROVE  Spec => []TimerArmed
<1>1. TimerInv => TimerArmed
  BY DEF TimerInv, Armed, TimerArmed, Resting
<1> QED
  BY <1>1, TimerInvariant, PTL

-----------------------------------------------------------------------------
(* Nothing stays sourced for nobody: NoOrphanVbus and NoOrphanVconn. All    *)
(* ways to detach pass tcpm_src_detach or tcpm_reset_port, so the inductive *)
(* invariant Kept says which states need something attached, that a hard    *)
(* reset is counted before VBUS comes back, and that the timer of a state   *)
(* that detaches leads nowhere that needs something attached.               *)

\* The states that need nothing attached.
Bare == {"INVALID_STATE", "SRC_UNATTACHED", "SRC_ATTACH_WAIT", "SRC_ATTACHED", "SRC_STARTUP",
         "ACC_UNATTACHED", "DEBUG_ACC_ATTACHED", "AUDIO_ACC_ATTACHED", "AUDIO_ACC_DEBOUNCE",
         "HARD_RESET_SEND", "HARD_RESET_START", "SRC_HARD_RESET_VBUS_OFF",
         "SRC_HARD_RESET_VBUS_ON", "ERROR_RECOVERY", "PORT_RESET", "PORT_RESET_WAIT_OFF",
         "SRC_HARD_RESET_DISABLE_RP", "SRC_HARD_RESET_VBUS_OFF_DISABLE"}

\* The states that detach, and those a hard reset passes once it is counted.
Detaching == {"SRC_UNATTACHED", "ACC_UNATTACHED", "PORT_RESET"}
Resets    == {"SRC_HARD_RESET_VBUS_OFF", "SRC_HARD_RESET_VBUS_ON"}
Counting  == {"HARD_RESET_START", "SRC_HARD_RESET_VBUS_OFF"}

\* What is sourced is sourced for something attached or after a hard reset.
Fed(p) ==
    /\ p.supply # 0 \/ p.vconn => p.attached \/ p.hard_reset_count # 0
    /\ p.state \in Resets \/ p.delayed_state \in Resets => p.hard_reset_count # 0
    /\ p.delayed_state \in Resets => p.state \in Counting
    /\ ~p.attached => p.state \in Bare /\ p.delayed_state \in Bare
    /\ p.state \in Detaching => p.delayed_state \in Bare
    /\ p.pd_capable => p.attached

\* A port that has run SRC_UNATTACHED is detached.
Kept(p) == Fed(p) /\ (p.enter_state = "SRC_UNATTACHED" => ~p.attached)

-----------------------------------------------------------------------------
(* What the helpers do to what a port sources.                             *)

\* q sources what p does for the same reasons, in another state perhaps.
SameFeed(p, q) ==
    /\ q.supply = p.supply /\ q.vconn = p.vconn /\ q.attached = p.attached
    /\ q.hard_reset_count = p.hard_reset_count /\ q.pd_capable = p.pd_capable
    /\ q.enter_state = p.enter_state

\* So it does, in the same state.
SameKept(p, q) ==
    SameFeed(p, q) /\ q.state = p.state /\ q.delayed_state = p.delayed_state

LEMMA SameKeptKeeps ==
    ASSUME NEW p, NEW q, SameKept(p, q)
    PROVE  (Kept(p) => Kept(q)) /\ (Fed(p) => Fed(q))
BY DEF SameKept, SameFeed, Kept, Fed

LEMMA NowFeed ==
    ASSUME NEW p \in Port, NEW s
    PROVE  /\ SameFeed(p, SetNow(p, s))
           /\ SetNow(p, s).state = s
           /\ SetNow(p, s).delayed_state = "INVALID_STATE"
<1>1. SameFeed(p, SetNow(p, s))
  BY DEF SameFeed, SetNow, Port
<1>2. SetNow(p, s).state = s /\ SetNow(p, s).delayed_state = "INVALID_STATE"
  BY DEF SetNow, Port
<1> QED
  BY <1>1, <1>2

LEMMA AfterFeed ==
    ASSUME NEW p \in Port, NEW s
    PROVE  /\ SameFeed(p, SetAfter(p, s))
           /\ SetAfter(p, s).state = p.state
           /\ SetAfter(p, s).delayed_state = s
<1>1. SameFeed(p, SetAfter(p, s))
  BY DEF SameFeed, SetAfter, Port
<1>2. SetAfter(p, s).state = p.state /\ SetAfter(p, s).delayed_state = s
  BY DEF SetAfter, Port
<1> QED
  BY <1>1, <1>2

\* Changing the state at once.
LEMMA NowKept ==
    ASSUME NEW p \in Port, Kept(p), NEW s \in States,
           s \in Bare \/ p.attached, s \in Resets => p.hard_reset_count # 0
    PROVE  SetNow(p, s) \in Port /\ Kept(SetNow(p, s))
<1>1. SetNow(p, s) \in Port
  BY SetNowType
<1>2. Kept(SetNow(p, s))
  BY NowFeed DEF Kept, Fed, SameFeed, Bare, Resets
<1> QED
  BY <1>1, <1>2

\* Arming a timer.
LEMMA AfterKept ==
    ASSUME NEW p \in Port, Kept(p), NEW s \in States,
           s \in Bare \/ (p.attached /\ p.state \notin Detaching),
           s \in Resets => p.hard_reset_count # 0 /\ p.state \in Counting
    PROVE  SetAfter(p, s) \in Port /\ Kept(SetAfter(p, s))
<1>1. SetAfter(p, s) \in Port
  BY SetAfterType
<1>2. Kept(SetAfter(p, s))
  BY AfterFeed DEF Kept, Fed, SameFeed
<1> QED
  BY <1>1, <1>2

LEMMA BareStates ==
    /\ Bare \subseteq States /\ Detaching \subseteq Bare /\ Resets \subseteq Bare
    /\ Resets \cap Detaching = {}
BY DEF Bare, States, Detaching, Resets

\* Where HardResetState leads, nothing needs to be attached.
LEMMA HardResetKept ==
    ASSUME NEW p \in Port, Kept(p), NEW q \in Port
    PROVE  LET h == HardResetState(q) IN
           /\ SetNow(p, h) \in Port /\ Kept(SetNow(p, h))
           /\ SetAfter(p, h) \in Port /\ Kept(SetAfter(p, h))
<1> DEFINE h == HardResetState(q)
<1>1. h \in Bare \ Resets
  BY DEF HardResetState, Bare, Resets
<1>2. h \in States
  BY HardResetStateType
<1> HIDE DEF h
<1>3. /\ SetNow(p, h) \in Port /\ Kept(SetNow(p, h))
      /\ SetAfter(p, h) \in Port /\ Kept(SetAfter(p, h))
  BY <1>1, <1>2, NowKept, AfterKept
<1> QED
  BY <1>3 DEF h

\* A message that fails in an exchange asks for a soft reset.
LEMMA TransmitKept ==
    ASSUME NEW p \in Port, Kept(p), NEW r
    PROVE  LET q == Transmit(p, r) IN
           /\ q \in Port /\ Kept(q) /\ SameFeed(p, q)
           /\ q.state \in {p.state, "SOFT_RESET_SEND"}
<1>1. "SOFT_RESET_SEND" \in States \ Resets
  BY DEF States, Resets
<1>2. p.pd_capable => p.attached
  BY DEF Kept, Fed
<1>3. SameFeed(p, p)
  BY DEF SameFeed
<1> QED
  BY <1>1, <1>2, <1>3, NowKept, NowFeed DEF Transmit, SetNowCond

LEMMA RegisterKept ==
    ASSUME NEW p \in Port, NEW x
    PROVE  SameKept(p, SetCc(p, x)) /\ SameKept(p, SetPdRx(p, x))
<1>1. SameKept(p, SetCc(p, x))
  BY DEF SameKept, SameFeed, SetCc, Port
<1>2. SameKept(p, SetPdRx(p, x))
  BY DEF SameKept, SameFeed, SetPdRx, Port
<1> QED
  BY <1>1, <1>2

\* VBUS and VCONN may go off, and on for something attached or a counted reset.
LEMMA VconnKept ==
    ASSUME NEW p \in Port, Kept(p), NEW on \in BOOLEAN,
           on => p.attached \/ p.hard_reset_count # 0
    PROVE  LET q == SetVconn(p, on) IN
           /\ q \in Port /\ Kept(q) /\ q.attached = p.attached /\ q.state = p.state
           /\ q.hard_reset_count = p.hard_reset_count
<1> DEFINE q == SetVconn(p, on)
<1>1. q \in Port
  BY RegisterType
<1>2. /\ q.vconn = on /\ q.supply = p.supply /\ q.attached = p.attached
      /\ q.hard_reset_count = p.hard_reset_count /\ q.pd_capable = p.pd_capable
      /\ q.enter_state = p.enter_state /\ q.state = p.state
      /\ q.delayed_state = p.delayed_state
  BY DEF SetVconn, Port
<1> HIDE DEF q
<1>3. Kept(q)
  BY <1>2 DEF Kept, Fed
<1> QED
  BY <1>1, <1>2, <1>3 DEF q

LEMMA VbusKept ==
    ASSUME NEW p \in Port, Kept(p), NEW on \in BOOLEAN,
           on => p.attached \/ p.hard_reset_count # 0
    PROVE  LET q == SetVbus(p, on) IN
           /\ q \in Port /\ Kept(q) /\ q.attached = p.attached /\ q.state = p.state
           /\ q.hard_reset_count = p.hard_reset_count
<1> DEFINE q == SetVbus(p, on)
<1>1. q \in Port
  BY SetVbusType
<1>2. /\ ~on => q.supply = 0
      /\ q.vconn = p.vconn /\ q.attached = p.attached
      /\ q.hard_reset_count = p.hard_reset_count /\ q.pd_capable = p.pd_capable
      /\ q.enter_state = p.enter_state /\ q.state = p.state
      /\ q.delayed_state = p.delayed_state
  BY DEF SetVbus, Port
<1> HIDE DEF q
<1>3. Kept(q)
  BY <1>2 DEF Kept, Fed
<1> QED
  BY <1>1, <1>2, <1>3 DEF q

LEMMA VbusHvKept ==
    ASSUME NEW p \in Port, Kept(p), p.attached
    PROVE  LET q == SetVbusHv(p) IN q \in Port /\ Kept(q)
<1> DEFINE q == SetVbusHv(p)
<1>1. q \in Port
  BY SetVbusHvType
<1>2. /\ q.vconn = p.vconn /\ q.attached = p.attached
      /\ q.hard_reset_count = p.hard_reset_count /\ q.pd_capable = p.pd_capable
      /\ q.enter_state = p.enter_state /\ q.state = p.state
      /\ q.delayed_state = p.delayed_state
  BY DEF SetVbusHv, Port
<1> HIDE DEF q
<1>3. Kept(q)
  BY <1>2 DEF Kept, Fed
<1> QED
  BY <1>1, <1>3 DEF q

\* A port that sources nothing and has nothing attached.
Idle(p) == p.supply = 0 /\ ~p.vconn /\ ~p.attached /\ ~p.pd_capable

LEMMA ResetPortIdle ==
    ASSUME NEW p \in Port
    PROVE  LET q == ResetPort(p) IN
           /\ q \in Port /\ Idle(q)
           /\ q.hard_reset_count = p.hard_reset_count
           /\ q.state = p.state /\ q.delayed_state = p.delayed_state
<1> DEFINE a == SetVconn(p, FALSE)
           b == SetVbus(a, FALSE)
           q == [b EXCEPT !.attached = FALSE, !.pd_capable = FALSE, !.supply_voltage = 0]
<1>0. a \in Port
  BY RegisterType
<1>1. /\ ~a.vconn /\ a.hard_reset_count = p.hard_reset_count
      /\ a.state = p.state /\ a.delayed_state = p.delayed_state
  BY DEF SetVconn, Port
<1> HIDE DEF a
<1>2. b \in Port
  BY <1>0, SetVbusType
<1>3. /\ b.supply = 0 /\ b.vconn = a.vconn /\ b.hard_reset_count = a.hard_reset_count
      /\ b.state = a.state /\ b.delayed_state = a.delayed_state
  BY <1>0 DEF SetVbus, Port
<1> HIDE DEF b
<1>4. /\ q.supply = b.supply /\ q.vconn = b.vconn /\ ~q.attached /\ ~q.pd_capable
      /\ q.hard_reset_count = b.hard_reset_count
      /\ q.state = b.state /\ q.delayed_state = b.delayed_state
  BY <1>2 DEF Port
<1>5. q = ResetPort(p)
  BY DEF ResetPort, b, a
<1> HIDE DEF q
<1> QED
  BY <1>1, <1>3, <1>4, <1>5, ResetPortType DEF Idle

\* tcpm_reset_port, in a state that needs nothing attached.
LEMMA ResetPortKept ==
    ASSUME NEW p \in Port, Fed(p), p.state \in Detaching
    PROVE  ResetPort(p) \in Port /\ Kept(ResetPort(p))
<1> DEFINE q == ResetPort(p)
<1>1. /\ q \in Port /\ Idle(q) /\ q.hard_reset_count = p.hard_reset_count
      /\ q.state = p.state /\ q.delayed_state = p.delayed_state
  BY ResetPortIdle
<1> HIDE DEF q
<1>2. Kept(q)
  BY <1>1, BareStates DEF Kept, Fed, Idle
<1> QED
  BY <1>1, <1>2 DEF q

\* tcpm_detach leaves nothing attached, whatever it did.
LEMMA DetachKept ==
    ASSUME NEW p \in Port, Fed(p), p.state \in Detaching
    PROVE  Detach(p) \in Port /\ Kept(Detach(p))
<1>1. CASE ~p.attached
  BY <1>1 DEF Detach, Kept
<1>2. CASE p.attached
  <2> DEFINE n == IF IsDisconnected(p) THEN 0 ELSE p.hard_reset_count
             q == [p EXCEPT !.hard_reset_count = n]
  <2>1. n \in 0..NHard
    BY CountsAssumption DEF Port
  <2>2. Detach(p) = ResetPort(q)
    BY <1>2 DEF Detach
  <2> HIDE DEF n
  <2>3. q \in Port
    BY <2>1 DEF Port
  <2>4. /\ q.attached = p.attached /\ q.pd_capable = p.pd_capable
        /\ q.state = p.state /\ q.delayed_state = p.delayed_state
    BY DEF Port
  <2> HIDE DEF q
  <2>5. p.state \notin Resets /\ p.delayed_state \notin Resets
    BY BareStates DEF Fed, Counting, Detaching, Resets
  <2>6. Fed(q)
    BY <1>2, <2>4, <2>5 DEF Fed
  <2> QED
    BY <2>2, <2>3, <2>4, <2>6, ResetPortKept
<1> QED
  BY <1>1, <1>2

\* What is attached may be fed.
LEMMA AttachKept ==
    ASSUME NEW p, NEW q \in Port, Kept(p), p.enter_state # "SRC_UNATTACHED",
           q.attached, q.hard_reset_count = p.hard_reset_count,
           q.enter_state = p.enter_state, q.state = p.state,
           q.delayed_state = p.delayed_state
    PROVE  Kept(q)
BY DEF Kept, Fed

LEMMA SrcAttachKept ==
    ASSUME NEW p \in Port, Kept(p), p.enter_state # "SRC_UNATTACHED"
    PROVE  LET q == SrcAttach(p) IN q \in Port /\ Kept(q)
<1>1. CASE p.attached
  BY <1>1 DEF SrcAttach
<1>2. CASE ~p.attached
  <2> DEFINE polarity == IF p.cc[2] = "RD" THEN "CC2" ELSE "CC1"
             o == [p EXCEPT !.polarity = polarity]
             q == SetPdRx(o, TRUE)
             v == IF HasPoweredCable(p, polarity) THEN SetVconn(q, TRUE) ELSE q
             w == SetVbus(v, TRUE)
             z == [w EXCEPT !.pd_capable = FALSE, !.attached = TRUE]
  <2>1. polarity \in {"CC1", "CC2", "NONE"}
    OBVIOUS
  <2> HIDE DEF polarity
  <2>2. o \in Port
    BY <2>1 DEF Port
  <2>3. o.hard_reset_count = p.hard_reset_count /\ SameControl(p, o)
    BY DEF SameControl, Port
  <2> HIDE DEF o
  <2>4. q \in Port /\ SameControl(o, q)
    BY <2>2, RegisterType, RegisterControl
  <2>5. q.hard_reset_count = o.hard_reset_count
    BY <2>2 DEF SetPdRx, Port
  <2> HIDE DEF q
  <2>6. v \in Port /\ SameControl(q, v)
    <3>1. SameControl(q, q)
      BY DEF SameControl
    <3> QED
      BY <2>4, <3>1, RegisterType, RegisterControl
  <2>7. v.hard_reset_count = q.hard_reset_count
    BY <2>4 DEF SetVconn, Port
  <2> HIDE DEF v
  <2>8. w \in Port /\ SameControl(v, w)
    BY <2>6, SetVbusType, SetVbusControl
  <2>9. w.hard_reset_count = v.hard_reset_count
    BY <2>6 DEF SetVbus, Port
  <2> HIDE DEF w
  <2>10. z \in Port
    BY <2>8 DEF Port
  <2>11. z.attached /\ z.hard_reset_count = w.hard_reset_count /\ SameControl(w, z)
    BY <2>8 DEF SameControl, Port
  <2>12. SrcAttach(p) = z
    BY <1>2 DEF SrcAttach, z, w, v, q, o, polarity
  <2> HIDE DEF z
  <2> QED
    BY <2>3, <2>4, <2>5, <2>6, <2>7, <2>8, <2>9, <2>10, <2>11, <2>12, AttachKept
       DEF SameControl
<1> QED
  BY <1>1, <1>2

LEMMA AccAttachKept ==
    ASSUME NEW p \in Port, Kept(p), p.enter_state # "SRC_UNATTACHED"
    PROVE  AccAttach(p) \in Port /\ Kept(AccAttach(p))
<1> DEFINE q == AccAttach(p)
<1>1. q \in Port
  BY AccAttachType
<1>2. q.attached /\ q.hard_reset_count = p.hard_reset_count /\ SameControl(p, q)
  BY DEF AccAttach, SameControl, Port
<1> HIDE DEF q
<1> QED
  BY <1>1, <1>2, AttachKept DEF SameControl, q

LEMMA StartupKept ==
    ASSUME NEW p \in Port, Kept(p), p.enter_state # "SRC_UNATTACHED"
    PROVE  LET q == [p EXCEPT !.attached = TRUE, !.disc_cable_count = 0, !.caps_count = 0,
                              !.explicit_contract = FALSE, !.last_pdo_index = 0]
           IN  q \in Port /\ Kept(q) /\ q.attached /\ q.state = p.state
<1> DEFINE q == [p EXCEPT !.attached = TRUE, !.disc_cable_count = 0, !.caps_count = 0,
                          !.explicit_contract = FALSE, !.last_pdo_index = 0]
<1>1. 0 \in 0..3 /\ 0 \in 0..(NCaps + 1) /\ 0 \in Nat
  BY CountsAssumption
<1>2. q \in Port
  BY <1>1 DEF Port
<1>3. q.attached /\ q.hard_reset_count = p.hard_reset_count /\ SameControl(p, q)
  BY DEF SameControl, Port
<1> HIDE DEF q
<1>4. Kept(q)
  BY <1>2, <1>3, AttachKept DEF SameControl
<1> QED
  BY <1>2, <1>3, <1>4 DEF SameControl, q

\* hard_reset_count is cleared only for something attached.
LEMMA CountKept ==
    ASSUME NEW p \in Port, Kept(p), NEW n \in 0..NHard,
           n = 0 => p.attached /\ p.state \notin Resets \cup Counting
    PROVE  LET q == [p EXCEPT !.hard_reset_count = n] IN
           /\ q \in Port /\ Kept(q) /\ q.hard_reset_count = n /\ q.state = p.state
<1> DEFINE q == [p EXCEPT !.hard_reset_count = n]
<1>1. q \in Port
  BY DEF Port
<1>2. /\ q.hard_reset_count = n
      /\ q.vconn = p.vconn /\ q.attached = p.attached /\ q.supply = p.supply
      /\ q.pd_capable = p.pd_capable /\ q.enter_state = p.enter_state
      /\ q.state = p.state /\ q.delayed_state = p.delayed_state
  BY DEF Port
<1> HIDE DEF q
<1>3. Kept(q)
  BY <1>2 DEF Kept, Fed
<1> QED
  BY <1>1, <1>2, <1>3 DEF q

-----------------------------------------------------------------------------
(* Events, messages, the button and the resets.                            *)

LEMMA HardResetEventKept ==
    ASSUME NEW p \in Port, Kept(p) PROVE Kept(HardResetEvent(p))
<1>1. {"HARD_RESET_START", "ERROR_RECOVERY"} \subseteq (States \cap Bare) \ Resets
  BY DEF States, Bare, Resets
<1> QED
  BY <1>1, NowKept DEF HardResetEvent

LEMMA VbusEventKept ==
    ASSUME NEW p \in Port, NEW on \in BOOLEAN, Kept(p)
    PROVE  Kept(VbusEvent(p, on))
<1> DEFINE q == [p EXCEPT !.vbus_present = on]
<1>1. q \in Port
  BY DEF Port
<1>2. SameKept(p, q)
  BY DEF SameKept, SameFeed, Port
<1>3. VbusEvent(p, on) \in {q, SetNow(q, "SRC_STARTUP"), SetAfter(q, "SRC_STARTUP"),
                           SetNow(q, "SRC_UNATTACHED")}
  BY DEF VbusEvent
<1> HIDE DEF q
<1>4. Kept(q)
  BY <1>2, SameKeptKeeps
<1>5. {"SRC_STARTUP", "SRC_UNATTACHED"} \subseteq (States \cap Bare) \ Resets
  BY DEF States, Bare, Resets
<1> QED
  BY <1>1, <1>3, <1>4, <1>5, NowKept, AfterKept

LEMMA CcChangeIs ==
    ASSUME NEW p \in Port, NEW cc \in CcPairs
    PROVE  LET q == [p EXCEPT !.cc = cc] IN
           /\ q \in Port /\ SameKept(p, q)
           /\ \/ CcChange(p, cc) = q
              \/ \E s \in (States \cap Bare) \ Resets : CcChange(p, cc) = SetNow(q, s)
<1> DEFINE q == [p EXCEPT !.cc = cc]
           targets == {"SRC_ATTACH_WAIT", "SRC_UNATTACHED", "AUDIO_ACC_DEBOUNCE",
                       "AUDIO_ACC_ATTACHED", "ACC_UNATTACHED"}
<1>1. q \in Port
  BY DEF Port
<1>2. SameKept(p, q)
  BY DEF SameKept, SameFeed, Port
<1>3. CcChange(p, cc) = q \/ \E s \in targets : CcChange(p, cc) = SetNow(q, s)
  <2> HIDE DEF q
  <2> QED
    BY DEF CcChange, q
<1>4. targets \subseteq (States \cap Bare) \ Resets
  BY DEF States, Bare, Resets
<1> QED
  BY <1>1, <1>2, <1>3, <1>4

LEMMA CcChangeKept ==
    ASSUME NEW p \in Port, NEW cc \in CcPairs, Kept(p)
    PROVE  Kept(CcChange(p, cc))
<1> DEFINE q == [p EXCEPT !.cc = cc]
<1>1. /\ q \in Port /\ SameKept(p, q)
      /\ \/ CcChange(p, cc) = q
         \/ \E s \in (States \cap Bare) \ Resets : CcChange(p, cc) = SetNow(q, s)
  BY CcChangeIs
<1> HIDE DEF q
<1> QED
  BY <1>1, SameKeptKeeps, NowKept

LEMMA QueueMessageKept ==
    ASSUME NEW p \in Port, Kept(p) PROVE Kept(QueueMessage(p))
<1>1. SameKept(p, QueueMessage(p))
  BY DEF SameKept, SameFeed, QueueMessage, Port
<1> QED
  BY <1>1, SameKeptKeeps

\* With something attached, every message keeps it fed.
LEMMA CtrlRequestKept ==
    ASSUME NEW p \in Port, NEW kind, Kept(p), p.attached
    PROVE  Kept(CtrlRequest(p, kind))
<1> DEFINE n == IF p.pd_capable THEN NCaps - 1 ELSE p.caps_count
           q == [p EXCEPT !.caps_count = n]
<1>1. n \in 0..(NCaps + 1)
  BY CountsAssumption DEF Port
<1>2. q \in Port /\ SameKept(p, q)
  <2> HIDE DEF n
  <2>1. q \in Port
    BY <1>1 DEF Port
  <2>2. SameKept(p, q)
    BY DEF SameKept, SameFeed, Port
  <2> QED
    BY <2>1, <2>2
<1>3. \A s \in States \ Resets : Kept(SetNow(p, s))
  BY NowKept
<1>4. \A s \in States \ Resets : Kept(SetNow(q, s))
  <2> HIDE DEF q
  <2> QED
    BY <1>2, SameKeptKeeps, NowKept DEF SameKept, SameFeed
<1>5. Kept(QueueMessage(p))
  BY QueueMessageKept
<1> HIDE DEF n
<1>6. {"SRC_SEND_CAPABILITIES", "SOFT_RESET_SEND", "VCONN_SWAP_TURN_OFF_VCONN",
       "SOFT_RESET", "VCONN_SWAP_ACCEPT"} \subseteq States \ Resets
  BY DEF States, Resets
<1> QED
  BY <1>3, <1>4, <1>5, <1>6 DEF CtrlRequest, n, q

LEMMA DataRequestKept ==
    ASSUME NEW p \in Port, NEW m, m.rdo \in Requests \cup {NoRequest}, Kept(p), p.attached
    PROVE  Kept(DataRequest(p, m))
<1> DEFINE q == [p EXCEPT !.sink_request = m.rdo]
           b == (m.kind = "BIST_CARRIER2")
           r == [p EXCEPT !.bist_carrier2 = b]
<1>1. q \in Port
  BY DEF Port
<1>2. SameKept(p, q)
  BY DEF SameKept, SameFeed, Port
<1>3. b \in BOOLEAN
  OBVIOUS
<1> HIDE DEF b, q
<1>4. r \in Port
  BY <1>3 DEF Port
<1>5. SameKept(p, r)
  BY DEF SameKept, SameFeed, Port
<1> HIDE DEF r
<1>6. {"SRC_NEGOTIATE_CAPABILITIES", "HARD_RESET_SEND", "BIST_RX"} \subseteq States \ Resets
  BY DEF States, Resets
<1>7. Kept(SetNow(q, "SRC_NEGOTIATE_CAPABILITIES")) /\ Kept(SetNow(r, "BIST_RX"))
  BY <1>1, <1>2, <1>4, <1>5, <1>6, SameKeptKeeps, NowKept DEF SameKept, SameFeed
<1>8. Kept(SetNowCond(p, "HARD_RESET_SEND"))
  BY <1>6, NowKept DEF SetNowCond
<1> QED
  BY <1>7, <1>8 DEF DataRequest, q, r, b

LEMMA RxHandlerKept ==
    ASSUME NEW p \in Port, NEW m, m.rdo \in Requests \cup {NoRequest}, Kept(p)
    PROVE  Kept(RxHandler(p, m))
<1> SUFFICES ASSUME p.attached PROVE Kept(RxHandler(p, m))
  BY DEF RxHandler
<1>1. {"ERROR_RECOVERY", "GET_PPS_STATUS_SEND", "SRC_READY"} \subseteq States \ Resets
  BY DEF States, Resets
<1>2. Kept(ExtRequest(p, m.kind)) /\ Kept(SetNow(p, "ERROR_RECOVERY"))
  BY <1>1, NowKept DEF ExtRequest
<1> QED
  BY <1>2, CtrlRequestKept, DataRequestKept DEF RxHandler

LEMMA PdDisableKept ==
    ASSUME NEW p \in Port, Kept(p) PROVE Kept(PdDisable(p))
<1> DEFINE q == [p EXCEPT !.force_disable_flag = TRUE]
<1>1. q \in Port
  BY DEF Port
<1>2. SameKept(p, q)
  BY DEF SameKept, SameFeed, Port
<1> HIDE DEF q
<1>3. "HARD_RESET_SEND" \in (States \cap Bare) \ Resets
  BY DEF States, Bare, Resets
<1> QED
  BY <1>1, <1>2, <1>3, SameKeptKeeps, NowKept DEF PdDisable, SetNowCond, q

\* Whatever a port sourced, tcpm_init switches it off.
LEMMA TcpmInitKept ==
    ASSUME NEW p \in Port, NEW v \in BOOLEAN, NEW cc \in CcPairs
    PROVE  Kept(TcpmInit(p, v, cc))
<1> DEFINE r == ResetPort(p)
           q == [r EXCEPT !.vbus_present = v]
           u == SetNow(q, "SRC_UNATTACHED")
           c == CcChange(u, cc)
<1>1. r \in Port /\ Idle(r)
  BY ResetPortIdle
<1> HIDE DEF r
<1>2. q \in Port
  BY <1>1 DEF Port
<1>3. SameKept(r, q)
  BY <1>1 DEF SameKept, SameFeed, Port
<1> HIDE DEF q
<1>4. {"SRC_UNATTACHED", "PORT_RESET"} \subseteq States
  BY DEF States
<1>5. u \in Port /\ SameFeed(q, u)
  BY <1>2, <1>4, SetNowType, NowFeed
<1> HIDE DEF u
<1>6. c \in Port
  BY <1>5, CcChangeType
<1>7. SameFeed(u, c)
  <2> DEFINE x == [u EXCEPT !.cc = cc]
  <2>1. /\ x \in Port /\ SameFeed(u, x)
        /\ c = x \/ \E s \in States : c = SetNow(x, s)
    BY <1>5, CcChangeIs DEF SameKept
  <2> HIDE DEF x, c
  <2> QED
    BY <2>1, NowFeed DEF SameFeed
<1> HIDE DEF c
<1> DEFINE d == SetNow(c, "PORT_RESET")
<1>8. SameFeed(c, d) /\ d.state = "PORT_RESET" /\ d.delayed_state = "INVALID_STATE"
  BY <1>6, NowFeed
<1>9. d = TcpmInit(p, v, cc)
  BY DEF TcpmInit, d, c, u, q, r
<1> HIDE DEF d
<1>10. Idle(d)
  BY <1>1, <1>3, <1>5, <1>7, <1>8 DEF Idle, SameKept, SameFeed
<1>11. Kept(d)
  BY <1>8, <1>10 DEF Kept, Fed, Idle, Bare, Resets, Counting, Detaching
<1> QED
  BY <1>9, <1>11

-----------------------------------------------------------------------------
(* The state machine.                                                      *)

LEMMA RanKept ==
    ASSUME NEW p \in Port, Kept(p), Ran(p) PROVE Kept(port')
<1> DEFINE q == [p EXCEPT !.running = FALSE, !.run = FALSE]
<1>1. SameKept(p, q)
  BY DEF SameKept, SameFeed, Port
<1>2. port' \in {p, q}
  BY DEF Ran, Becomes
<1> HIDE DEF q
<1> QED
  BY <1>1, <1>2, SameKeptKeeps

LEMMA EnteredKept ==
    ASSUME port \in Port, Kept(port)
    PROVE  /\ Entered \in Port /\ Fed(Entered)
           /\ Entered.state = port.state /\ Entered.enter_state = port.state
           /\ Entered.delayed_state = port.delayed_state
           /\ Entered.attached = port.attached
           /\ Entered.hard_reset_count = port.hard_reset_count
           /\ port.state # "SRC_UNATTACHED" => Kept(Entered)
<1> DEFINE s == port.state
           e == [port EXCEPT !.enter_state = s]
<1>1. s \in States
  BY DEF Port
<1>2. e \in Port
  BY <1>1 DEF Port
<1>3. /\ e.enter_state = s /\ e.state = port.state
      /\ e.supply = port.supply /\ e.vconn = port.vconn /\ e.attached = port.attached
      /\ e.hard_reset_count = port.hard_reset_count /\ e.pd_capable = port.pd_capable
      /\ e.delayed_state = port.delayed_state
  BY DEF Port
<1>4. e = Entered
  BY DEF Entered
<1> HIDE DEF e
<1> QED
  BY <1>2, <1>3, <1>4 DEF Kept, Fed

LEMMA RunStateMachineKept ==
    ASSUME TypeOK, Kept(port), RunStateMachine
    PROVE  Kept(port')
<1> DEFINE e == Entered
           s == port.state
<1>0. /\ e \in Port /\ Fed(e) /\ e.state = s /\ e.enter_state = s
      /\ e.delayed_state = port.delayed_state /\ e.attached = port.attached
      /\ e.hard_reset_count = port.hard_reset_count
      /\ s # "SRC_UNATTACHED" => Kept(e)
  BY EnteredKept DEF TypeOK
<1>a. s \notin Bare => e.attached
  BY <1>0 DEF Fed
<1>q. ASSUME NEW p, p \in Port /\ Kept(p), Ran(p) PROVE Kept(port')
  BY <1>q, RanKept
<1>b. /\ {"SRC_UNATTACHED", "ACC_UNATTACHED", "DEBUG_ACC_ATTACHED", "AUDIO_ACC_ATTACHED",
          "SRC_ATTACHED", "HARD_RESET_START", "PORT_RESET_WAIT_OFF",
          "SRC_HARD_RESET_DISABLE_RP", "SRC_HARD_RESET_VBUS_OFF_DISABLE"}
            \subseteq (States \cap Bare) \ Resets
      /\ {"SRC_DISC_CABLE", "SRC_WAIT_CABLE", "SRC_SEND_CAPABILITIES", "SRC_READY",
          "SRC_WAIT_NEW_CAPABILITIES", "SRC_TRANSITION_SUPPLY", "VCONN_SWAP_START",
          "VCONN_SWAP_WAIT_FOR_VCONN", "VCONN_SWAP_TURN_ON_VCONN"}
            \subseteq States \ Resets
      /\ Resets \subseteq States \cap Bare
  BY DEF States, Bare, Resets
<1>n. ASSUME NEW p, p \in Port /\ Kept(p),
             NEW t \in {"SRC_UNATTACHED", "ACC_UNATTACHED", "DEBUG_ACC_ATTACHED",
                        "AUDIO_ACC_ATTACHED", "SRC_ATTACHED", "HARD_RESET_START",
                        "PORT_RESET_WAIT_OFF", "SRC_HARD_RESET_DISABLE_RP",
                        "SRC_HARD_RESET_VBUS_OFF_DISABLE"}
      PROVE  /\ SetNow(p, t) \in Port /\ Kept(SetNow(p, t))
             /\ SetAfter(p, t) \in Port /\ Kept(SetAfter(p, t))
  BY <1>b, <1>n, NowKept, AfterKept
<1>m. ASSUME NEW p, p \in Port /\ Kept(p), p.attached,
             NEW t \in {"SRC_DISC_CABLE", "SRC_WAIT_CABLE", "SRC_SEND_CAPABILITIES",
                        "SRC_READY", "SRC_WAIT_NEW_CAPABILITIES", "SRC_TRANSITION_SUPPLY",
                        "VCONN_SWAP_START", "VCONN_SWAP_WAIT_FOR_VCONN",
                        "VCONN_SWAP_TURN_ON_VCONN"}
      PROVE  /\ SetNow(p, t) \in Port /\ Kept(SetNow(p, t))
             /\ p.state \notin Detaching =>
                   SetAfter(p, t) \in Port /\ Kept(SetAfter(p, t))
  BY <1>b, <1>m, NowKept, AfterKept
<1>t. ASSUME NEW p, p \in Port /\ Kept(p), NEW r
      PROVE  LET q == Transmit(p, r) IN
             /\ q \in Port /\ Kept(q) /\ q.attached = p.attached
             /\ q.hard_reset_count = p.hard_reset_count /\ q.enter_state = p.enter_state
             /\ q.state \in {p.state, "SOFT_RESET_SEND"}
  BY <1>t, TransmitKept DEF SameFeed
<1>h. ASSUME NEW p, p \in Port /\ Kept(p)
      PROVE  LET h == HardResetState(p) IN
             /\ SetNow(p, h) \in Port /\ Kept(SetNow(p, h))
             /\ SetAfter(p, h) \in Port /\ Kept(SetAfter(p, h))
  BY <1>h, HardResetKept
<1>c. ASSUME NEW p, p \in Port /\ Kept(p), NEW rp \in {"OPEN", "RP_1_5", "RP_3_0"}
      PROVE  SetCc(p, rp) \in Port /\ Kept(SetCc(p, rp))
  BY <1>c, RegisterType, RegisterKept, SameKeptKeeps
<1>o. /\ "SOFT_RESET_SEND" \notin Detaching \cup Resets \cup Counting
      /\ FALSE \in BOOLEAN /\ TRUE \in BOOLEAN
  BY DEF Detaching, Resets, Counting
<1> HIDE DEF e
<1>1. CASE SrcUnattached
  <2> DEFINE p == SetCc(e, "RP_3_0")
  <2>1. p \in Port
    BY <1>0, RegisterType
  <2>2. Fed(p) /\ p.state = "SRC_UNATTACHED"
    BY <1>0, <1>1, RegisterKept, SameKeptKeeps DEF SrcUnattached, In, SameKept
  <2> HIDE DEF p
  <2>3. Detach(p) \in Port /\ Kept(Detach(p))
    BY <2>1, <2>2, DetachKept DEF Detaching
  <2> QED
    BY <1>1, <1>q, <2>3 DEF SrcUnattached, e, p
<1>2. CASE SrcAttachWait
  <2>1. Kept(e)
    BY <1>0, <1>2 DEF SrcAttachWait, In
  <2>2. \/ Ran(e)
        \/ \E t \in {"DEBUG_ACC_ATTACHED", "AUDIO_ACC_ATTACHED", "SRC_ATTACHED"} :
              Ran(SetAfter(e, t))
    BY <1>2 DEF SrcAttachWait, e
  <2> QED
    BY <1>0, <1>n, <1>q, <2>1, <2>2
<1>3. CASE SrcAttached
  <2>1. Kept(e) /\ s # "SRC_UNATTACHED"
    BY <1>0, <1>3 DEF SrcAttached, In
  <2>2. SrcAttach(e) \in Port /\ Kept(SrcAttach(e))
    BY <1>0, <2>1, SrcAttachKept
  <2>3. /\ SetAfter(SetCc(SrcAttach(e), "RP_3_0"), "SRC_UNATTACHED") \in Port
        /\ Kept(SetAfter(SetCc(SrcAttach(e), "RP_3_0"), "SRC_UNATTACHED"))
    BY <1>c, <1>n, <2>2
  <2> QED
    BY <1>3, <1>q, <2>3 DEF SrcAttached, e
<1>4. CASE SrcStartup
  <2> DEFINE q == [e EXCEPT !.attached = TRUE, !.disc_cable_count = 0, !.caps_count = 0,
                            !.explicit_contract = FALSE, !.last_pdo_index = 0]
  <2>1. Kept(e) /\ s = "SRC_STARTUP"
    BY <1>0, <1>4 DEF SrcStartup, In
  <2>2. q \in Port /\ Kept(q) /\ q.attached /\ q.state = s
    BY <1>0, <2>1, StartupKept
  <2>3. Ran(SetAfter(q, "SRC_DISC_CABLE"))
    BY <1>4 DEF SrcStartup, e
  <2> HIDE DEF q
  <2> QED
    BY <1>m, <1>q, <2>1, <2>2, <2>3 DEF Detaching
<1>5. CASE SrcDiscCable
  <2> DEFINE n == IF e.disc_cable_count > 2 THEN e.disc_cable_count ELSE e.disc_cable_count + 1
             p == [e EXCEPT !.disc_cable_count = n]
  <2>1. s = "SRC_DISC_CABLE" /\ Kept(e) /\ e.attached
    BY <1>0, <1>5, <1>a DEF SrcDiscCable, In, Bare
  <2>2. n \in 0..3
    BY <1>0 DEF Port
  <2>3. \/ Ran(SetAfter(e, "SRC_SEND_CAPABILITIES"))
        \/ Ran(SetNow(p, "SRC_SEND_CAPABILITIES"))
        \/ \E r \in TxOutcomes, t \in {"SRC_WAIT_CABLE", "SRC_DISC_CABLE"} :
              Ran(SetAfter(Transmit(p, r), t))
    BY <1>5 DEF SrcDiscCable, e
  <2> HIDE DEF n
  <2>4. p \in Port
    BY <1>0, <2>2 DEF Port
  <2>5. SameKept(e, p)
    BY <1>0 DEF SameKept, SameFeed, Port
  <2> HIDE DEF p
  <2>6. Kept(p) /\ p.attached /\ p.state = s
    BY <1>0, <2>1, <2>5, SameKeptKeeps DEF SameKept, SameFeed
  <2>7. s \notin Detaching
    BY <2>1 DEF Detaching
  <2>8. ASSUME NEW r, NEW t \in {"SRC_WAIT_CABLE", "SRC_DISC_CABLE"}
        PROVE  SetAfter(Transmit(p, r), t) \in Port /\ Kept(SetAfter(Transmit(p, r), t))
    BY <1>m, <1>o, <1>t, <2>4, <2>6, <2>7
  <2>9. /\ SetAfter(e, "SRC_SEND_CAPABILITIES") \in Port
        /\ Kept(SetAfter(e, "SRC_SEND_CAPABILITIES"))
        /\ SetNow(p, "SRC_SEND_CAPABILITIES") \in Port
        /\ Kept(SetNow(p, "SRC_SEND_CAPABILITIES"))
    BY <1>0, <1>m, <2>1, <2>4, <2>6, <2>7
  <2> QED
    BY <1>q, <2>3, <2>8, <2>9
<1>6. CASE SrcWaitCable
  <2>1. Kept(e) /\ e.attached
    BY <1>0, <1>6, <1>a DEF SrcWaitCable, In, Bare
  <2>2. SetNow(e, "SRC_SEND_CAPABILITIES") \in Port /\ Kept(SetNow(e, "SRC_SEND_CAPABILITIES"))
    BY <1>0, <1>m, <2>1
  <2> QED
    BY <1>6, <1>q, <2>2 DEF SrcWaitCable, e
<1>7. CASE SrcSendCapabilities
  <2> DEFINE n == IF e.caps_count > NCaps THEN e.caps_count ELSE e.caps_count + 1
             p == [e EXCEPT !.caps_count = n]
             q == [p EXCEPT !.hard_reset_count = 0, !.caps_count = 0, !.pd_capable = TRUE]
  <2>1. s = "SRC_SEND_CAPABILITIES" /\ Kept(e) /\ e.attached
    BY <1>0, <1>7, <1>a DEF SrcSendCapabilities, In, Bare
  <2>2. n \in 0..(NCaps + 1)
    BY <1>0, CountsAssumption DEF Port
  <2>3. \/ Ran(SetNow(p, "SRC_READY"))
        \/ Ran(SetAfterCond(q, HardResetState(q)))
        \/ Ran(SetAfter(p, "SRC_SEND_CAPABILITIES"))
        \/ Ran(Transmit(p, "FAILED"))
    BY <1>7 DEF SrcSendCapabilities, CapsSent, e
  <2> HIDE DEF n
  <2>4. p \in Port
    BY <1>0, <2>2 DEF Port
  <2>5. SameKept(e, p)
    BY <1>0 DEF SameKept, SameFeed, Port
  <2> HIDE DEF p
  <2>6. Kept(p) /\ p.attached /\ p.state = s
    BY <1>0, <2>1, <2>5, SameKeptKeeps DEF SameKept, SameFeed
  <2>7. 0 \in 0..(NCaps + 1) /\ 0 \in 0..NHard
    BY CountsAssumption
  <2>8. q \in Port
    BY <2>4, <2>7 DEF Port
  <2>9. /\ q.attached = p.attached /\ q.enter_state = p.enter_state /\ q.state = p.state
        /\ q.delayed_state = p.delayed_state
    BY <2>4 DEF Port
  <2> HIDE DEF q
  <2>10. Kept(q)
    BY <2>1, <2>6, <2>9 DEF Kept, Fed, Resets, Counting
  <2>11. /\ SetAfterCond(q, HardResetState(q)) \in Port
         /\ Kept(SetAfterCond(q, HardResetState(q)))
    BY <1>h, <2>8, <2>10 DEF SetAfterCond
  <2>12. /\ SetNow(p, "SRC_READY") \in Port /\ Kept(SetNow(p, "SRC_READY"))
         /\ SetAfter(p, "SRC_SEND_CAPABILITIES") \in Port
         /\ Kept(SetAfter(p, "SRC_SEND_CAPABILITIES"))
    BY <1>m, <2>1, <2>4, <2>6 DEF Detaching
  <2>13. Transmit(p, "FAILED") \in Port /\ Kept(Transmit(p, "FAILED"))
    BY <1>t, <2>4, <2>6
  <2> QED
    BY <1>q, <2>3, <2>11, <2>12, <2>13
<1>8. CASE SrcNegotiateCapabilities
  <2> DEFINE p == CheckRequest(e)
  <2>1. s = "SRC_NEGOTIATE_CAPABILITIES" /\ Kept(e) /\ e.attached
    BY <1>0, <1>8, <1>a DEF SrcNegotiateCapabilities, In, Bare
  <2>2. p \in Port
    BY <1>0, CheckRequestType
  <2>3. SameKept(e, p)
    BY <1>0 DEF CheckRequest, SameKept, SameFeed, Port
  <2>4. \E r \in TxOutcomes : Ran(Accept(p, r)) \/ Ran(Reject(p, r))
    BY <1>8 DEF SrcNegotiateCapabilities, e
  <2> HIDE DEF p
  <2>5. Kept(p) /\ p.attached /\ p.state = s
    BY <1>0, <2>1, <2>3, SameKeptKeeps DEF SameKept, SameFeed
  <2>6. ASSUME NEW r PROVE Reject(p, r) \in Port /\ Kept(Reject(p, r))
    BY <1>m, <1>t, <2>2, <2>5 DEF Reject
  <2>7. ASSUME NEW r PROVE Accept(p, r) \in Port /\ Kept(Accept(p, r))
    <3> DEFINE q == Transmit(p, r)
               t == IF p.pdo_type = "APDO" /\ p.pdo_index = p.last_pdo_index
                    THEN SetNow(q, "SRC_TRANSITION_SUPPLY")
                    ELSE SetAfter(q, "SRC_TRANSITION_SUPPLY")
               n == p.pdo_index
               u == [t EXCEPT !.last_pdo_index = n]
    <3>1. q \in Port /\ Kept(q) /\ q.attached /\ q.state \notin Detaching
      BY <1>o, <1>t, <2>1, <2>2, <2>5 DEF Detaching
    <3>2. n \in Nat
      BY <2>2 DEF Port
    <3>3. Accept(p, r) = u
      BY DEF Accept
    <3> HIDE DEF q, n
    <3>4. t \in Port /\ Kept(t)
      BY <1>m, <3>1
    <3> HIDE DEF t
    <3>5. u \in Port
      BY <3>2, <3>4 DEF Port
    <3>6. SameKept(t, u)
      BY <3>4 DEF SameKept, SameFeed, Port
    <3> HIDE DEF u
    <3> QED
      BY <3>3, <3>4, <3>5, <3>6, SameKeptKeeps
  <2> QED
    BY <1>q, <2>4, <2>6, <2>7
<1>9. CASE SrcTransitionSupply
  <2>1. Kept(e) /\ e.attached
    BY <1>0, <1>9, <1>a DEF SrcTransitionSupply, In, Bare
  <2>2. ASSUME NEW r
        PROVE  LET u == [Transmit(SetVbusHv(e), r) EXCEPT !.explicit_contract = TRUE] IN
               SetNowCond(u, "SRC_READY") \in Port /\ Kept(SetNowCond(u, "SRC_READY"))
    <3> DEFINE v == SetVbusHv(e)
               t == Transmit(v, r)
               u == [t EXCEPT !.explicit_contract = TRUE]
    <3>1. v \in Port /\ Kept(v)
      BY <1>0, <2>1, VbusHvKept
    <3>2. v.attached = e.attached
      BY <1>0 DEF SetVbusHv, Port
    <3> HIDE DEF v
    <3>3. t \in Port /\ Kept(t) /\ t.attached
      BY <1>t, <2>1, <3>1, <3>2
    <3> HIDE DEF t
    <3>4. u \in Port
      BY <3>3 DEF Port
    <3>5. SameKept(t, u)
      BY <3>3 DEF SameKept, SameFeed, Port
    <3> HIDE DEF u
    <3>6. SetNowCond(u, "SRC_READY") \in Port /\ Kept(SetNowCond(u, "SRC_READY"))
      BY <1>m, <3>3, <3>4, <3>5, SameKeptKeeps DEF SetNowCond, SameKept, SameFeed
    <3> QED
      BY <3>6 DEF u, t, v
  <2> QED
    BY <1>9, <1>q, <2>2 DEF SrcTransitionSupply, e
<1>10. CASE SrcReady
  <2> DEFINE p == IF port.explicit_contract /\ port.pdo_type = "APDO"
                  THEN SetAfterCond(e, HardResetState(e)) ELSE e
             q == [p EXCEPT !.hard_reset_count = 0]
  <2>1. s = "SRC_READY" /\ Kept(e) /\ e.attached
    BY <1>0, <1>10, <1>a DEF SrcReady, In, Bare
  <2>2. /\ p \in Port /\ Kept(p) /\ p.attached /\ p.state = s
    BY <1>0, <1>h, <2>1, AfterFeed DEF SetAfterCond, SameFeed
  <2>3. Ran(q)
    BY <1>10 DEF SrcReady, e
  <2> HIDE DEF p
  <2>4. 0 \in 0..NHard /\ s \notin Resets \cup Counting
    BY <2>1, CountsAssumption DEF Resets, Counting
  <2>5. q \in Port /\ Kept(q)
    BY <2>2, <2>4, CountKept
  <2> QED
    BY <1>q, <2>3, <2>5
<1>11. CASE AccUnattached
  <2>1. Fed(e) /\ e.state \in Detaching
    BY <1>0, <1>11 DEF AccUnattached, In, Detaching
  <2>2. Detach(e) \in Port /\ Kept(Detach(e))
    BY <1>0, <2>1, DetachKept
  <2>3. SetNow(Detach(e), "SRC_UNATTACHED") \in Port /\ Kept(SetNow(Detach(e), "SRC_UNATTACHED"))
    BY <1>n, <2>2
  <2> QED
    BY <1>11, <1>q, <2>3 DEF AccUnattached, e
<1>12. CASE AccAttached
  <2>1. Kept(e) /\ s # "SRC_UNATTACHED"
    BY <1>0, <1>12 DEF AccAttached, In
  <2>2. AccAttach(e) \in Port /\ Kept(AccAttach(e))
    BY <1>0, <2>1, AccAttachKept
  <2> QED
    BY <1>12, <1>q, <2>2 DEF AccAttached, e
<1>13. CASE AudioAccDebounce
  <2>1. Kept(e)
    BY <1>0, <1>13 DEF AudioAccDebounce, In
  <2>2. SetAfter(e, "ACC_UNATTACHED") \in Port /\ Kept(SetAfter(e, "ACC_UNATTACHED"))
    BY <1>0, <1>n, <2>1
  <2> QED
    BY <1>13, <1>q, <2>2 DEF AudioAccDebounce, e
<1>14. CASE HardResetSend
  <2>1. Kept(e)
    BY <1>0, <1>14 DEF HardResetSend, In
  <2>2. ASSUME NEW r
        PROVE  /\ SetNow(Transmit(e, r), "HARD_RESET_START") \in Port
               /\ Kept(SetNow(Transmit(e, r), "HARD_RESET_START"))
    BY <1>0, <1>n, <1>t, <2>1
  <2> QED
    BY <1>14, <1>q, <2>2 DEF HardResetSend, e
<1>15. CASE HardResetStart
  <2> DEFINE q == SetPdRx(e, FALSE)
             n == IF q.hard_reset_count < NHard THEN q.hard_reset_count + 1
                  ELSE q.hard_reset_count
             p == [q EXCEPT !.hard_reset_count = n]
  <2>1. Kept(e) /\ s = "HARD_RESET_START"
    BY <1>0, <1>15 DEF HardResetStart, In
  <2>2. q \in Port
    BY <1>0, RegisterType
  <2>3. Kept(q) /\ q.state = s
    BY <1>0, <2>1, RegisterKept, SameKeptKeeps DEF SameKept
  <2>4. \E t \in {"SRC_HARD_RESET_DISABLE_RP", "SRC_HARD_RESET_VBUS_OFF"} :
           Ran(SetAfter(p, t))
    BY <1>15 DEF HardResetStart, e
  <2> HIDE DEF q
  <2>5. n \in 0..NHard /\ n # 0
    BY <2>2, CountsAssumption DEF Port
  <2> HIDE DEF n
  <2>6. p \in Port /\ Kept(p) /\ p.hard_reset_count # 0 /\ p.state = s
    BY <2>2, <2>3, <2>5, CountKept
  <2> HIDE DEF p
  <2>7. p.state \in Counting /\ "SRC_HARD_RESET_VBUS_OFF" \in States \cap Bare
    BY <2>1, <2>6 DEF Counting, States, Bare
  <2>8. /\ SetAfter(p, "SRC_HARD_RESET_VBUS_OFF") \in Port
        /\ Kept(SetAfter(p, "SRC_HARD_RESET_VBUS_OFF"))
    BY <2>6, <2>7, AfterKept
  <2> QED
    BY <1>n, <1>q, <2>4, <2>6, <2>8
<1>16. CASE SrcHardResetVbusOff
  <2> DEFINE p == SetVconn(e, FALSE)
             q == SetVbus(p, FALSE)
  <2>1. Kept(e) /\ s = "SRC_HARD_RESET_VBUS_OFF" /\ e.hard_reset_count # 0
    BY <1>0, <1>16 DEF SrcHardResetVbusOff, In, Fed, Resets
  <2>2. p \in Port /\ Kept(p) /\ p.state = s /\ p.hard_reset_count # 0
    BY <1>0, <1>o, <2>1, VconnKept
  <2>3. Ran(SetAfter(q, "SRC_HARD_RESET_VBUS_ON"))
    BY <1>16 DEF SrcHardResetVbusOff, e
  <2> HIDE DEF p
  <2>4. q \in Port /\ Kept(q) /\ q.state = s /\ q.hard_reset_count # 0
    BY <1>o, <2>2, VbusKept
  <2> HIDE DEF q
  <2>5. q.state \in Counting /\ "SRC_HARD_RESET_VBUS_ON" \in States \cap Bare
    BY <2>1, <2>4 DEF Counting, States, Bare
  <2>6. /\ SetAfter(q, "SRC_HARD_RESET_VBUS_ON") \in Port
        /\ Kept(SetAfter(q, "SRC_HARD_RESET_VBUS_ON"))
    BY <2>4, <2>5, AfterKept
  <2> QED
    BY <1>q, <2>3, <2>6
<1>17. CASE SrcHardResetVbusOn
  <2> DEFINE o == SetPdRx(e, TRUE)
             p == SetVbus(o, TRUE)
             q == IF HasPoweredCable(p, p.polarity) THEN SetVconn(p, TRUE) ELSE p
  <2>1. Kept(e) /\ e.hard_reset_count # 0
    BY <1>0, <1>17 DEF SrcHardResetVbusOn, In, Fed, Resets
  <2>2. o \in Port
    BY <1>0, RegisterType
  <2>3. Kept(o) /\ o.hard_reset_count # 0
    BY <1>0, <2>1, RegisterKept, SameKeptKeeps DEF SameKept, SameFeed
  <2>4. Ran(SetAfter(q, "SRC_UNATTACHED"))
    BY <1>17 DEF SrcHardResetVbusOn, e
  <2> HIDE DEF o
  <2>5. p \in Port /\ Kept(p) /\ p.hard_reset_count # 0
    BY <1>o, <2>2, <2>3, VbusKept
  <2> HIDE DEF p
  <2>6. q \in Port /\ Kept(q)
    BY <1>o, <2>5, VconnKept
  <2> HIDE DEF q
  <2> QED
    BY <1>n, <1>q, <2>4, <2>6
<1>18. CASE SoftReset
  <2>1. Kept(e) /\ e.attached
    BY <1>0, <1>18, <1>a DEF SoftReset, In, Bare
  <2>2. ASSUME NEW r
        PROVE  /\ SetNow(Transmit(e, r), "SRC_SEND_CAPABILITIES") \in Port
               /\ Kept(SetNow(Transmit(e, r), "SRC_SEND_CAPABILITIES"))
    BY <1>0, <1>m, <1>t, <2>1
  <2> QED
    BY <1>18, <1>q, <2>2 DEF SoftReset, e
<1>19. CASE SoftResetSend
  <2>1. Kept(e)
    BY <1>0, <1>19 DEF SoftResetSend, In
  <2>2. ASSUME NEW r
        PROVE  LET p == Transmit(e, r) IN
               /\ SetAfterCond(p, HardResetState(p)) \in Port
               /\ Kept(SetAfterCond(p, HardResetState(p)))
               /\ SetNowCond(p, HardResetState(p)) \in Port
               /\ Kept(SetNowCond(p, HardResetState(p)))
    BY <1>0, <1>h, <1>t, <2>1 DEF SetAfterCond, SetNowCond
  <2> QED
    BY <1>19, <1>q, <2>2 DEF SoftResetSend, e
<1>20. CASE VconnSwapAccept
  <2>1. Kept(e) /\ e.attached
    BY <1>0, <1>20, <1>a DEF VconnSwapAccept, In, Bare
  <2>2. ASSUME NEW r
        PROVE  /\ SetNow(Transmit(e, r), "VCONN_SWAP_START") \in Port
               /\ Kept(SetNow(Transmit(e, r), "VCONN_SWAP_START"))
    BY <1>0, <1>m, <1>t, <2>1
  <2> QED
    BY <1>20, <1>q, <2>2 DEF VconnSwapAccept, e
<1>21. CASE VconnSwapStart
  <2>1. Kept(e) /\ e.attached
    BY <1>0, <1>21, <1>a DEF VconnSwapStart, In, Bare
  <2>2. \E t \in {"VCONN_SWAP_WAIT_FOR_VCONN", "VCONN_SWAP_TURN_ON_VCONN"} : Ran(SetNow(e, t))
    BY <1>21 DEF VconnSwapStart, e
  <2> QED
    BY <1>0, <1>m, <1>q, <2>1, <2>2
<1>22. CASE VconnSwapWaitForVconn
  <2>1. Kept(e)
    BY <1>0, <1>22 DEF VconnSwapWaitForVconn, In
  <2>2. SetAfter(e, HardResetState(e)) \in Port /\ Kept(SetAfter(e, HardResetState(e)))
    BY <1>0, <1>h, <2>1
  <2> QED
    BY <1>22, <1>q, <2>2 DEF VconnSwapWaitForVconn, e
<1>23. CASE VconnSwapTurnOnVconn
  <2> DEFINE p == SetVconn(e, TRUE)
  <2>1. Kept(e) /\ e.attached
    BY <1>0, <1>23, <1>a DEF VconnSwapTurnOnVconn, In, Bare
  <2>2. p \in Port /\ Kept(p) /\ p.attached
    BY <1>0, <1>o, <2>1, VconnKept
  <2>3. \E r \in TxOutcomes : Ran(SetNow(Transmit(p, r), "SRC_READY"))
    BY <1>23 DEF VconnSwapTurnOnVconn, e
  <2> HIDE DEF p
  <2>4. ASSUME NEW r
        PROVE  SetNow(Transmit(p, r), "SRC_READY") \in Port /\ Kept(SetNow(Transmit(p, r), "SRC_READY"))
    BY <1>m, <1>t, <2>2
  <2> QED
    BY <1>q, <2>3, <2>4
<1>24. CASE VconnSwapTurnOffVconn
  <2> DEFINE p == SetVconn(e, FALSE)
  <2>1. Kept(e) /\ e.attached
    BY <1>0, <1>24, <1>a DEF VconnSwapTurnOffVconn, In, Bare
  <2>2. p \in Port /\ Kept(p) /\ p.attached
    BY <1>0, <1>o, <2>1, VconnKept
  <2>3. Ran(SetNow(p, "SRC_READY"))
    BY <1>24 DEF VconnSwapTurnOffVconn, e
  <2> HIDE DEF p
  <2> QED
    BY <1>m, <1>q, <2>2, <2>3
<1>25. CASE BistRx
  <2>1. Kept(e)
    BY <1>0, <1>25 DEF BistRx, In
  <2>2. ASSUME NEW r
        PROVE  /\ SetNow(Transmit(e, r), "SRC_UNATTACHED") \in Port
               /\ Kept(SetNow(Transmit(e, r), "SRC_UNATTACHED"))
    BY <1>0, <1>n, <1>t, <2>1
  <2> QED
    BY <1>0, <1>25, <1>q, <2>1, <2>2 DEF BistRx, e
<1>26. CASE IdleState
  <2>1. Kept(e)
    BY <1>0, <1>26 DEF IdleState, In
  <2> QED
    BY <1>0, <1>26, <1>q, <2>1 DEF IdleState, e
<1>27. CASE PortReset
  <2>1. Fed(e) /\ e.state \in Detaching
    BY <1>0, <1>27 DEF PortReset, In, Detaching
  <2>2. ResetPort(e) \in Port /\ Kept(ResetPort(e))
    BY <1>0, <2>1, ResetPortKept
  <2>3. /\ SetAfter(SetCc(ResetPort(e), "OPEN"), "PORT_RESET_WAIT_OFF") \in Port
        /\ Kept(SetAfter(SetCc(ResetPort(e), "OPEN"), "PORT_RESET_WAIT_OFF"))
    BY <1>c, <1>n, <2>2
  <2> QED
    BY <1>27, <1>q, <2>3 DEF PortReset, e
<1>28. CASE PortResetWaitOff
  <2>1. Kept(e)
    BY <1>0, <1>28 DEF PortResetWaitOff, In
  <2>2. Ran(SetAfter(e, "SRC_UNATTACHED")) \/ Ran(SetNow(e, "SRC_UNATTACHED"))
    BY <1>28 DEF PortResetWaitOff, e
  <2> QED
    BY <1>0, <1>n, <1>q, <2>1, <2>2
<1>29. CASE SrcHardResetDisableRp
  <2>1. Kept(e)
    BY <1>0, <1>29 DEF SrcHardResetDisableRp, In
  <2>2. /\ SetAfter(SetCc(e, "OPEN"), "SRC_HARD_RESET_VBUS_OFF_DISABLE") \in Port
        /\ Kept(SetAfter(SetCc(e, "OPEN"), "SRC_HARD_RESET_VBUS_OFF_DISABLE"))
    BY <1>0, <1>c, <1>n, <2>1
  <2> QED
    BY <1>29, <1>q, <2>2 DEF SrcHardResetDisableRp, e
<1>30. CASE SrcHardResetVbusOffDisable
  <2> DEFINE o == SetVconn(e, FALSE)
             q == SetVbus(o, FALSE)
             p == [q EXCEPT !.force_disable_flag = FALSE]
  <2>1. Kept(e)
    BY <1>0, <1>30 DEF SrcHardResetVbusOffDisable, In
  <2>2. o \in Port /\ Kept(o)
    BY <1>0, <1>o, <2>1, VconnKept
  <2>3. Ran(SetAfter(p, "SRC_UNATTACHED"))
    BY <1>30 DEF SrcHardResetVbusOffDisable, e
  <2> HIDE DEF o
  <2>4. q \in Port /\ Kept(q)
    BY <1>o, <2>2, VbusKept
  <2> HIDE DEF q
  <2>5. p \in Port
    BY <2>4 DEF Port
  <2>6. SameKept(q, p)
    BY <2>4 DEF SameKept, SameFeed, Port
  <2> HIDE DEF p
  <2> QED
    BY <1>n, <1>q, <2>3, <2>4, <2>5, <2>6, SameKeptKeeps
<1> QED
  BY <1>1, <1>2, <1>3, <1>4, <1>5, <1>6, <1>7, <1>8, <1>9, <1>10, <1>11, <1>12,
     <1>13, <1>14, <1>15, <1>16, <1>17, <1>18, <1>19, <1>20, <1>21, <1>22, <1>23,
     <1>24, <1>25, <1>26, <1>27, <1>28, <1>29, <1>30 DEF RunStateMachine

-----------------------------------------------------------------------------
(* The rest of a pass.                                                     *)

LEMMA StartWorkKept ==
    ASSUME TypeOK, Kept(port), StartWork
    PROVE  Kept(port')
<1> DEFINE p == [port EXCEPT !.running = TRUE]
           o == [p EXCEPT !.queued = FALSE]
<1>0. port \in Port
  BY DEF TypeOK
<1>1. p \in Port
  BY <1>0 DEF Port
<1>2. SameKept(port, p)
  BY <1>0 DEF SameKept, SameFeed, Port
<1> HIDE DEF p
<1>3. o \in Port
  BY <1>1 DEF Port
<1>4. SameKept(p, o)
  BY <1>1 DEF SameKept, SameFeed, Port
<1> HIDE DEF o
<1>5. Kept(p) /\ Kept(o)
  BY <1>2, <1>4, SameKeptKeeps
<1>6. ASSUME NEW r PROVE Kept(SendQueued(p, r))
  <2> DEFINE t == Transmit(o, r)
             u == [t EXCEPT !.delayed_state = "INVALID_STATE"]
  <2>1. t \in Port /\ Kept(t)
    BY <1>3, <1>5, TransmitKept
  <2>2. SendQueued(p, r) = u
    BY DEF SendQueued, o
  <2> HIDE DEF t
  <2>3. SameFeed(t, u)
    BY <2>1 DEF SameFeed, Port
  <2>4. u.state = t.state /\ u.delayed_state = "INVALID_STATE"
    BY <2>1 DEF Port
  <2> HIDE DEF u
  <2>5. "INVALID_STATE" \in Bare \ Resets
    BY DEF Bare, Resets
  <2>6. Kept(u)
    BY <2>1, <2>3, <2>4, <2>5 DEF Kept, Fed, SameFeed
  <2> QED
    BY <2>2, <2>6
<1> QED
  BY <1>5, <1>6 DEF StartWork, Becomes, p

LEMMA TailKept ==
    ASSUME TypeOK, Kept(port), TimerExpires \/ TimerWaits
    PROVE  Kept(port')
<1> DEFINE q == [port EXCEPT !.run = TRUE]
           p == Requeued
           d == port.delayed_state
<1>0. port \in Port
  BY DEF TypeOK
<1>1. q \in Port
  BY <1>0 DEF Port
<1>2. SameKept(port, q)
  BY <1>0 DEF SameKept, SameFeed, Port
<1> HIDE DEF q
<1>3. p \in {port, q}
  BY DEF Requeued, q
<1>4. SameKept(port, port)
  BY DEF SameKept, SameFeed
<1> HIDE DEF p
<1>5. p \in Port /\ SameKept(port, p)
  BY <1>0, <1>1, <1>2, <1>3, <1>4
<1>6. Kept(p)
  BY <1>5, SameKeptKeeps
<1>7. /\ d \in States
      /\ d \in Bare \/ p.attached
      /\ d \in Resets => p.hard_reset_count # 0
  <2>1. d \in States
    BY <1>0 DEF Port
  <2> QED
    BY <1>5, <2>1 DEF Kept, Fed, SameKept, SameFeed
<1>8. port' \in {p, SetNow(p, d)}
  BY DEF TimerExpires, TimerWaits, Becomes, p
<1> HIDE DEF d
<1> QED
  BY <1>5, <1>6, <1>7, <1>8, NowKept

LEMMA ProgramKept ==
    ASSUME TypeOK, Kept(port), Program
    PROVE  Kept(port')
<1>0. port \in Port /\ line \in Lines /\ vbus \in BOOLEAN
  BY DEF TypeOK
<1>h. ASSUME NEW x, NEW p, Kept(p), Handle(x, p) PROVE Kept(port')
  BY <1>h DEF Handle, Becomes
<1>1. CASE Snapshot \/ ClearEvent \/ StoreEvents
  BY <1>1 DEF Snapshot, ClearEvent, StoreEvents
<1>2. CASE HandleReset
  BY <1>0, <1>2, <1>h, HardResetEventKept DEF HandleReset
<1>3. CASE HandleVbus
  BY <1>0, <1>3, <1>h, VbusEventKept DEF HandleVbus
<1>4. CASE HandleCc
  BY <1>0, <1>4, <1>h, ObservedType, CcChangeKept DEF HandleCc
<1>5. CASE HandleRx
  <2>1. rx.rdo \in Requests \cup {NoRequest}
    BY MessagesAssumption DEF TypeOK, Message, NoMessage
  <2> QED
    BY <1>0, <1>5, <1>h, <2>1, RxHandlerKept DEF HandleRx
<1>6. CASE StartWork
  BY <1>6, StartWorkKept
<1>7. CASE RunStateMachine
  BY <1>7, RunStateMachineKept
<1>8. CASE TimerExpires \/ TimerWaits
  BY <1>8, TailKept
<1> QED
  BY <1>1, <1>2, <1>3, <1>4, <1>5, <1>6, <1>7, <1>8 DEF Program

LEMMA EnvironmentKept ==
    ASSUME TypeOK, Kept(port), Environment
    PROVE  Kept(port')
<1>0. port \in Port /\ line \in Lines /\ vbus \in BOOLEAN
  BY DEF TypeOK
<1>1. CASE SwitchPressed
  BY <1>0, <1>1, PdDisableKept DEF SwitchPressed
<1>2. CASE CcIrq \/ RxIrq \/ HardResetIrq \/ VbusIrq
  BY <1>2 DEF CcIrq, RxIrq, HardResetIrq, VbusIrq
<1>3. CASE TcpcReset
  <2> DEFINE d == SetVbus(SetVconn(SetPdRx(SetCc(port, "OPEN"), FALSE), FALSE), FALSE)
  <2>1. d \in Port
    BY <1>0, RegisterType, SetVbusType
  <2>2. Nothing \in CcPairs
    BY DEF Nothing, CcPairs, CcValues
  <2>3. PICK v \in BOOLEAN : port' = TcpmInit(d, v, Nothing)
    BY <1>0, <1>3 DEF TcpcReset, Discharged
  <2> HIDE DEF d
  <2> QED
    BY <2>1, <2>2, <2>3, TcpmInitKept
<1>4. CASE McuReset
  <2> DEFINE q == Registered(port)
  <2>1. q \in Port
    BY <1>0, RegisteredType
  <2>2. PICK v \in BOOLEAN : port' = TcpmInit(q, v, Observed(port, line))
    BY <1>0, <1>4 DEF McuReset, Discharged
  <2> HIDE DEF q
  <2> QED
    BY <1>0, <2>1, <2>2, ObservedType, TcpmInitKept
<1> QED
  BY <1>1, <1>2, <1>3, <1>4 DEF Environment

-----------------------------------------------------------------------------

\* Whatever malloc returned and in whatever order events, timers, messages and
\* resets come: VBUS and VCONN are on for something attached or after a counted
\* hard reset, and a port that has run SRC_UNATTACHED is detached.
THEOREM FeedInvariant == Spec => []Kept(port)
<1>1. Init => Kept(port)
  <2> SUFFICES ASSUME Init PROVE Kept(port)
    OBVIOUS
  <2>1. PICK h \in PowerOnHeap :
           port = TcpmInit(Registered(h), FALSE, Observed(h, line))
    BY DEF Init
  <2> DEFINE q == Registered(h)
  <2>2. h \in Port /\ line \in Lines /\ q \in Port
    BY HeapAssumption, RegisteredType DEF Init
  <2>3. port = TcpmInit(q, FALSE, Observed(h, line))
    BY <2>1
  <2> HIDE DEF q
  <2> QED
    BY <2>2, <2>3, ObservedType, TcpmInitKept
<1>2. TypeOK /\ Kept(port) /\ [Next]_vars => Kept(port)'
  <2> SUFFICES ASSUME TypeOK, Kept(port), [Next]_vars PROVE Kept(port')
    OBVIOUS
  <2>1. CASE Next
    BY <2>1, ProgramKept, EnvironmentKept DEF Next
  <2>2. CASE UNCHANGED vars
    BY <2>2 DEF vars
  <2> QED
    BY <2>1, <2>2
<1> QED
  BY <1>1, <1>2, TypeCorrect, PTL DEF Spec

\* At rest in SRC_UNATTACHED the state has been run, so nothing is attached.
LEMMA NoneFed ==
    ASSUME Kept(port), StateEntered, Unattached
    PROVE  port.supply # 0 \/ port.vconn => port.hard_reset_count # 0
<1>1. ~port.attached
  BY DEF Unattached, Resting, StateEntered, Overtaken, Kept
<1> QED
  BY <1>1 DEF Kept, Fed

\* VBUS is not sourced for nobody: when nothing is attached it is off, unless
\* the port has executed a hard reset since the last exchange with a sink.
THEOREM VbusNotOrphaned ==
    ASSUME HeapRuns
    PROVE  Spec => []NoOrphanVbus
<1>1. Kept(port) /\ StateEntered => NoOrphanVbus
  BY NoneFed DEF NoOrphanVbus
<1> QED
  BY <1>1, FeedInvariant, StatesAreEntered, PTL

\* Likewise VCONN.
THEOREM VconnNotOrphaned ==
    ASSUME HeapRuns
    PROVE  Spec => []NoOrphanVconn
<1>1. Kept(port) /\ StateEntered => NoOrphanVconn
  BY NoneFed DEF NoOrphanVconn
<1> QED
  BY <1>1, FeedInvariant, StatesAreEntered, PTL

-----------------------------------------------------------------------------
(* At rest in SRC_READY the port keeps its promises to a sink that waits    *)
(* for its turn: the supply is what was granted (ContractVoltage) and Rp    *)
(* says that an exchange may start (RpOkInReady). The inductive invariant   *)
(* is SettledInv: while the supply is not what was granted the port is on   *)
(* its way through states that put it right, and no message is pending;     *)
(* Rp is txSinkOK in SRC_READY and in the state that follows it.            *)

\* The sink, a source's partner, sends no message that only a source may send.
NoStatus == \A m \in Messages : m.kind \notin ExtKinds

\* Under a contract the supply is the voltage granted last.
Even(p) == p.explicit_contract => p.supply = p.supply_voltage

\* The states in which it need not be.
Rough == Bare \cup {"SRC_NEGOTIATE_CAPABILITIES", "SRC_TRANSITION_SUPPLY", "SOFT_RESET_SEND"}

\* Where it is not, a timer leads on to such a state, and the request being
\* negotiated is one the port grants.
Level(p) ==
    \/ Even(p)
    \/ /\ p.state \in Rough
       /\ p.delayed_state \in Bare \cup {"SRC_TRANSITION_SUPPLY"}
       /\ p.state = "SRC_NEGOTIATE_CAPABILITIES" => RequestOk(p.sink_request)

\* The states a port reaches only from one that found a PD sink or gave up.
Late == {
    "SRC_NEGOTIATE_CAPABILITIES", "SRC_TRANSITION_SUPPLY", "SRC_READY",
    "SRC_WAIT_NEW_CAPABILITIES", "SOFT_RESET", "SOFT_RESET_SEND", "VCONN_SWAP_ACCEPT",
    "VCONN_SWAP_START", "VCONN_SWAP_WAIT_FOR_VCONN", "VCONN_SWAP_TURN_ON_VCONN",
    "VCONN_SWAP_TURN_OFF_VCONN", "BIST_RX", "GET_PPS_STATUS_SEND"}

\* The port has found a PD sink, or has offered its capabilities often enough.
Past(p) == p.pd_capable \/ p.caps_count > NCaps

\* Rp is txSinkOK in SRC_READY and in the state after it, which may put it back
\* only because it knows that it came from SRC_READY.
RpKept(p) ==
    /\ p.state = "SRC_READY" => p.prev_state # "SRC_READY"
    /\ p.pd_capable /\ "SRC_READY" \in {p.state, p.prev_state} => p.rp = "RP_3_0"
    /\ p.state = "SRC_HARD_RESET_DISABLE_RP" => p.prev_state # "SRC_READY"
    /\ p.delayed_state = "SRC_HARD_RESET_DISABLE_RP" => p.state = "HARD_RESET_START"
    /\ p.delayed_state # "SRC_READY"
    /\ p.state \in Late \/ p.delayed_state \in Late => Past(p)
    /\ p.state = "SRC_SEND_CAPABILITIES" =>
          /\ p.prev_state = "SRC_READY" => Past(p)
          /\ p.delayed_state \notin {"INVALID_STATE", "SRC_SEND_CAPABILITIES"} => p.pd_capable

Settled(p) == Level(p) /\ (NoStatus => RpKept(p))

-----------------------------------------------------------------------------
(* What the helpers do to a settled port.                                  *)

\* p and q have agreed on the same with the sink.
SameTerms(p, q) ==
    /\ q.supply = p.supply /\ q.supply_voltage = p.supply_voltage
    /\ q.explicit_contract = p.explicit_contract /\ q.sink_request = p.sink_request
    /\ q.pd_capable = p.pd_capable /\ q.caps_count = p.caps_count
    /\ q.attached = p.attached

\* They are in the same state, with the same reply queued.
SamePlace(p, q) ==
    /\ q.state = p.state /\ q.prev_state = p.prev_state
    /\ q.delayed_state = p.delayed_state
    /\ q.enter_state = p.enter_state
    /\ q.run = p.run /\ q.queued = p.queued

LEMMA SameSettled ==
    ASSUME NEW p, NEW q, SameTerms(p, q), SamePlace(p, q), q.rp = p.rp, Settled(p)
    PROVE  Settled(q)
BY DEF SameTerms, SamePlace, Settled, Level, Even, RpKept, Past

\* A helper that leaves the state alone and Rp no worse, and lets the supply
\* differ from what was granted only where it may.
LEMMA PlaceSettled ==
    ASSUME NEW p, NEW q, Settled(p), SamePlace(p, q),
           q.pd_capable => p.pd_capable, q.rp \in {p.rp, "RP_3_0"},
           Past(p) => \/ Past(q)
                      \/ p.state \notin Late \cup {"SRC_SEND_CAPABILITIES"}
                         /\ p.delayed_state \notin Late,
           p.state = "SRC_SEND_CAPABILITIES" => q.pd_capable = p.pd_capable,
           \/ Even(q)
           \/ p.state \in Bare /\ p.delayed_state \in Bare
    PROVE  Settled(q)
<1>1. Level(q)
  BY DEF SamePlace, Level, Rough, Bare
<1>2. NoStatus => RpKept(q)
  <2> SUFFICES ASSUME NoStatus PROVE RpKept(q)
    OBVIOUS
  <2>1. RpKept(p)
    BY DEF Settled
  <2> QED
    BY <2>1 DEF RpKept, SamePlace
<1> QED
  BY <1>1, <1>2 DEF Settled

\* tcpm_set_state without a delay.
LEMMA NowTerms ==
    ASSUME NEW p \in Port, NEW s
    PROVE  LET q == SetNow(p, s) IN
           /\ SameTerms(p, q)
           /\ q.state = s /\ q.prev_state = p.state /\ q.delayed_state = "INVALID_STATE"
           /\ q.enter_state = p.enter_state /\ q.queued = p.queued /\ (p.run => q.run)
           /\ q.rp = RpOnChange(p, s)
<1> DEFINE q == SetNow(p, s)
           rp == RpOnChange(p, s)
           run == p.run \/ ~p.running
<1>1. q = [p EXCEPT !.rp = rp, !.delayed_state = "INVALID_STATE",
                    !.prev_state = p.state, !.state = s, !.run = run]
  BY DEF SetNow
<1> HIDE DEF q, rp
<1>2. SameTerms(p, q)
  BY <1>1 DEF SameTerms, Port
<1>3. /\ q.state = s /\ q.prev_state = p.state /\ q.delayed_state = "INVALID_STATE"
      /\ q.enter_state = p.enter_state /\ q.queued = p.queued /\ q.rp = rp
      /\ q.run = run
  BY <1>1 DEF Port
<1>4. p.run => q.run
  BY <1>3
<1> QED
  BY <1>2, <1>3, <1>4 DEF q, rp

LEMMA NowSettled ==
    ASSUME NEW p \in Port, Settled(p), NEW s,
           Even(p) \/ s \in Rough \ {"SRC_NEGOTIATE_CAPABILITIES"},
           NoStatus => /\ s = "SRC_READY" => p.state # "SRC_READY"
                       /\ s = "SRC_HARD_RESET_DISABLE_RP" => p.state # "SRC_READY"
                       /\ s \in Late => Past(p)
    PROVE  Settled(SetNow(p, s))
<1> DEFINE q == SetNow(p, s)
<1>1. /\ SameTerms(p, q)
      /\ q.state = s /\ q.prev_state = p.state /\ q.delayed_state = "INVALID_STATE"
      /\ q.rp = RpOnChange(p, s)
  BY NowTerms
<1> HIDE DEF q
<1>2. Level(q)
  BY <1>1 DEF Level, Even, SameTerms, Bare
<1>3. NoStatus => RpKept(q)
  <2> SUFFICES ASSUME NoStatus PROVE RpKept(q)
    OBVIOUS
  <2>1. RpKept(p)
    BY DEF Settled
  <2>2. Past(q) = Past(p) /\ q.pd_capable = p.pd_capable
    BY <1>1 DEF SameTerms, Past
  <2>3. "SRC_READY" \in Late
    BY DEF Late
  <2>4. "INVALID_STATE" \notin Late
    BY DEF Late
  <2> QED
    BY <1>1, <2>1, <2>2, <2>3, <2>4 DEF RpKept, RpOnChange
<1> QED
  BY <1>2, <1>3 DEF Settled, q

\* tcpm_set_state with a delay.
LEMMA AfterTerms ==
    ASSUME NEW p \in Port, NEW t
    PROVE  LET q == SetAfter(p, t) IN
           /\ SameTerms(p, q)
           /\ q.state = p.state /\ q.prev_state = p.prev_state /\ q.delayed_state = t
           /\ q.enter_state = p.enter_state /\ q.queued = p.queued /\ q.run = p.run
           /\ q.rp = p.rp
<1> DEFINE q == SetAfter(p, t)
<1>1. SameTerms(p, q)
  BY DEF SetAfter, SameTerms, Port
<1>2. /\ q.state = p.state /\ q.prev_state = p.prev_state /\ q.delayed_state = t
      /\ q.enter_state = p.enter_state /\ q.queued = p.queued /\ q.run = p.run
      /\ q.rp = p.rp
  BY DEF SetAfter, Port
<1> QED
  BY <1>1, <1>2

LEMMA AfterSettled ==
    ASSUME NEW p \in Port, Settled(p), NEW t,
           Even(p) \/ t \in Bare \cup {"SRC_TRANSITION_SUPPLY"}, t # "SRC_READY",
           t = "SRC_HARD_RESET_DISABLE_RP" => p.state = "HARD_RESET_START",
           NoStatus /\ t \in Late => Past(p),
           p.state = "SRC_SEND_CAPABILITIES" => t = "SRC_SEND_CAPABILITIES" \/ p.pd_capable
    PROVE  Settled(SetAfter(p, t))
<1> DEFINE q == SetAfter(p, t)
<1>1. /\ SameTerms(p, q)
      /\ q.state = p.state /\ q.prev_state = p.prev_state /\ q.delayed_state = t
      /\ q.rp = p.rp
  BY AfterTerms
<1> HIDE DEF q
<1>2. Level(q)
  BY <1>1 DEF Settled, Level, Even, SameTerms
<1>3. NoStatus => RpKept(q)
  <2> SUFFICES ASSUME NoStatus PROVE RpKept(q)
    OBVIOUS
  <2>1. RpKept(p)
    BY DEF Settled
  <2>2. Past(q) = Past(p) /\ q.pd_capable = p.pd_capable
    BY <1>1 DEF SameTerms, Past
  <2> QED
    BY <1>1, <2>1, <2>2 DEF RpKept
<1> QED
  BY <1>2, <1>3 DEF Settled, q

\* The port within the state machine: it runs, and has no reply queued.
Steady(p) == p \in Port /\ p.run /\ ~p.queued /\ Settled(p)

LEMMA NowSteady ==
    ASSUME NEW p, Steady(p), NEW s \in States,
           Even(p) \/ s \in Rough \ {"SRC_NEGOTIATE_CAPABILITIES"},
           p.state # "SRC_READY", NoStatus /\ s \in Late => Past(p)
    PROVE  Steady(SetNow(p, s)) /\ SameTerms(p, SetNow(p, s))
<1>1. Settled(SetNow(p, s))
  BY NowSettled DEF Steady
<1> QED
  BY <1>1, NowTerms, SetNowType DEF Steady

LEMMA AfterSteady ==
    ASSUME NEW p, Steady(p), NEW t \in States,
           Even(p) \/ t \in Bare \cup {"SRC_TRANSITION_SUPPLY"}, t # "SRC_READY",
           t = "SRC_HARD_RESET_DISABLE_RP" => p.state = "HARD_RESET_START",
           NoStatus /\ t \in Late => Past(p),
           p.state = "SRC_SEND_CAPABILITIES" => t = "SRC_SEND_CAPABILITIES" \/ p.pd_capable
    PROVE  Steady(SetAfter(p, t)) /\ SameTerms(p, SetAfter(p, t))
<1>1. Settled(SetAfter(p, t))
  BY AfterSettled DEF Steady
<1> QED
  BY <1>1, AfterTerms, SetAfterType DEF Steady

\* A helper that touches nothing of this.
LEMMA SameSteady ==
    ASSUME NEW p, NEW q \in Port, SameTerms(p, q), SamePlace(p, q), q.rp = p.rp, Steady(p)
    PROVE  Steady(q)
BY SameSettled DEF Steady, SamePlace

\* tcpm_pd_transmit asks for a soft reset at most.
LEMMA TransmitSteady ==
    ASSUME NEW p, Steady(p), p.state # "SRC_READY", NEW r
    PROVE  LET q == Transmit(p, r) IN
           /\ Steady(q) /\ SameTerms(p, q) /\ q.enter_state = p.enter_state
           /\ q.state \in {p.state, "SOFT_RESET_SEND"}
<1>1. "SOFT_RESET_SEND" \in States \cap Rough
  BY DEF States, Rough
<1>2. SameTerms(p, p)
  BY DEF SameTerms
<1>3. CASE Transmit(p, r) = p
  BY <1>2, <1>3
<1>4. CASE Transmit(p, r) = SetNow(p, "SOFT_RESET_SEND") /\ p.pd_capable
  <2>1. /\ Steady(SetNow(p, "SOFT_RESET_SEND"))
        /\ SameTerms(p, SetNow(p, "SOFT_RESET_SEND"))
    BY <1>1, <1>4, NowSteady DEF Past
  <2> QED
    BY <1>4, <2>1, NowTerms DEF Steady
<1> QED
  BY <1>3, <1>4 DEF Transmit, SetNowCond

\* Where HardResetState leads, nothing has to be agreed.
LEMMA ResetTargets ==
    ASSUME NEW p \in Port
    PROVE  LET h == HardResetState(p) IN
           /\ h \in States /\ h \in Bare \ Late
           /\ h \notin {"SRC_HARD_RESET_DISABLE_RP", "SRC_READY"}
BY DEF HardResetState, States, Bare, Late

LEMMA HardResetSteady ==
    ASSUME NEW p, Steady(p), NEW q \in Port, p.state # "SRC_READY"
    PROVE  Steady(SetNow(p, HardResetState(q)))
<1> DEFINE h == HardResetState(q)
<1>1. /\ h \in States /\ h \in Bare \ Late
      /\ h \notin {"SRC_HARD_RESET_DISABLE_RP", "SRC_READY"}
  BY ResetTargets
<1>2. h # "SRC_NEGOTIATE_CAPABILITIES" /\ h \in Rough
  BY <1>1 DEF Bare, Rough
<1> HIDE DEF h
<1>3. Steady(SetNow(p, h))
  BY <1>1, <1>2, NowSteady
<1> QED
  BY <1>3 DEF h

LEMMA HardResetAfterSteady ==
    ASSUME NEW p, Steady(p), NEW q \in Port,
           p.state = "SRC_SEND_CAPABILITIES" => p.pd_capable
    PROVE  Steady(SetAfter(p, HardResetState(q)))
<1> DEFINE h == HardResetState(q)
<1>1. /\ h \in States /\ h \in Bare \ Late
      /\ h \notin {"SRC_HARD_RESET_DISABLE_RP", "SRC_READY"}
  BY ResetTargets
<1> HIDE DEF h
<1>2. Steady(SetAfter(p, h))
  BY <1>1, AfterSteady
<1> QED
  BY <1>2 DEF h

\* Rp goes up, or open where no PD sink may ask for an exchange.
LEMMA CcSteady ==
    ASSUME NEW p, Steady(p), NEW rp \in {"OPEN", "RP_1_5", "RP_3_0"},
           NoStatus => \/ rp = "RP_3_0" \/ ~p.pd_capable
                       \/ "SRC_READY" \notin {p.state, p.prev_state}
    PROVE  LET q == SetCc(p, rp) IN
           Steady(q) /\ SameTerms(p, q) /\ SamePlace(p, q)
<1> DEFINE q == SetCc(p, rp)
<1>1. q \in Port
  BY RegisterType DEF Steady
<1>2. SameTerms(p, q) /\ q.rp = rp
  BY DEF SameTerms, SetCc, Steady, Port
<1>3. SamePlace(p, q)
  BY DEF SamePlace, SetCc, Steady, Port
<1> HIDE DEF q
<1>4. Level(q)
  BY <1>2, <1>3 DEF Steady, Settled, Level, Even, SameTerms, SamePlace
<1>5. NoStatus => RpKept(q)
  <2> SUFFICES ASSUME NoStatus PROVE RpKept(q)
    OBVIOUS
  <2>1. RpKept(p)
    BY DEF Steady, Settled
  <2>2. Past(q) = Past(p) /\ q.pd_capable = p.pd_capable
    BY <1>2 DEF SameTerms, Past
  <2> QED
    BY <1>2, <1>3, <2>1, <2>2 DEF RpKept, SamePlace
<1> QED
  BY <1>1, <1>2, <1>3, <1>4, <1>5 DEF Steady, Settled, SamePlace, q

\* VCONN and the receiver do not matter here.
LEMMA SwitchesSteady ==
    ASSUME NEW p, Steady(p), NEW on \in BOOLEAN
    PROVE  /\ Steady(SetVconn(p, on)) /\ SameTerms(p, SetVconn(p, on))
           /\ SamePlace(p, SetVconn(p, on))
           /\ Steady(SetPdRx(p, on)) /\ SameTerms(p, SetPdRx(p, on))
           /\ SamePlace(p, SetPdRx(p, on))
<1>0. p \in Port
  BY DEF Steady
<1>1. SetVconn(p, on) \in Port /\ SetPdRx(p, on) \in Port
  BY <1>0, RegisterType
<1>2. SameTerms(p, SetVconn(p, on)) /\ SameTerms(p, SetPdRx(p, on))
  BY <1>0 DEF SameTerms, SetVconn, SetPdRx, Port
<1>3. SamePlace(p, SetVconn(p, on)) /\ SamePlace(p, SetPdRx(p, on))
  BY <1>0 DEF SamePlace, SetVconn, SetPdRx, Port
<1>4. SetVconn(p, on).rp = p.rp /\ SetPdRx(p, on).rp = p.rp
  BY <1>0 DEF SetVconn, SetPdRx, Port
<1> QED
  BY <1>1, <1>2, <1>3, <1>4, SameSteady

\* In a reset VBUS goes off and on whatever was granted.
LEMMA VbusSteady ==
    ASSUME NEW p, Steady(p), p.state \in Bare, p.delayed_state \in Bare, NEW on \in BOOLEAN
    PROVE  LET q == SetVbus(p, on) IN
           /\ Steady(q) /\ SamePlace(p, q)
           /\ q.pd_capable = p.pd_capable /\ q.caps_count = p.caps_count
<1> DEFINE q == SetVbus(p, on)
<1>0. p \in Port
  BY DEF Steady
<1>1. q \in Port
  BY <1>0, SetVbusType
<1>2. SamePlace(p, q)
  BY <1>0 DEF SamePlace, SetVbus, Port
<1>3. /\ q.pd_capable = p.pd_capable /\ q.caps_count = p.caps_count
      /\ q.rp \in {p.rp, "RP_3_0"}
  BY <1>0 DEF SetVbus, Port
<1> HIDE DEF q
<1>4. Past(q) = Past(p)
  BY <1>3 DEF Past
<1>5. Settled(q)
  BY <1>2, <1>3, <1>4, PlaceSettled DEF Steady
<1> QED
  BY <1>1, <1>2, <1>3, <1>5 DEF Steady, SamePlace, q

\* tcpm_reset_port leaves nothing to be at odds with.
LEMMA ResetPortTerms ==
    ASSUME NEW p \in Port
    PROVE  LET q == ResetPort(p) IN
           /\ q \in Port /\ SamePlace(p, q)
           /\ q.supply = 0 /\ q.supply_voltage = 0 /\ ~q.pd_capable /\ ~q.attached
           /\ q.rp = p.rp
<1> DEFINE a == SetVconn(p, FALSE)
           b == SetVbus(a, FALSE)
           q == [b EXCEPT !.attached = FALSE, !.pd_capable = FALSE, !.supply_voltage = 0]
<1>0. a \in Port
  BY RegisterType
<1>1. SamePlace(p, a) /\ a.rp = p.rp
  BY DEF SamePlace, SetVconn, Port
<1> HIDE DEF a
<1>2. b \in Port
  BY <1>0, SetVbusType
<1>3. SamePlace(a, b) /\ b.rp = a.rp /\ b.supply = 0
  BY <1>0 DEF SamePlace, SetVbus, Port
<1> HIDE DEF b
<1>4. /\ q.supply = b.supply /\ q.supply_voltage = 0 /\ ~q.pd_capable /\ ~q.attached
      /\ q.rp = b.rp
  BY <1>2 DEF Port
<1>5. SamePlace(b, q)
  BY <1>2 DEF SamePlace, Port
<1>6. q = ResetPort(p)
  BY DEF ResetPort, b, a
<1> HIDE DEF q
<1> QED
  BY <1>1, <1>3, <1>4, <1>5, <1>6, ResetPortType DEF SamePlace

LEMMA ResetPortSteady ==
    ASSUME NEW p, Steady(p), p.state \in Detaching, p.delayed_state = "INVALID_STATE"
    PROVE  LET q == ResetPort(p) IN
           Steady(q) /\ SamePlace(p, q) /\ ~q.pd_capable /\ Even(q)
<1> DEFINE q == ResetPort(p)
<1>1. /\ q \in Port /\ SamePlace(p, q)
      /\ q.supply = 0 /\ q.supply_voltage = 0 /\ ~q.pd_capable /\ ~q.attached
      /\ q.rp = p.rp
  BY ResetPortTerms DEF Steady
<1> HIDE DEF q
<1>2. Even(q)
  BY <1>1 DEF Even
<1>3. p.state \notin Late \cup {"SRC_SEND_CAPABILITIES"} /\ p.delayed_state \notin Late
  BY DEF Late, Detaching
<1>4. Settled(q)
  BY <1>1, <1>2, <1>3, PlaceSettled DEF Steady
<1> QED
  BY <1>1, <1>2, <1>4 DEF Steady, SamePlace, q

LEMMA DetachSteady ==
    ASSUME NEW p, Steady(p), p.state \in Detaching, p.delayed_state = "INVALID_STATE"
    PROVE  LET q == Detach(p) IN Steady(q) /\ SamePlace(p, q)
<1>1. CASE ~p.attached
  BY <1>1 DEF Detach, SamePlace
<1>2. CASE p.attached
  <2> DEFINE n == IF IsDisconnected(p) THEN 0 ELSE p.hard_reset_count
             q == [p EXCEPT !.hard_reset_count = n]
  <2>0. p \in Port
    BY DEF Steady
  <2>1. n \in 0..NHard
    BY <2>0, CountsAssumption DEF Port
  <2>2. Detach(p) = ResetPort(q)
    BY <1>2 DEF Detach
  <2> HIDE DEF n
  <2>3. q \in Port
    BY <2>0, <2>1 DEF Port
  <2>4. SameTerms(p, q) /\ q.rp = p.rp
    BY <2>0 DEF SameTerms, Port
  <2>5. SamePlace(p, q)
    BY <2>0 DEF SamePlace, Port
  <2> HIDE DEF q
  <2>6. Steady(q)
    BY <2>3, <2>4, <2>5, SameSteady
  <2>7. Steady(ResetPort(q)) /\ SamePlace(q, ResetPort(q))
    BY <2>5, <2>6, ResetPortSteady DEF SamePlace
  <2> QED
    BY <2>2, <2>5, <2>7 DEF SamePlace
<1> QED
  BY <1>1, <1>2

\* A port in SRC_ATTACHED has agreed on nothing yet.
LEMMA SrcAttachSteady ==
    ASSUME NEW p, Steady(p), Kept(p), p.state = "SRC_ATTACHED", p.delayed_state = "INVALID_STATE"
    PROVE  LET q == SrcAttach(p) IN Steady(q) /\ SamePlace(p, q)
<1>1. CASE p.attached
  BY <1>1 DEF SrcAttach, SamePlace
<1>2. CASE ~p.attached
  <2> DEFINE polarity == IF p.cc[2] = "RD" THEN "CC2" ELSE "CC1"
             o == [p EXCEPT !.polarity = polarity]
             q == SetPdRx(o, TRUE)
             v == IF HasPoweredCable(p, polarity) THEN SetVconn(q, TRUE) ELSE q
             w == SetVbus(v, TRUE)
             z == [w EXCEPT !.pd_capable = FALSE, !.attached = TRUE]
  <2>0. p \in Port /\ ~p.pd_capable /\ TRUE \in BOOLEAN
    BY <1>2 DEF Steady, Kept, Fed
  <2>1. polarity \in {"CC1", "CC2", "NONE"}
    OBVIOUS
  <2> HIDE DEF polarity
  <2>2. o \in Port
    BY <2>0, <2>1 DEF Port
  <2>3. SameTerms(p, o) /\ o.rp = p.rp
    BY <2>0 DEF SameTerms, Port
  <2>4. SamePlace(p, o)
    BY <2>0 DEF SamePlace, Port
  <2> HIDE DEF o
  <2>5. Steady(o)
    BY <2>2, <2>3, <2>4, SameSteady
  <2>6. Steady(q) /\ SamePlace(o, q) /\ SameTerms(o, q)
    BY <2>0, <2>5, SwitchesSteady
  <2> HIDE DEF q
  <2>7. Steady(v) /\ SamePlace(q, v) /\ SameTerms(q, v)
    <3>1. SamePlace(q, q) /\ SameTerms(q, q)
      BY DEF SamePlace, SameTerms
    <3> QED
      BY <2>0, <2>6, <3>1, SwitchesSteady
  <2> HIDE DEF v
  <2>8. v.state = "SRC_ATTACHED" /\ v.delayed_state = "INVALID_STATE" /\ ~v.pd_capable
    BY <2>0, <2>3, <2>4, <2>6, <2>7 DEF SamePlace, SameTerms
  <2>9. v.state \in Bare /\ v.delayed_state \in Bare
    BY <2>8 DEF Bare
  <2>10. Steady(w) /\ SamePlace(v, w) /\ w.pd_capable = v.pd_capable
    BY <2>0, <2>7, <2>9, VbusSteady
  <2> HIDE DEF w
  <2>11. z \in Port
    BY <2>10 DEF Steady, Port
  <2>12. z.pd_capable = FALSE /\ z.rp = w.rp
    BY <2>10 DEF Steady, Port
  <2>13. SamePlace(w, z)
    BY <2>10 DEF Steady, SamePlace, Port
  <2>14. SrcAttach(p) = z
    BY <1>2 DEF SrcAttach, z, w, v, q, o, polarity
  <2> HIDE DEF z
  <2>15. w.state = "SRC_ATTACHED" /\ w.delayed_state = "INVALID_STATE"
    BY <2>8, <2>10 DEF SamePlace
  <2>16. /\ w.state \notin Late \cup {"SRC_SEND_CAPABILITIES"}
         /\ w.delayed_state \notin Late
         /\ w.state \in Bare /\ w.delayed_state \in Bare
    BY <2>15 DEF Late, Bare
  <2>17. Settled(z)
    BY <2>10, <2>12, <2>13, <2>16, PlaceSettled DEF Steady
  <2>18. Steady(z)
    BY <2>10, <2>11, <2>13, <2>17 DEF Steady, SamePlace
  <2> QED
    BY <2>4, <2>6, <2>7, <2>10, <2>13, <2>14, <2>18 DEF SamePlace
<1> QED
  BY <1>1, <1>2

LEMMA AccAttachSteady ==
    ASSUME NEW p, Steady(p) PROVE Steady(AccAttach(p))
<1> DEFINE q == AccAttach(p)
<1>0. p \in Port
  BY DEF Steady
<1>1. q \in Port
  BY <1>0, AccAttachType
<1>2. /\ q.supply = p.supply /\ q.supply_voltage = p.supply_voltage
      /\ q.explicit_contract = p.explicit_contract /\ q.sink_request = p.sink_request
      /\ q.pd_capable = p.pd_capable /\ q.caps_count = p.caps_count /\ q.rp = p.rp
  BY <1>0 DEF AccAttach, Port
<1>3. SamePlace(p, q)
  BY <1>0 DEF SamePlace, AccAttach, Port
<1> HIDE DEF q
<1>4. Settled(q)
  BY <1>2, <1>3 DEF Steady, Settled, Level, Even, RpKept, Past, SamePlace
<1> QED
  BY <1>1, <1>3, <1>4 DEF Steady, SamePlace, q

LEMMA StartupSteady ==
    ASSUME NEW p, Steady(p), p.state = "SRC_STARTUP", p.delayed_state = "INVALID_STATE"
    PROVE  LET q == [p EXCEPT !.attached = TRUE, !.disc_cable_count = 0, !.caps_count = 0,
                              !.explicit_contract = FALSE, !.last_pdo_index = 0]
           IN  Steady(q) /\ Even(q) /\ q.state = p.state
<1> DEFINE q == [p EXCEPT !.attached = TRUE, !.disc_cable_count = 0, !.caps_count = 0,
                          !.explicit_contract = FALSE, !.last_pdo_index = 0]
<1>0. p \in Port
  BY DEF Steady
<1>1. 0 \in 0..3 /\ 0 \in 0..(NCaps + 1) /\ 0 \in Nat
  BY CountsAssumption
<1>2. q \in Port
  BY <1>0, <1>1 DEF Port
<1>3. q.explicit_contract = FALSE /\ q.pd_capable = p.pd_capable /\ q.rp = p.rp
  BY <1>0 DEF Port
<1>4. SamePlace(p, q)
  BY <1>0 DEF SamePlace, Port
<1> HIDE DEF q
<1>5. Even(q)
  BY <1>3 DEF Even
<1>6. p.state \notin Late \cup {"SRC_SEND_CAPABILITIES"} /\ p.delayed_state \notin Late
  BY DEF Late
<1>7. Settled(q)
  BY <1>3, <1>4, <1>5, <1>6, PlaceSettled DEF Steady
<1> QED
  BY <1>2, <1>4, <1>5, <1>7 DEF Steady, SamePlace, q

\* Counters other than caps_count do not matter here.
LEMMA CountSteady ==
    ASSUME NEW p, Steady(p), NEW n \in 0..NHard, NEW d \in 0..3, NEW i \in Nat
    PROVE  /\ LET q == [p EXCEPT !.hard_reset_count = n] IN
              Steady(q) /\ SameTerms(p, q) /\ SamePlace(p, q)
           /\ LET q == [p EXCEPT !.disc_cable_count = d] IN
              Steady(q) /\ SameTerms(p, q) /\ SamePlace(p, q)
           /\ LET q == [p EXCEPT !.last_pdo_index = i] IN
              Steady(q) /\ SameTerms(p, q) /\ SamePlace(p, q)
<1> DEFINE x == [p EXCEPT !.hard_reset_count = n]
           y == [p EXCEPT !.disc_cable_count = d]
           z == [p EXCEPT !.last_pdo_index = i]
<1>0. p \in Port
  BY DEF Steady
<1>1. x \in Port /\ SameTerms(p, x) /\ SamePlace(p, x) /\ x.rp = p.rp
  <2>1. x \in Port /\ x.rp = p.rp
    BY <1>0 DEF Port
  <2>2. SameTerms(p, x)
    BY <1>0 DEF SameTerms, Port
  <2>3. SamePlace(p, x)
    BY <1>0 DEF SamePlace, Port
  <2> QED
    BY <2>1, <2>2, <2>3
<1>2. y \in Port /\ SameTerms(p, y) /\ SamePlace(p, y) /\ y.rp = p.rp
  <2>1. y \in Port /\ y.rp = p.rp
    BY <1>0 DEF Port
  <2>2. SameTerms(p, y)
    BY <1>0 DEF SameTerms, Port
  <2>3. SamePlace(p, y)
    BY <1>0 DEF SamePlace, Port
  <2> QED
    BY <2>1, <2>2, <2>3
<1>3. z \in Port /\ SameTerms(p, z) /\ SamePlace(p, z) /\ z.rp = p.rp
  <2>1. z \in Port /\ z.rp = p.rp
    BY <1>0 DEF Port
  <2>2. SameTerms(p, z)
    BY <1>0 DEF SameTerms, Port
  <2>3. SamePlace(p, z)
    BY <1>0 DEF SamePlace, Port
  <2> QED
    BY <2>1, <2>2, <2>3
<1> HIDE DEF x, y, z
<1>4. Steady(x) /\ Steady(y) /\ Steady(z)
  BY <1>1, <1>2, <1>3, SameSteady
<1> QED
  BY <1>1, <1>2, <1>3, <1>4 DEF x, y, z

\* tcpm_pd_check_request: an accepted request is granted before it is supplied.
LEMMA CheckRequestSteady ==
    ASSUME NEW p, Steady(p), p.state = "SRC_NEGOTIATE_CAPABILITIES",
           p.delayed_state = "INVALID_STATE"
    PROVE  LET q == CheckRequest(p) IN
           /\ Steady(q) /\ SamePlace(p, q)
           /\ ~RequestOk(p.sink_request) => Even(q)
<1> DEFINE r == p.sink_request
           o == [p EXCEPT !.pdo_index = r.index]
           mv == IF PdoType(r.index) = "APDO" THEN r.mv ELSE FixedMv(r.index)
           q == [o EXCEPT !.pdo_type = PdoType(r.index), !.supply_voltage = mv]
<1>0. p \in Port /\ CheckRequest(p) \in Port
  BY CheckRequestType DEF Steady
<1>1. r.index \in Nat
  BY <1>0, RequestsAssumption DEF Port, NoRequest
<1> HIDE DEF mv
<1>2. o \in Port
  BY <1>0, <1>1 DEF Port
<1>3. SameTerms(p, o) /\ o.rp = p.rp
  BY <1>0 DEF SameTerms, Port
<1>4. SamePlace(p, o)
  BY <1>0 DEF SamePlace, Port
<1>5. CheckRequest(p) = IF ~RequestOk(r) THEN o ELSE q
  BY DEF CheckRequest, mv
<1>6. SamePlace(o, q)
  <2> HIDE DEF o
  <2> QED
    BY <1>2 DEF SamePlace, Port
<1>7. /\ q.pd_capable = o.pd_capable /\ q.caps_count = o.caps_count /\ q.rp = o.rp
      /\ q.sink_request = o.sink_request
  <2> HIDE DEF o
  <2> QED
    BY <1>2 DEF Port
<1> HIDE DEF o, q
<1>8. CASE ~RequestOk(r)
  <2>1. CheckRequest(p) = o
    BY <1>5, <1>8
  <2>2. Steady(o)
    BY <1>2, <1>3, <1>4, SameSteady
  <2>3. Even(p)
    BY <1>8 DEF Steady, Settled, Level
  <2>4. Even(o)
    BY <1>3, <2>3 DEF Even, SameTerms
  <2> QED
    BY <1>4, <2>1, <2>2, <2>4
<1>9. CASE RequestOk(r)
  <2>1. CheckRequest(p) = q
    BY <1>5, <1>9
  <2>2. SamePlace(p, q) /\ q.sink_request = r
    BY <1>3, <1>4, <1>6, <1>7 DEF SamePlace, SameTerms
  <2>3. Past(q) = Past(p) /\ q.pd_capable = p.pd_capable /\ q.rp = p.rp
    BY <1>3, <1>7 DEF Past, SameTerms
  <2>4. Level(q)
    BY <1>9, <2>2 DEF Level, SamePlace, Rough, Bare
  <2>5. NoStatus => RpKept(q)
    <3> SUFFICES ASSUME NoStatus PROVE RpKept(q)
      OBVIOUS
    <3>1. RpKept(p)
      BY DEF Steady, Settled
    <3> QED
      BY <2>2, <2>3, <3>1 DEF RpKept, SamePlace
  <2> HIDE DEF r
  <2> QED
    BY <1>0, <1>9, <2>1, <2>2, <2>4, <2>5 DEF Steady, Settled, SamePlace, r
<1> QED
  BY <1>8, <1>9

-----------------------------------------------------------------------------
(* The state machine.                                                      *)

\* The loop goes on with a port that no timer holds, or it ends.
Iteration ==
    /\ Settled(port') /\ ~port'.queued
    /\ port'.run => port'.delayed_state = "INVALID_STATE"
    /\ pc' = "sm" => port'.run
    /\ pc' \in {"sm", "tail"} /\ todo' = todo

LEMMA RanSteady ==
    ASSUME NEW p, Steady(p), Ran(p) PROVE Iteration
<1> DEFINE q == [p EXCEPT !.running = FALSE, !.run = FALSE]
<1>0. p \in Port
  BY DEF Steady
<1>1. /\ q.supply = p.supply /\ q.supply_voltage = p.supply_voltage
      /\ q.explicit_contract = p.explicit_contract /\ q.sink_request = p.sink_request
      /\ q.pd_capable = p.pd_capable /\ q.caps_count = p.caps_count /\ q.rp = p.rp
      /\ q.state = p.state /\ q.prev_state = p.prev_state
      /\ q.delayed_state = p.delayed_state /\ q.queued = p.queued /\ q.run = FALSE
  BY <1>0 DEF Port
<1>2. \/ port' = p /\ pc' = "sm" /\ p.delayed_state = "INVALID_STATE"
      \/ port' = q /\ pc' = "tail"
  BY DEF Ran, Becomes
<1>3. todo' = todo
  BY DEF Ran
<1> HIDE DEF q
<1>4. Settled(q)
  BY <1>1 DEF Steady, Settled, Level, Even, RpKept, Past
<1> QED
  BY <1>1, <1>2, <1>3, <1>4 DEF Iteration, Steady

\* What every iteration starts from: only SRC_HARD_RESET_VBUS_ON may be run with
\* a timer armed, by the VBUS event that overtook it.
Turn(p) ==
    p.run /\ ~p.queued /\ p.delayed_state # "INVALID_STATE"
      => p.state = "SRC_HARD_RESET_VBUS_ON" /\ p.delayed_state = "SRC_STARTUP"

LEMMA EnteredSteady ==
    ASSUME port \in Port, Settled(port), port.run, ~port.queued
    PROVE  Steady(Entered) /\ SameTerms(port, Entered)
           /\ Entered.state = port.state /\ Entered.enter_state = port.state
           /\ Entered.prev_state = port.prev_state
           /\ Entered.delayed_state = port.delayed_state
<1> DEFINE s == port.state
           e == [port EXCEPT !.enter_state = s]
<1>1. s \in States
  BY DEF Port
<1>2. e \in Port
  BY <1>1 DEF Port
<1>3. /\ e.state = s /\ e.enter_state = s /\ e.prev_state = port.prev_state
      /\ e.delayed_state = port.delayed_state
      /\ e.run = port.run /\ e.queued = port.queued /\ e.rp = port.rp
  BY DEF Port
<1>4. SameTerms(port, e)
  BY DEF SameTerms, Port
<1>5. e = Entered
  BY DEF Entered
<1> HIDE DEF e
<1>6. Settled(e)
  BY <1>3, <1>4 DEF Settled, Level, Even, RpKept, Past, SameTerms
<1> QED
  BY <1>2, <1>3, <1>4, <1>5, <1>6 DEF Steady

LEMMA RunStateMachineSettled ==
    ASSUME TypeOK, Kept(port), Settled(port), Turn(port), port.run, ~port.queued,
           RunStateMachine
    PROVE  Iteration
<1> DEFINE e == Entered
           s == port.state
<1>0. /\ e \in Port /\ Steady(e) /\ SameTerms(port, e) /\ e.state = s /\ e.enter_state = s
      /\ e.prev_state = port.prev_state /\ e.delayed_state = port.delayed_state
      /\ s # "SRC_UNATTACHED" => Kept(e)
  BY EnteredSteady, EnteredKept DEF TypeOK, Steady
<1>d. s # "SRC_HARD_RESET_VBUS_ON" => e.delayed_state = "INVALID_STATE"
  BY <1>0 DEF Turn
<1>e. s \notin Rough => Even(e)
  BY <1>0 DEF Steady, Settled, Level
<1>p. NoStatus /\ s \in Late => Past(e)
  BY <1>0 DEF Steady, Settled, RpKept
<1>q. ASSUME NEW p, Steady(p), Ran(p) PROVE Iteration
  BY <1>q, RanSteady
<1>b. /\ {"SRC_UNATTACHED", "ACC_UNATTACHED", "DEBUG_ACC_ATTACHED", "AUDIO_ACC_ATTACHED",
          "SRC_ATTACHED", "HARD_RESET_START", "PORT_RESET_WAIT_OFF",
          "SRC_HARD_RESET_VBUS_OFF", "SRC_HARD_RESET_VBUS_ON",
          "SRC_HARD_RESET_VBUS_OFF_DISABLE"}
            \subseteq (States \cap Bare) \ Late
      /\ Bare \subseteq Rough
      /\ {"SRC_DISC_CABLE", "SRC_WAIT_CABLE", "SRC_SEND_CAPABILITIES"} \subseteq States \ Late
      /\ {"SRC_READY", "SRC_WAIT_NEW_CAPABILITIES", "VCONN_SWAP_START",
          "VCONN_SWAP_WAIT_FOR_VCONN", "VCONN_SWAP_TURN_ON_VCONN"} \subseteq States
      /\ "SRC_NEGOTIATE_CAPABILITIES" \notin Bare
  BY DEF States, Bare, Rough, Late
<1>n. ASSUME NEW p, Steady(p), p.state # "SRC_READY",
             NEW t \in {"SRC_UNATTACHED", "HARD_RESET_START"}
      PROVE  Steady(SetNow(p, t))
  BY <1>b, <1>n, NowSteady
<1>a. ASSUME NEW p, Steady(p), p.state # "SRC_SEND_CAPABILITIES",
             NEW t \in {"SRC_UNATTACHED", "ACC_UNATTACHED", "DEBUG_ACC_ATTACHED",
                        "AUDIO_ACC_ATTACHED", "SRC_ATTACHED", "PORT_RESET_WAIT_OFF",
                        "SRC_HARD_RESET_VBUS_OFF", "SRC_HARD_RESET_VBUS_ON",
                        "SRC_HARD_RESET_VBUS_OFF_DISABLE"}
      PROVE  Steady(SetAfter(p, t))
  BY <1>a, <1>b, AfterSteady
<1>m. ASSUME NEW p, Steady(p), p.state # "SRC_READY", Even(p),
             NEW t \in {"SRC_SEND_CAPABILITIES", "SRC_READY", "SRC_WAIT_NEW_CAPABILITIES",
                        "VCONN_SWAP_START", "VCONN_SWAP_WAIT_FOR_VCONN",
                        "VCONN_SWAP_TURN_ON_VCONN"},
             NoStatus /\ t \in Late => Past(p)
      PROVE  Steady(SetNow(p, t))
  BY <1>b, <1>m, NowSteady
<1>l. ASSUME NEW p, Steady(p), Even(p),
             NEW t \in {"SRC_DISC_CABLE", "SRC_WAIT_CABLE", "SRC_SEND_CAPABILITIES"},
             p.state = "SRC_SEND_CAPABILITIES" => t = "SRC_SEND_CAPABILITIES"
      PROVE  Steady(SetAfter(p, t))
  BY <1>b, <1>l, AfterSteady
<1>t. ASSUME NEW p, Steady(p), p.state # "SRC_READY", NEW r
      PROVE  LET q == Transmit(p, r) IN
             /\ Steady(q) /\ SameTerms(p, q) /\ q.enter_state = p.enter_state
             /\ q.state \in {p.state, "SOFT_RESET_SEND"}
             /\ q.state # "SRC_READY"
             /\ Even(q) = Even(p) /\ Past(q) = Past(p)
  BY <1>t, TransmitSteady DEF SameTerms, Even, Past
<1>o. FALSE \in BOOLEAN /\ TRUE \in BOOLEAN
  OBVIOUS
<1> HIDE DEF e
<1>1. CASE SrcUnattached
  <2> DEFINE p == SetCc(e, "RP_3_0")
  <2>1. s = "SRC_UNATTACHED"
    BY <1>1 DEF SrcUnattached, In
  <2>2. Steady(p) /\ SamePlace(e, p)
    BY <1>0, CcSteady
  <2>3. Ran(Detach(p))
    BY <1>1 DEF SrcUnattached, e
  <2> HIDE DEF p
  <2>4. Steady(Detach(p))
    BY <1>0, <1>d, <2>1, <2>2, DetachSteady DEF SamePlace, Detaching
  <2> QED
    BY <1>q, <2>3, <2>4
<1>2. CASE SrcAttachWait
  <2>1. s # "SRC_SEND_CAPABILITIES"
    BY <1>2 DEF SrcAttachWait, In
  <2>2. \/ Ran(e)
        \/ \E t \in {"DEBUG_ACC_ATTACHED", "AUDIO_ACC_ATTACHED", "SRC_ATTACHED"} :
              Ran(SetAfter(e, t))
    BY <1>2 DEF SrcAttachWait, e
  <2> QED
    BY <1>0, <1>a, <1>q, <2>1, <2>2
<1>3. CASE SrcAttached
  <2> DEFINE a == SrcAttach(e)
             p == SetCc(a, "RP_3_0")
  <2>1. s = "SRC_ATTACHED"
    BY <1>3 DEF SrcAttached, In
  <2>2. Steady(a) /\ SamePlace(e, a)
    BY <1>0, <1>d, <2>1, SrcAttachSteady
  <2>3. Ran(SetAfter(p, "SRC_UNATTACHED"))
    BY <1>3 DEF SrcAttached, e
  <2> HIDE DEF a
  <2>4. Steady(p) /\ SamePlace(a, p)
    BY <2>2, CcSteady
  <2> HIDE DEF p
  <2>5. p.state # "SRC_SEND_CAPABILITIES"
    BY <1>0, <2>1, <2>2, <2>4 DEF SamePlace
  <2> QED
    BY <1>a, <1>q, <2>3, <2>4, <2>5
<1>4. CASE SrcStartup
  <2> DEFINE q == [e EXCEPT !.attached = TRUE, !.disc_cable_count = 0, !.caps_count = 0,
                            !.explicit_contract = FALSE, !.last_pdo_index = 0]
  <2>1. s = "SRC_STARTUP"
    BY <1>4 DEF SrcStartup, In
  <2>2. Steady(q) /\ Even(q) /\ q.state = s
    BY <1>0, <1>d, <2>1, StartupSteady
  <2>3. Ran(SetAfter(q, "SRC_DISC_CABLE"))
    BY <1>4 DEF SrcStartup, e
  <2> HIDE DEF q
  <2> QED
    BY <1>l, <1>q, <2>1, <2>2, <2>3
<1>5. CASE SrcDiscCable
  <2> DEFINE n == IF e.disc_cable_count > 2 THEN e.disc_cable_count ELSE e.disc_cable_count + 1
             p == [e EXCEPT !.disc_cable_count = n]
  <2>1. s = "SRC_DISC_CABLE" /\ Even(e)
    BY <1>5, <1>e DEF SrcDiscCable, In, Rough, Bare
  <2>2. n \in 0..3
    BY <1>0 DEF Port
  <2>3. \/ Ran(SetAfter(e, "SRC_SEND_CAPABILITIES"))
        \/ Ran(SetNow(p, "SRC_SEND_CAPABILITIES"))
        \/ \E r \in TxOutcomes, t \in {"SRC_WAIT_CABLE", "SRC_DISC_CABLE"} :
              Ran(SetAfter(Transmit(p, r), t))
    BY <1>5 DEF SrcDiscCable, e
  <2> HIDE DEF n
  <2>4. Steady(p) /\ SameTerms(e, p) /\ SamePlace(e, p)
    <3>1. 0 \in 0..NHard /\ 0 \in Nat
      BY CountsAssumption
    <3> QED
      BY <1>0, <2>2, <3>1, CountSteady
  <2> HIDE DEF p
  <2>5. Even(p) /\ p.state = s
    BY <1>0, <2>1, <2>4 DEF SameTerms, SamePlace, Even
  <2>6. ASSUME NEW r, NEW t \in {"SRC_WAIT_CABLE", "SRC_DISC_CABLE"}
        PROVE  Steady(SetAfter(Transmit(p, r), t))
    BY <1>l, <1>t, <2>1, <2>4, <2>5
  <2>7. Steady(SetAfter(e, "SRC_SEND_CAPABILITIES")) /\ Steady(SetNow(p, "SRC_SEND_CAPABILITIES"))
    BY <1>0, <1>b, <1>l, <1>m, <2>1, <2>4, <2>5
  <2> QED
    BY <1>q, <2>3, <2>6, <2>7
<1>6. CASE SrcWaitCable
  <2>1. s = "SRC_WAIT_CABLE" /\ Even(e)
    BY <1>6, <1>e DEF SrcWaitCable, In, Rough, Bare
  <2>2. Steady(SetNow(e, "SRC_SEND_CAPABILITIES"))
    BY <1>0, <1>b, <1>m, <2>1
  <2> QED
    BY <1>6, <1>q, <2>2 DEF SrcWaitCable, e
<1>7. CASE SrcSendCapabilities
  <2> DEFINE n == IF e.caps_count > NCaps THEN e.caps_count ELSE e.caps_count + 1
             p == [e EXCEPT !.caps_count = n]
             q == [p EXCEPT !.hard_reset_count = 0, !.caps_count = 0, !.pd_capable = TRUE]
  <2>1. /\ s = "SRC_SEND_CAPABILITIES" /\ Even(e)
        /\ s \notin Late /\ e.delayed_state = "INVALID_STATE"
    BY <1>7, <1>d, <1>e DEF SrcSendCapabilities, In, Rough, Bare, Late
  <2>2. n \in 0..(NCaps + 1) /\ n >= e.caps_count
    BY <1>0, CountsAssumption DEF Port
  <2>3. \/ Ran(SetNow(p, "SRC_READY")) /\ p.caps_count > NCaps
        \/ Ran(SetAfterCond(q, HardResetState(q))) /\ ~(p.caps_count > NCaps)
        \/ Ran(SetAfter(p, "SRC_SEND_CAPABILITIES"))
        \/ Ran(Transmit(p, "FAILED"))
    BY <1>7 DEF SrcSendCapabilities, CapsSent, e
  <2> HIDE DEF n
  <2>4. p \in Port
    BY <1>0, <2>2 DEF Port
  <2>5. p.caps_count = n /\ p.pd_capable = e.pd_capable /\ p.rp = e.rp
    BY <1>0 DEF Port
  <2>6. SamePlace(e, p)
    BY <1>0 DEF SamePlace, Port
  <2>7. Even(p)
    <3>1. /\ p.supply = e.supply /\ p.supply_voltage = e.supply_voltage
          /\ p.explicit_contract = e.explicit_contract
      BY <1>0 DEF Port
    <3> QED
      BY <2>1, <3>1 DEF Even
  <2>8. 0 \in 0..(NCaps + 1) /\ 0 \in 0..NHard
    BY CountsAssumption
  <2> HIDE DEF p
  <2>9. Past(e) => Past(p)
    <3>1. n \in Nat /\ e.caps_count \in Nat /\ NCaps \in Nat
      BY <1>0, <2>2, CountsAssumption DEF Port
    <3> QED
      BY <2>2, <2>5, <3>1 DEF Past
  <2>10. Settled(p)
    BY <1>0, <2>5, <2>6, <2>7, <2>9, PlaceSettled DEF Steady
  <2>11. Steady(p) /\ p.state = s /\ p.enter_state = s
    BY <1>0, <2>4, <2>6, <2>10 DEF Steady, SamePlace
  <2>12. q \in Port
    BY <2>4, <2>8 DEF Port
  <2>13. q.pd_capable = TRUE /\ q.rp = p.rp
    BY <2>4 DEF Port
  <2>14. SamePlace(p, q)
    BY <2>4 DEF SamePlace, Port
  <2>15. Even(q)
    <3>1. /\ q.supply = p.supply /\ q.supply_voltage = p.supply_voltage
          /\ q.explicit_contract = p.explicit_contract
      BY <2>4 DEF Port
    <3> QED
      BY <2>7, <3>1 DEF Even
  <2> HIDE DEF q
  <2>16. ASSUME ~(p.caps_count > NCaps) PROVE Steady(q)
    <3>1. NoStatus => RpKept(q)
      <4> SUFFICES ASSUME NoStatus PROVE RpKept(q)
        OBVIOUS
      <4>1. RpKept(p)
        BY <2>10 DEF Settled
      <4>2. p.prev_state = "SRC_READY" => p.pd_capable
        BY <2>1, <2>11, <2>16, <4>1 DEF RpKept, Past
      <4>3. "SRC_HARD_RESET_DISABLE_RP" # s /\ "INVALID_STATE" \notin Late
        BY <2>1 DEF Late
      <4> QED
        BY <1>0, <2>1, <2>6, <2>11, <2>13, <2>14, <4>1, <4>2, <4>3 DEF RpKept, SamePlace, Past
    <3> QED
      BY <2>11, <2>12, <2>14, <2>15, <3>1 DEF Steady, Settled, Level, SamePlace
  <2>17. ASSUME ~(p.caps_count > NCaps) PROVE Steady(SetAfterCond(q, HardResetState(q)))
    BY <2>12, <2>13, <2>16, <2>17, HardResetAfterSteady DEF SetAfterCond
  <2>18. ASSUME p.caps_count > NCaps PROVE Steady(SetNow(p, "SRC_READY"))
    BY <1>m, <2>1, <2>7, <2>11, <2>18 DEF Past
  <2>19. Steady(SetAfter(p, "SRC_SEND_CAPABILITIES"))
    BY <1>l, <2>7, <2>11
  <2>20. Steady(Transmit(p, "FAILED"))
    BY <1>t, <2>1, <2>11
  <2> QED
    BY <1>q, <2>3, <2>17, <2>18, <2>19, <2>20
<1>8. CASE SrcNegotiateCapabilities
  <2> DEFINE p == CheckRequest(e)
  <2>1. s = "SRC_NEGOTIATE_CAPABILITIES" /\ s \in Late
    BY <1>8 DEF SrcNegotiateCapabilities, In, Late
  <2>2. /\ Steady(p) /\ SamePlace(e, p)
        /\ ~RequestOk(e.sink_request) => Even(p)
    BY <1>0, <1>d, <2>1, CheckRequestSteady
  <2>3. \E r \in TxOutcomes : \/ RequestOk(port.sink_request) /\ Ran(Accept(p, r))
                              \/ ~RequestOk(port.sink_request) /\ Ran(Reject(p, r))
    BY <1>8 DEF SrcNegotiateCapabilities, e
  <2> HIDE DEF p
  <2>4. p.state = s /\ (NoStatus => Past(p))
    BY <1>0, <2>1, <2>2 DEF SamePlace, Steady, Settled, RpKept
  <2>5. ASSUME NEW r, ~RequestOk(port.sink_request) PROVE Steady(Reject(p, r))
    <3>1. Even(p)
      BY <1>0, <2>2, <2>5 DEF SameTerms
    <3> QED
      BY <1>m, <1>t, <2>1, <2>2, <2>4, <3>1 DEF Reject
  <2>6. ASSUME NEW r PROVE Steady(Accept(p, r))
    <3> DEFINE q == Transmit(p, r)
               t == IF p.pdo_type = "APDO" /\ p.pdo_index = p.last_pdo_index
                    THEN SetNow(q, "SRC_TRANSITION_SUPPLY")
                    ELSE SetAfter(q, "SRC_TRANSITION_SUPPLY")
               n == p.pdo_index
               u == [t EXCEPT !.last_pdo_index = n]
    <3>1. /\ Steady(q) /\ q.state \notin {"SRC_READY", "SRC_SEND_CAPABILITIES"}
          /\ NoStatus => Past(q)
      BY <1>t, <2>1, <2>2, <2>4
    <3>2. n \in Nat
      BY <2>2 DEF Steady, Port
    <3>3. Accept(p, r) = u
      BY DEF Accept
    <3>4. "SRC_TRANSITION_SUPPLY" \in States \cap Rough
      BY DEF States, Rough
    <3> HIDE DEF q, n
    <3>5. Steady(t)
      BY <3>1, <3>4, NowSteady, AfterSteady
    <3> HIDE DEF t
    <3>6. 0 \in 0..NHard /\ 0 \in 0..3
      BY CountsAssumption
    <3>7. Steady(u)
      BY <3>2, <3>5, <3>6, CountSteady
    <3> QED
      BY <3>3, <3>7
  <2> QED
    BY <1>q, <2>3, <2>5, <2>6
<1>9. CASE SrcTransitionSupply
  <2>1. s = "SRC_TRANSITION_SUPPLY" /\ s \in Late
    BY <1>9 DEF SrcTransitionSupply, In, Late
  <2>2. ASSUME NEW r
        PROVE  LET u == [Transmit(SetVbusHv(e), r) EXCEPT !.explicit_contract = TRUE] IN
               Steady(SetNowCond(u, "SRC_READY"))
    <3> DEFINE v == SetVbusHv(e)
               t == Transmit(v, r)
               u == [t EXCEPT !.explicit_contract = TRUE]
    <3>1. v \in Port
      BY <1>0, SetVbusHvType
    <3>2. /\ v.supply = v.supply_voltage /\ v.pd_capable = e.pd_capable
          /\ v.caps_count = e.caps_count /\ v.rp = e.rp
      BY <1>0 DEF SetVbusHv, Port
    <3>3. SamePlace(e, v)
      BY <1>0 DEF SamePlace, SetVbusHv, Port
    <3> HIDE DEF v
    <3>4. Even(v) /\ Past(v) = Past(e)
      BY <3>2 DEF Even, Past
    <3>5. Settled(v)
      BY <1>0, <3>2, <3>3, <3>4, PlaceSettled DEF Steady
    <3>6. Steady(v) /\ v.state = s
      BY <1>0, <3>1, <3>3, <3>5 DEF Steady, SamePlace
    <3>7. Steady(t) /\ SameTerms(v, t) /\ t.state # "SRC_READY" /\ Past(t) = Past(v)
      BY <1>t, <2>1, <3>6
    <3> HIDE DEF t
    <3>8. u \in Port
      BY <3>7 DEF Steady, Port
    <3>9. /\ u.supply = t.supply /\ u.supply_voltage = t.supply_voltage
          /\ u.pd_capable = t.pd_capable /\ u.caps_count = t.caps_count /\ u.rp = t.rp
      BY <3>7 DEF Steady, Port
    <3>10. SamePlace(t, u)
      BY <3>7 DEF Steady, SamePlace, Port
    <3> HIDE DEF u
    <3>11. Even(u) /\ Past(u) = Past(t)
      BY <3>2, <3>7, <3>9 DEF Even, Past, SameTerms
    <3>12. Settled(u)
      BY <3>7, <3>9, <3>10, <3>11, PlaceSettled DEF Steady
    <3>13. Steady(u) /\ u.state # "SRC_READY" /\ (NoStatus => Past(u))
      BY <1>p, <2>1, <3>4, <3>7, <3>8, <3>10, <3>11, <3>12 DEF Steady, SamePlace
    <3>14. Steady(SetNowCond(u, "SRC_READY"))
      BY <1>m, <3>11, <3>13 DEF SetNowCond
    <3> QED
      BY <3>14 DEF u, t, v
  <2> QED
    BY <1>9, <1>q, <2>2 DEF SrcTransitionSupply, e
<1>10. CASE SrcReady
  <2> DEFINE p == IF port.explicit_contract /\ port.pdo_type = "APDO"
                  THEN SetAfterCond(e, HardResetState(e)) ELSE e
             q == [p EXCEPT !.hard_reset_count = 0]
  <2>1. s = "SRC_READY"
    BY <1>10 DEF SrcReady, In
  <2>2. Steady(p)
    BY <1>0, <2>1, HardResetAfterSteady DEF SetAfterCond
  <2>3. Ran(q)
    BY <1>10 DEF SrcReady, e
  <2> HIDE DEF p
  <2>4. 0 \in 0..NHard /\ 0 \in 0..3 /\ 0 \in Nat
    BY CountsAssumption
  <2>5. Steady(q)
    BY <2>2, <2>4, CountSteady
  <2> QED
    BY <1>q, <2>3, <2>5
<1>11. CASE AccUnattached
  <2> DEFINE p == Detach(e)
  <2>1. s = "ACC_UNATTACHED"
    BY <1>11 DEF AccUnattached, In
  <2>2. Steady(p) /\ SamePlace(e, p)
    BY <1>0, <1>d, <2>1, DetachSteady DEF Detaching
  <2>3. Ran(SetNow(p, "SRC_UNATTACHED"))
    BY <1>11 DEF AccUnattached, e
  <2> HIDE DEF p
  <2> QED
    BY <1>0, <1>n, <1>q, <2>1, <2>2, <2>3 DEF SamePlace
<1>12. CASE AccAttached
  <2>1. Ran(AccAttach(e))
    BY <1>12 DEF AccAttached, e
  <2> QED
    BY <1>0, <1>q, <2>1, AccAttachSteady
<1>13. CASE AudioAccDebounce
  <2>1. s = "AUDIO_ACC_DEBOUNCE" /\ Ran(SetAfter(e, "ACC_UNATTACHED"))
    BY <1>13 DEF AudioAccDebounce, In, e
  <2> QED
    BY <1>0, <1>a, <1>q, <2>1
<1>14. CASE HardResetSend
  <2>1. s = "HARD_RESET_SEND"
    BY <1>14 DEF HardResetSend, In
  <2>2. ASSUME NEW r PROVE Steady(SetNow(Transmit(e, r), "HARD_RESET_START"))
    BY <1>0, <1>n, <1>t, <2>1
  <2> QED
    BY <1>14, <1>q, <2>2 DEF HardResetSend, e
<1>15. CASE HardResetStart
  <2> DEFINE q == SetPdRx(e, FALSE)
             n == IF q.hard_reset_count < NHard THEN q.hard_reset_count + 1
                  ELSE q.hard_reset_count
             p == [q EXCEPT !.hard_reset_count = n]
  <2>1. s = "HARD_RESET_START"
    BY <1>15 DEF HardResetStart, In
  <2>2. Steady(q) /\ SamePlace(e, q)
    BY <1>0, <1>o, SwitchesSteady
  <2>3. \E t \in {"SRC_HARD_RESET_DISABLE_RP", "SRC_HARD_RESET_VBUS_OFF"} :
           Ran(SetAfter(p, t))
    BY <1>15 DEF HardResetStart, e
  <2> HIDE DEF q
  <2>4. n \in 0..NHard /\ 0 \in 0..3 /\ 0 \in Nat
    BY <2>2, CountsAssumption DEF Steady, Port
  <2> HIDE DEF n
  <2>5. Steady(p) /\ SamePlace(q, p)
    <3>1. \A d \in 0..3, i \in Nat : Steady(p) /\ SamePlace(q, p)
      BY <2>2, <2>4, CountSteady
    <3> QED
      BY <2>4, <3>1
  <2>6. Steady(p) /\ p.state = "HARD_RESET_START"
    BY <1>0, <2>1, <2>2, <2>5 DEF SamePlace
  <2> HIDE DEF p
  <2>7. "SRC_HARD_RESET_DISABLE_RP" \in (States \cap Bare) \ Late
    BY DEF States, Bare, Late
  <2>8. Steady(SetAfter(p, "SRC_HARD_RESET_DISABLE_RP"))
    BY <2>6, <2>7, AfterSteady
  <2> QED
    BY <1>a, <1>q, <2>3, <2>6, <2>8
<1>16. CASE SrcHardResetVbusOff
  <2> DEFINE p == SetVconn(e, FALSE)
             q == SetVbus(p, FALSE)
  <2>1. s = "SRC_HARD_RESET_VBUS_OFF"
    BY <1>16 DEF SrcHardResetVbusOff, In
  <2>2. Steady(p) /\ SamePlace(e, p)
    BY <1>0, <1>o, SwitchesSteady
  <2>3. Ran(SetAfter(q, "SRC_HARD_RESET_VBUS_ON"))
    BY <1>16 DEF SrcHardResetVbusOff, e
  <2> HIDE DEF p
  <2>4. p.state = s /\ p.state \in Bare /\ p.delayed_state \in Bare
    BY <1>0, <1>d, <2>1, <2>2 DEF SamePlace, Bare
  <2>5. Steady(q) /\ SamePlace(p, q)
    BY <1>o, <2>2, <2>4, VbusSteady
  <2> HIDE DEF q
  <2> QED
    BY <1>a, <1>q, <2>1, <2>3, <2>4, <2>5 DEF SamePlace
<1>17. CASE SrcHardResetVbusOn
  <2> DEFINE o == SetPdRx(e, TRUE)
             p == SetVbus(o, TRUE)
             q == IF HasPoweredCable(p, p.polarity) THEN SetVconn(p, TRUE) ELSE p
  <2>1. s = "SRC_HARD_RESET_VBUS_ON"
    BY <1>17 DEF SrcHardResetVbusOn, In
  <2>2. Steady(o) /\ SamePlace(e, o)
    BY <1>0, <1>o, SwitchesSteady
  <2>3. Ran(SetAfter(q, "SRC_UNATTACHED"))
    BY <1>17 DEF SrcHardResetVbusOn, e
  <2> HIDE DEF o
  <2>4. o.state = s /\ o.state \in Bare /\ o.delayed_state \in Bare
    BY <1>0, <2>1, <2>2 DEF SamePlace, Bare, Turn
  <2>5. Steady(p) /\ SamePlace(o, p)
    BY <1>o, <2>2, <2>4, VbusSteady
  <2> HIDE DEF p
  <2>6. Steady(q) /\ q.state = p.state
    BY <1>o, <2>5, SwitchesSteady DEF SamePlace
  <2> HIDE DEF q
  <2> QED
    BY <1>a, <1>q, <2>1, <2>3, <2>4, <2>5, <2>6 DEF SamePlace
<1>18. CASE SoftReset
  <2>1. s = "SOFT_RESET" /\ Even(e)
    BY <1>18, <1>e DEF SoftReset, In, Rough, Bare
  <2>2. ASSUME NEW r PROVE Steady(SetNow(Transmit(e, r), "SRC_SEND_CAPABILITIES"))
    BY <1>0, <1>b, <1>m, <1>t, <2>1
  <2> QED
    BY <1>18, <1>q, <2>2 DEF SoftReset, e
<1>19. CASE SoftResetSend
  <2>1. s = "SOFT_RESET_SEND"
    BY <1>19 DEF SoftResetSend, In
  <2>2. ASSUME NEW r
        PROVE  LET p == Transmit(e, r) IN
               /\ Steady(SetAfterCond(p, HardResetState(p)))
               /\ Steady(SetNowCond(p, HardResetState(p)))
    <3> DEFINE p == Transmit(e, r)
    <3>1. Steady(p) /\ p.state = s /\ p \in Port
      BY <1>0, <1>t, <2>1 DEF Steady
    <3> HIDE DEF p
    <3>2. /\ Steady(SetAfterCond(p, HardResetState(p)))
          /\ Steady(SetNowCond(p, HardResetState(p)))
      BY <2>1, <3>1, HardResetSteady, HardResetAfterSteady DEF SetAfterCond, SetNowCond
    <3> QED
      BY <3>2 DEF p
  <2> QED
    BY <1>19, <1>q, <2>2 DEF SoftResetSend, e
<1>20. CASE VconnSwapAccept
  <2>1. s = "VCONN_SWAP_ACCEPT" /\ s \in Late /\ Even(e)
    BY <1>20, <1>e DEF VconnSwapAccept, In, Rough, Bare, Late
  <2>2. ASSUME NEW r PROVE Steady(SetNow(Transmit(e, r), "VCONN_SWAP_START"))
    BY <1>0, <1>m, <1>p, <1>t, <2>1
  <2> QED
    BY <1>20, <1>q, <2>2 DEF VconnSwapAccept, e
<1>21. CASE VconnSwapStart
  <2>1. s = "VCONN_SWAP_START" /\ s \in Late /\ Even(e)
    BY <1>21, <1>e DEF VconnSwapStart, In, Rough, Bare, Late
  <2>2. \E t \in {"VCONN_SWAP_WAIT_FOR_VCONN", "VCONN_SWAP_TURN_ON_VCONN"} : Ran(SetNow(e, t))
    BY <1>21 DEF VconnSwapStart, e
  <2> QED
    BY <1>0, <1>m, <1>p, <1>q, <2>1, <2>2
<1>22. CASE VconnSwapWaitForVconn
  <2>1. s = "VCONN_SWAP_WAIT_FOR_VCONN"
    BY <1>22 DEF VconnSwapWaitForVconn, In
  <2>2. Steady(SetAfter(e, HardResetState(e)))
    BY <1>0, <2>1, HardResetAfterSteady
  <2> QED
    BY <1>22, <1>q, <2>2 DEF VconnSwapWaitForVconn, e
<1>23. CASE VconnSwapTurnOnVconn
  <2> DEFINE p == SetVconn(e, TRUE)
  <2>1. s = "VCONN_SWAP_TURN_ON_VCONN" /\ s \in Late /\ Even(e)
    BY <1>23, <1>e DEF VconnSwapTurnOnVconn, In, Rough, Bare, Late
  <2>2. Steady(p) /\ SameTerms(e, p) /\ SamePlace(e, p)
    BY <1>0, <1>o, SwitchesSteady
  <2>3. \E r \in TxOutcomes : Ran(SetNow(Transmit(p, r), "SRC_READY"))
    BY <1>23 DEF VconnSwapTurnOnVconn, e
  <2> HIDE DEF p
  <2>4. p.state = s /\ Even(p) /\ (NoStatus => Past(p))
    BY <1>0, <1>p, <2>1, <2>2 DEF SameTerms, SamePlace, Even, Past
  <2>5. ASSUME NEW r PROVE Steady(SetNow(Transmit(p, r), "SRC_READY"))
    BY <1>m, <1>t, <2>1, <2>2, <2>4
  <2> QED
    BY <1>q, <2>3, <2>5
<1>24. CASE VconnSwapTurnOffVconn
  <2> DEFINE p == SetVconn(e, FALSE)
  <2>1. s = "VCONN_SWAP_TURN_OFF_VCONN" /\ s \in Late /\ Even(e)
    BY <1>24, <1>e DEF VconnSwapTurnOffVconn, In, Rough, Bare, Late
  <2>2. Steady(p) /\ SameTerms(e, p) /\ SamePlace(e, p)
    BY <1>0, <1>o, SwitchesSteady
  <2>3. Ran(SetNow(p, "SRC_READY"))
    BY <1>24 DEF VconnSwapTurnOffVconn, e
  <2> HIDE DEF p
  <2>4. p.state = s /\ Even(p) /\ (NoStatus => Past(p))
    BY <1>0, <1>p, <2>1, <2>2 DEF SameTerms, SamePlace, Even, Past
  <2> QED
    BY <1>m, <1>q, <2>1, <2>2, <2>3, <2>4
<1>25. CASE BistRx
  <2>1. s = "BIST_RX"
    BY <1>25 DEF BistRx, In
  <2>2. ASSUME NEW r PROVE Steady(SetNow(Transmit(e, r), "SRC_UNATTACHED"))
    BY <1>0, <1>n, <1>t, <2>1
  <2> QED
    BY <1>0, <1>25, <1>q, <2>2 DEF BistRx, e
<1>26. CASE IdleState
  BY <1>0, <1>26, <1>q DEF IdleState, e
<1>27. CASE PortReset
  <2> DEFINE q == ResetPort(e)
             p == SetCc(q, "OPEN")
  <2>1. s = "PORT_RESET"
    BY <1>27 DEF PortReset, In
  <2>2. Steady(q) /\ SamePlace(e, q) /\ ~q.pd_capable
    BY <1>0, <1>d, <2>1, ResetPortSteady DEF Detaching
  <2>3. Ran(SetAfter(p, "PORT_RESET_WAIT_OFF"))
    BY <1>27 DEF PortReset, e
  <2> HIDE DEF q
  <2>4. Steady(p) /\ SamePlace(q, p)
    BY <2>2, CcSteady
  <2> HIDE DEF p
  <2> QED
    BY <1>0, <1>a, <1>q, <2>1, <2>2, <2>3, <2>4 DEF SamePlace
<1>28. CASE PortResetWaitOff
  <2>1. s = "PORT_RESET_WAIT_OFF"
    BY <1>28 DEF PortResetWaitOff, In
  <2>2. Ran(SetAfter(e, "SRC_UNATTACHED")) \/ Ran(SetNow(e, "SRC_UNATTACHED"))
    BY <1>28 DEF PortResetWaitOff, e
  <2> QED
    BY <1>0, <1>a, <1>n, <1>q, <2>1, <2>2
<1>29. CASE SrcHardResetDisableRp
  <2> DEFINE p == SetCc(e, "OPEN")
  <2>1. s = "SRC_HARD_RESET_DISABLE_RP"
    BY <1>29 DEF SrcHardResetDisableRp, In
  <2>2. NoStatus => "SRC_READY" \notin {e.state, e.prev_state}
    BY <1>0, <2>1 DEF Steady, Settled, RpKept
  <2>3. Steady(p) /\ SamePlace(e, p)
    BY <1>0, <2>2, CcSteady
  <2>4. Ran(SetAfter(p, "SRC_HARD_RESET_VBUS_OFF_DISABLE"))
    BY <1>29 DEF SrcHardResetDisableRp, e
  <2> HIDE DEF p
  <2> QED
    BY <1>0, <1>a, <1>q, <2>1, <2>3, <2>4 DEF SamePlace
<1>30. CASE SrcHardResetVbusOffDisable
  <2> DEFINE o == SetVconn(e, FALSE)
             q == SetVbus(o, FALSE)
             p == [q EXCEPT !.force_disable_flag = FALSE]
  <2>1. s = "SRC_HARD_RESET_VBUS_OFF_DISABLE"
    BY <1>30 DEF SrcHardResetVbusOffDisable, In
  <2>2. Steady(o) /\ SamePlace(e, o)
    BY <1>0, <1>o, SwitchesSteady
  <2>3. Ran(SetAfter(p, "SRC_UNATTACHED"))
    BY <1>30 DEF SrcHardResetVbusOffDisable, e
  <2> HIDE DEF o
  <2>4. o.state = s /\ o.state \in Bare /\ o.delayed_state \in Bare
    BY <1>0, <1>d, <2>1, <2>2 DEF SamePlace, Bare
  <2>5. Steady(q) /\ SamePlace(o, q)
    BY <1>o, <2>2, <2>4, VbusSteady
  <2> HIDE DEF q
  <2>6. p \in Port /\ p.rp = q.rp
    BY <2>5 DEF Steady, Port
  <2>7. SameTerms(q, p)
    BY <2>5 DEF Steady, SameTerms, Port
  <2>8. SamePlace(q, p)
    BY <2>5 DEF Steady, SamePlace, Port
  <2> HIDE DEF p
  <2>9. Steady(p) /\ p.state = s
    BY <2>4, <2>5, <2>6, <2>7, <2>8, SameSteady DEF SamePlace
  <2> QED
    BY <1>a, <1>q, <2>1, <2>3, <2>9
<1> QED
  BY <1>1, <1>2, <1>3, <1>4, <1>5, <1>6, <1>7, <1>8, <1>9, <1>10, <1>11, <1>12,
     <1>13, <1>14, <1>15, <1>16, <1>17, <1>18, <1>19, <1>20, <1>21, <1>22, <1>23,
     <1>24, <1>25, <1>26, <1>27, <1>28, <1>29, <1>30 DEF RunStateMachine

-----------------------------------------------------------------------------
(* Events, messages, the button and the resets.                            *)

LEMMA NowTurn ==
    ASSUME NEW p \in Port, NEW s PROVE Turn(SetNow(p, s))
BY NowTerms DEF Turn

\* Handlers that lead to states where nothing has to be agreed.
LEMMA NowBare ==
    ASSUME NEW p \in Port, Settled(p), NEW s \in Bare \ {"SRC_HARD_RESET_DISABLE_RP"}
    PROVE  /\ Settled(SetNow(p, s)) /\ Turn(SetNow(p, s))
           /\ SameTerms(p, SetNow(p, s))
<1>1. s \in Rough \ {"SRC_NEGOTIATE_CAPABILITIES"} /\ s \notin Late /\ s # "SRC_READY"
  BY DEF Rough, Bare, Late
<1> QED
  BY <1>1, NowSettled, NowTurn, NowTerms

LEMMA HardResetEventSettled ==
    ASSUME NEW p \in Port, Settled(p), Turn(p)
    PROVE  LET q == HardResetEvent(p) IN Settled(q) /\ Turn(q) /\ SameTerms(p, q)
<1>1. {"HARD_RESET_START", "ERROR_RECOVERY"} \subseteq Bare \ {"SRC_HARD_RESET_DISABLE_RP"}
  BY DEF Bare
<1>2. SameTerms(p, p)
  BY DEF SameTerms
<1> QED
  BY <1>1, <1>2, NowBare DEF HardResetEvent

LEMMA VbusEventSettled ==
    ASSUME NEW p \in Port, Settled(p), Turn(p), NEW on \in BOOLEAN
    PROVE  LET q == VbusEvent(p, on) IN Settled(q) /\ Turn(q) /\ SameTerms(p, q)
<1> DEFINE q == [p EXCEPT !.vbus_present = on]
<1>1. q \in Port
  BY DEF Port
<1>2. SameTerms(p, q) /\ q.rp = p.rp
  BY DEF SameTerms, Port
<1>3. SamePlace(p, q)
  BY DEF SamePlace, Port
<1>4. \/ VbusEvent(p, on) \in {q, SetNow(q, "SRC_STARTUP"), SetNow(q, "SRC_UNATTACHED")}
      \/ p.state = "SRC_HARD_RESET_VBUS_ON" /\ VbusEvent(p, on) = SetAfter(q, "SRC_STARTUP")
  BY DEF VbusEvent
<1> HIDE DEF q
<1>5. Settled(q) /\ Turn(q)
  BY <1>2, <1>3, SameSettled DEF Turn, SamePlace
<1>6. ASSUME NEW s \in {"SRC_STARTUP", "SRC_UNATTACHED"}
      PROVE  Settled(SetNow(q, s)) /\ Turn(SetNow(q, s)) /\ SameTerms(q, SetNow(q, s))
  BY <1>1, <1>5, NowBare DEF Bare
<1>7. ASSUME p.state = "SRC_HARD_RESET_VBUS_ON"
      PROVE  LET a == SetAfter(q, "SRC_STARTUP") IN
             Settled(a) /\ Turn(a) /\ SameTerms(q, a)
  <2>1. "SRC_STARTUP" \in Bare \ Late
    BY DEF Bare, Late
  <2>2. q.state = "SRC_HARD_RESET_VBUS_ON"
    BY <1>3, <1>7 DEF SamePlace
  <2> QED
    BY <1>1, <1>5, <2>1, <2>2, AfterSettled, AfterTerms DEF Turn
<1> QED
  BY <1>2, <1>4, <1>5, <1>6, <1>7 DEF SameTerms

LEMMA CcChangeSettled ==
    ASSUME NEW p \in Port, Settled(p), Turn(p), NEW cc \in CcPairs
    PROVE  LET q == CcChange(p, cc) IN Settled(q) /\ Turn(q) /\ SameTerms(p, q)
<1> DEFINE q == [p EXCEPT !.cc = cc]
           targets == {"SRC_ATTACH_WAIT", "SRC_UNATTACHED", "AUDIO_ACC_DEBOUNCE",
                       "AUDIO_ACC_ATTACHED", "ACC_UNATTACHED"}
<1>1. q \in Port
  BY DEF Port
<1>2. SameTerms(p, q) /\ q.rp = p.rp
  BY DEF SameTerms, Port
<1>3. SamePlace(p, q)
  BY DEF SamePlace, Port
<1>4. CcChange(p, cc) = q \/ \E s \in targets : CcChange(p, cc) = SetNow(q, s)
  <2> HIDE DEF q
  <2> QED
    BY DEF CcChange, q
<1> HIDE DEF q
<1>5. Settled(q) /\ Turn(q)
  BY <1>2, <1>3, SameSettled DEF Turn, SamePlace
<1>6. targets \subseteq Bare \ {"SRC_HARD_RESET_DISABLE_RP"}
  BY DEF Bare
<1>7. ASSUME NEW s \in targets
      PROVE  Settled(SetNow(q, s)) /\ Turn(SetNow(q, s)) /\ SameTerms(q, SetNow(q, s))
  BY <1>1, <1>5, <1>6, NowBare
<1> QED
  BY <1>2, <1>4, <1>5, <1>7 DEF SameTerms

\* What a message leaves of a port that has agreed with the sink.
Answered(p, q) ==
    /\ Settled(q) /\ Turn(q) /\ Even(q) /\ q.attached = p.attached
    /\ Past(p) => Past(q)

\* The states a message of a sink may lead to.
Replies == {"SRC_SEND_CAPABILITIES", "SOFT_RESET_SEND", "VCONN_SWAP_TURN_OFF_VCONN",
            "SOFT_RESET", "VCONN_SWAP_ACCEPT", "SRC_NEGOTIATE_CAPABILITIES",
            "HARD_RESET_SEND", "BIST_RX", "ERROR_RECOVERY"}

LEMMA NowAnswered ==
    ASSUME NEW p \in Port, Settled(p), Even(p), NoStatus => Past(p), NEW s,
           NoStatus => s \in Replies
    PROVE  Answered(p, SetNow(p, s))
<1>1. Replies \cap {"SRC_READY", "SRC_HARD_RESET_DISABLE_RP"} = {}
  BY DEF Replies
<1>2. Settled(SetNow(p, s))
  BY <1>1, NowSettled
<1>3. SameTerms(p, SetNow(p, s))
  BY NowTerms
<1> QED
  BY <1>2, <1>3, NowTurn DEF Answered, SameTerms, Even, Past

LEMMA QueueAnswered ==
    ASSUME NEW p \in Port, Settled(p), Even(p) PROVE Answered(p, QueueMessage(p))
<1> DEFINE q == QueueMessage(p)
<1>1. SameTerms(p, q)
  BY DEF SameTerms, QueueMessage, Port
<1>2. /\ q.state = p.state /\ q.prev_state = p.prev_state /\ q.rp = p.rp
      /\ q.delayed_state = p.delayed_state /\ q.queued = TRUE
  BY DEF QueueMessage, Port
<1> HIDE DEF q
<1>3. Settled(q)
  BY <1>1, <1>2 DEF Settled, Level, Even, RpKept, Past, SameTerms
<1> QED
  BY <1>1, <1>2, <1>3 DEF Answered, Turn, SameTerms, Even, Past, q

LEMMA CtrlRequestAnswered ==
    ASSUME NEW p \in Port, Settled(p), Turn(p), Even(p), NoStatus => Past(p), NEW kind
    PROVE  Answered(p, CtrlRequest(p, kind))
<1> DEFINE n == IF p.pd_capable THEN NCaps - 1 ELSE p.caps_count
           q == [p EXCEPT !.caps_count = n]
<1>1. n \in 0..(NCaps + 1)
  BY CountsAssumption DEF Port
<1>2. q.caps_count = n
  BY DEF Port
<1> HIDE DEF n
<1>3. q \in Port
  BY <1>1 DEF Port
<1>4. /\ q.supply = p.supply /\ q.supply_voltage = p.supply_voltage
      /\ q.explicit_contract = p.explicit_contract /\ q.attached = p.attached
      /\ q.pd_capable = p.pd_capable /\ q.rp = p.rp
  BY DEF Port
<1>5. SamePlace(p, q)
  BY DEF SamePlace, Port
<1> HIDE DEF q
<1>6. Even(q) /\ (Past(p) => Past(q))
  BY <1>2, <1>4 DEF Even, Past, n
<1>7. Settled(q)
  BY <1>4, <1>5, <1>6, PlaceSettled
<1>8. ASSUME NEW s \in Replies
      PROVE  Answered(p, SetNow(p, s)) /\ Answered(p, SetNow(q, s))
  <2>1. Answered(p, SetNow(p, s)) /\ Answered(q, SetNow(q, s))
    BY <1>3, <1>6, <1>7, NowAnswered
  <2> QED
    BY <1>4, <1>6, <2>1 DEF Answered
<1>9. Answered(p, QueueMessage(p)) /\ Answered(p, p)
  BY QueueAnswered DEF Answered
<1> QED
  BY <1>8, <1>9 DEF CtrlRequest, Replies, n, q

LEMMA DataRequestAnswered ==
    ASSUME NEW p \in Port, Settled(p), Turn(p), Even(p), NoStatus => Past(p),
           NEW m, m.rdo \in Requests \cup {NoRequest}
    PROVE  Answered(p, DataRequest(p, m))
<1> DEFINE q == [p EXCEPT !.sink_request = m.rdo]
           b == (m.kind = "BIST_CARRIER2")
           r == [p EXCEPT !.bist_carrier2 = b]
<1>1. q \in Port
  BY DEF Port
<1>2. /\ q.supply = p.supply /\ q.supply_voltage = p.supply_voltage
      /\ q.explicit_contract = p.explicit_contract /\ q.attached = p.attached
      /\ q.pd_capable = p.pd_capable /\ q.caps_count = p.caps_count /\ q.rp = p.rp
  BY DEF Port
<1>3. SamePlace(p, q)
  BY DEF SamePlace, Port
<1>4. b \in BOOLEAN
  OBVIOUS
<1> HIDE DEF b, q
<1>5. r \in Port
  BY <1>4 DEF Port
<1>6. SameTerms(p, r) /\ r.rp = p.rp
  BY DEF SameTerms, Port
<1>7. SamePlace(p, r)
  BY DEF SamePlace, Port
<1> HIDE DEF r
<1>8. Even(q) /\ Past(q) = Past(p)
  BY <1>2 DEF Even, Past
<1>9. Even(r) /\ Past(r) = Past(p) /\ r.attached = p.attached
  BY <1>6 DEF Even, Past, SameTerms
<1>10. Settled(q) /\ Settled(r)
  <2>1. Settled(q)
    BY <1>2, <1>3, <1>8, PlaceSettled
  <2> QED
    BY <1>6, <1>7, <2>1, SameSettled
<1>11. ASSUME NEW s \in Replies
       PROVE  /\ Answered(p, SetNow(p, s)) /\ Answered(p, SetNow(q, s))
              /\ Answered(p, SetNow(r, s))
  <2>1. /\ Answered(p, SetNow(p, s)) /\ Answered(q, SetNow(q, s))
        /\ Answered(r, SetNow(r, s))
    BY <1>1, <1>5, <1>8, <1>9, <1>10, NowAnswered
  <2> QED
    BY <1>2, <1>8, <1>9, <2>1 DEF Answered
<1>12. Answered(p, p)
  BY DEF Answered
<1>13. {"SRC_NEGOTIATE_CAPABILITIES", "HARD_RESET_SEND", "BIST_RX"} \subseteq Replies
  BY DEF Replies
<1>14. DataRequest(p, m) \in {p, SetNow(p, "HARD_RESET_SEND"), SetNow(r, "BIST_RX"),
                             SetNow(q, "SRC_NEGOTIATE_CAPABILITIES")}
  BY DEF DataRequest, SetNowCond, q, r, b
<1> QED
  BY <1>11, <1>12, <1>13, <1>14

\* With the supply at what was granted, a message leaves it there.
LEMMA RxHandlerAnswered ==
    ASSUME NEW p \in Port, Settled(p), Turn(p), Even(p),
           NoStatus => Past(p) \/ ~p.attached,
           NEW m \in Messages \cup {NoMessage}, m.rdo \in Requests \cup {NoRequest}
    PROVE  Answered(p, RxHandler(p, m))
<1>1. CASE ~p.attached
  BY <1>1 DEF RxHandler, Answered
<1>2. CASE p.attached
  <2>1. NoStatus => m.kind \notin ExtKinds
    BY DEF NoStatus, NoMessage, ExtKinds
  <2>2. m.kind \in ExtKinds => Answered(p, ExtRequest(p, m.kind))
    BY <2>1, <1>2, NowAnswered DEF ExtRequest
  <2>3. Answered(p, SetNow(p, "ERROR_RECOVERY"))
    BY <1>2, NowAnswered DEF Replies
  <2>4. Answered(p, DataRequest(p, m)) /\ Answered(p, CtrlRequest(p, m.kind))
    BY <1>2, DataRequestAnswered, CtrlRequestAnswered
  <2> QED
    BY <1>2, <2>2, <2>3, <2>4 DEF RxHandler
<1> QED
  BY <1>1, <1>2

LEMMA PdDisableSettled ==
    ASSUME NEW p \in Port, Settled(p), Turn(p)
    PROVE  LET q == PdDisable(p) IN Settled(q) /\ Turn(q) /\ SameTerms(p, q)
<1> DEFINE q == [p EXCEPT !.force_disable_flag = TRUE]
<1>1. q \in Port
  BY DEF Port
<1>2. SameTerms(p, q) /\ q.rp = p.rp
  BY DEF SameTerms, Port
<1>3. SamePlace(p, q)
  BY DEF SamePlace, Port
<1>4. PdDisable(p) \in {q, SetNow(q, "HARD_RESET_SEND")}
  BY DEF PdDisable, SetNowCond
<1> HIDE DEF q
<1>5. Settled(q) /\ Turn(q)
  BY <1>2, <1>3, SameSettled DEF Turn, SamePlace
<1>6. LET n == SetNow(q, "HARD_RESET_SEND") IN Settled(n) /\ Turn(n) /\ SameTerms(q, n)
  BY <1>1, <1>5, NowBare DEF Bare
<1> QED
  BY <1>2, <1>4, <1>5, <1>6 DEF SameTerms

\* tcpm_init leaves nothing agreed.
LEMMA TcpmInitSettled ==
    ASSUME NEW p \in Port, NEW v \in BOOLEAN, NEW cc \in CcPairs
    PROVE  LET q == TcpmInit(p, v, cc) IN
           Settled(q) /\ Turn(q) /\ Even(q) /\ ~q.attached
<1> DEFINE r == ResetPort(p)
           q == [r EXCEPT !.vbus_present = v]
           u == SetNow(q, "SRC_UNATTACHED")
           c == CcChange(u, cc)
<1>1. r \in Port /\ r.supply = 0 /\ r.supply_voltage = 0 /\ ~r.pd_capable /\ ~r.attached
  BY ResetPortTerms
<1> HIDE DEF r
<1>2. q \in Port
  BY <1>1 DEF Port
<1>3. SameTerms(r, q)
  BY <1>1 DEF SameTerms, Port
<1> HIDE DEF q
<1>4. {"SRC_UNATTACHED", "PORT_RESET"} \subseteq States
  BY DEF States
<1>5. u \in Port /\ SameTerms(q, u)
  BY <1>2, <1>4, SetNowType, NowTerms
<1> HIDE DEF u
<1>6. c \in Port
  BY <1>5, CcChangeType
<1>7. SameTerms(u, c)
  <2> DEFINE x == [u EXCEPT !.cc = cc]
  <2>1. x \in Port /\ (c = x \/ \E s \in States : c = SetNow(x, s))
    BY <1>5, CcChangeIs
  <2>2. SameTerms(u, x)
    BY <1>5 DEF SameTerms, Port
  <2> HIDE DEF x, c
  <2> QED
    BY <2>1, <2>2, NowTerms DEF SameTerms
<1> HIDE DEF c
<1> DEFINE d == SetNow(c, "PORT_RESET")
<1>8. SameTerms(c, d) /\ d.state = "PORT_RESET" /\ d.delayed_state = "INVALID_STATE"
  BY <1>6, NowTerms
<1>9. d = TcpmInit(p, v, cc)
  BY DEF TcpmInit, d, c, u, q, r
<1> HIDE DEF d
<1>10. d.supply = 0 /\ d.supply_voltage = 0 /\ ~d.pd_capable /\ ~d.attached
  BY <1>1, <1>3, <1>5, <1>7, <1>8 DEF SameTerms
<1>11. Even(d) /\ Turn(d)
  BY <1>8, <1>10 DEF Even, Turn
<1>12. Settled(d)
  BY <1>8, <1>10, <1>11 DEF Settled, Level, RpKept, Late
<1> QED
  BY <1>9, <1>10, <1>11, <1>12

-----------------------------------------------------------------------------
(* The inductive invariant.                                                *)

\* A message is pending: received, and not handled.
Pending == "RX" \in events \cup todo /\ ~(pc = "clear" /\ First(todo) = "RX")

\* Nothing has been granted that is not supplied while a message is pending, and
\* messages come only from a sink that was found, or that is gone again. The
\* state machine runs without a reply queued, and a message comes while it runs
\* only in a state it is about to rest in.
SettledInv ==
    /\ Settled(port) /\ Turn(port)
    /\ Pending => Even(port)
    /\ NoStatus /\ "RX" \in events \cup todo => Past(port) \/ ~port.attached
    /\ pc = "sm" =>
          /\ port.run /\ ~port.queued
          /\ "RX" \in events => port.state \in {"SRC_READY", "VCONN_SWAP_WAIT_FOR_VCONN"}
    /\ pc \notin {"handle", "clear", "store"} => todo = {}
    /\ pc = "handle" => todo # {}

\* What the TCPC reports after a register write is no message.
LEMMA AlertedEvents ==
    ASSUME NEW p, NEW s, Alerted(p, s)
    PROVE  events' \ {"CC", "VBUS"} \subseteq s
BY DEF Alerted, Discharged

\* Handlers that leave the terms alone.
LEMMA HandleSettled ==
    ASSUME SettledInv, NEW p, NEW e \in {"RESET", "VBUS", "CC"}, Handle(e, p),
           Settled(p), Turn(p), SameTerms(port, p)
    PROVE  SettledInv'
<1>1. /\ port' = p /\ todo' = todo /\ pc' = "clear" /\ pc = "handle"
      /\ First(todo) = e
  BY DEF Handle, Becomes
<1>2. "RX" \in events' => "RX" \in events
  BY AlertedEvents DEF Handle, Becomes
<1>3. Pending' => Pending
  BY <1>1, <1>2 DEF Pending
<1>4. Even(p) = Even(port) /\ Past(p) = Past(port) /\ p.attached = port.attached
  BY DEF SameTerms, Even, Past
<1>5. Even(port)' = Even(p) /\ Past(port)' = Past(p) /\ Turn(port)' = Turn(p)
      /\ Settled(port)' = Settled(p)
  BY <1>1
<1> QED
  BY <1>1, <1>2, <1>3, <1>4, <1>5 DEF SettledInv

LEMMA HandleRxSettled ==
    ASSUME TypeOK, SettledInv, HandleRx
    PROVE  SettledInv'
<1> DEFINE p == RxHandler(port, rx)
<1>1. /\ port' = p /\ todo' = todo /\ pc' = "clear" /\ pc = "handle" /\ First(todo) = "RX"
  BY DEF HandleRx, Handle, Becomes
<1>2. "RX" \in todo
  <2>1. todo # {} /\ todo \subseteq Events
    BY <1>1 DEF SettledInv, TypeOK
  <2> QED
    BY <1>1, <2>1 DEF First, Events
<1>3. Even(port) /\ (NoStatus => Past(port) \/ ~port.attached)
  BY <1>1, <1>2 DEF SettledInv, Pending
<1>4. rx \in Messages \cup {NoMessage} /\ rx.rdo \in Requests \cup {NoRequest}
  BY MessagesAssumption DEF TypeOK, Message, NoMessage
<1>5. Answered(port, p)
  BY <1>3, <1>4, RxHandlerAnswered DEF SettledInv, TypeOK
<1> HIDE DEF p
<1>6. ~Pending'
  BY <1>1 DEF Pending
<1>7. Past(port)' = Past(p) /\ Turn(port)' = Turn(p) /\ Settled(port)' = Settled(p)
  BY <1>1
<1> QED
  BY <1>1, <1>3, <1>5, <1>6, <1>7 DEF SettledInv, Answered

LEMMA StartWorkSettled ==
    ASSUME TypeOK, SettledInv, StartWork
    PROVE  SettledInv'
<1> DEFINE p == [port EXCEPT !.running = TRUE]
           o == [p EXCEPT !.queued = FALSE]
<1>0. port \in Port /\ Settled(port) /\ Turn(port)
  BY DEF TypeOK, SettledInv
<1>1. p \in Port /\ p.rp = port.rp
  BY <1>0 DEF Port
<1>2. SameTerms(port, p)
  BY <1>0 DEF SameTerms, Port
<1>3. SamePlace(port, p)
  BY <1>0 DEF SamePlace, Port
<1> HIDE DEF p
<1>4. Settled(p) /\ Turn(p)
  BY <1>0, <1>1, <1>2, <1>3, SameSettled DEF Turn, SamePlace
<1>5. o \in Port /\ o.rp = p.rp /\ ~o.queued /\ o.run = p.run
  BY <1>1 DEF Port
<1>6. SameTerms(p, o)
  BY <1>1 DEF SameTerms, Port
<1>7. /\ o.state = p.state /\ o.prev_state = p.prev_state
      /\ o.delayed_state = p.delayed_state
  BY <1>1 DEF Port
<1> HIDE DEF o
<1>8. Settled(o)
  BY <1>4, <1>5, <1>6, <1>7 DEF Settled, Level, Even, RpKept, Past, SameTerms
<1>9. ASSUME NEW r, p.run
      PROVE  LET u == SendQueued(p, r) IN
             Settled(u) /\ u.run /\ ~u.queued /\ u.delayed_state = "INVALID_STATE"
  <2> DEFINE t == Transmit(o, r)
             u == [t EXCEPT !.delayed_state = "INVALID_STATE"]
  <2>1. "SOFT_RESET_SEND" \in States \cap (Rough \ {"SRC_NEGOTIATE_CAPABILITIES"})
    BY DEF States, Rough
  <2>2. o.pd_capable => Settled(SetNow(o, "SOFT_RESET_SEND"))
    BY <1>5, <1>8, <2>1, NowSettled DEF Past
  <2>3. t \in Port
    BY <1>5, TransmitType
  <2>4. Settled(t) /\ t.run /\ ~t.queued
    BY <1>3, <1>5, <1>8, <1>9, <2>2, NowTerms DEF Transmit, SetNowCond
  <2>5. SendQueued(p, r) = u
    BY DEF SendQueued, o
  <2> HIDE DEF t
  <2>6. /\ u.delayed_state = "INVALID_STATE" /\ u.state = t.state
        /\ u.prev_state = t.prev_state /\ u.rp = t.rp /\ u.run = t.run
        /\ u.queued = t.queued
    BY <2>3 DEF Port
  <2>7. SameTerms(t, u)
    BY <2>3 DEF SameTerms, Port
  <2> HIDE DEF u
  <2>8. "INVALID_STATE" \notin Late /\ "INVALID_STATE" \in Bare
    BY DEF Late, Bare
  <2>9. Level(u)
    BY <2>4, <2>6, <2>7, <2>8 DEF Settled, Level, Even, SameTerms
  <2>10. NoStatus => RpKept(u)
    BY <2>4, <2>6, <2>7, <2>8 DEF Settled, RpKept, Past, SameTerms
  <2> QED
    BY <2>4, <2>5, <2>6, <2>9, <2>10 DEF Settled
<1>10. /\ Settled(port') /\ port'.run /\ ~port'.queued /\ Turn(port')
       /\ pc' = "sm" /\ todo' = todo
  <2>1. p.run /\ p.queued = port.queued
    BY <1>3 DEF StartWork, SamePlace
  <2>2. \/ port' = p /\ ~port.queued
        \/ \E r \in TxOutcomes : port' = SendQueued(p, r)
    BY DEF StartWork, Becomes, p
  <2>3. pc' = "sm" /\ todo' = todo
    BY DEF StartWork
  <2>4. CASE port' = p /\ ~port.queued
    BY <1>4, <2>1, <2>3, <2>4
  <2>5. CASE \E r \in TxOutcomes : port' = SendQueued(p, r)
    BY <1>9, <2>1, <2>3, <2>5 DEF Turn
  <2> QED
    BY <2>2, <2>4, <2>5
<1>11. todo = {} /\ "RX" \notin events'
  <2>1. todo = {} /\ events = {}
    BY DEF StartWork, Looping, SettledInv
  <2>2. \E q : Alerted(q, events)
    BY DEF StartWork, Becomes
  <2> QED
    BY <2>1, <2>2, AlertedEvents
<1> QED
  BY <1>10, <1>11 DEF SettledInv, Pending

\* An iteration in a state the port is about to rest in changes no terms.
LEMMA RestingTerms ==
    ASSUME TypeOK, SettledInv, RunStateMachine, pc = "sm",
           port.state \in {"SRC_READY", "VCONN_SWAP_WAIT_FOR_VCONN"}
    PROVE  pc' = "tail" /\ SameTerms(port, port')
<1> DEFINE e == Entered
           h == HardResetState(e)
           a == SetAfter(e, h)
<1>1. /\ e \in Port /\ e.state = port.state /\ SameTerms(port, e)
  BY EnteredSteady DEF TypeOK, SettledInv, Steady
<1>2. a \in Port /\ a.state = e.state /\ SameTerms(e, a)
  BY <1>1, AfterTerms, SetAfterType, HardResetStateType
<1>3. \E p \in {e, a} : Ran([p EXCEPT !.hard_reset_count = 0]) \/ Ran(p)
  <2>1. SrcReady \/ VconnSwapWaitForVconn
    BY DEF RunStateMachine, In, SrcUnattached, SrcAttachWait, SrcAttached, SrcStartup,
           SrcDiscCable, SrcWaitCable, SrcSendCapabilities, SrcNegotiateCapabilities,
           SrcTransitionSupply, AccUnattached, AccAttached, AudioAccDebounce,
           HardResetSend, HardResetStart, SrcHardResetVbusOff, SrcHardResetVbusOn,
           SoftReset, SoftResetSend, VconnSwapAccept, VconnSwapStart,
           VconnSwapTurnOnVconn, VconnSwapTurnOffVconn, BistRx, IdleState, PortReset,
           PortResetWaitOff, SrcHardResetDisableRp, SrcHardResetVbusOffDisable
  <2> QED
    BY <2>1 DEF SrcReady, VconnSwapWaitForVconn, SetAfterCond, Entered, HardResetState
<1> HIDE DEF e, a, h
<1>4. PICK p \in {e, a} : Ran([p EXCEPT !.hard_reset_count = 0]) \/ Ran(p)
  BY <1>3
<1>5. p \in Port /\ p.state = port.state /\ SameTerms(port, p)
  BY <1>1, <1>2 DEF SameTerms
<1> DEFINE q == [p EXCEPT !.hard_reset_count = 0]
<1>6. q.state = p.state
  BY <1>5 DEF Port
<1>7. SameTerms(p, q)
  BY <1>5 DEF SameTerms, Port
<1>8. q \in Port
  <2>1. 0 \in 0..NHard
    BY CountsAssumption
  <2> QED
    BY <1>5, <2>1 DEF Port
<1> HIDE DEF q
<1>9. ASSUME NEW x \in Port, x.state = port.state, SameTerms(port, x), Ran(x)
      PROVE  pc' = "tail" /\ SameTerms(port, port')
  <2> DEFINE y == [x EXCEPT !.running = FALSE, !.run = FALSE]
  <2>1. SameTerms(x, y)
    BY DEF SameTerms, Port
  <2>2. pc' = "tail" /\ port' = y
    BY <1>9 DEF Ran, Becomes
  <2> HIDE DEF y
  <2> QED
    BY <1>9, <2>1, <2>2 DEF SameTerms
<1> QED
  BY <1>4, <1>5, <1>6, <1>7, <1>8, <1>9 DEF SameTerms, q

LEMMA RunSettled ==
    ASSUME TypeOK, Kept(port), SettledInv, RunStateMachine
    PROVE  SettledInv'
<1>0. pc = "sm" /\ \E p : Becomes(p)
  BY DEF RunStateMachine, In, SrcUnattached, SrcAttachWait, SrcAttached, SrcStartup,
         SrcDiscCable, SrcWaitCable, SrcSendCapabilities, SrcNegotiateCapabilities,
         SrcTransitionSupply, SrcReady, AccUnattached, AccAttached, AudioAccDebounce,
         HardResetSend, HardResetStart, SrcHardResetVbusOff, SrcHardResetVbusOn,
         SoftReset, SoftResetSend, VconnSwapAccept, VconnSwapStart, VconnSwapWaitForVconn,
         VconnSwapTurnOnVconn, VconnSwapTurnOffVconn, BistRx, IdleState, PortReset,
         PortResetWaitOff, SrcHardResetDisableRp, SrcHardResetVbusOffDisable, Ran
<1>1. Iteration
  BY <1>0, RunStateMachineSettled DEF SettledInv
<1>2. todo = {} /\ todo' = {}
  BY <1>0, <1>1 DEF SettledInv, Iteration
<1>3. "RX" \in events' => "RX" \in events
  BY <1>0, AlertedEvents DEF Becomes
<1>4. "RX" \in events => pc' = "tail" /\ SameTerms(port, port')
  BY <1>0, RestingTerms DEF SettledInv
<1>5. Turn(port')
  BY <1>1 DEF Iteration, Turn
<1>6. "RX" \in events' => /\ Even(port') /\ pc' = "tail"
                          /\ NoStatus => Past(port') \/ ~port'.attached
  <2> SUFFICES ASSUME "RX" \in events
               PROVE  /\ Even(port') /\ pc' = "tail"
                      /\ NoStatus => Past(port') \/ ~port'.attached
    BY <1>3
  <2>1. Even(port) /\ (NoStatus => Past(port) \/ ~port.attached)
    BY <1>0 DEF SettledInv, Pending
  <2> QED
    BY <1>4, <2>1 DEF SameTerms, Even, Past
<1> QED
  BY <1>1, <1>2, <1>5, <1>6 DEF SettledInv, Iteration, Pending

LEMMA TailSettled ==
    ASSUME TypeOK, SettledInv, TimerExpires \/ TimerWaits
    PROVE  SettledInv'
<1> DEFINE q == [port EXCEPT !.run = TRUE]
           p == Requeued
           d == port.delayed_state
<1>0. port \in Port /\ Settled(port) /\ Turn(port)
  BY DEF TypeOK, SettledInv
<1>1. q \in Port /\ q.rp = port.rp /\ q.queued = port.queued
  BY <1>0 DEF Port
<1>2. SameTerms(port, q)
  BY <1>0 DEF SameTerms, Port
<1>3. /\ q.state = port.state /\ q.prev_state = port.prev_state
      /\ q.delayed_state = port.delayed_state
  BY <1>0 DEF Port
<1>4. p = IF port.queued THEN q ELSE port
  BY DEF Requeued
<1> HIDE DEF p, q
<1>5. Settled(q)
  BY <1>0, <1>1, <1>2, <1>3 DEF Settled, Level, Even, RpKept, Past, SameTerms
<1>6. /\ p \in Port /\ Settled(p) /\ Turn(p) /\ SameTerms(port, p)
      /\ p.delayed_state = d /\ p.state = port.state
  <2>1. SameTerms(port, port)
    BY DEF SameTerms
  <2>2. port.queued => Turn(q)
    BY <1>1 DEF Turn
  <2> QED
    BY <1>0, <1>1, <1>2, <1>3, <1>4, <1>5, <2>1, <2>2
<1>7. /\ Settled(SetNow(p, d)) /\ Turn(SetNow(p, d)) /\ SameTerms(p, SetNow(p, d))
  <2>1. Bare \cup {"SRC_TRANSITION_SUPPLY"} \subseteq Rough \ {"SRC_NEGOTIATE_CAPABILITIES"}
    BY DEF Bare, Rough
  <2>2. Even(p) \/ d \in Rough \ {"SRC_NEGOTIATE_CAPABILITIES"}
    BY <1>6, <2>1 DEF Settled, Level
  <2>3. NoStatus => /\ d # "SRC_READY" /\ (d \in Late => Past(p))
                    /\ d = "SRC_HARD_RESET_DISABLE_RP" => p.state # "SRC_READY"
    BY <1>6 DEF Settled, RpKept
  <2> HIDE DEF d
  <2> QED
    BY <1>6, <2>2, <2>3, NowSettled, NowTurn, NowTerms
<1>8. port' \in {p, SetNow(p, d)} /\ pc' = "switch" /\ todo' = todo
  BY DEF TimerExpires, TimerWaits, Becomes, p
<1> HIDE DEF d
<1>9. Settled(port') /\ Turn(port') /\ SameTerms(port, port')
  BY <1>6, <1>7, <1>8 DEF SameTerms
<1>10. todo = {} /\ pc \notin {"handle", "clear", "store", "sm"}
  BY DEF TimerExpires, TimerWaits, AtTail, Looping, SettledInv
<1>11. "RX" \in events' => "RX" \in events
  BY AlertedEvents DEF TimerExpires, TimerWaits, Becomes
<1>12. Even(port') = Even(port) /\ Past(port') = Past(port)
  BY <1>9 DEF SameTerms, Even, Past
<1> QED
  BY <1>8, <1>9, <1>10, <1>11, <1>12 DEF SettledInv, Pending, SameTerms

LEMMA ProgramSettled ==
    ASSUME TypeOK, Kept(port), SettledInv, Program
    PROVE  SettledInv'
<1>0. port \in Port /\ line \in Lines /\ vbus \in BOOLEAN /\ Settled(port) /\ Turn(port)
  BY DEF TypeOK, SettledInv
<1>1. CASE Snapshot
  <2>1. /\ port' = port /\ events' = events /\ todo' = events /\ pc' = "handle"
        /\ todo = {} /\ pc # "clear" /\ events # {}
    BY <1>1 DEF Snapshot, Looping, SettledInv
  <2> QED
    BY <2>1 DEF SettledInv, Pending
<1>2. CASE ClearEvent
  <2>1. /\ port' = port /\ pc = "clear" /\ pc' = "store"
        /\ events' = events \ {First(todo)} /\ todo' = todo \ {First(todo)}
    BY <1>2 DEF ClearEvent
  <2>2. "RX" \in events' \cup todo' => "RX" \in events \cup todo /\ First(todo) # "RX"
    BY <2>1
  <2> QED
    BY <2>1, <2>2 DEF SettledInv, Pending
<1>3. CASE StoreEvents
  <2>1. /\ port' = port /\ events' = events /\ todo' = todo /\ pc = "store"
        /\ pc' = IF todo = {} THEN "events" ELSE "handle"
    BY <1>3 DEF StoreEvents
  <2> QED
    BY <2>1 DEF SettledInv, Pending
<1>4. CASE HandleReset
  <2>1. LET q == HardResetEvent(port) IN Settled(q) /\ Turn(q) /\ SameTerms(port, q)
    BY <1>0, HardResetEventSettled
  <2> QED
    BY <1>4, <2>1, HandleSettled DEF HandleReset
<1>5. CASE HandleVbus
  <2>1. LET q == VbusEvent(port, vbus) IN Settled(q) /\ Turn(q) /\ SameTerms(port, q)
    BY <1>0, VbusEventSettled
  <2> QED
    BY <1>5, <2>1, HandleSettled DEF HandleVbus
<1>6. CASE HandleCc
  <2>1. LET q == CcChange(port, Observed(port, line)) IN
        Settled(q) /\ Turn(q) /\ SameTerms(port, q)
    BY <1>0, ObservedType, CcChangeSettled
  <2> QED
    BY <1>6, <2>1, HandleSettled DEF HandleCc
<1>7. CASE HandleRx
  BY <1>7, HandleRxSettled
<1>8. CASE StartWork
  BY <1>8, StartWorkSettled
<1>9. CASE RunStateMachine
  BY <1>9, RunSettled
<1>10. CASE TimerExpires \/ TimerWaits
  BY <1>10, TailSettled
<1> QED
  BY <1>1, <1>2, <1>3, <1>4, <1>5, <1>6, <1>7, <1>8, <1>9, <1>10 DEF Program

\* A sink that waits for its turn talks only to a port that has found it and
\* supplies what it granted, and not while the state machine is busy.
LEMMA TurnTaken ==
    ASSUME SettledInv, SinksTurn
    PROVE  /\ Even(port) /\ (NoStatus => Past(port))
           /\ pc = "sm" => port.state \in {"SRC_READY", "VCONN_SWAP_WAIT_FOR_VCONN"}
<1>1. /\ {"SRC_READY", "VCONN_SWAP_WAIT_FOR_VCONN"} \subseteq Late \ Rough
      /\ "SRC_SEND_CAPABILITIES" \notin Rough
  BY DEF Late, Rough, Bare
<1>2. Settled(port) /\ Turn(port)
  BY DEF SettledInv
<1>3. Even(port)
  BY <1>1, <1>2 DEF SinksTurn, Offered, Settled, Level
<1>4. NoStatus => Past(port)
  BY <1>1, <1>2 DEF SinksTurn, Offered, Settled, RpKept, Past
<1>5. pc = "sm" => ~Offered
  BY <1>2 DEF SettledInv, Offered, Turn
<1> QED
  BY <1>3, <1>4, <1>5 DEF SinksTurn

LEMMA EnvironmentSettled ==
    ASSUME Prompt, TypeOK, SettledInv, Environment
    PROVE  SettledInv'
<1>0. port \in Port /\ line \in Lines /\ vbus \in BOOLEAN /\ Settled(port) /\ Turn(port)
  BY DEF TypeOK, SettledInv
<1>1. CASE SwitchPressed
  <2>1. port' = PdDisable(port) /\ pc = "switch" /\ pc' = "top" /\ todo' = todo
    BY <1>1 DEF SwitchPressed
  <2>2. Settled(port') /\ Turn(port') /\ SameTerms(port, port')
    BY <1>0, <2>1, PdDisableSettled
  <2>3. "RX" \in events' => "RX" \in events
    BY <1>1, AlertedEvents DEF SwitchPressed
  <2>4. Even(port') = Even(port) /\ Past(port') = Past(port)
    BY <2>2 DEF SameTerms, Even, Past
  <2> QED
    BY <2>1, <2>2, <2>3, <2>4 DEF SettledInv, Pending, SameTerms
<1>2. CASE CcIrq \/ HardResetIrq \/ VbusIrq
  <2>1. /\ port' = port /\ todo' = todo /\ pc' = pc
        /\ "RX" \in events' => "RX" \in events
    BY <1>2 DEF CcIrq, HardResetIrq, VbusIrq, Raised
  <2> QED
    BY <2>1 DEF SettledInv, Pending
<1>3. CASE RxIrq
  <2>1. port' = port /\ todo' = todo /\ pc' = pc
    BY <1>3 DEF RxIrq
  <2>2. /\ Even(port) /\ (NoStatus => Past(port))
        /\ pc = "sm" => port.state \in {"SRC_READY", "VCONN_SWAP_WAIT_FOR_VCONN"}
    BY <1>3, TurnTaken DEF RxIrq
  <2> QED
    BY <2>1, <2>2 DEF SettledInv
<1>4. CASE TcpcReset \/ McuReset
  <2>1. Settled(port') /\ Turn(port') /\ Even(port') /\ ~port'.attached
    <3>1. CASE TcpcReset
      <4> DEFINE d == SetVbus(SetVconn(SetPdRx(SetCc(port, "OPEN"), FALSE), FALSE), FALSE)
      <4>1. d \in Port
        BY <1>0, RegisterType, SetVbusType
      <4>2. Nothing \in CcPairs
        BY DEF Nothing, CcPairs, CcValues
      <4>3. PICK v \in BOOLEAN : port' = TcpmInit(d, v, Nothing)
        BY <1>0, <3>1 DEF TcpcReset, Discharged
      <4> HIDE DEF d
      <4> QED
        BY <4>1, <4>2, <4>3, TcpmInitSettled
    <3>2. CASE McuReset
      <4> DEFINE q == Registered(port)
      <4>1. q \in Port
        BY <1>0, RegisteredType
      <4>2. PICK v \in BOOLEAN : port' = TcpmInit(q, v, Observed(port, line))
        BY <1>0, <3>2 DEF McuReset, Discharged
      <4> HIDE DEF q
      <4> QED
        BY <1>0, <4>1, <4>2, ObservedType, TcpmInitSettled
    <3> QED
      BY <1>4, <3>1, <3>2
  <2>2. pc' \in {"events", "top"} /\ todo' = {}
    BY <1>4 DEF TcpcReset, McuReset, SettledInv
  <2> QED
    BY <2>1, <2>2 DEF SettledInv
<1> QED
  BY <1>1, <1>2, <1>3, <1>4 DEF Environment

\* With a sink that waits for its turn: no message is pending while the supply
\* differs from what was granted, and Rp is txSinkOK in SRC_READY.
THEOREM SettledInvariant ==
    ASSUME Prompt
    PROVE  Spec => []SettledInv
<1>1. Init => SettledInv
  <2> SUFFICES ASSUME Init PROVE SettledInv
    OBVIOUS
  <2>1. PICK h \in PowerOnHeap :
           port = TcpmInit(Registered(h), FALSE, Observed(h, line))
    BY DEF Init
  <2> DEFINE q == Registered(h)
  <2>2. h \in Port /\ line \in Lines /\ q \in Port
    BY HeapAssumption, RegisteredType DEF Init
  <2>3. port = TcpmInit(q, FALSE, Observed(h, line))
    BY <2>1
  <2> HIDE DEF q
  <2>4. Settled(port) /\ Turn(port) /\ Even(port)
    BY <2>2, <2>3, ObservedType, TcpmInitSettled
  <2>5. events = {} /\ todo = {} /\ pc = "top"
    BY DEF Init
  <2> QED
    BY <2>4, <2>5 DEF SettledInv
<1>2. TypeOK /\ Kept(port) /\ SettledInv /\ [Next]_vars => SettledInv'
  <2> SUFFICES ASSUME TypeOK, Kept(port), SettledInv, [Next]_vars PROVE SettledInv'
    OBVIOUS
  <2>1. CASE Next
    BY <2>1, ProgramSettled, EnvironmentSettled DEF Next
  <2>2. CASE UNCHANGED vars
    BY <2>2 DEF vars, SettledInv, Pending
  <2> QED
    BY <2>1, <2>2
<1> QED
  BY <1>1, <1>2, TypeCorrect, FeedInvariant, PTL DEF Spec

\* A port at rest in SRC_READY supplies the voltage it granted last, whatever
\* came in between: requests rejected, soft and hard resets, swaps, the button,
\* resets of the TCPC and of the microcontroller.
THEOREM GrantedIsSupplied ==
    ASSUME Prompt
    PROVE  Spec => []ContractVoltage
<1>1. SettledInv => ContractVoltage
  <2>1. "SRC_READY" \notin Rough
    BY DEF Rough, Bare
  <2> QED
    BY <2>1 DEF SettledInv, Settled, Level, Even, ContractVoltage
<1> QED
  BY <1>1, SettledInvariant, PTL

\* A port at rest in SRC_READY with a PD sink presents txSinkOK. The status
\* messages only a source sends are left out: the port would act on them.
THEOREM RpSaysReady ==
    ASSUME Prompt, NoStatus
    PROVE  Spec => []RpOkInReady
<1>1. SettledInv => RpOkInReady
  BY DEF SettledInv, Settled, RpKept, RpOkInReady
<1> QED
  BY <1>1, SettledInvariant, PTL
=============================================================================
