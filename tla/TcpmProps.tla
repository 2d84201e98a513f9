----------------------------- MODULE TcpmProps ------------------------------
(***************************************************************************)
(* What the port manager of Tcpm promises.                                 *)
(***************************************************************************)
EXTENDS Tcpm

\* Every variable stays in its type: struct tcpm_port never holds a state the
\* switch of run_state_machine has no case for, and no counter leaves its range.
TypeOK ==
    /\ port \in Port
    /\ events \subseteq Events
    /\ todo \subseteq Events
    /\ rx \in Messages \cup {NoMessage}
    /\ pc \in {"switch", "top", "events", "handle", "clear", "store", "sm", "tail"}
    /\ line \in Lines
    /\ vbus \in BOOLEAN
    /\ left \in [Inputs -> Nat]

-----------------------------------------------------------------------------
(* Rest: the handler has no event left and the state machine nothing to do. *)

Resting == Looping /\ events = {} /\ ~port.run

-----------------------------------------------------------------------------
(* Control: the port rests in no state it has not run, nor in one for ever. *)

\* A failed message asks for a soft reset in the middle of a state that goes
\* on to arm its own timer; the loop of tcpm_state_machine_work stops at an
\* armed timer, so the soft reset is not run.
Overtaken(p) ==
    /\ p.state = "SOFT_RESET_SEND"
    /\ <<p.enter_state, p.delayed_state>> \in
          {<<"SRC_NEGOTIATE_CAPABILITIES", "SRC_TRANSITION_SUPPLY">>,
           <<"SRC_DISC_CABLE", "SRC_DISC_CABLE">>}

\* The state machine has run the state the port is left in: the run flag, the
\* running flag and the event handler agree on what is still to be run. A state that
\* the next change overwrites first is not run, and this says nothing of it. The one
\* exception is a soft reset overtaken by the timer of the state that failed.
StateEntered == ~port.run => port.enter_state = port.state \/ Overtaken(port)

\* The states the port only passes through.
Transient == {
    "SRC_ATTACHED", "SRC_STARTUP", "SRC_DISC_CABLE", "SRC_WAIT_CABLE",
    "SRC_SEND_CAPABILITIES", "SRC_NEGOTIATE_CAPABILITIES", "SRC_TRANSITION_SUPPLY",
    "ACC_UNATTACHED", "AUDIO_ACC_DEBOUNCE", "HARD_RESET_SEND", "HARD_RESET_START",
    "SRC_HARD_RESET_VBUS_OFF", "SRC_HARD_RESET_VBUS_ON", "SOFT_RESET",
    "SOFT_RESET_SEND", "VCONN_SWAP_ACCEPT", "VCONN_SWAP_START",
    "VCONN_SWAP_WAIT_FOR_VCONN", "VCONN_SWAP_TURN_ON_VCONN",
    "VCONN_SWAP_TURN_OFF_VCONN", "PORT_RESET", "PORT_RESET_WAIT_OFF",
    "SRC_HARD_RESET_DISABLE_RP", "SRC_HARD_RESET_VBUS_OFF_DISABLE" }

\* The port rests in a transient state only with a timer armed to leave it,
\* although tcpm_set_state and tcpm_send_queued_message both disarm the timer.
TimerArmed ==
    Resting /\ port.state \in Transient => port.delayed_state # "INVALID_STATE"

-----------------------------------------------------------------------------
(* Power: VBUS and VCONN are on only for a sink, VBUS at what it asked for. *)

\* Nothing is attached, or the port is done with what was.
Unattached == ~port.attached \/ (Resting /\ port.state = "SRC_UNATTACHED")

\* A port with nothing attached does not source VBUS: every way out of a contract
\* passes tcpm_src_detach or tcpm_reset_port. The exception is a hard reset that
\* comes too late, when the port has detached already: it is executed all the
\* same, and switches VBUS on for nobody; tcpm_detach then returns early.
NoOrphanVbus == Unattached /\ port.supply # 0 => port.hard_reset_count # 0

\* Likewise VCONN, which SRC_ATTACHED, a swap and a hard reset switch on.
NoOrphanVconn == Unattached /\ port.vconn => port.hard_reset_count # 0

\* VBUS is above 5 V only while an explicit contract with the sink stands:
\* explicit_contract and the supply are reset by different functions.
HighVoltageUnderContract ==
    port.supply \notin {0, VSafe5V} => port.attached /\ port.explicit_contract

\* VBUS comes up at 5 V: no step, such as a late Request, takes it from off to
\* a negotiated voltage.
VbusStartsAt5V == [][port.supply = 0 => port'.supply \in {0, VSafe5V}]_vars

\* Under an explicit contract a port at rest in SRC_READY sources the voltage
\* that was granted last, after rejected requests, resets and swaps too.
ContractVoltage ==
    Resting /\ port.state = "SRC_READY" /\ port.explicit_contract
      => port.supply = port.supply_voltage

\* A PD sink may start an exchange with a port at rest in SRC_READY: Rp is back
\* at txSinkOK, whatever sequence of states led there.
RpOkInReady ==
    Resting /\ port.state = "SRC_READY" /\ port.pd_capable => port.rp = "RP_3_0"

\* The voltages of the advertised PDOs.
Advertised == {FixedMv(1), FixedMv(2)} \cup ApdoRange

\* The port manager is the source PowerSource describes: from off VBUS comes up
\* at 5 V, it moves only to a voltage granted to what is attached, a contract is
\* forgotten at 5 V only, and nobody is attached with the grant of another. The
\* fields are written by ten states of run_state_machine and by the resets.
Source == INSTANCE PowerSource WITH
    volts    <- port.supply,
    granted  <- port.supply_voltage,
    attached <- port.attached,
    contract <- port.explicit_contract
PowersAsPromised == Source!Spec

-----------------------------------------------------------------------------
(* Progress. The main loop never stops (main.c), every delay passes because *)
(* the RTC interrupt counts milliseconds, and VBUS follows the supply.      *)

FairSpec ==
    Spec /\ WF_vars(Program) /\ WF_vars(TimerExpires) /\ WF_vars(VbusIrq)

Served == port.state = "SRC_READY" /\ vbus

\* A sink that stays plugged in ends up powered in SRC_READY and stays so, after
\* button presses, resets of the TCPC and watchdog resets.
SinkServed == <>[]HasSink => <>[]Served

\* After the plug is pulled for good, VBUS goes off for good.
VbusGoesOff == <>[](line = Nothing) => <>[](port.supply = 0 /\ ~vbus)

-----------------------------------------------------------------------------
(* What comments of the code say, and the code does not do.                *)

\* tcpm.c:460, "Message not sent after retries, send soft reset": a port at rest
\* in SOFT_RESET_SEND has sent it.
SoftResetSent ==
    Resting /\ port.state = "SOFT_RESET_SEND" => port.enter_state = "SOFT_RESET_SEND"

\* tcpm.c:2410-2413, "force a clean disconnect", and pd.h:468, a recovery time of
\* 25 ms "is insufficient": with Rp removed, PORT_RESET is left for
\* PORT_RESET_WAIT_OFF when its timer expires, not before.
RecoveryKeepsRpOpen ==
    [][port.state = "PORT_RESET" /\ port.rp = "OPEN"
         => port'.state \in {"PORT_RESET", "PORT_RESET_WAIT_OFF"}]_vars

\* tcpm.c:306, "Force tcpm to remove Rp for period of time": once
\* force_disable_flag is set, Rp is removed.
ButtonRemovesRp == port.force_disable_flag ~> port.rp = "OPEN"

\* tcpm.c:2421-2424, "executing the hard reset must have failed. Revert to error
\* recovery": the port recovers from ERROR_RECOVERY.
ErrorRecovers == port.state = "ERROR_RECOVERY" ~> port.state # "ERROR_RECOVERY"
=============================================================================
