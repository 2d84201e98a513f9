----------------------------- MODULE SupplySetup -----------------------------
(***************************************************************************)
(* The setup of the supply: which registers of the TCPC go with a contract  *)
(* (tcpci_set_vbus, tcpci_set_vbus_hv, the voltage alarms), the mode switch  *)
(* and the mode in EEPROM (main.c, nvmctrl.c), with interrupts, restarts and *)
(* register losses between the accesses.                                    *)
(***************************************************************************)
EXTENDS Naturals

CONSTANTS
    Deals,        \* contracts: type, voltage and current
    M_SW_DELAY,   \* passes a switch must be down
    Tries,        \* times disable_vbus_alarms writes again (100)
    Faults        \* restarts, losses of registers and Type-A faults

ASSUME SetupAssumption ==
    /\ Deals \subseteq [type : {"FIXED", "APDO"}, mv : Nat, ma : Nat]
    /\ M_SW_DELAY \in Nat \ {0} /\ Tries \in Nat /\ Faults \in Nat

Modes  == {"CDP", "DCP"}
NoDeal == [type |-> "NONE", mv |-> 0, ma |-> 0]

VARIABLES
    reg,       \* registers of the TCPC
    lost,      \* it lost them, and tcpm_init has not run since
    alarm,     \* V_ALARM_LO is latched
    blocked,   \* a Type-A fault blocks POWER_CTRL
    eeprom,    \* the stored mode
    writing,   \* the mode that is being stored
    pin,       \* the mode switch
    mode,      \* AUTO_CDP_DCP_MODE, and now_eep
    cache,     \* general_setup_reg
    last,      \* last_pdo_type
    sw,        \* sw_cnt and pre_sw
    saved,     \* tcpc_alert_mask: did it let the voltage alarms through
    deal,      \* the contract set_vbus_hv was called for
    op,        \* the call that is under way
    pc,
    chosen,    \* the mode last handed to the EEPROM
    i,         \* the retries disable_vbus_alarms has made
    stale,     \* set_vbus cleared CL behind the back of last_pdo_type
    refused,   \* history: writes of POWER_CTRL blocked in a row, as far as they matter
    left

tcpc  == <<reg, lost, alarm, blocked>>
nvm   == <<eeprom, writing, chosen>>
knob  == <<mode, cache, sw, pin>>
power == <<last, saved, deal, i, stale, refused>>
vars  == <<tcpc, nvm, knob, power, op, pc, left>>

\* Registers after a power-on reset of the TCPC.
Defaults == [mode |-> "NONE", hires |-> FALSE, cl |-> FALSE, mask |-> FALSE,
             reporting |-> FALSE, ilim |-> 0, target |-> 0, vbus |-> "off"]

-----------------------------------------------------------------------------
(* Values.                                                                  *)

Ilim(ma) == ma \div 25

\* With 10 mV a step and the offset of the converter.
VbusCode(mv) == mv \div 10 - ((304 * mv) \div 100000 - 10)

DeepDip == 330
Headroom(type) == IF type = "FIXED" THEN 200 ELSE 25

\* As if the other bits of the register were left at zero.
GeneralSetupBare(r, cl) == [r EXCEPT !.mode = cache.mode, !.hires = FALSE, !.cl = cl]
GeneralSetup(r, cl) == [r EXCEPT !.mode = cache.mode, !.hires = cache.hires, !.cl = cl]

\* POWER_CTRL written once, and what is remembered of that.
Report(r, on) == IF blocked THEN r ELSE [r EXCEPT !.reporting = on]
WriteCounted ==
    refused' = IF ~blocked THEN 0 ELSE IF refused > Tries THEN refused ELSE refused + 1

-----------------------------------------------------------------------------
(* The TCPC, the switch and the EEPROM.                                     *)

VoltageAlarm ==
    /\ reg.reporting /\ alarm' = TRUE
    /\ UNCHANGED <<reg, lost, blocked, nvm, knob, power, op, pc, left>>

TypeAFault ==
    /\ blocked' = ~blocked
    /\ IF blocked THEN UNCHANGED left ELSE left > 0 /\ left' = left - 1
    /\ UNCHANGED <<reg, lost, alarm, nvm, knob, power, op, pc>>

LoseRegisters ==
    /\ left > 0 /\ left' = left - 1
    /\ reg' = Defaults /\ lost' = TRUE /\ alarm' = FALSE
    /\ UNCHANGED <<blocked, nvm, knob, power, op, pc>>

MoveSwitch ==
    /\ pin' = IF pin = "LOW" THEN "HIGH" ELSE "LOW"
    /\ UNCHANGED <<tcpc, nvm, mode, cache, sw, power, op, pc, left>>

EepromDone ==
    /\ writing # "NONE" /\ eeprom' = writing /\ writing' = "NONE"
    /\ UNCHANGED <<tcpc, chosen, knob, power, op, pc, left>>

-----------------------------------------------------------------------------
(* tcpci_set_vbus.                                                          *)

Step(from, to) == pc = from /\ pc' = to

BeginSetVbus(kind) ==
    /\ Step("work", "quiet") /\ op' = kind /\ deal' = NoDeal /\ saved' = reg.mask
    /\ UNCHANGED <<tcpc, nvm, knob, last, i, stale, refused, left>>

\* Every alert is masked and the alarms are switched off.
MaskAlerts ==
    /\ Step("quiet", "drive")
    /\ reg' = [Report(reg, FALSE) EXCEPT !.mask = FALSE] /\ WriteCounted
    /\ UNCHANGED <<lost, alarm, blocked, nvm, knob, last, saved, deal, i, stale, op, left>>

\* Down to 3.3 V first, if VBUS is sourced.
StepDown ==
    /\ op # "on" /\ Step("drive", "switch_vbus")
    /\ reg' = IF reg.vbus = "off" THEN reg ELSE [reg EXCEPT !.target = DeepDip, !.vbus = "high"]
    /\ UNCHANGED <<lost, alarm, blocked, nvm, knob, power, op, left>>

\* Also after a hard reset, so that the next programmable contract finds its type
\* in last_pdo_type and sets neither bit nor alarms.
SetupDefault ==
    /\ op = "on" /\ Step("drive", "switch_vbus")
    /\ reg' = [GeneralSetup(reg, FALSE) EXCEPT !.ilim = Ilim(3000 + 200)]
    /\ stale' = (last = "APDO")
    /\ UNCHANGED <<lost, alarm, blocked, nvm, knob, last, saved, deal, i, refused, op, left>>

SwitchVbus ==
    /\ Step("switch_vbus", "work") /\ op' = "none"
    /\ reg' = [reg EXCEPT !.vbus = IF op = "on" THEN "default" ELSE "off", !.mask = saved]
    /\ UNCHANGED <<lost, alarm, blocked, nvm, knob, power, left>>

-----------------------------------------------------------------------------
(* tcpci_set_vbus_hv. The port manager calls it only while VBUS is sourced.  *)

BeginSetVbusHv ==
    /\ Step("work", "type") /\ (reg.vbus # "off" \/ lost)
    /\ op' = "hv" /\ deal' \in Deals
    /\ reg' = [reg EXCEPT !.target = VbusCode(deal'.mv),
                          !.ilim = Ilim(deal'.ma + Headroom(deal'.type))]
    /\ UNCHANGED <<lost, alarm, blocked, nvm, knob, last, saved, i, stale, refused, left>>

SameType ==
    /\ deal.type = last /\ Step("type", "command")
    /\ UNCHANGED <<tcpc, nvm, knob, power, op, left>>

\* As if CL were set for good.
NewTypeKeepsCl ==
    /\ deal.type # last /\ Step("type", "alarms")
    /\ reg' = GeneralSetup(reg, reg.cl \/ deal.type = "APDO") /\ stale' = FALSE
    /\ UNCHANGED <<lost, alarm, blocked, nvm, knob, last, saved, deal, i, refused, op, left>>

NewType ==
    /\ deal.type # last /\ Step("type", "alarms")
    /\ reg' = GeneralSetup(reg, deal.type = "APDO") /\ stale' = FALSE
    /\ UNCHANGED <<lost, alarm, blocked, nvm, knob, last, saved, deal, i, refused, op, left>>

EnableMask ==
    /\ deal.type = "APDO" /\ Step("alarms", "report")
    /\ reg' = [reg EXCEPT !.mask = TRUE]
    /\ UNCHANGED <<lost, alarm, blocked, nvm, knob, power, op, left>>

\* Once. The call returns, and last_pdo_type is assigned.
EnableReporting ==
    /\ Step("report", "command") /\ last' = deal.type
    /\ reg' = Report(reg, TRUE) /\ WriteCounted
    /\ UNCHANGED <<lost, alarm, blocked, nvm, knob, saved, deal, i, stale, op, left>>

DisableMask ==
    /\ deal.type = "FIXED" /\ Step("alarms", "verify") /\ i' = 0
    /\ reg' = [reg EXCEPT !.mask = FALSE]
    /\ UNCHANGED <<lost, alarm, blocked, nvm, knob, last, saved, deal, stale, refused, op, left>>

\* As if the loop ended with its first write, read back or not.
StopsAtOnce(off) == TRUE
\* It ends when the write is read back, or when it was repeated often enough.
Stops(off) == off \/ i = Tries

DisableReporting ==
    /\ pc = "verify" /\ reg' = Report(reg, FALSE) /\ WriteCounted
    /\ IF Stops(~reg'.reporting) THEN pc' = "clear" /\ UNCHANGED i
                                 ELSE i' = i + 1 /\ UNCHANGED pc
    /\ UNCHANGED <<lost, alarm, blocked, nvm, knob, last, saved, deal, stale, op, left>>

\* The bits of ALERT, and last_pdo_type after the call.
ClearAlarms ==
    /\ Step("clear", "command") /\ last' = deal.type /\ alarm' = FALSE
    /\ UNCHANGED <<reg, lost, blocked, nvm, knob, saved, deal, i, stale, refused, op, left>>

SrcVbusHigh ==
    /\ Step("command", "work") /\ op' = "none"
    /\ reg' = [reg EXCEPT !.vbus = "high"]
    /\ UNCHANGED <<lost, alarm, blocked, nvm, knob, power, left>>

SetVbus   == \/ \E kind \in {"on", "off"} : BeginSetVbus(kind)
             \/ MaskAlerts \/ StepDown \/ SetupDefault \/ SwitchVbus
SetVbusHv == \/ BeginSetVbusHv \/ SameType \/ NewType \/ SrcVbusHigh
             \/ EnableMask \/ EnableReporting
             \/ DisableMask \/ DisableReporting \/ ClearAlarms

-----------------------------------------------------------------------------
(* tcpci_irq, from the interrupt or the poll.                               *)

\* V_ALARM_LO: disable_vbus_alarms, which tries as often as it does for a contract,
\* and a hard reset asked for. The bit is tested unmasked, so that any alert brings
\* a masked one along.
LowAlarm ==
    /\ alarm /\ alarm' = FALSE
    /\ reg' = [Report(reg, FALSE) EXCEPT !.mask = FALSE]
    /\ refused' = IF blocked THEN Tries + 1 ELSE 0
    /\ UNCHANGED <<lost, blocked, nvm, knob, last, saved, deal, i, stale, op, pc, left>>

\* Interrupts are off while the loop handles an alert or the mode is written,
\* and find the pin high while every alert is masked.
Interruptible ==
    /\ pc \in {"work", "switch", "store", "quiet", "type", "alarms", "report", "verify", "clear",
              "command"}
    /\ op # "init"

AlarmInterrupt == Interruptible /\ LowAlarm

\* tcpm_init in an interrupt waits for a clock that stands still.
ResetInterrupt ==
    /\ lost /\ Interruptible /\ pc' = "hung"
    /\ UNCHANGED <<tcpc, nvm, knob, power, op, left>>

PollAlarm == pc = "poll" /\ ~lost /\ LowAlarm
PollReset ==
    /\ lost /\ Step("poll", "init")
    /\ UNCHANGED <<tcpc, nvm, knob, power, op, left>>
EndPoll ==
    /\ ~lost /\ ~(alarm /\ reg.mask) /\ Step("poll", "work")
    /\ UNCHANGED <<tcpc, nvm, knob, power, op, left>>

-----------------------------------------------------------------------------
(* tcpci_init, which leaves GENERAL_SETUP to tcpci_set_vbus, and tcpm_init.  *)

TcpmInit ==
    /\ Step("init", "quiet") /\ op' = "init" /\ deal' = NoDeal /\ lost' = FALSE
    /\ cache' = [mode |-> mode, hires |-> TRUE]
    /\ reg' = [reg EXCEPT !.mask = FALSE] /\ saved' = FALSE
    /\ UNCHANGED <<alarm, blocked, nvm, mode, sw, pin, last, i, stale, refused, left>>

-----------------------------------------------------------------------------
(* m_switch_check.                                                          *)

EndWork ==
    /\ Step("work", "switch")
    /\ UNCHANGED <<tcpc, nvm, knob, power, op, left>>

Other(m) == IF m = "DCP" THEN "CDP" ELSE "DCP"
\* As if sw_cnt ran on.
CappedNever(n) == n
Capped(n) == IF n >= M_SW_DELAY THEN M_SW_DELAY ELSE n

SwitchUp ==
    /\ pin = "HIGH" /\ Step("switch", "poll")
    /\ sw' = [cnt |-> 0, pre |-> FALSE]
    /\ UNCHANGED <<tcpc, nvm, mode, cache, pin, power, op, left>>

\* As if the count had to exceed the delay it is capped at.
AcceptedLater(n) == n > M_SW_DELAY
Accepted(n) == n >= M_SW_DELAY

SwitchDown ==
    /\ pin = "LOW"
    /\ sw' = [cnt |-> Capped(sw.cnt + 1), pre |-> sw.pre \/ Accepted(Capped(sw.cnt + 1))]
    /\ IF sw'.pre /\ ~sw.pre
       THEN Step("switch", "store") /\ mode' = Other(mode)
       ELSE Step("switch", "poll") /\ UNCHANGED mode
    /\ UNCHANGED <<tcpc, nvm, cache, pin, power, op, left>>

\* As if a byte were written while the last one still is.
FLASH_WriteEepromByteAtOnce ==
    /\ Step("store", "reinit") /\ chosen' = mode
    /\ writing' = IF writing = "NONE" THEN mode ELSE writing
    /\ UNCHANGED <<tcpc, eeprom, knob, power, op, left>>

FLASH_WriteEepromByte ==
    /\ Step("store", "reinit") /\ writing = "NONE"
    /\ writing' = mode /\ chosen' = mode
    /\ UNCHANGED <<tcpc, eeprom, knob, power, op, left>>

\* As if the cached setup kept the old mode.
TcpciSwitchInitUncached ==
    /\ Step("reinit", "poll") /\ reg' = [reg EXCEPT !.mode = mode]
    /\ UNCHANGED <<lost, alarm, blocked, nvm, knob, power, op, left>>

TcpciSwitchInit ==
    /\ Step("reinit", "poll")
    /\ reg' = [reg EXCEPT !.mode = mode] /\ cache' = [cache EXCEPT !.mode = mode]
    /\ UNCHANGED <<lost, alarm, blocked, nvm, mode, sw, pin, power, op, left>>

-----------------------------------------------------------------------------
(* Restarts.                                                                *)

Fresh ==
    /\ mode' = "CDP" /\ cache' = [mode |-> "NONE", hires |-> FALSE] /\ last' = "NONE"
    /\ sw' = [cnt |-> 0, pre |-> FALSE] /\ saved' = FALSE /\ deal' = NoDeal /\ i' = 0
    /\ stale' = FALSE /\ op' = "none" /\ pc' = "boot"

\* The processor alone: the TCPC goes on, and so does a write of the EEPROM.
Restart ==
    /\ left > 0 /\ left' = left - 1 /\ Fresh
    /\ UNCHANGED <<tcpc, nvm, pin, refused>>
Watchdog ==
    /\ pc = "hung" /\ Fresh
    /\ UNCHANGED <<tcpc, nvm, pin, refused, left>>

\* Everything: an EEPROM write that is cut short leaves anything behind.
PowerLoss ==
    /\ left > 0 /\ left' = left - 1 /\ Fresh
    /\ reg' = Defaults /\ lost' = TRUE /\ alarm' = FALSE /\ refused' = 0
    /\ IF writing = "NONE" THEN UNCHANGED <<eeprom, chosen>>
       ELSE /\ eeprom' \in Modes \cup {"OTHER"}
            /\ chosen' = IF eeprom' = "DCP" THEN "DCP" ELSE "CDP"
    /\ writing' = "NONE" /\ UNCHANGED <<blocked, pin>>

\* m_sw_init: a read waits for the write under way.
SwitchInit ==
    /\ Step("boot", "init") /\ writing = "NONE"
    /\ mode' = IF eeprom = "DCP" THEN "DCP" ELSE "CDP"
    /\ UNCHANGED <<tcpc, nvm, cache, sw, pin, power, op, left>>

-----------------------------------------------------------------------------
\* An erased EEPROM holds neither mode.
Init ==
    /\ reg = Defaults /\ lost = TRUE /\ alarm = FALSE /\ blocked = FALSE
    /\ eeprom = "OTHER" /\ writing = "NONE" /\ chosen = "CDP"
    /\ mode = "CDP" /\ cache = [mode |-> "NONE", hires |-> FALSE] /\ last = "NONE"
    /\ sw = [cnt |-> 0, pre |-> FALSE] /\ pin = "HIGH" /\ saved = FALSE /\ deal = NoDeal
    /\ i = 0 /\ stale = FALSE /\ refused = 0 /\ op = "none" /\ pc = "boot" /\ left = Faults

Main == \/ SetVbus \/ SetVbusHv \/ PollAlarm \/ PollReset \/ EndPoll \/ TcpmInit \/ EndWork
        \/ SwitchUp \/ SwitchDown \/ FLASH_WriteEepromByte \/ TcpciSwitchInit \/ SwitchInit
Next == \/ VoltageAlarm \/ TypeAFault \/ LoseRegisters \/ MoveSwitch \/ EepromDone
        \/ AlarmInterrupt \/ ResetInterrupt \/ Main \/ Restart \/ Watchdog \/ PowerLoss
Spec == Init /\ [][Next]_vars

\* The loop goes round, no pass is endless, a write takes a few milliseconds.
FairSpec == /\ Spec /\ WF_vars(Main) /\ SF_vars(EndPoll) /\ SF_vars(EndWork)
            /\ WF_vars(EepromDone) /\ WF_vars(Watchdog)

-----------------------------------------------------------------------------
(* What the setup promises.                                                 *)

Registers == [mode : Modes \cup {"NONE"}, hires : BOOLEAN, cl : BOOLEAN, mask : BOOLEAN,
              reporting : BOOLEAN, ilim : Nat, target : Nat, vbus : {"off", "default", "high"}]

\* Every variable stays in its type.
TypeOK ==
    /\ reg \in Registers
    /\ cache \in [mode : Modes \cup {"NONE"}, hires : BOOLEAN]
    /\ eeprom \in Modes \cup {"OTHER"} /\ writing \in Modes \cup {"NONE"}
    /\ mode \in Modes /\ chosen \in Modes /\ last \in {"NONE", "FIXED", "APDO"}
    /\ sw \in [cnt : 0 .. M_SW_DELAY, pre : BOOLEAN] /\ pin \in {"HIGH", "LOW"}
    /\ deal \in Deals \cup {NoDeal} /\ op \in {"none", "on", "off", "init", "hv"}
    /\ lost \in BOOLEAN /\ alarm \in BOOLEAN /\ blocked \in BOOLEAN
    /\ saved \in BOOLEAN /\ stale \in BOOLEAN /\ left \in Nat
    /\ i \in 0 .. Tries /\ refused \in 0 .. Tries + 1

AtRest == pc \in {"poll", "work", "switch"} /\ ~lost

\* Between calls the registers are those of the contract: voltage, current limit,
\* and the current limit bit and the alarms just for a programmable supply. Only
\* the programmable contract after one that ended with a detach or a hard reset goes
\* without bit and alarms, as last_pdo_type outlives the supply.
SupplyMatches ==
    AtRest /\ deal # NoDeal =>
        /\ reg.target = VbusCode(deal.mv) /\ reg.ilim = Ilim(deal.ma + Headroom(deal.type))
        /\ reg.cl <=> (deal.type = "APDO" /\ ~stale)
        /\ (deal.type = "APDO" /\ ~stale /\ reg.mask) => (reg.reporting \/ refused # 0)

\* The low voltage alarm, which resets the sink, is armed for a programmable
\* contract only. Under a fixed contract it can be left armed only if every try of
\* disable_vbus_alarms was blocked; without a contract, and where last_pdo_type is
\* stale, if set_vbus, which writes once, was.
AlarmsFit ==
    AtRest /\ reg.reporting =>
        \/ deal.type = "APDO" /\ ~stale
        \/ deal.type = "FIXED" /\ refused > Tries
        \/ deal.type # "FIXED" /\ refused # 0

\* A voltage is never sourced in units other than those it was computed in,
\* unless the TCPC has lost its registers and is not initialised again yet.
UnitsAgree == reg.vbus = "high" => reg.hires \/ lost \/ op = "init" \/ pc \in {"boot", "init"}

\* A sink is powered in the mode the switch has chosen, whatever lies between:
\* detaches, contracts, restarts and register losses.
ModeInForce == AtRest /\ reg.vbus # "off" => reg.mode = mode

\* The mode survives restarts and power losses, except for a power loss in the
\* middle of its own write.
ModeKept == pc \notin {"boot", "hung", "store"} => mode = chosen

\* A switch that is held down is acted on.
PressActs == pin = "LOW" ~> pin = "HIGH" \/ sw.pre
=============================================================================
