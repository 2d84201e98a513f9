----------------------------- MODULE SetupProofs -----------------------------
(***************************************************************************)
(* SupplySetup keeps supply, alarms, units and mode right, proved.           *)
(***************************************************************************)
EXTENDS SupplySetup, TLAPS

-----------------------------------------------------------------------------
(* The inductive invariant, in parts.                                        *)

\* Which call is under way at each point.
HvSteps  == {"type", "alarms", "report", "verify", "clear", "command"}
SetSteps == {"quiet", "drive", "switch_vbus"}
Restarts == {"boot", "init", "hung"}
OpFits ==
    /\ pc \in HvSteps \cup SetSteps \cup Restarts \cup {"work", "switch", "store", "reinit", "poll"}
    /\ pc \in HvSteps => op = "hv" /\ deal \in Deals
    /\ pc \in SetSteps => op \in {"on", "off", "init"} /\ deal = NoDeal
    /\ pc \notin HvSteps \cup SetSteps \cup {"hung"} => op = "none"

\* Where the registers can be relied on.
Known == ~lost /\ pc \notin Restarts /\ op # "init"

\* What is stored, or is being stored, is the mode last handed over.
Decoded(e) == IF e = "DCP" THEN "DCP" ELSE "CDP"
StoredInv ==
    /\ IF writing = "NONE" THEN Decoded(eeprom) = chosen ELSE writing = chosen
    /\ pc \notin {"boot", "hung", "store"} => mode = chosen

\* The cached setup is up to date, and so is the register whenever VBUS is
\* sourced, or about to be.
Sourced == reg.vbus # "off" \/ (op = "on" /\ pc = "switch_vbus")
SetupInv ==
    /\ pc \notin Restarts => cache.hires
    /\ pc \notin Restarts \cup {"store", "reinit"} => cache.mode = mode
    /\ Sourced => reg.hires \/ lost \/ op = "init" \/ pc \in {"boot", "init"}
    /\ Known /\ Sourced /\ pc \notin {"store", "reinit"} => reg.mode = mode

\* CL and the alarms follow last_pdo_type, except while they change.
Changing == {"alarms", "report", "verify", "clear"}
TypeInv ==
    /\ Known /\ deal # NoDeal => reg.vbus # "off" /\ deal \in Deals
    /\ Known /\ deal # NoDeal /\ pc \notin Changing \cup {"type"} => last = deal.type
    /\ Known /\ Sourced /\ pc \notin Changing =>
          /\ last = "APDO" => (reg.cl <=> ~stale)
          /\ last # "APDO" => ~reg.cl
    /\ Known /\ pc \in Changing => ~stale /\ (reg.cl <=> deal.type = "APDO")
    /\ pc = "report" => deal.type = "APDO"
    /\ pc \in {"verify", "clear"} => deal.type = "FIXED"

\* Voltage and current limit are those of the contract.
TargetInv ==
    Known /\ deal # NoDeal =>
        reg.target = VbusCode(deal.mv) /\ reg.ilim = Ilim(deal.ma + Headroom(deal.type))

\* The alarms are armed for a programmable contract, and only for it. The writes that
\* were blocked in a row cover the tries of the loop, and once it is over they stay
\* enough, until one gets through or the alarms are wanted again.
AlarmInv ==
    /\ pc \in {"drive", "switch_vbus"} => lost \/ (~reg.mask /\ (reg.reporting => refused # 0))
    /\ op = "on" /\ pc = "switch_vbus" /\ last = "APDO" => stale
    /\ Known /\ reg.vbus # "off" /\ pc \notin Changing /\ last = "APDO" /\ ~stale /\ reg.mask
          => reg.reporting \/ refused # 0
    /\ Known /\ pc \notin Changing \cup {"quiet"} /\ reg.reporting
          => refused # 0 \/ (deal # NoDeal /\ last = "APDO" /\ ~stale)
    /\ pc = "verify" /\ reg.reporting => refused >= i
    /\ pc = "clear" /\ reg.reporting => refused > Tries
    /\ last = "FIXED" /\ reg.reporting => refused > Tries

IInv == TypeOK /\ OpFits /\ StoredInv /\ SetupInv /\ TypeInv /\ TargetInv /\ AlarmInv

-----------------------------------------------------------------------------
(* Values.                                                                  *)

\* Voltage codes and current limits are numbers.
LEMMA ValueTypes ==
    /\ \A ma \in Nat : Ilim(ma) \in Nat
    /\ \A mv \in Nat : VbusCode(mv) \in Nat
<1>1. \A ma \in Nat : Ilim(ma) \in Nat
    BY DEF Ilim
<1>2. \A mv \in Nat : VbusCode(mv) \in Nat
    BY DEF VbusCode
<1> QED
    BY <1>1, <1>2

\* A contract is none of its absence.
LEMMA DealTypes ==
    /\ NoDeal \notin Deals
    /\ \A d \in Deals : d.type \in {"FIXED", "APDO"} /\ d.mv \in Nat /\ d.ma \in Nat
    /\ \A d \in Deals : d.ma + Headroom(d.type) \in Nat
BY SetupAssumption DEF NoDeal, Headroom

-----------------------------------------------------------------------------
(* Each part is preserved by every step.                                     *)

\* The calls keep to their steps.
LEMMA OpStep ==
    ASSUME OpFits, [Next]_vars
    PROVE  OpFits'
<1>1. CASE VoltageAlarm
    BY <1>1 DEF VoltageAlarm, vars, tcpc, nvm, knob, power, OpFits, HvSteps, SetSteps, Restarts
<1>2. CASE TypeAFault
    BY <1>2 DEF TypeAFault, vars, tcpc, nvm, knob, power, OpFits, HvSteps, SetSteps, Restarts
<1>3. CASE LoseRegisters
    BY <1>3 DEF LoseRegisters, Defaults, vars, tcpc, nvm, knob, power, OpFits, HvSteps, SetSteps,
       Restarts
<1>4. CASE MoveSwitch
    BY <1>4 DEF MoveSwitch, vars, tcpc, nvm, knob, power, OpFits, HvSteps, SetSteps, Restarts
<1>5. CASE EepromDone
    BY <1>5 DEF EepromDone, vars, tcpc, nvm, knob, power, OpFits, HvSteps, SetSteps, Restarts
<1>6. CASE AlarmInterrupt
    BY <1>6 DEF AlarmInterrupt, Interruptible, LowAlarm, Report, vars, tcpc, nvm, knob, power,
       OpFits, HvSteps, SetSteps, Restarts
<1>7. CASE ResetInterrupt
    BY <1>7 DEF ResetInterrupt, Interruptible, vars, tcpc, nvm, knob, power, OpFits, HvSteps,
       SetSteps, Restarts
<1>8. CASE \E kind \in {"on", "off"} : BeginSetVbus(kind)
    BY <1>8 DEF BeginSetVbus, Step, vars, tcpc, nvm, knob, power, OpFits, HvSteps, SetSteps,
       Restarts
<1>9. CASE MaskAlerts
    BY <1>9 DEF MaskAlerts, Step, Report, WriteCounted, vars, tcpc, nvm, knob, power, OpFits,
       HvSteps, SetSteps, Restarts
<1>10. CASE StepDown
    BY <1>10 DEF StepDown, Step, DeepDip, vars, tcpc, nvm, knob, power, OpFits, HvSteps, SetSteps,
       Restarts
<1>11. CASE SetupDefault
    BY <1>11 DEF SetupDefault, Step, GeneralSetup, vars, tcpc, nvm, knob, power, OpFits, HvSteps,
       SetSteps, Restarts
<1>12. CASE SwitchVbus
    BY <1>12 DEF SwitchVbus, Step, vars, tcpc, nvm, knob, power, OpFits, HvSteps, SetSteps, Restarts
<1>13. CASE BeginSetVbusHv
    BY <1>13, DealTypes DEF BeginSetVbusHv, Step, vars, tcpc, nvm, knob, power, OpFits, HvSteps,
       SetSteps, Restarts
<1>14. CASE SameType
    BY <1>14 DEF SameType, Step, vars, tcpc, nvm, knob, power, OpFits, HvSteps, SetSteps, Restarts
<1>15. CASE NewType
    BY <1>15 DEF NewType, Step, GeneralSetup, vars, tcpc, nvm, knob, power, OpFits, HvSteps,
       SetSteps, Restarts
<1>16a. CASE EnableMask
    BY <1>16a DEF EnableMask, Step, vars, tcpc, nvm, knob, power, OpFits, HvSteps,
       SetSteps, Restarts
<1>16b. CASE EnableReporting
    BY <1>16b DEF EnableReporting, Step, Report, WriteCounted, vars, tcpc, nvm, knob, power, OpFits,
       HvSteps, SetSteps, Restarts
<1>17a. CASE DisableMask
    BY <1>17a DEF DisableMask, Step, vars, tcpc, nvm, knob, power, OpFits, HvSteps,
       SetSteps, Restarts
<1>17b. CASE DisableReporting
    BY <1>17b DEF DisableReporting, Report, WriteCounted, Stops, vars, tcpc, nvm, knob, power,
       OpFits, HvSteps, SetSteps, Restarts
<1>17c. CASE ClearAlarms
    BY <1>17c DEF ClearAlarms, Step, vars, tcpc, nvm, knob, power, OpFits, HvSteps,
       SetSteps, Restarts
<1>18. CASE SrcVbusHigh
    BY <1>18 DEF SrcVbusHigh, Step, vars, tcpc, nvm, knob, power, OpFits, HvSteps, SetSteps,
       Restarts
<1>19. CASE PollAlarm
    BY <1>19 DEF PollAlarm, LowAlarm, Report, vars, tcpc, nvm, knob, power, OpFits, HvSteps,
       SetSteps, Restarts
<1>20. CASE PollReset
    BY <1>20 DEF PollReset, Step, vars, tcpc, nvm, knob, power, OpFits, HvSteps, SetSteps, Restarts
<1>21. CASE EndPoll
    BY <1>21 DEF EndPoll, Step, vars, tcpc, nvm, knob, power, OpFits, HvSteps, SetSteps, Restarts
<1>22. CASE TcpmInit
    BY <1>22 DEF TcpmInit, Step, vars, tcpc, nvm, knob, power, OpFits, HvSteps, SetSteps, Restarts
<1>23. CASE EndWork
    BY <1>23 DEF EndWork, Step, vars, tcpc, nvm, knob, power, OpFits, HvSteps, SetSteps, Restarts
<1>24. CASE SwitchUp
    BY <1>24 DEF SwitchUp, Step, vars, tcpc, nvm, knob, power, OpFits, HvSteps, SetSteps, Restarts
<1>25. CASE SwitchDown
    BY <1>25 DEF SwitchDown, Step, Other, vars, tcpc, nvm, knob, power, OpFits, HvSteps, SetSteps,
       Restarts
<1>26. CASE FLASH_WriteEepromByte
    BY <1>26 DEF FLASH_WriteEepromByte, Step, vars, tcpc, nvm, knob, power, OpFits, HvSteps,
       SetSteps, Restarts
<1>27. CASE TcpciSwitchInit
    BY <1>27 DEF TcpciSwitchInit, Step, vars, tcpc, nvm, knob, power, OpFits, HvSteps, SetSteps,
       Restarts
<1>28. CASE SwitchInit
    BY <1>28 DEF SwitchInit, Step, vars, tcpc, nvm, knob, power, OpFits, HvSteps, SetSteps, Restarts
<1>29. CASE Restart
    BY <1>29 DEF Restart, Fresh, vars, tcpc, nvm, knob, power, OpFits, HvSteps, SetSteps, Restarts
<1>30. CASE Watchdog
    BY <1>30 DEF Watchdog, Fresh, vars, tcpc, nvm, knob, power, OpFits, HvSteps, SetSteps, Restarts
<1>31. CASE PowerLoss
    BY <1>31 DEF PowerLoss, Fresh, Defaults, vars, tcpc, nvm, knob, power, OpFits, HvSteps,
       SetSteps, Restarts
<1>32. CASE UNCHANGED vars
    BY <1>32 DEF vars, tcpc, nvm, knob, power, OpFits, HvSteps, SetSteps, Restarts
<1> QED
    BY <1>1, <1>2, <1>3, <1>4, <1>5, <1>6, <1>7, <1>8, <1>9, <1>10, <1>11, <1>12, <1>13, <1>14,
       <1>15, <1>16a, <1>16b, <1>17a, <1>17b, <1>17c, <1>18, <1>19, <1>20, <1>21, <1>22, <1>23, <1>24, <1>25, <1>26, <1>27,
       <1>28, <1>29, <1>30, <1>31, <1>32 DEF Next, Main, SetVbus, SetVbusHv

\* A register function stays one when VBUS steps down, and when the setup is written.
LEMMA StepsDownTyped ==
    ASSUME NEW r \in Registers, NEW n \in Nat
    PROVE  [r EXCEPT !.target = n, !.vbus = "high"] \in Registers
BY DEF Registers, Modes
Caches == [mode : Modes \cup {"NONE"}, hires : BOOLEAN]
SetupWritten(r, c, n) == [r EXCEPT !.mode = c.mode, !.hires = c.hires, !.cl = FALSE, !.ilim = n]
LEMMA SetupTyped ==
    ASSUME NEW r \in Registers, NEW c \in Caches, NEW n \in Nat
    PROVE  SetupWritten(r, c, n) \in Registers
BY DEF SetupWritten, Registers, Caches, Modes

\* The registers keep their types.
LEMMA RegisterStep ==
    ASSUME TypeOK, OpFits, [Next]_vars
    PROVE  reg' \in Registers
<1>0. /\ reg \in Registers /\ mode \in Modes /\ saved \in BOOLEAN
      /\ cache \in [mode : Modes \cup {"NONE"}, hires : BOOLEAN]
    BY DEF TypeOK
<1>1. CASE LoseRegisters
    BY <1>0, <1>1 DEF LoseRegisters, Defaults, Registers, Modes
<1>2. CASE AlarmInterrupt
    BY <1>0, <1>2 DEF AlarmInterrupt, Interruptible, LowAlarm, Report, Registers, Modes
<1>3. CASE MaskAlerts
    BY <1>0, <1>3 DEF MaskAlerts, Step, Report, WriteCounted, Registers, Modes
<1>4. CASE StepDown
  <2>1. reg' = reg \/ reg' = [reg EXCEPT !.target = 330, !.vbus = "high"]
    BY <1>4 DEF StepDown, DeepDip
  <2>2. 330 \in Nat
    OBVIOUS
  <2>3. [reg EXCEPT !.target = 330, !.vbus = "high"] \in Registers
    BY <1>0, <2>2, StepsDownTyped, Zenon
  <2> QED
    BY <1>0, <2>1, <2>3, Zenon
<1>5. CASE SetupDefault
  <2>1. Ilim(3000 + 200) \in Nat
    BY ValueTypes
  <2>2. reg' = SetupWritten(reg, cache, Ilim(3000 + 200))
    BY <1>0, <1>5 DEF SetupDefault, GeneralSetup, Registers, SetupWritten
  <2>3. reg \in Registers /\ cache \in Caches
    BY <1>0 DEF Caches
  <2>4. SetupWritten(reg, cache, Ilim(3000 + 200)) \in Registers
    BY <2>1, <2>3, SetupTyped
  <2> QED
    BY <2>2, <2>4
<1>6. CASE SwitchVbus
    BY <1>0, <1>6 DEF SwitchVbus, Step, Registers, Modes
<1>7. CASE BeginSetVbusHv
    BY <1>0, <1>7, ValueTypes, DealTypes DEF BeginSetVbusHv, Step, Registers, Modes
<1>8. CASE NewType
    BY <1>0, <1>8 DEF NewType, Step, GeneralSetup, Registers, Modes
<1>9a. CASE EnableMask
    BY <1>0, <1>9a DEF EnableMask, Step, Registers, Modes
<1>9b. CASE EnableReporting
    BY <1>0, <1>9b DEF EnableReporting, Step, Report, WriteCounted, Registers, Modes
<1>10a. CASE DisableMask
    BY <1>0, <1>10a DEF DisableMask, Step, Registers, Modes
<1>10b. CASE DisableReporting
    BY <1>0, <1>10b DEF DisableReporting, Report, WriteCounted, Stops, Registers, Modes
<1>10c. CASE ClearAlarms
    BY <1>0, <1>10c DEF ClearAlarms, Step, Registers, Modes
<1>11. CASE SrcVbusHigh
    BY <1>0, <1>11 DEF SrcVbusHigh, Step, Registers, Modes
<1>12. CASE PollAlarm
    BY <1>0, <1>12 DEF PollAlarm, LowAlarm, Report, Registers, Modes
<1>13. CASE TcpmInit
    BY <1>0, <1>13 DEF TcpmInit, Step, Registers, Modes
<1>14. CASE TcpciSwitchInit
    BY <1>0, <1>14 DEF TcpciSwitchInit, Step, Registers, Modes
<1>15. CASE PowerLoss
    BY <1>0, <1>15 DEF PowerLoss, Fresh, Defaults, Registers, Modes
<1>20. CASE UNCHANGED reg
    BY <1>0, <1>20
<1>21. CASE VoltageAlarm \/ TypeAFault \/ MoveSwitch \/ EepromDone \/ ResetInterrupt \/ (\E kind \in
            {"on", "off"} : BeginSetVbus(kind)) \/ SameType \/ PollReset \/ EndPoll \/ EndWork \/
            SwitchUp \/ SwitchDown \/ FLASH_WriteEepromByte \/ SwitchInit \/ Restart \/ Watchdog \/
            UNCHANGED vars
    BY <1>20, <1>21 DEF VoltageAlarm, TypeAFault, MoveSwitch, EepromDone, ResetInterrupt, SameType,
       PollReset, EndPoll, EndWork, SwitchUp, SwitchDown, FLASH_WriteEepromByte, SwitchInit,
       Restart, Watchdog, BeginSetVbus, Fresh, Step, tcpc, nvm, knob, power, vars
<1> QED
    BY <1>1, <1>2, <1>3, <1>4, <1>5, <1>6, <1>7, <1>8, <1>9a, <1>9b, <1>10a, <1>10b, <1>10c, <1>11,
       <1>12, <1>13, <1>14,
       <1>15, <1>21 DEF Next, Main, SetVbus, SetVbusHv

\* The flags, and everything else but the registers.
Flags ==
    /\ lost \in BOOLEAN /\ alarm \in BOOLEAN /\ blocked \in BOOLEAN
    /\ saved \in BOOLEAN /\ stale \in BOOLEAN
Others ==
    /\ cache \in [mode : Modes \cup {"NONE"}, hires : BOOLEAN]
    /\ eeprom \in Modes \cup {"OTHER"} /\ writing \in Modes \cup {"NONE"}
    /\ mode \in Modes /\ chosen \in Modes /\ last \in {"NONE", "FIXED", "APDO"}
    /\ sw \in [cnt : 0 .. M_SW_DELAY, pre : BOOLEAN] /\ pin \in {"HIGH", "LOW"}
    /\ deal \in Deals \cup {NoDeal} /\ op \in {"none", "on", "off", "init", "hv"} /\ left \in Nat
    /\ i \in 0 .. Tries /\ refused \in 0 .. Tries + 1

\* The flags keep their types.
LEMMA FlagStep ==
    ASSUME Flags, reg \in Registers, [Next]_vars
    PROVE  Flags'
<1>1. CASE VoltageAlarm
    BY <1>1 DEF VoltageAlarm, vars, tcpc, nvm, knob, power, Flags, Registers
<1>2. CASE TypeAFault
    BY <1>2 DEF TypeAFault, vars, tcpc, nvm, knob, power, Flags, Registers
<1>3. CASE LoseRegisters
    BY <1>3 DEF LoseRegisters, Defaults, vars, tcpc, nvm, knob, power, Flags, Registers
<1>4. CASE MoveSwitch
    BY <1>4 DEF MoveSwitch, vars, tcpc, nvm, knob, power, Flags, Registers
<1>5. CASE EepromDone
    BY <1>5 DEF EepromDone, vars, tcpc, nvm, knob, power, Flags, Registers
<1>6. CASE AlarmInterrupt
    BY <1>6 DEF AlarmInterrupt, Interruptible, LowAlarm, Report, vars, tcpc, nvm, knob, power,
       Flags, Registers
<1>7. CASE ResetInterrupt
    BY <1>7 DEF ResetInterrupt, Interruptible, vars, tcpc, nvm, knob, power, Flags, Registers
<1>8. CASE \E kind \in {"on", "off"} : BeginSetVbus(kind)
    BY <1>8 DEF BeginSetVbus, Step, vars, tcpc, nvm, knob, power, Flags, Registers
<1>9. CASE MaskAlerts
    BY <1>9 DEF MaskAlerts, Step, Report, WriteCounted, vars, tcpc, nvm, knob, power, Flags,
       Registers
<1>10. CASE StepDown
    BY <1>10 DEF StepDown, Step, DeepDip, vars, tcpc, nvm, knob, power, Flags, Registers
<1>11. CASE SetupDefault
    BY <1>11 DEF SetupDefault, Step, GeneralSetup, vars, tcpc, nvm, knob, power, Flags, Registers
<1>12. CASE SwitchVbus
    BY <1>12 DEF SwitchVbus, Step, vars, tcpc, nvm, knob, power, Flags, Registers
<1>13. CASE BeginSetVbusHv
    BY <1>13 DEF BeginSetVbusHv, Step, vars, tcpc, nvm, knob, power, Flags, Registers
<1>14. CASE SameType
    BY <1>14 DEF SameType, Step, vars, tcpc, nvm, knob, power, Flags, Registers
<1>15. CASE NewType
    BY <1>15 DEF NewType, Step, GeneralSetup, vars, tcpc, nvm, knob, power, Flags, Registers
<1>16a. CASE EnableMask
    BY <1>16a DEF EnableMask, Step, vars, tcpc, nvm, knob, power, Flags, Registers
<1>16b. CASE EnableReporting
    BY <1>16b DEF EnableReporting, Step, Report, WriteCounted, vars, tcpc, nvm, knob, power, Flags,
       Registers
<1>17a. CASE DisableMask
    BY <1>17a DEF DisableMask, Step, vars, tcpc, nvm, knob, power, Flags, Registers
<1>17b. CASE DisableReporting
    BY <1>17b DEF DisableReporting, Report, WriteCounted, Stops, vars, tcpc, nvm, knob, power,
       Flags, Registers
<1>17c. CASE ClearAlarms
    BY <1>17c DEF ClearAlarms, Step, vars, tcpc, nvm, knob, power, Flags, Registers
<1>18. CASE SrcVbusHigh
    BY <1>18 DEF SrcVbusHigh, Step, vars, tcpc, nvm, knob, power, Flags, Registers
<1>19. CASE PollAlarm
    BY <1>19 DEF PollAlarm, LowAlarm, Report, vars, tcpc, nvm, knob, power, Flags, Registers
<1>20. CASE PollReset
    BY <1>20 DEF PollReset, Step, vars, tcpc, nvm, knob, power, Flags, Registers
<1>21. CASE EndPoll
    BY <1>21 DEF EndPoll, Step, vars, tcpc, nvm, knob, power, Flags, Registers
<1>22. CASE TcpmInit
    BY <1>22 DEF TcpmInit, Step, vars, tcpc, nvm, knob, power, Flags, Registers
<1>23. CASE EndWork
    BY <1>23 DEF EndWork, Step, vars, tcpc, nvm, knob, power, Flags, Registers
<1>24. CASE SwitchUp
    BY <1>24 DEF SwitchUp, Step, vars, tcpc, nvm, knob, power, Flags, Registers
<1>25. CASE SwitchDown
    BY <1>25 DEF SwitchDown, Step, Other, vars, tcpc, nvm, knob, power, Flags, Registers
<1>26. CASE FLASH_WriteEepromByte
    BY <1>26 DEF FLASH_WriteEepromByte, Step, vars, tcpc, nvm, knob, power, Flags, Registers
<1>27. CASE TcpciSwitchInit
    BY <1>27 DEF TcpciSwitchInit, Step, vars, tcpc, nvm, knob, power, Flags, Registers
<1>28. CASE SwitchInit
    BY <1>28 DEF SwitchInit, Step, vars, tcpc, nvm, knob, power, Flags, Registers
<1>29. CASE Restart
    BY <1>29 DEF Restart, Fresh, vars, tcpc, nvm, knob, power, Flags, Registers
<1>30. CASE Watchdog
    BY <1>30 DEF Watchdog, Fresh, vars, tcpc, nvm, knob, power, Flags, Registers
<1>31. CASE PowerLoss
    BY <1>31 DEF PowerLoss, Fresh, Defaults, vars, tcpc, nvm, knob, power, Flags, Registers
<1>32. CASE UNCHANGED vars
    BY <1>32 DEF vars, tcpc, nvm, knob, power, Flags, Registers
<1> QED
    BY <1>1, <1>2, <1>3, <1>4, <1>5, <1>6, <1>7, <1>8, <1>9, <1>10, <1>11, <1>12, <1>13, <1>14,
       <1>15, <1>16a, <1>16b, <1>17a, <1>17b, <1>17c, <1>18, <1>19, <1>20, <1>21, <1>22, <1>23, <1>24, <1>25, <1>26, <1>27,
       <1>28, <1>29, <1>30, <1>31, <1>32 DEF Next, Main, SetVbus, SetVbusHv

\* So does the rest.
LEMMA OtherStep ==
    ASSUME Others, Flags, OpFits, [Next]_vars
    PROVE  Others'
<1>1. CASE VoltageAlarm
    BY <1>1 DEF VoltageAlarm, vars, tcpc, nvm, knob, power, Others, Modes
<1>2. CASE TypeAFault
    BY <1>2 DEF TypeAFault, vars, tcpc, nvm, knob, power, Others, Modes
<1>3. CASE LoseRegisters
    BY <1>3 DEF LoseRegisters, Defaults, vars, tcpc, nvm, knob, power, Others, Modes
<1>4. CASE MoveSwitch
    BY <1>4 DEF MoveSwitch, vars, tcpc, nvm, knob, power, Others, Modes
<1>5. CASE EepromDone
    BY <1>5 DEF EepromDone, vars, tcpc, nvm, knob, power, Others, Modes
<1>6. CASE AlarmInterrupt
    BY <1>6, SetupAssumption DEF AlarmInterrupt, Interruptible, LowAlarm, Report, vars, tcpc, nvm,
       knob, power, Others, Modes
<1>7. CASE ResetInterrupt
    BY <1>7 DEF ResetInterrupt, Interruptible, vars, tcpc, nvm, knob, power, Others, Modes
<1>8. CASE \E kind \in {"on", "off"} : BeginSetVbus(kind)
    BY <1>8 DEF BeginSetVbus, Step, vars, tcpc, nvm, knob, power, Others, Modes
<1>9. CASE MaskAlerts
    BY <1>9, SetupAssumption DEF MaskAlerts, Step, Report, WriteCounted, vars, tcpc, nvm, knob,
       power, Others, Modes
<1>10. CASE StepDown
    BY <1>10 DEF StepDown, Step, DeepDip, vars, tcpc, nvm, knob, power, Others, Modes
<1>11. CASE SetupDefault
    BY <1>11 DEF SetupDefault, Step, GeneralSetup, vars, tcpc, nvm, knob, power, Others, Modes
<1>12. CASE SwitchVbus
    BY <1>12 DEF SwitchVbus, Step, vars, tcpc, nvm, knob, power, Others, Modes
<1>13. CASE BeginSetVbusHv
    BY <1>13, DealTypes DEF BeginSetVbusHv, Step, vars, tcpc, nvm, knob, power, Others, Modes
<1>14. CASE SameType
    BY <1>14 DEF SameType, Step, vars, tcpc, nvm, knob, power, Others, Modes
<1>15. CASE NewType
    BY <1>15 DEF NewType, Step, GeneralSetup, vars, tcpc, nvm, knob, power, Others, Modes
<1>16a. CASE EnableMask
    BY <1>16a DEF EnableMask, Step, vars, tcpc, nvm, knob, power, Others, Modes
<1>16b. CASE EnableReporting
    BY <1>16b, SetupAssumption, DealTypes DEF OpFits, HvSteps, EnableReporting, Step, Report,
       WriteCounted, vars, tcpc, nvm, knob, power, Others, Modes
<1>17a. CASE DisableMask
    BY <1>17a, SetupAssumption DEF DisableMask, Step, vars, tcpc, nvm, knob, power, Others, Modes
<1>17b. CASE DisableReporting
    BY <1>17b, SetupAssumption DEF DisableReporting, Report, WriteCounted, Stops, vars, tcpc, nvm,
       knob, power, Others, Modes
<1>17c. CASE ClearAlarms
    BY <1>17c, DealTypes DEF OpFits, HvSteps, ClearAlarms, Step, vars, tcpc, nvm, knob, power,
       Others, Modes
<1>18. CASE SrcVbusHigh
    BY <1>18 DEF SrcVbusHigh, Step, vars, tcpc, nvm, knob, power, Others, Modes
<1>19. CASE PollAlarm
    BY <1>19, SetupAssumption DEF PollAlarm, LowAlarm, Report, vars, tcpc, nvm, knob, power, Others,
       Modes
<1>20. CASE PollReset
    BY <1>20 DEF PollReset, Step, vars, tcpc, nvm, knob, power, Others, Modes
<1>21. CASE EndPoll
    BY <1>21 DEF EndPoll, Step, vars, tcpc, nvm, knob, power, Others, Modes
<1>22. CASE TcpmInit
    BY <1>22 DEF TcpmInit, Step, vars, tcpc, nvm, knob, power, Others, Modes
<1>23. CASE EndWork
    BY <1>23 DEF EndWork, Step, vars, tcpc, nvm, knob, power, Others, Modes
<1>24. CASE SwitchUp
    BY <1>24, SetupAssumption DEF SwitchUp, Step, vars, tcpc, nvm, knob, power, Others, Modes
<1>25. CASE SwitchDown
    BY <1>25, SetupAssumption DEF SwitchDown, Step, Other, vars, tcpc, nvm, knob, power, Others,
       Modes, Capped
<1>26. CASE FLASH_WriteEepromByte
    BY <1>26 DEF FLASH_WriteEepromByte, Step, vars, tcpc, nvm, knob, power, Others, Modes
<1>27. CASE TcpciSwitchInit
    BY <1>27 DEF TcpciSwitchInit, Step, vars, tcpc, nvm, knob, power, Others, Modes
<1>28. CASE SwitchInit
    BY <1>28 DEF SwitchInit, Step, vars, tcpc, nvm, knob, power, Others, Modes
<1>29. CASE Restart
    BY <1>29, SetupAssumption DEF Restart, Fresh, vars, tcpc, nvm, knob, power, Others, Modes
<1>30. CASE Watchdog
    BY <1>30, SetupAssumption DEF Watchdog, Fresh, vars, tcpc, nvm, knob, power, Others, Modes
<1>31. CASE PowerLoss
    BY <1>31, SetupAssumption DEF PowerLoss, Fresh, Defaults, vars, tcpc, nvm, knob, power, Others,
       Modes
<1>32. CASE UNCHANGED vars
    BY <1>32 DEF vars, tcpc, nvm, knob, power, Others, Modes
<1> QED
    BY <1>1, <1>2, <1>3, <1>4, <1>5, <1>6, <1>7, <1>8, <1>9, <1>10, <1>11, <1>12, <1>13, <1>14,
       <1>15, <1>16a, <1>16b, <1>17a, <1>17b, <1>17c, <1>18, <1>19, <1>20, <1>21, <1>22, <1>23, <1>24, <1>25, <1>26, <1>27,
       <1>28, <1>29, <1>30, <1>31, <1>32 DEF Next, Main, SetVbus, SetVbusHv

\* Types are kept.
LEMMA TypeStep ==
    ASSUME TypeOK, OpFits, [Next]_vars
    PROVE  TypeOK'
<1>1. reg \in Registers /\ Flags /\ Others
    BY DEF TypeOK, Flags, Others
<1>2. reg' \in Registers /\ Flags' /\ Others'
    BY <1>1, RegisterStep, FlagStep, OtherStep
<1> QED
    BY <1>2 DEF TypeOK, Flags, Others

\* The stored mode is kept.
LEMMA StoredStep ==
    ASSUME TypeOK, OpFits, StoredInv, [Next]_vars
    PROVE  StoredInv'
<1>1. CASE VoltageAlarm
    BY <1>1 DEF VoltageAlarm, vars, tcpc, nvm, knob, power, StoredInv, Decoded, Modes, OpFits,
       HvSteps, SetSteps, Restarts, TypeOK
<1>2. CASE TypeAFault
    BY <1>2 DEF TypeAFault, vars, tcpc, nvm, knob, power, StoredInv, Decoded, Modes, OpFits,
       HvSteps, SetSteps, Restarts, TypeOK
<1>3. CASE LoseRegisters
    BY <1>3 DEF LoseRegisters, Defaults, vars, tcpc, nvm, knob, power, StoredInv, Decoded, Modes,
       OpFits, HvSteps, SetSteps, Restarts, TypeOK
<1>4. CASE MoveSwitch
    BY <1>4 DEF MoveSwitch, vars, tcpc, nvm, knob, power, StoredInv, Decoded, Modes, OpFits,
       HvSteps, SetSteps, Restarts, TypeOK
<1>5. CASE EepromDone
    BY <1>5 DEF EepromDone, vars, tcpc, nvm, knob, power, StoredInv, Decoded, Modes, OpFits,
       HvSteps, SetSteps, Restarts, TypeOK
<1>6. CASE AlarmInterrupt
    BY <1>6 DEF AlarmInterrupt, Interruptible, LowAlarm, Report, vars, tcpc, nvm, knob, power,
       StoredInv, Decoded, Modes, OpFits, HvSteps, SetSteps, Restarts, TypeOK
<1>7. CASE ResetInterrupt
    BY <1>7 DEF ResetInterrupt, Interruptible, vars, tcpc, nvm, knob, power, StoredInv, Decoded,
       Modes, OpFits, HvSteps, SetSteps, Restarts, TypeOK
<1>8. CASE \E kind \in {"on", "off"} : BeginSetVbus(kind)
    BY <1>8 DEF BeginSetVbus, Step, vars, tcpc, nvm, knob, power, StoredInv, Decoded, Modes, OpFits,
       HvSteps, SetSteps, Restarts, TypeOK
<1>9. CASE MaskAlerts
    BY <1>9 DEF MaskAlerts, Step, Report, WriteCounted, vars, tcpc, nvm, knob, power, StoredInv,
       Decoded, Modes, OpFits, HvSteps, SetSteps, Restarts, TypeOK
<1>10. CASE StepDown
    BY <1>10 DEF StepDown, Step, DeepDip, vars, tcpc, nvm, knob, power, StoredInv, Decoded, Modes,
       OpFits, HvSteps, SetSteps, Restarts, TypeOK
<1>11. CASE SetupDefault
    BY <1>11 DEF SetupDefault, Step, GeneralSetup, vars, tcpc, nvm, knob, power, StoredInv, Decoded,
       Modes, OpFits, HvSteps, SetSteps, Restarts, TypeOK
<1>12. CASE SwitchVbus
    BY <1>12 DEF SwitchVbus, Step, vars, tcpc, nvm, knob, power, StoredInv, Decoded, Modes, OpFits,
       HvSteps, SetSteps, Restarts, TypeOK
<1>13. CASE BeginSetVbusHv
    BY <1>13 DEF BeginSetVbusHv, Step, vars, tcpc, nvm, knob, power, StoredInv, Decoded, Modes,
       OpFits, HvSteps, SetSteps, Restarts, TypeOK
<1>14. CASE SameType
    BY <1>14 DEF SameType, Step, vars, tcpc, nvm, knob, power, StoredInv, Decoded, Modes, OpFits,
       HvSteps, SetSteps, Restarts, TypeOK
<1>15. CASE NewType
    BY <1>15 DEF NewType, Step, GeneralSetup, vars, tcpc, nvm, knob, power, StoredInv, Decoded,
       Modes, OpFits, HvSteps, SetSteps, Restarts, TypeOK
<1>16a. CASE EnableMask
    BY <1>16a DEF EnableMask, Step, vars, tcpc, nvm, knob, power, StoredInv, Decoded,
       Modes, OpFits, HvSteps, SetSteps, Restarts, TypeOK
<1>16b. CASE EnableReporting
    BY <1>16b DEF EnableReporting, Step, Report, WriteCounted, vars, tcpc, nvm, knob, power,
       StoredInv, Decoded, Modes, OpFits, HvSteps, SetSteps, Restarts, TypeOK
<1>17a. CASE DisableMask
    BY <1>17a DEF DisableMask, Step, vars, tcpc, nvm, knob, power, StoredInv, Decoded,
       Modes, OpFits, HvSteps, SetSteps, Restarts, TypeOK
<1>17b. CASE DisableReporting
    BY <1>17b DEF DisableReporting, Report, WriteCounted, Stops, vars, tcpc, nvm, knob, power,
       StoredInv, Decoded, Modes, OpFits, HvSteps, SetSteps, Restarts, TypeOK
<1>17c. CASE ClearAlarms
    BY <1>17c DEF ClearAlarms, Step, vars, tcpc, nvm, knob, power, StoredInv, Decoded,
       Modes, OpFits, HvSteps, SetSteps, Restarts, TypeOK
<1>18. CASE SrcVbusHigh
    BY <1>18 DEF SrcVbusHigh, Step, vars, tcpc, nvm, knob, power, StoredInv, Decoded, Modes, OpFits,
       HvSteps, SetSteps, Restarts, TypeOK
<1>19. CASE PollAlarm
    BY <1>19 DEF PollAlarm, LowAlarm, Report, vars, tcpc, nvm, knob, power, StoredInv, Decoded,
       Modes, OpFits, HvSteps, SetSteps, Restarts, TypeOK
<1>20. CASE PollReset
    BY <1>20 DEF PollReset, Step, vars, tcpc, nvm, knob, power, StoredInv, Decoded, Modes, OpFits,
       HvSteps, SetSteps, Restarts, TypeOK
<1>21. CASE EndPoll
    BY <1>21 DEF EndPoll, Step, vars, tcpc, nvm, knob, power, StoredInv, Decoded, Modes, OpFits,
       HvSteps, SetSteps, Restarts, TypeOK
<1>22. CASE TcpmInit
    BY <1>22 DEF TcpmInit, Step, vars, tcpc, nvm, knob, power, StoredInv, Decoded, Modes, OpFits,
       HvSteps, SetSteps, Restarts, TypeOK
<1>23. CASE EndWork
    BY <1>23 DEF EndWork, Step, vars, tcpc, nvm, knob, power, StoredInv, Decoded, Modes, OpFits,
       HvSteps, SetSteps, Restarts, TypeOK
<1>24. CASE SwitchUp
    BY <1>24 DEF SwitchUp, Step, vars, tcpc, nvm, knob, power, StoredInv, Decoded, Modes, OpFits,
       HvSteps, SetSteps, Restarts, TypeOK
<1>25. CASE SwitchDown
    BY <1>25 DEF SwitchDown, Step, Other, vars, tcpc, nvm, knob, power, StoredInv, Decoded, Modes,
       OpFits, HvSteps, SetSteps, Restarts, TypeOK
<1>26. CASE FLASH_WriteEepromByte
    BY <1>26 DEF FLASH_WriteEepromByte, Step, vars, tcpc, nvm, knob, power, StoredInv, Decoded,
       Modes, OpFits, HvSteps, SetSteps, Restarts, TypeOK
<1>27. CASE TcpciSwitchInit
    BY <1>27 DEF TcpciSwitchInit, Step, vars, tcpc, nvm, knob, power, StoredInv, Decoded, Modes,
       OpFits, HvSteps, SetSteps, Restarts, TypeOK
<1>28. CASE SwitchInit
    BY <1>28 DEF SwitchInit, Step, vars, tcpc, nvm, knob, power, StoredInv, Decoded, Modes, OpFits,
       HvSteps, SetSteps, Restarts, TypeOK
<1>29. CASE Restart
    BY <1>29 DEF Restart, Fresh, vars, tcpc, nvm, knob, power, StoredInv, Decoded, Modes, OpFits,
       HvSteps, SetSteps, Restarts, TypeOK
<1>30. CASE Watchdog
    BY <1>30 DEF Watchdog, Fresh, vars, tcpc, nvm, knob, power, StoredInv, Decoded, Modes, OpFits,
       HvSteps, SetSteps, Restarts, TypeOK
<1>31. CASE PowerLoss
    BY <1>31 DEF PowerLoss, Fresh, Defaults, vars, tcpc, nvm, knob, power, StoredInv, Decoded,
       Modes, OpFits, HvSteps, SetSteps, Restarts, TypeOK
<1>32. CASE UNCHANGED vars
    BY <1>32 DEF vars, tcpc, nvm, knob, power, StoredInv, Decoded, Modes, OpFits, HvSteps, SetSteps,
       Restarts
<1> QED
    BY <1>1, <1>2, <1>3, <1>4, <1>5, <1>6, <1>7, <1>8, <1>9, <1>10, <1>11, <1>12, <1>13, <1>14,
       <1>15, <1>16a, <1>16b, <1>17a, <1>17b, <1>17c, <1>18, <1>19, <1>20, <1>21, <1>22, <1>23, <1>24, <1>25, <1>26, <1>27,
       <1>28, <1>29, <1>30, <1>31, <1>32 DEF Next, Main, SetVbus, SetVbusHv

\* The setup is kept.
LEMMA SetupStep ==
    ASSUME TypeOK, OpFits, TypeInv, SetupInv, [Next]_vars
    PROVE  SetupInv'
<1>1. CASE VoltageAlarm
    BY <1>1 DEF VoltageAlarm, vars, tcpc, nvm, knob, power, SetupInv, TypeOK, Registers, Known,
       Sourced, OpFits, HvSteps, SetSteps, Restarts
<1>2. CASE TypeAFault
    BY <1>2 DEF TypeAFault, vars, tcpc, nvm, knob, power, SetupInv, TypeOK, Registers, Known,
       Sourced, OpFits, HvSteps, SetSteps, Restarts
<1>3. CASE LoseRegisters
    BY <1>3 DEF LoseRegisters, Defaults, vars, tcpc, nvm, knob, power, SetupInv, TypeOK, Registers,
       Known, Sourced, OpFits, HvSteps, SetSteps, Restarts
<1>4. CASE MoveSwitch
    BY <1>4 DEF MoveSwitch, vars, tcpc, nvm, knob, power, SetupInv, TypeOK, Registers, Known,
       Sourced, OpFits, HvSteps, SetSteps, Restarts
<1>5. CASE EepromDone
    BY <1>5 DEF EepromDone, vars, tcpc, nvm, knob, power, SetupInv, TypeOK, Registers, Known,
       Sourced, OpFits, HvSteps, SetSteps, Restarts
<1>6. CASE AlarmInterrupt
    BY <1>6 DEF AlarmInterrupt, Interruptible, LowAlarm, Report, vars, tcpc, nvm, knob, power,
       SetupInv, TypeOK, Registers, Known, Sourced, OpFits, HvSteps, SetSteps, Restarts
<1>7. CASE ResetInterrupt
    BY <1>7 DEF ResetInterrupt, Interruptible, vars, tcpc, nvm, knob, power, SetupInv, TypeOK,
       Registers, Known, Sourced, OpFits, HvSteps, SetSteps, Restarts
<1>8. CASE \E kind \in {"on", "off"} : BeginSetVbus(kind)
    BY <1>8 DEF BeginSetVbus, Step, vars, tcpc, nvm, knob, power, SetupInv, TypeOK, Registers,
       Known, Sourced, OpFits, HvSteps, SetSteps, Restarts
<1>9. CASE MaskAlerts
    BY <1>9 DEF MaskAlerts, Step, Report, WriteCounted, vars, tcpc, nvm, knob, power, SetupInv,
       TypeOK, Registers, Known, Sourced, OpFits, HvSteps, SetSteps, Restarts
<1>10. CASE StepDown
    BY <1>10 DEF StepDown, Step, DeepDip, vars, tcpc, nvm, knob, power, SetupInv, TypeOK, Registers,
       Known, Sourced, OpFits, HvSteps, SetSteps, Restarts
<1>11. CASE SetupDefault
    BY <1>11 DEF SetupDefault, Step, GeneralSetup, vars, tcpc, nvm, knob, power, SetupInv, TypeOK,
       Registers, Known, Sourced, OpFits, HvSteps, SetSteps, Restarts
<1>12. CASE SwitchVbus
    BY <1>12 DEF SwitchVbus, Step, vars, tcpc, nvm, knob, power, SetupInv, TypeOK, Registers, Known,
       Sourced, OpFits, HvSteps, SetSteps, Restarts
<1>13. CASE BeginSetVbusHv
    BY <1>13 DEF BeginSetVbusHv, Step, vars, tcpc, nvm, knob, power, SetupInv, TypeOK, Registers,
       Known, Sourced, OpFits, HvSteps, SetSteps, Restarts
<1>14. CASE SameType
    BY <1>14 DEF SameType, Step, vars, tcpc, nvm, knob, power, SetupInv, TypeOK, Registers, Known,
       Sourced, OpFits, HvSteps, SetSteps, Restarts
<1>15. CASE NewType
    BY <1>15 DEF NewType, Step, GeneralSetup, vars, tcpc, nvm, knob, power, SetupInv, TypeOK,
       Registers, Known, Sourced, OpFits, HvSteps, SetSteps, Restarts
<1>16a. CASE EnableMask
    BY <1>16a DEF EnableMask, Step, vars, tcpc, nvm, knob, power, SetupInv, TypeOK,
       Registers, Known, Sourced, OpFits, HvSteps, SetSteps, Restarts
<1>16b. CASE EnableReporting
    BY <1>16b DEF EnableReporting, Step, Report, WriteCounted, vars, tcpc, nvm, knob, power,
       SetupInv, TypeOK, Registers, Known, Sourced, OpFits, HvSteps, SetSteps, Restarts
<1>17a. CASE DisableMask
    BY <1>17a DEF DisableMask, Step, vars, tcpc, nvm, knob, power, SetupInv, TypeOK,
       Registers, Known, Sourced, OpFits, HvSteps, SetSteps, Restarts
<1>17b. CASE DisableReporting
    BY <1>17b DEF DisableReporting, Report, WriteCounted, Stops, vars, tcpc, nvm, knob, power,
       SetupInv, TypeOK, Registers, Known, Sourced, OpFits, HvSteps, SetSteps, Restarts
<1>17c. CASE ClearAlarms
    BY <1>17c DEF ClearAlarms, Step, vars, tcpc, nvm, knob, power, SetupInv, TypeOK,
       Registers, Known, Sourced, OpFits, HvSteps, SetSteps, Restarts
<1>18. CASE SrcVbusHigh
    BY <1>18, DealTypes DEF SrcVbusHigh, Step, vars, tcpc, nvm, knob, power, SetupInv, TypeOK,
       Registers, Known, Changing, Sourced, OpFits, HvSteps, SetSteps, Restarts, TypeInv
<1>19. CASE PollAlarm
    BY <1>19 DEF PollAlarm, LowAlarm, Report, vars, tcpc, nvm, knob, power, SetupInv, TypeOK,
       Registers, Known, Sourced, OpFits, HvSteps, SetSteps, Restarts
<1>20. CASE PollReset
    BY <1>20 DEF PollReset, Step, vars, tcpc, nvm, knob, power, SetupInv, TypeOK, Registers, Known,
       Sourced, OpFits, HvSteps, SetSteps, Restarts
<1>21. CASE EndPoll
    BY <1>21 DEF EndPoll, Step, vars, tcpc, nvm, knob, power, SetupInv, TypeOK, Registers, Known,
       Sourced, OpFits, HvSteps, SetSteps, Restarts
<1>22. CASE TcpmInit
    BY <1>22 DEF TcpmInit, Step, vars, tcpc, nvm, knob, power, SetupInv, TypeOK, Registers, Known,
       Sourced, OpFits, HvSteps, SetSteps, Restarts
<1>23. CASE EndWork
    BY <1>23 DEF EndWork, Step, vars, tcpc, nvm, knob, power, SetupInv, TypeOK, Registers, Known,
       Sourced, OpFits, HvSteps, SetSteps, Restarts
<1>24. CASE SwitchUp
    BY <1>24 DEF SwitchUp, Step, vars, tcpc, nvm, knob, power, SetupInv, TypeOK, Registers, Known,
       Sourced, OpFits, HvSteps, SetSteps, Restarts
<1>25. CASE SwitchDown
    BY <1>25 DEF SwitchDown, Step, Other, vars, tcpc, nvm, knob, power, SetupInv, TypeOK, Registers,
       Known, Sourced, OpFits, HvSteps, SetSteps, Restarts
<1>26. CASE FLASH_WriteEepromByte
    BY <1>26 DEF FLASH_WriteEepromByte, Step, vars, tcpc, nvm, knob, power, SetupInv, TypeOK,
       Registers, Known, Sourced, OpFits, HvSteps, SetSteps, Restarts
<1>27. CASE TcpciSwitchInit
    BY <1>27 DEF TcpciSwitchInit, Step, vars, tcpc, nvm, knob, power, SetupInv, TypeOK, Registers,
       Known, Sourced, OpFits, HvSteps, SetSteps, Restarts
<1>28. CASE SwitchInit
    BY <1>28 DEF SwitchInit, Step, vars, tcpc, nvm, knob, power, SetupInv, TypeOK, Registers, Known,
       Sourced, OpFits, HvSteps, SetSteps, Restarts
<1>29. CASE Restart
    BY <1>29 DEF Restart, Fresh, vars, tcpc, nvm, knob, power, SetupInv, TypeOK, Registers, Known,
       Sourced, OpFits, HvSteps, SetSteps, Restarts
<1>30. CASE Watchdog
    BY <1>30 DEF Watchdog, Fresh, vars, tcpc, nvm, knob, power, SetupInv, TypeOK, Registers, Known,
       Sourced, OpFits, HvSteps, SetSteps, Restarts
<1>31. CASE PowerLoss
    BY <1>31 DEF PowerLoss, Fresh, Defaults, vars, tcpc, nvm, knob, power, SetupInv, TypeOK,
       Registers, Known, Sourced, OpFits, HvSteps, SetSteps, Restarts
<1>32. CASE UNCHANGED vars
    BY <1>32 DEF vars, tcpc, nvm, knob, power, SetupInv, TypeOK, Registers, Known, Sourced, OpFits,
       HvSteps, SetSteps, Restarts
<1> QED
    BY <1>1, <1>2, <1>3, <1>4, <1>5, <1>6, <1>7, <1>8, <1>9, <1>10, <1>11, <1>12, <1>13, <1>14,
       <1>15, <1>16a, <1>16b, <1>17a, <1>17b, <1>17c, <1>18, <1>19, <1>20, <1>21, <1>22, <1>23, <1>24, <1>25, <1>26, <1>27,
       <1>28, <1>29, <1>30, <1>31, <1>32 DEF Next, Main, SetVbus, SetVbusHv

\* CL and last_pdo_type stay together.
LEMMA TypeInvStep ==
    ASSUME TypeOK, OpFits, SetupInv, TypeInv, [Next]_vars
    PROVE  TypeInv'
<1>1. CASE VoltageAlarm
    BY <1>1, DealTypes DEF VoltageAlarm, vars, tcpc, nvm, knob, power, TypeInv, TypeOK, SetupInv,
       Registers, Known, Changing, Sourced, OpFits, HvSteps, SetSteps, Restarts
<1>2. CASE TypeAFault
    BY <1>2, DealTypes DEF TypeAFault, vars, tcpc, nvm, knob, power, TypeInv, TypeOK, SetupInv,
       Registers, Known, Changing, Sourced, OpFits, HvSteps, SetSteps, Restarts
<1>3. CASE LoseRegisters
    BY <1>3, DealTypes DEF LoseRegisters, Defaults, vars, tcpc, nvm, knob, power, TypeInv, TypeOK,
       SetupInv, Registers, Known, Changing, Sourced, OpFits, HvSteps, SetSteps, Restarts
<1>4. CASE MoveSwitch
    BY <1>4, DealTypes DEF MoveSwitch, vars, tcpc, nvm, knob, power, TypeInv, TypeOK, SetupInv,
       Registers, Known, Changing, Sourced, OpFits, HvSteps, SetSteps, Restarts
<1>5. CASE EepromDone
    BY <1>5, DealTypes DEF EepromDone, vars, tcpc, nvm, knob, power, TypeInv, TypeOK, SetupInv,
       Registers, Known, Changing, Sourced, OpFits, HvSteps, SetSteps, Restarts
<1>6. CASE AlarmInterrupt
    BY <1>6, DealTypes DEF AlarmInterrupt, Interruptible, LowAlarm, Report, vars, tcpc, nvm, knob,
       power, TypeInv, TypeOK, SetupInv, Registers, Known, Changing, Sourced, OpFits, HvSteps,
       SetSteps, Restarts
<1>7. CASE ResetInterrupt
    BY <1>7, DealTypes DEF ResetInterrupt, Interruptible, vars, tcpc, nvm, knob, power, TypeInv,
       TypeOK, SetupInv, Registers, Known, Changing, Sourced, OpFits, HvSteps, SetSteps, Restarts
<1>8. CASE \E kind \in {"on", "off"} : BeginSetVbus(kind)
    BY <1>8, DealTypes DEF BeginSetVbus, Step, vars, tcpc, nvm, knob, power, TypeInv, TypeOK,
       SetupInv, Registers, Known, Changing, Sourced, OpFits, HvSteps, SetSteps, Restarts
<1>9. CASE MaskAlerts
    BY <1>9, DealTypes DEF MaskAlerts, Step, Report, WriteCounted, vars, tcpc, nvm, knob, power,
       TypeInv, TypeOK, SetupInv, Registers, Known, Changing, Sourced, OpFits, HvSteps, SetSteps,
       Restarts
<1>10. CASE StepDown
    BY <1>10, DealTypes DEF StepDown, Step, DeepDip, vars, tcpc, nvm, knob, power, TypeInv, TypeOK,
       SetupInv, Registers, Known, Changing, Sourced, OpFits, HvSteps, SetSteps, Restarts
<1>11. CASE SetupDefault
    BY <1>11, DealTypes DEF SetupDefault, Step, GeneralSetup, vars, tcpc, nvm, knob, power, TypeInv,
       TypeOK, SetupInv, Registers, Known, Changing, Sourced, OpFits, HvSteps, SetSteps, Restarts
<1>12. CASE SwitchVbus
    BY <1>12, DealTypes DEF SwitchVbus, Step, vars, tcpc, nvm, knob, power, TypeInv, TypeOK,
       SetupInv, Registers, Known, Changing, Sourced, OpFits, HvSteps, SetSteps, Restarts
<1>13. CASE BeginSetVbusHv
    BY <1>13, DealTypes DEF BeginSetVbusHv, Step, vars, tcpc, nvm, knob, power, TypeInv, TypeOK,
       SetupInv, Registers, Known, Changing, Sourced, OpFits, HvSteps, SetSteps, Restarts
<1>14. CASE SameType
    BY <1>14, DealTypes DEF SameType, Step, vars, tcpc, nvm, knob, power, TypeInv, TypeOK, SetupInv,
       Registers, Known, Changing, Sourced, OpFits, HvSteps, SetSteps, Restarts
<1>15. CASE NewType
    BY <1>15, DealTypes DEF NewType, Step, GeneralSetup, vars, tcpc, nvm, knob, power, TypeInv,
       TypeOK, SetupInv, Registers, Known, Changing, Sourced, OpFits, HvSteps, SetSteps, Restarts
<1>16a. CASE EnableMask
    BY <1>16a, DealTypes DEF EnableMask, Step, vars, tcpc, nvm, knob, power, TypeInv,
       TypeOK, SetupInv, Registers, Known, Changing, Sourced, OpFits, HvSteps, SetSteps, Restarts
<1>16b. CASE EnableReporting
    BY <1>16b, DealTypes DEF EnableReporting, Step, Report, WriteCounted, vars, tcpc, nvm, knob,
       power, TypeInv, TypeOK, SetupInv, Registers, Known, Changing, Sourced, OpFits, HvSteps,
       SetSteps, Restarts
<1>17a. CASE DisableMask
    BY <1>17a, DealTypes DEF DisableMask, Step, vars, tcpc, nvm, knob, power, TypeInv,
       TypeOK, SetupInv, Registers, Known, Changing, Sourced, OpFits, HvSteps, SetSteps, Restarts
<1>17b. CASE DisableReporting
    BY <1>17b, DealTypes DEF DisableReporting, Report, WriteCounted, Stops, vars, tcpc, nvm, knob,
       power, TypeInv, TypeOK, SetupInv, Registers, Known, Changing, Sourced, OpFits, HvSteps,
       SetSteps, Restarts
<1>17c. CASE ClearAlarms
    BY <1>17c, DealTypes DEF ClearAlarms, Step, vars, tcpc, nvm, knob, power, TypeInv,
       TypeOK, SetupInv, Registers, Known, Changing, Sourced, OpFits, HvSteps, SetSteps, Restarts
<1>18. CASE SrcVbusHigh
    BY <1>18, DealTypes DEF SrcVbusHigh, Step, vars, tcpc, nvm, knob, power, TypeInv, TypeOK,
       SetupInv, Registers, Known, Changing, Sourced, OpFits, HvSteps, SetSteps, Restarts
<1>19. CASE PollAlarm
    BY <1>19, DealTypes DEF PollAlarm, LowAlarm, Report, vars, tcpc, nvm, knob, power, TypeInv,
       TypeOK, SetupInv, Registers, Known, Changing, Sourced, OpFits, HvSteps, SetSteps, Restarts
<1>20. CASE PollReset
    BY <1>20, DealTypes DEF PollReset, Step, vars, tcpc, nvm, knob, power, TypeInv, TypeOK,
       SetupInv, Registers, Known, Changing, Sourced, OpFits, HvSteps, SetSteps, Restarts
<1>21. CASE EndPoll
    BY <1>21, DealTypes DEF EndPoll, Step, vars, tcpc, nvm, knob, power, TypeInv, TypeOK, SetupInv,
       Registers, Known, Changing, Sourced, OpFits, HvSteps, SetSteps, Restarts
<1>22. CASE TcpmInit
    BY <1>22, DealTypes DEF TcpmInit, Step, vars, tcpc, nvm, knob, power, TypeInv, TypeOK, SetupInv,
       Registers, Known, Changing, Sourced, OpFits, HvSteps, SetSteps, Restarts
<1>23. CASE EndWork
    BY <1>23, DealTypes DEF EndWork, Step, vars, tcpc, nvm, knob, power, TypeInv, TypeOK, SetupInv,
       Registers, Known, Changing, Sourced, OpFits, HvSteps, SetSteps, Restarts
<1>24. CASE SwitchUp
    BY <1>24, DealTypes DEF SwitchUp, Step, vars, tcpc, nvm, knob, power, TypeInv, TypeOK, SetupInv,
       Registers, Known, Changing, Sourced, OpFits, HvSteps, SetSteps, Restarts
<1>25. CASE SwitchDown
    BY <1>25, DealTypes DEF SwitchDown, Step, Other, vars, tcpc, nvm, knob, power, TypeInv, TypeOK,
       SetupInv, Registers, Known, Changing, Sourced, OpFits, HvSteps, SetSteps, Restarts
<1>26. CASE FLASH_WriteEepromByte
    BY <1>26, DealTypes DEF FLASH_WriteEepromByte, Step, vars, tcpc, nvm, knob, power, TypeInv,
       TypeOK, SetupInv, Registers, Known, Changing, Sourced, OpFits, HvSteps, SetSteps, Restarts
<1>27. CASE TcpciSwitchInit
    BY <1>27, DealTypes DEF TcpciSwitchInit, Step, vars, tcpc, nvm, knob, power, TypeInv, TypeOK,
       SetupInv, Registers, Known, Changing, Sourced, OpFits, HvSteps, SetSteps, Restarts
<1>28. CASE SwitchInit
    BY <1>28, DealTypes DEF SwitchInit, Step, vars, tcpc, nvm, knob, power, TypeInv, TypeOK,
       SetupInv, Registers, Known, Changing, Sourced, OpFits, HvSteps, SetSteps, Restarts
<1>29. CASE Restart
    BY <1>29, DealTypes DEF Restart, Fresh, vars, tcpc, nvm, knob, power, TypeInv, TypeOK, SetupInv,
       Registers, Known, Changing, Sourced, OpFits, HvSteps, SetSteps, Restarts
<1>30. CASE Watchdog
    BY <1>30, DealTypes DEF Watchdog, Fresh, vars, tcpc, nvm, knob, power, TypeInv, TypeOK,
       SetupInv, Registers, Known, Changing, Sourced, OpFits, HvSteps, SetSteps, Restarts
<1>31. CASE PowerLoss
    BY <1>31, DealTypes DEF PowerLoss, Fresh, Defaults, vars, tcpc, nvm, knob, power, TypeInv,
       TypeOK, SetupInv, Registers, Known, Changing, Sourced, OpFits, HvSteps, SetSteps, Restarts
<1>32. CASE UNCHANGED vars
    BY <1>32 DEF vars, tcpc, nvm, knob, power, TypeInv, TypeOK, SetupInv, Registers, Known,
       Changing, Sourced, OpFits, HvSteps, SetSteps, Restarts
<1> QED
    BY <1>1, <1>2, <1>3, <1>4, <1>5, <1>6, <1>7, <1>8, <1>9, <1>10, <1>11, <1>12, <1>13, <1>14,
       <1>15, <1>16a, <1>16b, <1>17a, <1>17b, <1>17c, <1>18, <1>19, <1>20, <1>21, <1>22, <1>23, <1>24, <1>25, <1>26, <1>27,
       <1>28, <1>29, <1>30, <1>31, <1>32 DEF Next, Main, SetVbus, SetVbusHv

\* Voltage and current limit stay those of the contract.
LEMMA TargetStep ==
    ASSUME TypeOK, OpFits, TargetInv, [Next]_vars
    PROVE  TargetInv'
<1>1. CASE VoltageAlarm
    BY <1>1, DealTypes DEF VoltageAlarm, vars, tcpc, nvm, knob, power, TargetInv, TypeOK, Registers,
       Known, Sourced, OpFits, HvSteps, SetSteps, Restarts
<1>2. CASE TypeAFault
    BY <1>2, DealTypes DEF TypeAFault, vars, tcpc, nvm, knob, power, TargetInv, TypeOK, Registers,
       Known, Sourced, OpFits, HvSteps, SetSteps, Restarts
<1>3. CASE LoseRegisters
    BY <1>3, DealTypes DEF LoseRegisters, Defaults, vars, tcpc, nvm, knob, power, TargetInv, TypeOK,
       Registers, Known, Sourced, OpFits, HvSteps, SetSteps, Restarts
<1>4. CASE MoveSwitch
    BY <1>4, DealTypes DEF MoveSwitch, vars, tcpc, nvm, knob, power, TargetInv, TypeOK, Registers,
       Known, Sourced, OpFits, HvSteps, SetSteps, Restarts
<1>5. CASE EepromDone
    BY <1>5, DealTypes DEF EepromDone, vars, tcpc, nvm, knob, power, TargetInv, TypeOK, Registers,
       Known, Sourced, OpFits, HvSteps, SetSteps, Restarts
<1>6. CASE AlarmInterrupt
    BY <1>6, DealTypes DEF AlarmInterrupt, Interruptible, LowAlarm, Report, vars, tcpc, nvm, knob,
       power, TargetInv, TypeOK, Registers, Known, Sourced, OpFits, HvSteps, SetSteps, Restarts
<1>7. CASE ResetInterrupt
    BY <1>7, DealTypes DEF ResetInterrupt, Interruptible, vars, tcpc, nvm, knob, power, TargetInv,
       TypeOK, Registers, Known, Sourced, OpFits, HvSteps, SetSteps, Restarts
<1>8. CASE \E kind \in {"on", "off"} : BeginSetVbus(kind)
    BY <1>8, DealTypes DEF BeginSetVbus, Step, vars, tcpc, nvm, knob, power, TargetInv, TypeOK,
       Registers, Known, Sourced, OpFits, HvSteps, SetSteps, Restarts
<1>9. CASE MaskAlerts
    BY <1>9, DealTypes DEF MaskAlerts, Step, Report, WriteCounted, vars, tcpc, nvm, knob, power,
       TargetInv, TypeOK, Registers, Known, Sourced, OpFits, HvSteps, SetSteps, Restarts
<1>10. CASE StepDown
    BY <1>10, DealTypes DEF StepDown, Step, DeepDip, vars, tcpc, nvm, knob, power, TargetInv,
       TypeOK, Registers, Known, Sourced, OpFits, HvSteps, SetSteps, Restarts
<1>11. CASE SetupDefault
    BY <1>11, DealTypes DEF SetupDefault, Step, GeneralSetup, vars, tcpc, nvm, knob, power,
       TargetInv, TypeOK, Registers, Known, Sourced, OpFits, HvSteps, SetSteps, Restarts
<1>12. CASE SwitchVbus
    BY <1>12, DealTypes DEF SwitchVbus, Step, vars, tcpc, nvm, knob, power, TargetInv, TypeOK,
       Registers, Known, Sourced, OpFits, HvSteps, SetSteps, Restarts
<1>13. CASE BeginSetVbusHv
    BY <1>13, DealTypes DEF BeginSetVbusHv, Step, vars, tcpc, nvm, knob, power, TargetInv, TypeOK,
       Registers, Known, Sourced, OpFits, HvSteps, SetSteps, Restarts
<1>14. CASE SameType
    BY <1>14, DealTypes DEF SameType, Step, vars, tcpc, nvm, knob, power, TargetInv, TypeOK,
       Registers, Known, Sourced, OpFits, HvSteps, SetSteps, Restarts
<1>15. CASE NewType
    BY <1>15, DealTypes DEF NewType, Step, GeneralSetup, vars, tcpc, nvm, knob, power, TargetInv,
       TypeOK, Registers, Known, Sourced, OpFits, HvSteps, SetSteps, Restarts
<1>16a. CASE EnableMask
    BY <1>16a, DealTypes DEF EnableMask, Step, vars, tcpc, nvm, knob, power, TargetInv,
       TypeOK, Registers, Known, Sourced, OpFits, HvSteps, SetSteps, Restarts
<1>16b. CASE EnableReporting
    BY <1>16b, DealTypes DEF EnableReporting, Step, Report, WriteCounted, vars, tcpc, nvm, knob,
       power, TargetInv, TypeOK, Registers, Known, Sourced, OpFits, HvSteps, SetSteps, Restarts
<1>17a. CASE DisableMask
    BY <1>17a, DealTypes DEF DisableMask, Step, vars, tcpc, nvm, knob, power, TargetInv,
       TypeOK, Registers, Known, Sourced, OpFits, HvSteps, SetSteps, Restarts
<1>17b. CASE DisableReporting
    BY <1>17b, DealTypes DEF DisableReporting, Report, WriteCounted, Stops, vars, tcpc, nvm, knob,
       power, TargetInv, TypeOK, Registers, Known, Sourced, OpFits, HvSteps, SetSteps, Restarts
<1>17c. CASE ClearAlarms
    BY <1>17c, DealTypes DEF ClearAlarms, Step, vars, tcpc, nvm, knob, power, TargetInv,
       TypeOK, Registers, Known, Sourced, OpFits, HvSteps, SetSteps, Restarts
<1>18. CASE SrcVbusHigh
    BY <1>18, DealTypes DEF SrcVbusHigh, Step, vars, tcpc, nvm, knob, power, TargetInv, TypeOK,
       Registers, Known, Sourced, OpFits, HvSteps, SetSteps, Restarts
<1>19. CASE PollAlarm
    BY <1>19, DealTypes DEF PollAlarm, LowAlarm, Report, vars, tcpc, nvm, knob, power, TargetInv,
       TypeOK, Registers, Known, Sourced, OpFits, HvSteps, SetSteps, Restarts
<1>20. CASE PollReset
    BY <1>20, DealTypes DEF PollReset, Step, vars, tcpc, nvm, knob, power, TargetInv, TypeOK,
       Registers, Known, Sourced, OpFits, HvSteps, SetSteps, Restarts
<1>21. CASE EndPoll
    BY <1>21, DealTypes DEF EndPoll, Step, vars, tcpc, nvm, knob, power, TargetInv, TypeOK,
       Registers, Known, Sourced, OpFits, HvSteps, SetSteps, Restarts
<1>22. CASE TcpmInit
    BY <1>22, DealTypes DEF TcpmInit, Step, vars, tcpc, nvm, knob, power, TargetInv, TypeOK,
       Registers, Known, Sourced, OpFits, HvSteps, SetSteps, Restarts
<1>23. CASE EndWork
    BY <1>23, DealTypes DEF EndWork, Step, vars, tcpc, nvm, knob, power, TargetInv, TypeOK,
       Registers, Known, Sourced, OpFits, HvSteps, SetSteps, Restarts
<1>24. CASE SwitchUp
    BY <1>24, DealTypes DEF SwitchUp, Step, vars, tcpc, nvm, knob, power, TargetInv, TypeOK,
       Registers, Known, Sourced, OpFits, HvSteps, SetSteps, Restarts
<1>25. CASE SwitchDown
    BY <1>25, DealTypes DEF SwitchDown, Step, Other, vars, tcpc, nvm, knob, power, TargetInv,
       TypeOK, Registers, Known, Sourced, OpFits, HvSteps, SetSteps, Restarts
<1>26. CASE FLASH_WriteEepromByte
    BY <1>26, DealTypes DEF FLASH_WriteEepromByte, Step, vars, tcpc, nvm, knob, power, TargetInv,
       TypeOK, Registers, Known, Sourced, OpFits, HvSteps, SetSteps, Restarts
<1>27. CASE TcpciSwitchInit
    BY <1>27, DealTypes DEF TcpciSwitchInit, Step, vars, tcpc, nvm, knob, power, TargetInv, TypeOK,
       Registers, Known, Sourced, OpFits, HvSteps, SetSteps, Restarts
<1>28. CASE SwitchInit
    BY <1>28, DealTypes DEF SwitchInit, Step, vars, tcpc, nvm, knob, power, TargetInv, TypeOK,
       Registers, Known, Sourced, OpFits, HvSteps, SetSteps, Restarts
<1>29. CASE Restart
    BY <1>29, DealTypes DEF Restart, Fresh, vars, tcpc, nvm, knob, power, TargetInv, TypeOK,
       Registers, Known, Sourced, OpFits, HvSteps, SetSteps, Restarts
<1>30. CASE Watchdog
    BY <1>30, DealTypes DEF Watchdog, Fresh, vars, tcpc, nvm, knob, power, TargetInv, TypeOK,
       Registers, Known, Sourced, OpFits, HvSteps, SetSteps, Restarts
<1>31. CASE PowerLoss
    BY <1>31, DealTypes DEF PowerLoss, Fresh, Defaults, vars, tcpc, nvm, knob, power, TargetInv,
       TypeOK, Registers, Known, Sourced, OpFits, HvSteps, SetSteps, Restarts
<1>32. CASE UNCHANGED vars
    BY <1>32 DEF vars, tcpc, nvm, knob, power, TargetInv, TypeOK, Registers, Known, Sourced, OpFits,
       HvSteps, SetSteps, Restarts
<1> QED
    BY <1>1, <1>2, <1>3, <1>4, <1>5, <1>6, <1>7, <1>8, <1>9, <1>10, <1>11, <1>12, <1>13, <1>14,
       <1>15, <1>16a, <1>16b, <1>17a, <1>17b, <1>17c, <1>18, <1>19, <1>20, <1>21, <1>22, <1>23, <1>24, <1>25, <1>26, <1>27,
       <1>28, <1>29, <1>30, <1>31, <1>32 DEF Next, Main, SetVbus, SetVbusHv

\* The alarms stay with the contract.
LEMMA AlarmStep ==
    ASSUME TypeOK, OpFits, TypeInv, AlarmInv, [Next]_vars
    PROVE  AlarmInv'
<1>1. CASE VoltageAlarm
    BY <1>1, DealTypes DEF VoltageAlarm, vars, tcpc, nvm, knob, power, AlarmInv, TypeOK, TypeInv,
       Registers, Known, Changing, Sourced, OpFits, HvSteps, SetSteps, Restarts
<1>2. CASE TypeAFault
    BY <1>2, DealTypes DEF TypeAFault, vars, tcpc, nvm, knob, power, AlarmInv, TypeOK, TypeInv,
       Registers, Known, Changing, Sourced, OpFits, HvSteps, SetSteps, Restarts
<1>3. CASE LoseRegisters
    BY <1>3, DealTypes DEF LoseRegisters, Defaults, vars, tcpc, nvm, knob, power, AlarmInv, TypeOK,
       TypeInv, Registers, Known, Changing, Sourced, OpFits, HvSteps, SetSteps, Restarts
<1>4. CASE MoveSwitch
    BY <1>4, DealTypes DEF MoveSwitch, vars, tcpc, nvm, knob, power, AlarmInv, TypeOK, TypeInv,
       Registers, Known, Changing, Sourced, OpFits, HvSteps, SetSteps, Restarts
<1>5. CASE EepromDone
    BY <1>5, DealTypes DEF EepromDone, vars, tcpc, nvm, knob, power, AlarmInv, TypeOK, TypeInv,
       Registers, Known, Changing, Sourced, OpFits, HvSteps, SetSteps, Restarts
<1>6. CASE AlarmInterrupt
    BY <1>6, DealTypes, SetupAssumption DEF AlarmInterrupt, Interruptible, LowAlarm, Report, vars,
       tcpc, nvm, knob, power, AlarmInv, TypeOK, TypeInv, Registers, Known, Changing, Sourced,
       OpFits, HvSteps, SetSteps, Restarts
<1>7. CASE ResetInterrupt
    BY <1>7, DealTypes DEF ResetInterrupt, Interruptible, vars, tcpc, nvm, knob, power, AlarmInv,
       TypeOK, TypeInv, Registers, Known, Changing, Sourced, OpFits, HvSteps, SetSteps, Restarts
<1>8. CASE \E kind \in {"on", "off"} : BeginSetVbus(kind)
    BY <1>8, DealTypes DEF BeginSetVbus, Step, vars, tcpc, nvm, knob, power, AlarmInv, TypeOK,
       TypeInv, Registers, Known, Changing, Sourced, OpFits, HvSteps, SetSteps, Restarts
<1>9. CASE MaskAlerts
    BY <1>9, DealTypes, SetupAssumption DEF MaskAlerts, Step, Report, WriteCounted, vars, tcpc, nvm,
       knob, power, AlarmInv, TypeOK, TypeInv, Registers, Known, Changing, Sourced, OpFits, HvSteps,
       SetSteps, Restarts
<1>10. CASE StepDown
    BY <1>10, DealTypes DEF StepDown, Step, DeepDip, vars, tcpc, nvm, knob, power, AlarmInv, TypeOK,
       TypeInv, Registers, Known, Changing, Sourced, OpFits, HvSteps, SetSteps, Restarts
<1>11. CASE SetupDefault
  <2>1. reg'.mask = reg.mask /\ reg'.reporting = reg.reporting
    BY <1>11 DEF SetupDefault, GeneralSetup, TypeOK, Registers
  <2>2. last = "APDO" => stale'
    BY <1>11 DEF SetupDefault
  <2>3. UNCHANGED <<lost, last, saved, deal, refused, op>> /\ pc = "drive" /\ pc' = "switch_vbus" /\ op = "on"
    BY <1>11 DEF SetupDefault, Step
  <2>4. deal = NoDeal
    BY <2>3 DEF OpFits, SetSteps
  <2> QED
    BY <2>1, <2>2, <2>3, <2>4 DEF AlarmInv, Known, Changing, Restarts
<1>12. CASE SwitchVbus
    BY <1>12, DealTypes DEF SwitchVbus, Step, vars, tcpc, nvm, knob, power, AlarmInv, TypeOK,
       TypeInv, Registers, Known, Changing, Sourced, OpFits, HvSteps, SetSteps, Restarts
<1>13. CASE BeginSetVbusHv
    BY <1>13, DealTypes DEF BeginSetVbusHv, Step, vars, tcpc, nvm, knob, power, AlarmInv, TypeOK,
       TypeInv, Registers, Known, Changing, Sourced, OpFits, HvSteps, SetSteps, Restarts
<1>14. CASE SameType
    BY <1>14, DealTypes DEF SameType, Step, vars, tcpc, nvm, knob, power, AlarmInv, TypeOK, TypeInv,
       Registers, Known, Changing, Sourced, OpFits, HvSteps, SetSteps, Restarts
<1>15. CASE NewType
    BY <1>15, DealTypes DEF NewType, Step, GeneralSetup, vars, tcpc, nvm, knob, power, AlarmInv,
       TypeOK, TypeInv, Registers, Known, Changing, Sourced, OpFits, HvSteps, SetSteps, Restarts
<1>16a. CASE EnableMask
    BY <1>16a, DealTypes DEF EnableMask, Step, vars, tcpc, nvm, knob, power, AlarmInv,
       TypeOK, TypeInv, Registers, Known, Changing, Sourced, OpFits, HvSteps, SetSteps, Restarts
<1>16b. CASE EnableReporting
    BY <1>16b, DealTypes, SetupAssumption DEF EnableReporting, Step, Report, WriteCounted, vars,
       tcpc, nvm, knob, power, AlarmInv, TypeOK, TypeInv, Registers, Known, Changing, Sourced,
       OpFits, HvSteps, SetSteps, Restarts
<1>17a. CASE DisableMask
    BY <1>17a, DealTypes, SetupAssumption DEF DisableMask, Step, vars, tcpc, nvm, knob, power,
       AlarmInv, TypeOK, TypeInv, Registers, Known, Changing, Sourced, OpFits, HvSteps, SetSteps,
       Restarts
<1>17b. CASE DisableReporting
    BY <1>17b, DealTypes, SetupAssumption DEF DisableReporting, Report, WriteCounted, Stops, vars,
       tcpc, nvm, knob, power, AlarmInv, TypeOK, TypeInv, Registers, Known, Changing, Sourced,
       OpFits, HvSteps, SetSteps, Restarts
<1>17c. CASE ClearAlarms
    BY <1>17c, DealTypes, SetupAssumption DEF ClearAlarms, Step, vars, tcpc, nvm, knob, power,
       AlarmInv, TypeOK, TypeInv, Registers, Known, Changing, Sourced, OpFits, HvSteps, SetSteps,
       Restarts
<1>18. CASE SrcVbusHigh
    BY <1>18, DealTypes DEF SrcVbusHigh, Step, vars, tcpc, nvm, knob, power, AlarmInv, TypeOK,
       TypeInv, Registers, Known, Changing, Sourced, OpFits, HvSteps, SetSteps, Restarts
<1>19. CASE PollAlarm
    BY <1>19, DealTypes, SetupAssumption DEF PollAlarm, LowAlarm, Report, vars, tcpc, nvm, knob,
       power, AlarmInv, TypeOK, TypeInv, Registers, Known, Changing, Sourced, OpFits, HvSteps,
       SetSteps, Restarts
<1>20. CASE PollReset
    BY <1>20, DealTypes DEF PollReset, Step, vars, tcpc, nvm, knob, power, AlarmInv, TypeOK,
       TypeInv, Registers, Known, Changing, Sourced, OpFits, HvSteps, SetSteps, Restarts
<1>21. CASE EndPoll
    BY <1>21, DealTypes DEF EndPoll, Step, vars, tcpc, nvm, knob, power, AlarmInv, TypeOK, TypeInv,
       Registers, Known, Changing, Sourced, OpFits, HvSteps, SetSteps, Restarts
<1>22. CASE TcpmInit
    BY <1>22, DealTypes DEF TcpmInit, Step, vars, tcpc, nvm, knob, power, AlarmInv, TypeOK, TypeInv,
       Registers, Known, Changing, Sourced, OpFits, HvSteps, SetSteps, Restarts
<1>23. CASE EndWork
    BY <1>23, DealTypes DEF EndWork, Step, vars, tcpc, nvm, knob, power, AlarmInv, TypeOK, TypeInv,
       Registers, Known, Changing, Sourced, OpFits, HvSteps, SetSteps, Restarts
<1>24. CASE SwitchUp
    BY <1>24, DealTypes DEF SwitchUp, Step, vars, tcpc, nvm, knob, power, AlarmInv, TypeOK, TypeInv,
       Registers, Known, Changing, Sourced, OpFits, HvSteps, SetSteps, Restarts
<1>25. CASE SwitchDown
    BY <1>25, DealTypes DEF SwitchDown, Step, Other, vars, tcpc, nvm, knob, power, AlarmInv, TypeOK,
       TypeInv, Registers, Known, Changing, Sourced, OpFits, HvSteps, SetSteps, Restarts
<1>26. CASE FLASH_WriteEepromByte
    BY <1>26, DealTypes DEF FLASH_WriteEepromByte, Step, vars, tcpc, nvm, knob, power, AlarmInv,
       TypeOK, TypeInv, Registers, Known, Changing, Sourced, OpFits, HvSteps, SetSteps, Restarts
<1>27. CASE TcpciSwitchInit
    BY <1>27, DealTypes DEF TcpciSwitchInit, Step, vars, tcpc, nvm, knob, power, AlarmInv, TypeOK,
       TypeInv, Registers, Known, Changing, Sourced, OpFits, HvSteps, SetSteps, Restarts
<1>28. CASE SwitchInit
    BY <1>28, DealTypes DEF SwitchInit, Step, vars, tcpc, nvm, knob, power, AlarmInv, TypeOK,
       TypeInv, Registers, Known, Changing, Sourced, OpFits, HvSteps, SetSteps, Restarts
<1>29. CASE Restart
    BY <1>29, DealTypes DEF Restart, Fresh, vars, tcpc, nvm, knob, power, AlarmInv, TypeOK, TypeInv,
       Registers, Known, Changing, Sourced, OpFits, HvSteps, SetSteps, Restarts
<1>30. CASE Watchdog
    BY <1>30, DealTypes DEF Watchdog, Fresh, vars, tcpc, nvm, knob, power, AlarmInv, TypeOK,
       TypeInv, Registers, Known, Changing, Sourced, OpFits, HvSteps, SetSteps, Restarts
<1>31. CASE PowerLoss
    BY <1>31, DealTypes DEF PowerLoss, Fresh, Defaults, vars, tcpc, nvm, knob, power, AlarmInv,
       TypeOK, TypeInv, Registers, Known, Changing, Sourced, OpFits, HvSteps, SetSteps, Restarts
<1>32. CASE UNCHANGED vars
    BY <1>32 DEF vars, tcpc, nvm, knob, power, AlarmInv, TypeOK, TypeInv, Registers, Known,
       Changing, Sourced, OpFits, HvSteps, SetSteps, Restarts
<1> QED
    BY <1>1, <1>2, <1>3, <1>4, <1>5, <1>6, <1>7, <1>8, <1>9, <1>10, <1>11, <1>12, <1>13, <1>14,
       <1>15, <1>16a, <1>16b, <1>17a, <1>17b, <1>17c, <1>18, <1>19, <1>20, <1>21, <1>22, <1>23, <1>24, <1>25, <1>26, <1>27,
       <1>28, <1>29, <1>30, <1>31, <1>32 DEF Next, Main, SetVbus, SetVbusHv

-----------------------------------------------------------------------------
(* The theorems.                                                            *)

LEMMA InitInv == Init => IInv
<1> SUFFICES ASSUME Init PROVE IInv
    OBVIOUS
<1>1. reg \in Registers
    BY DEF Init, Registers, Defaults
<1>2. TypeOK
  <2>1. Flags
    BY DEF Init, Flags
  <2>2. Others
    BY SetupAssumption DEF Init, Others, Modes
  <2> QED
    BY <1>1, <2>1, <2>2 DEF TypeOK, Flags, Others
<1>3. OpFits /\ StoredInv /\ SetupInv
    BY DEF Init, OpFits, StoredInv, SetupInv, Decoded, Sourced, Known, Defaults, HvSteps, SetSteps,
       Restarts
<1>4. TypeInv /\ TargetInv /\ AlarmInv
    BY DEF Init, TypeInv, TargetInv, AlarmInv, Known, Changing, Sourced, Restarts, Defaults
<1> QED
    BY <1>2, <1>3, <1>4 DEF IInv

LEMMA InvStep == IInv /\ [Next]_vars => IInv'
BY OpStep, TypeStep, StoredStep, SetupStep, TypeInvStep, TargetStep, AlarmStep DEF IInv

\* The inductive invariant holds in every state.
THEOREM SetupInvariant == Spec => []IInv
BY InitInv, InvStep, PTL DEF Spec

\* Every variable stays in its type.
THEOREM SetupTypeCorrect == Spec => []TypeOK
<1>1. IInv => TypeOK
    BY DEF IInv
<1> QED
    BY <1>1, SetupInvariant, PTL

\* Between calls the registers are those of the contract.
THEOREM SupplyMatchesDeal == Spec => []SupplyMatches
<1>1. IInv => SupplyMatches
    BY DealTypes DEF IInv, TypeOK, Registers, OpFits, TypeInv, TargetInv, AlarmInv, SupplyMatches,
       AtRest, Known, Changing, Sourced,
       HvSteps, SetSteps, Restarts
<1> QED
    BY <1>1, SetupInvariant, PTL

\* The low voltage alarm is armed for a programmable contract only.
THEOREM AlarmsFitDeal == Spec => []AlarmsFit
<1>1. IInv => AlarmsFit
    BY DealTypes DEF IInv, TypeOK, Registers, OpFits, TypeInv, AlarmInv, AlarmsFit, NoDeal, AtRest,
       Known, Changing, Sourced, HvSteps, SetSteps, Restarts
<1> QED
    BY <1>1, SetupInvariant, PTL

\* No voltage is sourced in units other than those it was computed in.
THEOREM UnitsAlwaysAgree == Spec => []UnitsAgree
<1>1. IInv => UnitsAgree
    BY DEF IInv, SetupInv, UnitsAgree, Sourced
<1> QED
    BY <1>1, SetupInvariant, PTL

\* A sink is powered in the mode the switch has chosen.
THEOREM ModeAlwaysInForce == Spec => []ModeInForce
<1>1. IInv => ModeInForce
    BY DEF IInv, OpFits, SetupInv, ModeInForce, AtRest, Known, Sourced, HvSteps, SetSteps, Restarts
<1> QED
    BY <1>1, SetupInvariant, PTL

\* The mode survives restarts and power losses.
THEOREM ModeSurvives == Spec => []ModeKept
<1>1. IInv => ModeKept
    BY DEF IInv, StoredInv, ModeKept
<1> QED
    BY <1>1, SetupInvariant, PTL
=============================================================================
