---------------------------- MODULE PowerSource -----------------------------
(***************************************************************************)
(* What the port manager promises as a source of power, whatever states it *)
(* runs through: how VBUS, the voltage granted, the attachment and the      *)
(* contract may move in one step. VBUS comes up at 5 V, leaves 5 V only for *)
(* a voltage granted to what is attached, and no grant outlives it.         *)
(* Tcpm, the policy engine, implements this module.                        *)
(***************************************************************************)
EXTENDS Naturals

CONSTANTS
    VSafe5V,     \* what VBUS comes up at, mV
    Advertised   \* the voltages the source may grant, mV

VARIABLES
    volts,       \* VBUS the port controller sources, mV; 0 is off
    granted,     \* the voltage granted last, 0 if none since the attachment
    attached,    \* something is attached
    contract     \* an explicit contract stands

vars == <<volts, granted, attached, contract>>

Low == volts \in {0, VSafe5V}

-----------------------------------------------------------------------------
\* tcpm_init resets the supply, the grant and the attachment, not the contract.
Init == volts = 0 /\ granted = 0 /\ ~attached /\ contract \in BOOLEAN

\* A sink is given 5 V, an accessory what VBUS has; nobody inherits a grant.
Attach ==
    /\ ~attached /\ attached' /\ granted = 0
    /\ Low /\ volts' \in {volts, VSafe5V}
    /\ UNCHANGED <<granted, contract>>

\* VBUS is there: the contract, if any, is a thing of the past.
StartOver ==
    volts = VSafe5V /\ attached' /\ ~contract' /\ UNCHANGED <<volts, granted>>

Grant ==
    attached /\ volts # 0 /\ granted' \in Advertised /\ UNCHANGED <<volts, attached, contract>>

\* The supply moves, and the contract stands.
Transition ==
    /\ attached /\ volts # 0 /\ granted \in Advertised
    /\ volts' = granted /\ contract'
    /\ UNCHANGED <<granted, attached>>

\* The two halves of a hard reset, which keeps the attachment and the grant.
SwitchOff == volts' = 0 /\ UNCHANGED <<granted, attached, contract>>
SwitchOn  == volts = 0 /\ volts' = VSafe5V /\ UNCHANGED <<granted, attached, contract>>

\* Unplugged, disabled, in error recovery or restarted.
Release == volts' = 0 /\ granted' = 0 /\ ~attached' /\ UNCHANGED contract

Next ==
    \/ Attach \/ StartOver \/ Grant \/ Transition \/ SwitchOff \/ SwitchOn \/ Release

Spec == Init /\ [][Next]_vars
=============================================================================
