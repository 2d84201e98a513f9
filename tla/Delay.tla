-------------------------------- MODULE Delay --------------------------------
(***************************************************************************)
(* What a delay promises its caller, whatever the clock it is measured with:*)
(* it does not end before its time. MsClock implements this module.         *)
(***************************************************************************)
EXTENDS Naturals

CONSTANTS
    Delays,   \* delays asked for, in periods of the timer, none of them 0
    Cap       \* where counting stops, above every delay

VARIABLES
    delay,    \* the delay that is waited for, 0 if none
    periods   \* periods of the timer since it was asked for

vars == <<delay, periods>>

Counted(n) == IF n < Cap THEN n + 1 ELSE Cap

Init == delay = 0 /\ periods = 0

Begin  == delay = 0 /\ delay' \in Delays /\ periods' = 0
Period == delay # 0 /\ periods' = Counted(periods) /\ UNCHANGED delay

\* The first period may have been almost over when the delay was asked for, and
\* its tick still due.
End == delay # 0 /\ periods >= delay - 1 /\ delay' = 0 /\ periods' = 0

Next == Begin \/ Period \/ End
Spec == Init /\ [][Next]_vars
=============================================================================
