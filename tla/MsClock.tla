------------------------------- MODULE MsClock -------------------------------
(***************************************************************************)
(* The millisecond clock of mx_time.c and rtc.c, and the ways the firmware  *)
(* waits for it: mdelay, a deadline (usleep_range, delayed_runtime and the   *)
(* transmit timeout), and the signed comparison of tcpci_init.              *)
(***************************************************************************)
EXTENDS Naturals, Sequences

CONSTANTS
    Base,     \* values of a byte: the clock has two bytes here
    Slip,     \* most ticks from one call of get_ms_clk to the next
    Delays,   \* delays asked for
    Cap       \* where counting stops

Top == Base * Base

ASSUME ClockAssumption ==
    /\ Base \in Nat /\ Slip \in Nat /\ Slip + 1 < Base
    /\ Delays \subseteq Nat \ {0} /\ Cap \in Nat
    /\ \A d \in Delays : d < Cap /\ 2 * (d + 3 * Slip) < Top

VARIABLES
    jiffies,  \* the counter
    pit,      \* the flag of the periodic interrupt timer
    alert,    \* the handler of another interrupt runs
    job,      \* what the main program waits for
    temp,     \* the bytes get_ms_clk has read so far
    burst,    \* ticks since get_ms_clk was called
    periods,  \* periods of the timer since the wait began
    ticks     \* increments of the counter since the wait began

vars == <<jiffies, pit, alert, job, temp, burst, periods, ticks>>

Kinds   == {"mdelay", "deadline", "signed"}
NoJob   == [kind |-> "none"]
Waiting == job # NoJob

-----------------------------------------------------------------------------
(* The timer and its interrupt.                                             *)

Counted(n) == IF n < Cap THEN n + 1 ELSE Cap

\* The flag is one bit: while another handler runs, all ticks but one are lost.
Period ==
    /\ pit => alert
    /\ pit' = TRUE
    /\ periods' = IF Waiting THEN Counted(periods) ELSE 0
    /\ UNCHANGED <<jiffies, alert, job, temp, burst, ticks>>

increment_ms_clk ==
    /\ pit /\ ~alert /\ burst < Slip
    /\ pit' = FALSE /\ jiffies' = (jiffies + 1) % Top /\ burst' = burst + 1
    /\ ticks' = IF Waiting THEN Counted(ticks) ELSE 0
    /\ UNCHANGED <<alert, job, temp, periods>>

\* Interrupts do not nest.
AlertBegins == ~alert /\ alert' = TRUE /\ UNCHANGED <<jiffies, pit, job, temp, burst, periods, ticks>>
AlertEnds   == alert /\ alert' = FALSE /\ UNCHANGED <<jiffies, pit, job, temp, burst, periods, ticks>>

-----------------------------------------------------------------------------
(* get_ms_clk: two copies, each read byte by byte, until they agree.        *)

ByteOf(n, i) == IF i = 1 THEN n % Base ELSE n \div Base

ReadByte ==
    /\ Waiting /\ ~alert /\ Len(temp) < 4
    /\ temp' = Append(temp, ByteOf(jiffies, 1 + (Len(temp) % 2)))
    /\ UNCHANGED <<jiffies, pit, alert, job, burst, periods, ticks>>

\* As if one copy were enough.
TornUnchecked == FALSE

Torn == <<temp[1], temp[2]>> # <<temp[3], temp[4]>>
Read == temp[1] + Base * temp[2]

ReadAgain ==
    /\ Waiting /\ ~alert /\ Len(temp) = 4 /\ Torn
    /\ temp' = <<>>
    /\ UNCHANGED <<jiffies, pit, alert, job, burst, periods, ticks>>

-----------------------------------------------------------------------------
(* The waits. A wait whose sum overflowed is over at once, unless it looks:  *)
(* mdelay first waits for the clock to overflow too.                         *)

\* As if mdelay did not look for an overflow.
StartedPlain(j, now) ==
    LET sum == (now + j.delay) % Top
    IN  [j EXCEPT !.timeout = sum, !.overflowed = sum < now, !.phase = "wait"]

\* As if the sum were wider than the clock.
StartedWide(j, now) == [j EXCEPT !.timeout = now + j.delay, !.phase = "wait"]

Started(j, now) ==
    LET sum == (now + j.delay) % Top
    IN  [j EXCEPT !.timeout = sum, !.overflowed = sum < now,
                  !.phase = IF j.kind = "mdelay" /\ sum < now THEN "wrap" ELSE "wait"]

\* time_after(now, timeout): the difference as a signed number.
TimeAfter(now, timeout) == now # timeout /\ 2 * ((now - timeout + Top) % Top) < Top

\* As if a deadline were over one tick sooner, or one tick later than it is.
OverSoon(j, now) ==
    IF j.kind = "signed" THEN TimeAfter(now, j.timeout) ELSE now + 1 >= j.timeout
OverExactly(j, now) ==
    IF j.kind = "signed" THEN TimeAfter(now, j.timeout) ELSE now = j.timeout

Over(j, now) ==
    IF j.kind = "signed" THEN TimeAfter(now, j.timeout) ELSE now >= j.timeout

\* As if the wait for the overflow ended only at a clock that is behind.
StepWrapped(j, now) ==
    CASE j.phase = "start" -> Started(j, now)
      [] j.phase = "wrap"  -> IF j.timeout > now THEN [j EXCEPT !.phase = "wait"] ELSE j
      [] j.phase = "wait"  -> IF Over(j, now) THEN NoJob ELSE j

Step(j, now) ==
    CASE j.phase = "start" -> Started(j, now)
      [] j.phase = "wrap"  -> IF j.timeout < now THEN j ELSE [j EXCEPT !.phase = "wait"]
      [] j.phase = "wait"  -> IF Over(j, now) THEN NoJob ELSE j

Check ==
    /\ Waiting /\ ~alert /\ Len(temp) = 4 /\ ~Torn
    /\ job' = Step(job, Read)
    /\ temp' = <<>> /\ burst' = 0
    /\ IF job' = NoJob THEN periods' = 0 /\ ticks' = 0 ELSE UNCHANGED <<periods, ticks>>
    /\ UNCHANGED <<jiffies, pit, alert>>

Begin ==
    /\ ~Waiting /\ ~alert
    /\ \E k \in Kinds, d \in Delays :
          job' = [kind |-> k, delay |-> d, phase |-> "start", timeout |-> 0, overflowed |-> FALSE]
    /\ temp' = <<>> /\ burst' = 0 /\ periods' = 0 /\ ticks' = 0
    /\ UNCHANGED <<jiffies, pit, alert>>

-----------------------------------------------------------------------------
Init ==
    /\ jiffies \in 0 .. Top - 1 /\ pit = FALSE /\ alert = FALSE
    /\ job = NoJob /\ temp = <<>> /\ burst = 0 /\ periods = 0 /\ ticks = 0

Main == ReadByte \/ ReadAgain \/ Check
Next == Period \/ increment_ms_clk \/ AlertBegins \/ AlertEnds \/ Begin \/ Main
Spec == Init /\ [][Next]_vars

\* Between two interrupts the processor executes an instruction of the main
\* program, and the timer's interrupt is served before a later one.
FairSpec == Spec /\ SF_vars(Main) /\ SF_vars(increment_ms_clk)
                 /\ WF_vars(Period) /\ WF_vars(AlertEnds)

-----------------------------------------------------------------------------
(* What the clock promises.                                                 *)

Jobs == [kind : Kinds, delay : Delays, phase : {"start", "wrap", "wait"},
         timeout : 0 .. Top - 1, overflowed : BOOLEAN]

\* Every variable stays in its type.
TypeOK ==
    /\ jiffies \in 0 .. Top - 1 /\ pit \in BOOLEAN /\ alert \in BOOLEAN
    /\ burst \in 0 .. Slip /\ periods \in 0 .. Cap /\ ticks \in 0 .. Cap
    /\ temp \in Seq(0 .. Base - 1) /\ Len(temp) <= 4
    /\ job \in Jobs \cup {NoJob}

\* get_ms_clk returns a value the counter had while it ran, never one put
\* together from the bytes of two.
FreshRead ==
    Len(temp) = 4 /\ ~Torn => Read \in {(jiffies - i + Top) % Top : i \in 0 .. burst}

\* mdelay and the wait of tcpci_init never end early, across an overflow of the
\* clock too, however many ticks are lost.
Promise == INSTANCE Delay WITH
    delay   <- IF Waiting /\ job.kind # "deadline" THEN job.delay ELSE 0,
    periods <- IF Waiting /\ job.kind # "deadline" THEN periods ELSE 0
NeverEarly == Promise!Spec

\* A plain deadline ends early only if its sum overflowed.
DeadlineNotEarly ==
    [][Waiting /\ job.kind = "deadline" /\ job' = NoJob
          => periods >= job.delay - 1 \/ job.overflowed]_vars

\* The values a wait looks for are so few that the clock may pass them between
\* two looks: the last before an overflow, or, for mdelay, the first after it.
Misses ==
    /\ Waiting /\ job.phase # "start" /\ job.kind # "signed"
    /\ IF job.overflowed THEN job.timeout + 1 < 2 * Slip ELSE Top < job.timeout + 2 * Slip

\* A wait ends within a few ticks of its time, unless it looks for values
\* of the clock that the loop can miss: it then goes on until they come round.
NeverLate == Waiting => ticks <= job.delay + 3 * Slip \/ Misses

\* Every wait ends, if the loop cannot miss its time.
WaitEnds == Waiting ~> ~Waiting \/ Misses
=============================================================================
