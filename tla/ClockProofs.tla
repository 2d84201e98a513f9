----------------------------- MODULE ClockProofs -----------------------------
(***************************************************************************)
(* What the millisecond clock promises, proved: get_ms_clk never returns a  *)
(* torn value, no wait is cut short, and MsClock implements Delay. The size *)
(* of a byte, the delays and the ticks that come in between are arbitrary.   *)
(***************************************************************************)
EXTENDS MsClock, Integers, TLAPS

-----------------------------------------------------------------------------
(* The inductive invariant, in parts.                                       *)

Low(n)     == n % Base
High(n)    == n \div Base
Back(n, k) == IF k <= n THEN n - k ELSE n - k + Top
Wrapped(n) == IF n < Top THEN n ELSE n - Top

\* The bytes read so far are those of the clock a, b, c and d ticks ago.
Copied(bytes, now, a, b, c, d) ==
    /\ a >= b /\ b >= c /\ c >= d
    /\ Len(bytes) >= 1 => bytes[1] = Low(Back(now, a))
    /\ Len(bytes) >= 2 => bytes[2] = High(Back(now, b))
    /\ Len(bytes) >= 3 => bytes[3] = Low(Back(now, c))
    /\ Len(bytes) >= 4 => bytes[4] = High(Back(now, d))

\* They were read one after the other, in this call of get_ms_clk.
ReadInv == \E a, b, c, d \in 0 .. burst : Copied(temp, jiffies, a, b, c, d)

\* Each tick had its period, except for one that was due when the wait began.
Due       == IF pit THEN 1 ELSE 0
PeriodInv ==
    /\ ticks + Due <= periods + 1 \/ periods = Cap
    /\ ~Waiting => ticks = 0 /\ periods = 0

\* The wait j read the clock a ticks ago, and the overflow it waited for lies before
\* the b ticks of the call of get_ms_clk under way.
Since(j, now, b, a) ==
    LET start == Back(now, a)
        sum   == start + j.delay
    IN  /\ j.timeout = Wrapped(sum)
        /\ j.overflowed <=> sum >= Top
        /\ j.phase = "wrap" => j.kind = "mdelay" /\ sum >= Top
        /\ j.phase = "wait" /\ j.kind = "mdelay" /\ sum >= Top => start + (a - b) >= Top

\* Until it has lasted long enough, a wait knows when it began.
WaitInv ==
    Waiting /\ ticks < job.delay =>
        /\ burst <= ticks
        /\ job.phase # "start" => \E a \in burst .. ticks : Since(job, jiffies, burst, a)

\* At the last look at the clock the wait was not over yet: if it looks for an
\* overflow there was none, otherwise its time had not come, or only just.
OnTime(j, now, b, a) ==
    /\ j.phase = "wrap" => Back(now, a) + (a - b) < Top + Slip
    /\ j.phase = "wait" => a - b <= j.delay + Slip
    /\ j.phase = "wait" /\ j.kind # "signed" /\ ~j.overflowed => a - b < j.delay + Slip

\* A wait that cannot miss its time looks at the clock in time.
LateInv ==
    /\ Waiting /\ job.phase = "start" => ticks <= burst
    /\ Waiting /\ job.phase # "start" /\ ~Misses =>
          \E a \in burst .. job.delay + Slip + burst :
             Since(job, jiffies, burst, a) /\ OnTime(job, jiffies, burst, a) /\ ticks <= a + Slip

IInv == TypeOK /\ ReadInv /\ PeriodInv /\ WaitInv /\ LateInv

-----------------------------------------------------------------------------
(* Numbers.                                                                 *)

LEMMA Sizes ==
    /\ Base \in Nat /\ Slip \in Nat /\ Top \in Nat /\ Cap \in Nat
    /\ 1 < Base /\ Slip + 1 < Base /\ Base < Top
    /\ \A d \in Delays : d \in Nat /\ 0 < d /\ d < Cap /\ 2 * d < Top
    /\ \A d \in Delays : 2 * (d + 3 * Slip) < Top
<1>1. Base \in Nat /\ Slip \in Nat /\ Slip + 1 < Base /\ Cap \in Nat
  BY ClockAssumption
<1>2. 1 < Base /\ Base * Base \in Nat
  BY <1>1
<1>3. Base < Base * Base
  BY <1>1, <1>2
<1>4. \A d \in Delays : d \in Nat /\ 0 < d /\ d < Cap /\ 2 * (d + 3 * Slip) < Top
  BY ClockAssumption
<1>5. \A d \in Delays : 2 * d < Top
  BY <1>1, <1>2, <1>4 DEF Top
<1> QED
  BY <1>1, <1>2, <1>3, <1>4, <1>5 DEF Top

\* The clock overflows at most once in a sum.
LEMMA ModTop ==
    ASSUME NEW n \in Nat, n < 2 * Top PROVE n % Top = Wrapped(n)
<1> DEFINE T == Top
<1>1. T \in Nat /\ T > 0 /\ n < 2 * T
  BY Sizes
<1> HIDE DEF T
<1>2. CASE n < T
  BY <1>1, <1>2 DEF T, Wrapped
<1>3. CASE n >= T
  <2>1. n % T = n - T
    BY <1>1, <1>3
  <2> QED
    BY <1>1, <1>3, <2>1 DEF T, Wrapped
<1> QED
  BY <1>1, <1>2, <1>3

LEMMA BackRange ==
    ASSUME NEW n \in 0 .. Top - 1, NEW k \in 0 .. Top - 1
    PROVE  /\ Back(n, k) \in 0 .. Top - 1 /\ Back(n, 0) = n
           /\ (n - k + Top) % Top = Back(n, k)
<1> DEFINE s == n - k + Top
<1>0. Top \in Nat
  BY Sizes
<1>1. s \in Nat /\ s < 2 * Top
  BY <1>0
<1> HIDE DEF s
<1>2. s % Top = Wrapped(s)
  BY <1>1, ModTop
<1>3. s % Top = Back(n, k)
  BY <1>0, <1>2 DEF Back, Wrapped, s
<1>4. Back(n, k) \in 0 .. Top - 1 /\ Back(n, 0) = n
  BY <1>0 DEF Back
<1> QED
  BY <1>3, <1>4 DEF s

\* A tick ago is one further back after a tick.
LEMMA BackTick ==
    ASSUME NEW n \in 0 .. Top - 1, NEW k \in 0 .. Top - 2
    PROVE  /\ (n + 1) % Top \in 0 .. Top - 1
           /\ Back((n + 1) % Top, k + 1) = Back(n, k)
<1>1. n + 1 \in Nat /\ n + 1 < 2 * Top /\ Top \in Nat
  BY Sizes
<1>2. (n + 1) % Top = Wrapped(n + 1)
  BY <1>1, ModTop
<1> QED
  BY <1>1, <1>2 DEF Back, Wrapped

LEMMA Bytes ==
    ASSUME NEW n \in 0 .. Top - 1
    PROVE  /\ Low(n) \in 0 .. Base - 1 /\ High(n) \in 0 .. Base - 1
           /\ n = Low(n) + Base * High(n)
<1> DEFINE q == n \div Base
<1>1. n % Base \in 0 .. Base - 1 /\ q \in Nat /\ n = (n % Base) + (Base * q)
  BY Sizes
<1> HIDE DEF q
<1>2. ~(q >= Base)
  <2> SUFFICES ASSUME q >= Base PROVE FALSE
    OBVIOUS
  <2>1. Base * q >= Base * Base
    BY <1>1, Sizes
  <2> QED
    BY <1>1, <2>1, Sizes DEF Top
<1>3. q \in 0 .. Base - 1
  BY <1>1, <1>2, Sizes
<1> QED
  BY <1>1, <1>3 DEF Low, High, q

LEMMA NoMultiple ==
    ASSUME NEW m \in Int, 0 <= Base * m, Base * m < Base PROVE m = 0
BY Sizes

\* The low byte comes round only after Base ticks.
LEMMA LowSame ==
    ASSUME NEW n \in 0 .. Top - 1, NEW a \in 0 .. Slip, NEW c \in 0 .. a,
           Low(Back(n, a)) = Low(Back(n, c))
    PROVE  a = c
<1> DEFINE p == Back(n, a)
           q == Back(n, c)
<1>1. Top \in Nat /\ Base \in Nat /\ Slip \in Nat /\ a \in 0 .. Top - 1 /\ c \in 0 .. Top - 1
      /\ a - c < Base /\ a - c >= 0
  BY Sizes
<1>2. p \in 0 .. Top - 1 /\ q \in 0 .. Top - 1
  BY <1>1, BackRange
<1>3. q = p + (a - c) \/ q = p + (a - c) - Top
  BY <1>1 DEF Back
<1> HIDE DEF p, q
<1> DEFINE l == Low(p)
           g == High(p)
           h == High(q)
<1>4. l \in Int /\ g \in Int /\ h \in Int /\ p = l + Base * g /\ q = l + Base * h
  <2>1. Low(p) \in Int /\ High(p) \in Int /\ p = Low(p) + Base * High(p)
    BY <1>2, Bytes
  <2>2. High(q) \in Int /\ q = Low(q) + Base * High(q)
    BY <1>2, Bytes
  <2>3. Low(p) = Low(q)
    BY DEF p, q
  <2> QED
    BY <2>1, <2>2, <2>3
<1> HIDE DEF l, g, h
<1>5. CASE q = p + (a - c)
  <2> DEFINE m == h - g
  <2>1. m \in Int /\ Base * m = a - c
    BY <1>1, <1>4, <1>5
  <2> HIDE DEF m
  <2>2. m = 0
    BY <1>1, <2>1, NoMultiple
  <2> QED
    BY <1>1, <2>1, <2>2
<1>6. CASE q = p + (a - c) - Top
  <2> DEFINE m == h - g + Base
  <2>1. m \in Int /\ Base * m = a - c
    BY <1>1, <1>4, <1>6 DEF Top
  <2> HIDE DEF m
  <2>2. m = 0
    BY <1>1, <2>1, NoMultiple
  <2> QED
    BY <1>1, <2>1, <2>2
<1> QED
  BY <1>3, <1>5, <1>6

-----------------------------------------------------------------------------
(* get_ms_clk.                                                              *)

\* Two copies that agree were read without a tick in between.
LEMMA WholeRead ==
    ASSUME TypeOK, ReadInv, Len(temp) = 4, ~Torn
    PROVE  \E i \in 0 .. burst : Read = Back(jiffies, i)
<1>1. PICK a \in 0 .. burst, b \in 0 .. burst, c \in 0 .. burst :
         /\ a >= b /\ b >= c
         /\ temp[1] = Low(Back(jiffies, a)) /\ temp[2] = High(Back(jiffies, b))
         /\ temp[3] = Low(Back(jiffies, c))
  BY DEF ReadInv, Copied
<1>2. /\ jiffies \in 0 .. Top - 1 /\ a \in 0 .. Slip /\ c \in 0 .. a /\ b \in Nat
      /\ a \in 0 .. Top - 1
  BY <1>1, Sizes DEF TypeOK
<1>3. Low(Back(jiffies, a)) = Low(Back(jiffies, c))
  BY <1>1 DEF Torn
<1>4. a = c
  BY <1>2, <1>3, LowSame
<1>5. b = a
  BY <1>1, <1>2, <1>4
<1> DEFINE p == Back(jiffies, a)
<1>6. p = Low(p) + Base * High(p)
  BY <1>2, BackRange, Bytes
<1> QED
  BY <1>1, <1>5, <1>6 DEF Read

LEMMA ReadRange ==
    ASSUME TypeOK, ReadInv, Len(temp) = 4, ~Torn PROVE Read \in 0 .. Top - 1
<1>1. PICK i \in 0 .. burst : Read = Back(jiffies, i)
  BY WholeRead
<1>2. jiffies \in 0 .. Top - 1 /\ i \in 0 .. Top - 1
  BY Sizes DEF TypeOK
<1> QED
  BY <1>1, <1>2, BackRange

-----------------------------------------------------------------------------
(* The waits.                                                               *)

LEMMA JobsWait ==
    /\ NoJob \notin Jobs
    /\ TypeOK => (Waiting <=> job \in Jobs)
<1>1. NoJob.kind \notin Kinds
  BY DEF NoJob, Kinds
<1>2. \A j \in Jobs : j.kind \in Kinds
  BY DEF Jobs
<1>3. NoJob \notin Jobs
  BY <1>1, <1>2
<1> QED
  BY <1>3 DEF TypeOK, Waiting

\* What Started computes: a sum that overflowed is the smaller one.
LEMMA StartedFacts ==
    ASSUME NEW j \in Jobs, NEW now \in 0 .. Top - 1
    PROVE  LET s   == Started(j, now)
               sum == now + j.delay
           IN  /\ s \in Jobs /\ s.kind = j.kind /\ s.delay = j.delay
               /\ s.phase = IF j.kind = "mdelay" /\ sum >= Top THEN "wrap" ELSE "wait"
               /\ s.timeout = Wrapped(sum)
               /\ s.overflowed <=> sum >= Top
<1> DEFINE d == j.delay
           t == (now + d) % Top
           o == t < now
<1>1. d \in Nat /\ 0 < d /\ 2 * d < Top /\ Top \in Nat /\ d \in Delays
  BY Sizes DEF Jobs
<1> HIDE DEF d
<1>2. t = Wrapped(now + d)
  <2> DEFINE w == now + d
  <2>1. w \in Nat /\ w < 2 * Top
    BY <1>1
  <2> HIDE DEF w
  <2>2. w % Top = Wrapped(w)
    BY <2>1, ModTop
  <2>3. t = w % Top
    BY DEF w
  <2> HIDE DEF t
  <2> QED
    BY <2>2, <2>3 DEF w
<1> HIDE DEF t
<1>3. t \in 0 .. Top - 1 /\ (o <=> now + d >= Top) /\ o \in BOOLEAN
  BY <1>1, <1>2 DEF Wrapped
<1> HIDE DEF o
<1> DEFINE h == IF j.kind = "mdelay" /\ o THEN "wrap" ELSE "wait"
           s == [j EXCEPT !.timeout = t, !.overflowed = o, !.phase = h]
<1>4. Started(j, now) = s
  BY DEF Started, d, t, o
<1>5. h \in {"wrap", "wait"}
  OBVIOUS
<1>6. h = IF j.kind = "mdelay" /\ now + d >= Top THEN "wrap" ELSE "wait"
  BY <1>3
<1> HIDE DEF h
<1>7. /\ s \in Jobs /\ s.kind = j.kind /\ s.delay = j.delay /\ s.phase = h /\ s.timeout = t
      /\ s.overflowed = o
  BY <1>3, <1>5 DEF Jobs
<1> HIDE DEF s
<1>8. s.overflowed <=> now + d >= Top
  BY <1>3, <1>7
<1>9. s.phase = IF j.kind = "mdelay" /\ now + d >= Top THEN "wrap" ELSE "wait"
  BY <1>6, <1>7
<1>10. s.timeout = Wrapped(now + d)
  BY <1>2, <1>7
<1> QED
  BY <1>4, <1>7, <1>8, <1>9, <1>10, Zenon DEF d

\* The outcomes of a look at the clock.
LEMMA StepCases ==
    ASSUME NEW j \in Jobs, NEW now
    PROVE  \/ j.phase = "start" /\ Step(j, now) = Started(j, now)
           \/ j.phase = "wrap" /\ j.timeout < now /\ Step(j, now) = j
           \/ /\ j.phase = "wrap" /\ ~(j.timeout < now)
              /\ Step(j, now) = [j EXCEPT !.phase = "wait"]
           \/ j.phase = "wait" /\ Over(j, now) /\ Step(j, now) = NoJob
           \/ j.phase = "wait" /\ ~Over(j, now) /\ Step(j, now) = j
BY DEF Step, Jobs

LEMMA WaitPhase ==
    ASSUME NEW j \in Jobs
    PROVE  LET s == [j EXCEPT !.phase = "wait"] IN
           /\ s \in Jobs /\ s.kind = j.kind /\ s.delay = j.delay /\ s.phase = "wait"
           /\ s.timeout = j.timeout /\ s.overflowed = j.overflowed
BY DEF Jobs

LEMMA StepType ==
    ASSUME NEW j \in Jobs, NEW now \in 0 .. Top - 1
    PROVE  /\ Step(j, now) \in Jobs \cup {NoJob}
           /\ Step(j, now) # NoJob =>
                 Step(j, now).kind = j.kind /\ Step(j, now).delay = j.delay
<1>1. CASE Step(j, now) = Started(j, now)
  BY <1>1, StartedFacts
<1>2. CASE Step(j, now) = [j EXCEPT !.phase = "wait"]
  BY <1>2, WaitPhase
<1>3. CASE Step(j, now) \in {j, NoJob}
  BY <1>3
<1> QED
  BY <1>1, <1>2, <1>3, StepCases

\* A tick moves the reading one tick back.
LEMMA SinceTick ==
    ASSUME NEW j \in Jobs, NEW n \in 0 .. Top - 1, NEW b \in Nat, NEW a \in 0 .. Top - 2,
           Since(j, n, b, a)
    PROVE  Since(j, (n + 1) % Top, b + 1, a + 1)
<1>1. Back((n + 1) % Top, a + 1) = Back(n, a)
  BY BackTick
<1>2. a + 1 - (b + 1) = a - b
  BY Sizes
<1> QED
  BY <1>1, <1>2 DEF Since

\* A look at the clock i ticks old leaves the wait with its reading.
LEMMA SinceLook ==
    ASSUME NEW j \in Jobs, NEW n \in 0 .. Top - 1, NEW b \in Nat, NEW i \in 0 .. b,
           NEW a \in b .. j.delay + 2 * Slip, j.phase # "start", Since(j, n, b, a)
    PROVE  LET s == Step(j, Back(n, i)) IN
           /\ s # NoJob => s.phase # "start" /\ Since(s, n, 0, a)
           /\ a < j.delay /\ s = NoJob => j.kind = "deadline" /\ j.overflowed
<1> DEFINE start == Back(n, a)
           now   == Back(n, i)
           d     == j.delay
<1>1. /\ d \in Nat /\ 0 < d /\ 2 * d < Top /\ Top \in Nat
      /\ a \in Nat /\ i \in Nat /\ i <= b /\ b <= a /\ n \in Nat /\ n < Top
      /\ a \in 0 .. Top - 1 /\ i \in 0 .. Top - 1
  BY Sizes DEF Jobs
<1>2. start \in 0 .. Top - 1 /\ now \in 0 .. Top - 1
  BY <1>1, BackRange
<1>3. now = start + (a - i) \/ now = start + (a - i) - Top
  BY <1>1 DEF Back
<1>4. /\ j.timeout = Wrapped(start + d)
      /\ j.overflowed <=> start + d >= Top
      /\ j.phase = "wrap" => j.kind = "mdelay" /\ start + d >= Top
      /\ j.phase = "wait" /\ j.kind = "mdelay" /\ start + d >= Top => start + (a - b) >= Top
  <2>1. j.timeout = Wrapped(start + d)
    BY DEF Since
  <2>2. j.overflowed <=> start + d >= Top
    BY DEF Since
  <2>3. j.phase = "wrap" => j.kind = "mdelay" /\ start + d >= Top
    BY DEF Since
  <2>4. j.phase = "wait" /\ j.kind = "mdelay" /\ start + d >= Top => start + (a - b) >= Top
    BY DEF Since
  <2> QED
    BY <2>1, <2>2, <2>3, <2>4
<1> HIDE DEF start, now, d
<1>5. CASE j.phase = "wrap" /\ j.timeout < now /\ Step(j, now) = j
  <2>1. Since(j, n, 0, a)
    BY <1>1, <1>4, <1>5 DEF Since, start, d
  <2> QED
    BY <1>5, <2>1, JobsWait DEF now
<1>6. CASE /\ j.phase = "wrap" /\ ~(j.timeout < now)
           /\ Step(j, now) = [j EXCEPT !.phase = "wait"]
  <2> DEFINE s == [j EXCEPT !.phase = "wait"]
  <2>1. /\ s \in Jobs /\ s.kind = j.kind /\ s.delay = j.delay /\ s.phase = "wait"
        /\ s.timeout = j.timeout /\ s.overflowed = j.overflowed
    BY WaitPhase
  <2> HIDE DEF s
  <2>2. start + a >= Top
    BY <1>1, <1>2, <1>3, <1>4, <1>6 DEF Wrapped
  <2>3. s.timeout = Wrapped(start + d)
    BY <1>4, <2>1
  <2>4. s.overflowed <=> start + d >= Top
    BY <1>4, <2>1
  <2>5. start + (a - 0) >= Top
    BY <1>1, <2>2, <1>2
  <2>6. Since(s, n, 0, a)
    BY <2>1, <2>3, <2>4, <2>5 DEF Since, start, d
  <2> QED
    BY <1>6, <2>1, <2>6, JobsWait DEF now, s
<1>7. CASE j.phase = "wait" /\ Over(j, now) /\ Step(j, now) = NoJob
  <2> SUFFICES ASSUME a < d PROVE j.kind = "deadline" /\ j.overflowed
    BY <1>7 DEF now, d
  <2>1. CASE j.kind = "signed"
    <3>1. now # j.timeout /\ 2 * ((now - j.timeout + Top) % Top) < Top
      BY <1>7, <2>1 DEF Over, TimeAfter
    <3> DEFINE m == now - j.timeout + Top
               e == d - (a - i)
    <3>2. e \in Nat /\ 0 < e /\ e <= d
      BY <1>1
    <3>3. m = Top - e \/ m = Top + Top - e
      BY <1>1, <1>2, <1>3, <1>4 DEF Wrapped
    <3> HIDE DEF e
    <3>4. m \in Nat /\ m < 2 * Top
      BY <1>1, <3>2, <3>3
    <3> HIDE DEF m
    <3>5. m % Top = Top - e
      BY <1>1, <3>2, <3>3, <3>4, ModTop DEF Wrapped
    <3>6. 2 * (m % Top) < Top
      BY <3>1 DEF m
    <3> QED
      BY <1>1, <3>2, <3>5, <3>6
  <2>2. CASE j.kind # "signed"
    <3>1. now >= j.timeout
      BY <1>7, <2>2 DEF Over
    <3>2. CASE start + d < Top
      BY <1>1, <1>2, <1>3, <1>4, <3>1, <3>2 DEF Wrapped
    <3>3. CASE start + d >= Top /\ j.kind = "mdelay"
      BY <1>1, <1>2, <1>3, <1>4, <1>7, <3>1, <3>3 DEF Wrapped
    <3>4. CASE start + d >= Top /\ j.kind = "deadline"
      BY <1>4, <3>4
    <3>5. j.kind \in Kinds
      BY DEF Jobs
    <3> QED
      BY <1>1, <1>2, <2>2, <3>2, <3>3, <3>4, <3>5 DEF Kinds
  <2> QED
    BY <2>1, <2>2
<1>8. CASE j.phase = "wait" /\ ~Over(j, now) /\ Step(j, now) = j
  <2>1. start + (a - b) >= Top => start + (a - 0) >= Top
    BY <1>1, <1>2
  <2>2. Since(j, n, 0, a)
    BY <1>4, <1>8, <2>1 DEF Since, start, d
  <2> QED
    BY <1>8, <2>2, JobsWait DEF now
<1> QED
  BY <1>5, <1>6, <1>7, <1>8, StepCases

\* The values that Misses names are the only ones that a look can come too late for.
Missed(j) == IF j.overflowed THEN j.timeout + 1 < 2 * Slip ELSE Top < j.timeout + 2 * Slip

LEMMA OnTimeLook ==
    ASSUME NEW j \in Jobs, NEW n \in 0 .. Top - 1, NEW b \in 0 .. Slip, NEW i \in 0 .. b,
           NEW a \in b .. j.delay + Slip + b, j.phase # "start",
           j.kind # "signed" => ~Missed(j),
           Since(j, n, b, a), OnTime(j, n, b, a), Step(j, Back(n, i)) # NoJob
    PROVE  OnTime(Step(j, Back(n, i)), n, 0, a)
<1> DEFINE start == Back(n, a)
           now   == Back(n, i)
           d     == j.delay
           late  == start + d >= Top
<1>1. /\ d \in Nat /\ 0 < d /\ 2 * d < Top /\ Top \in Nat /\ 2 * (d + 3 * Slip) < Top /\ Slip \in Nat
      /\ a \in Nat /\ b \in Nat /\ i \in Nat /\ i <= b /\ b <= a /\ b <= Slip
      /\ n \in Nat /\ n < Top /\ a \in 0 .. Top - 1 /\ i \in 0 .. Top - 1
  BY Sizes DEF Jobs
<1>2. start \in 0 .. Top - 1 /\ now \in 0 .. Top - 1
  BY <1>1, BackRange
<1>3. now = start + (a - i) \/ now = start + (a - i) - Top
  BY <1>1 DEF Back
<1>4. /\ j.timeout = Wrapped(start + d)
      /\ j.overflowed <=> late
      /\ j.phase = "wrap" => j.kind = "mdelay" /\ late
      /\ j.phase = "wait" /\ j.kind = "mdelay" /\ late => start + (a - b) >= Top
  BY DEF Since
<1>5. /\ j.phase = "wrap" => start + (a - b) < Top + Slip
      /\ j.phase = "wait" => a - b <= d + Slip
      /\ j.phase = "wait" /\ j.kind # "signed" /\ ~late => a - b < d + Slip
  BY <1>4 DEF OnTime
<1>6. /\ j.kind # "signed" /\ late => ~(j.timeout + 1 < 2 * Slip)
      /\ j.kind # "signed" /\ ~late => ~(Top < j.timeout + 2 * Slip)
  BY <1>4 DEF Missed
<1>7. /\ late => j.timeout = start + d - Top
      /\ ~late => j.timeout = start + d
  BY <1>1, <1>2, <1>4 DEF Wrapped
<1>8. late <=> start + d >= Top
  OBVIOUS
<1> HIDE DEF start, now, d, late
<1>9. CASE j.phase = "wrap" /\ j.timeout < now /\ Step(j, now) = j
  <2>1. start + (a - 0) < Top + Slip
    BY <1>1, <1>2, <1>3, <1>4, <1>5, <1>6, <1>7, <1>8, <1>9
  <2>2. OnTime(j, n, 0, a)
    BY <1>9, <2>1 DEF OnTime, start
  <2> QED
    BY <1>9, <2>2 DEF now
<1>10. CASE /\ j.phase = "wrap" /\ ~(j.timeout < now)
            /\ Step(j, now) = [j EXCEPT !.phase = "wait"]
  <2> DEFINE s == [j EXCEPT !.phase = "wait"]
  <2>1. /\ s \in Jobs /\ s.kind = j.kind /\ s.delay = j.delay /\ s.phase = "wait"
        /\ s.timeout = j.timeout /\ s.overflowed = j.overflowed
    BY WaitPhase
  <2> HIDE DEF s
  <2>2. a - 0 <= d + Slip
    BY <1>1, <1>2, <1>3, <1>4, <1>7, <1>8, <1>10
  <2>3. s.overflowed
    BY <1>4, <1>10, <2>1
  <2>4. OnTime(s, n, 0, a)
    BY <2>1, <2>2, <2>3 DEF OnTime, d
  <2> QED
    BY <1>10, <2>4 DEF now, s
<1>11. CASE j.phase = "wait" /\ ~Over(j, now) /\ Step(j, now) = j
  <2>1. CASE j.kind = "signed"
    <3>1. a - i <= d
      <4> SUFFICES ASSUME a - i > d PROVE FALSE
        BY <1>1
      <4> DEFINE m == now - j.timeout + Top
                 x == (a - i) - d
      <4>1. x \in Nat /\ 0 < x /\ 2 * x < Top
        BY <1>1, <1>5, <1>11
      <4>2. m = x \/ m = Top + x
        BY <1>1, <1>2, <1>3, <1>7, <1>8
      <4> HIDE DEF x
      <4>3. m \in Nat /\ m < 2 * Top
        BY <1>1, <4>1, <4>2
      <4> HIDE DEF m
      <4>4. m % Top = x
        BY <1>1, <4>1, <4>2, <4>3, ModTop DEF Wrapped
      <4>5. now # j.timeout
        BY <1>1, <1>2, <4>1, <4>2, <1>7 DEF m
      <4>6. TimeAfter(now, j.timeout)
        BY <4>1, <4>4, <4>5 DEF TimeAfter, m
      <4> QED
        BY <1>11, <2>1, <4>6 DEF Over
    <3>2. a - 0 <= d + Slip
      BY <1>1, <3>1
    <3>3. OnTime(j, n, 0, a)
      BY <1>11, <2>1, <3>2 DEF OnTime, d
    <3> QED
      BY <1>11, <3>3 DEF now
  <2>2. CASE j.kind # "signed"
    <3>1. now < j.timeout
      BY <1>1, <1>2, <1>7, <1>11, <2>2 DEF Over
    <3>2. ~late => a - 0 < d + Slip
      BY <1>1, <1>2, <1>3, <1>5, <1>6, <1>7, <1>8, <1>11, <2>2, <3>1
    <3>3. late => a - 0 <= d + Slip
      BY <1>1, <1>2, <1>3, <1>7, <1>8, <3>1
    <3>4. a - 0 <= d + Slip
      BY <1>1, <3>2, <3>3
    <3>5. OnTime(j, n, 0, a)
      BY <1>4, <1>11, <3>2, <3>4 DEF OnTime, d
    <3> QED
      BY <1>11, <3>5 DEF now
  <2> QED
    BY <2>1, <2>2
<1> QED
  BY <1>9, <1>10, <1>11, StepCases DEF now

-----------------------------------------------------------------------------
(* Each part is kept.                                                       *)

LEMMA CountedRange ==
    ASSUME NEW n \in 0 .. Cap
    PROVE  /\ Counted(n) \in 0 .. Cap
           /\ Counted(n) = n + 1 \/ (n = Cap /\ Counted(n) = Cap)
BY Sizes DEF Counted

LEMMA TypesStep == TypeOK /\ ReadInv /\ [Next]_vars => TypeOK'
<1> SUFFICES ASSUME TypeOK, ReadInv, [Next]_vars PROVE TypeOK'
  OBVIOUS
<1>0. 0 \in 0 .. Cap /\ 0 \in 0 .. Slip /\ Slip \in Nat /\ <<>> \in Seq(0 .. Base - 1)
  BY Sizes
<1>1. CASE Period
  BY <1>0, <1>1, CountedRange DEF Period, TypeOK
<1>2. CASE increment_ms_clk
  <2>1. jiffies' \in 0 .. Top - 1
    <3>1. jiffies' = (jiffies + 1) % Top /\ jiffies \in 0 .. Top - 1 /\ 0 \in 0 .. Top - 2
      BY <1>2, Sizes DEF increment_ms_clk, TypeOK
    <3> QED
      BY <3>1, BackTick
  <2>2. burst' \in 0 .. Slip
    BY <1>0, <1>2 DEF increment_ms_clk, TypeOK
  <2>3. ticks' \in 0 .. Cap
    BY <1>0, <1>2, CountedRange DEF increment_ms_clk, TypeOK
  <2> QED
    BY <1>2, <2>1, <2>2, <2>3 DEF increment_ms_clk, TypeOK
<1>3. CASE AlertBegins \/ AlertEnds \/ UNCHANGED vars
  BY <1>3 DEF AlertBegins, AlertEnds, vars, TypeOK
<1>4. CASE Begin
  <2>1. PICK k \in Kinds, d \in Delays :
           job' = [kind |-> k, delay |-> d, phase |-> "start", timeout |-> 0, overflowed |-> FALSE]
    BY <1>4 DEF Begin
  <2>2. job' \in Jobs
    BY <2>1, Sizes DEF Jobs
  <2> QED
    BY <1>0, <1>4, <2>2 DEF Begin, TypeOK
<1>5. CASE ReadByte
  <2>1. \A i \in {1, 2} : ByteOf(jiffies, i) \in 0 .. Base - 1
    BY Bytes DEF ByteOf, Low, High, TypeOK
  <2>2. 1 + (Len(temp) % 2) \in {1, 2}
    BY DEF TypeOK
  <2>3. temp' \in Seq(0 .. Base - 1) /\ Len(temp') <= 4
    BY <1>5, <2>1, <2>2 DEF ReadByte, TypeOK
  <2> QED
    BY <1>5, <2>3 DEF ReadByte, TypeOK
<1>6. CASE ReadAgain
  BY <1>0, <1>6 DEF ReadAgain, TypeOK
<1>7. CASE Check
  <2>1. Waiting /\ Len(temp) = 4 /\ ~Torn /\ job' = Step(job, Read)
    BY <1>7 DEF Check
  <2>2. job' \in Jobs \cup {NoJob}
    BY <2>1, ReadRange, JobsWait, StepType
  <2>3. periods' \in 0 .. Cap /\ ticks' \in 0 .. Cap
    BY <1>0, <1>7 DEF Check, TypeOK
  <2> QED
    BY <1>0, <1>7, <2>2, <2>3 DEF Check, TypeOK
<1> QED
  BY <1>1, <1>2, <1>3, <1>4, <1>5, <1>6, <1>7 DEF Next, Main

LEMMA CopiedTick ==
    ASSUME NEW t \in Seq(Nat), NEW n \in 0 .. Top - 1,
           NEW a \in 0 .. Slip, NEW b \in 0 .. Slip, NEW c \in 0 .. Slip, NEW d \in 0 .. Slip,
           Copied(t, n, a, b, c, d)
    PROVE  Copied(t, (n + 1) % Top, a + 1, b + 1, c + 1, d + 1)
<1>1. \A k \in 0 .. Slip : Back((n + 1) % Top, k + 1) = Back(n, k)
  <2> TAKE k \in 0 .. Slip
  <2>1. k \in 0 .. Top - 2
    BY Sizes
  <2> QED
    BY <2>1, BackTick
<1>2. a + 1 >= b + 1 /\ b + 1 >= c + 1 /\ c + 1 >= d + 1
  BY Sizes DEF Copied
<1> QED
  BY <1>1, <1>2 DEF Copied

\* The byte that is read next is that of the clock now.
LEMMA CopiedByte ==
    ASSUME NEW t \in Seq(Nat), NEW n \in 0 .. Top - 1, Len(t) < 4,
           NEW a \in Nat, NEW b \in Nat, NEW c \in Nat, NEW d \in Nat,
           Copied(t, n, a, b, c, d)
    PROVE  LET u == Append(t, ByteOf(n, 1 + (Len(t) % 2))) IN
           \/ Copied(u, n, 0, 0, 0, 0) \/ Copied(u, n, a, 0, 0, 0)
           \/ Copied(u, n, a, b, 0, 0) \/ Copied(u, n, a, b, c, 0)
<1> DEFINE l == Len(t)
           x == ByteOf(n, 1 + (l % 2))
           u == Append(t, x)
<1>1. Back(n, 0) = n
  BY Sizes DEF Back
<1>2. l \in Nat /\ l < 4
  OBVIOUS
<1>3. /\ l = 0 \/ l = 2 => x = Low(n)
      /\ l = 1 \/ l = 3 => x = High(n)
  <2>1. 0 % 2 = 0 /\ 1 % 2 = 1 /\ 2 % 2 = 0 /\ 3 % 2 = 1
    OBVIOUS
  <2> HIDE DEF l
  <2> QED
    BY <2>1 DEF ByteOf, Low, High
<1>4. /\ Len(u) = l + 1 /\ u[l + 1] = x
      /\ \A i \in 1 .. l : u[i] = t[i]
  <2>1. Low(n) \in Nat /\ High(n) \in Nat
    BY Bytes, Sizes
  <2>2. l \in {0, 1, 2, 3}
    <3> HIDE DEF l
    <3> QED
      BY <1>2
  <2> HIDE DEF x
  <2>3. x \in {Low(n), High(n)}
    <3> HIDE DEF l
    <3> QED
      BY <1>3, <2>2
  <2>4. x \in Nat
    BY <2>1, <2>3
  <2> QED
    BY <2>4
<1>u. u = Append(t, ByteOf(n, 1 + (Len(t) % 2)))
  OBVIOUS
<1>t. Copied(t, n, a, b, c, d) /\ l = Len(t)
  OBVIOUS
<1> HIDE DEF u, x, l
<1>5. l = 0 => Copied(u, n, 0, 0, 0, 0)
  BY <1>t, <1>1, <1>3, <1>4 DEF Copied
<1>6. l = 1 => Copied(u, n, a, 0, 0, 0)
  BY <1>t, <1>1, <1>3, <1>4 DEF Copied
<1>7. l = 2 => Copied(u, n, a, b, 0, 0)
  BY <1>t, <1>1, <1>3, <1>4 DEF Copied
<1>8. l = 3 => Copied(u, n, a, b, c, 0)
  BY <1>t, <1>1, <1>3, <1>4 DEF Copied
<1>9. l \in {0, 1, 2, 3}
  BY <1>2
<1> QED
  BY <1>u, <1>5, <1>6, <1>7, <1>8, <1>9

LEMMA ReadStep == TypeOK /\ ReadInv /\ [Next]_vars => ReadInv'
<1> SUFFICES ASSUME TypeOK, ReadInv, [Next]_vars PROVE ReadInv'
  OBVIOUS
<1>1. CASE UNCHANGED <<jiffies, temp, burst>>
  BY <1>1 DEF ReadInv
<1>2. PICK a \in 0 .. burst, b \in 0 .. burst, c \in 0 .. burst, d \in 0 .. burst :
         Copied(temp, jiffies, a, b, c, d)
  BY DEF ReadInv
<1>3. /\ jiffies \in 0 .. Top - 1 /\ burst \in Nat /\ burst <= Slip /\ Slip \in Nat
      /\ temp \in Seq(0 .. Base - 1)
  BY Sizes DEF TypeOK
<1>4. CASE increment_ms_clk
  <2>1. temp' = temp /\ burst' = burst + 1 /\ jiffies' = (jiffies + 1) % Top
    BY <1>4 DEF increment_ms_clk
  <2>2. temp \in Seq(Nat)
    BY <1>3, Sizes
  <2>3. Copied(temp', jiffies', a + 1, b + 1, c + 1, d + 1)
    BY <1>2, <1>3, <2>1, <2>2, CopiedTick
  <2>4. {a + 1, b + 1, c + 1, d + 1} \subseteq 0 .. burst'
    BY <1>3, <2>1
  <2> QED
    BY <2>3, <2>4 DEF ReadInv
<1>5. CASE ReadByte
  <2>1. /\ temp' = Append(temp, ByteOf(jiffies, 1 + (Len(temp) % 2)))
        /\ Len(temp) < 4 /\ jiffies' = jiffies /\ burst' = burst
    BY <1>5 DEF ReadByte
  <2>2. \/ Copied(temp', jiffies', 0, 0, 0, 0) \/ Copied(temp', jiffies', a, 0, 0, 0)
        \/ Copied(temp', jiffies', a, b, 0, 0) \/ Copied(temp', jiffies', a, b, c, 0)
    <3>1. a \in Nat /\ b \in Nat /\ c \in Nat /\ d \in Nat /\ temp \in Seq(Nat)
      BY <1>3, Sizes
    <3> QED
      BY <1>2, <1>3, <2>1, <3>1, CopiedByte
  <2>3. {0, a, b, c} \subseteq 0 .. burst'
    BY <1>3, <2>1
  <2> QED
    BY <2>2, <2>3 DEF ReadInv
<1>6. CASE ReadAgain \/ Check \/ Begin
  <2>1. temp' = <<>> /\ 0 \in 0 .. burst'
    BY <1>3, <1>6 DEF ReadAgain, Check, Begin
  <2>2. Copied(temp', jiffies', 0, 0, 0, 0)
    BY <2>1 DEF Copied
  <2> QED
    BY <2>1, <2>2 DEF ReadInv
<1>7. CASE Period \/ AlertBegins \/ AlertEnds \/ UNCHANGED vars
  BY <1>1, <1>7 DEF Period, AlertBegins, AlertEnds, vars
<1> QED
  BY <1>4, <1>5, <1>6, <1>7 DEF Next, Main

LEMMA PeriodStep == TypeOK /\ PeriodInv /\ [Next]_vars => PeriodInv'
<1> SUFFICES ASSUME TypeOK, PeriodInv, [Next]_vars PROVE PeriodInv'
  OBVIOUS
<1>1. /\ ticks \in 0 .. Cap /\ periods \in 0 .. Cap /\ Cap \in Nat
      /\ ticks + Due <= periods + 1 \/ periods = Cap
      /\ Due \in {0, 1} /\ Due' \in {0, 1}
      /\ ~Waiting => ticks = 0 /\ periods = 0
  BY Sizes DEF TypeOK, PeriodInv, Due
<1>2. CASE Period
  <2>1. ticks' = ticks /\ Due' = 1 /\ Waiting' = Waiting
    BY <1>2 DEF Period, Due, Waiting
  <2>2. CASE Waiting
    <3>1. periods' = Counted(periods)
      BY <1>2, <2>2 DEF Period
    <3>2. periods' = periods + 1 \/ periods' = Cap
      BY <1>1, <3>1, CountedRange
    <3> QED
      BY <1>1, <2>1, <2>2, <3>2 DEF PeriodInv
  <2>3. CASE ~Waiting
    BY <1>1, <1>2, <2>1, <2>3 DEF Period, PeriodInv
  <2> QED
    BY <2>2, <2>3
<1>3. CASE increment_ms_clk
  <2>1. Due = 1 /\ Due' = 0 /\ periods' = periods /\ Waiting' = Waiting
    BY <1>3 DEF increment_ms_clk, Due, Waiting
  <2>2. /\ ticks' = 0 \/ ticks' = ticks \/ ticks' = ticks + 1
        /\ ~Waiting => ticks' = 0
    BY <1>1, <1>3, CountedRange DEF increment_ms_clk
  <2>3. ticks' + Due' <= periods' + 1 \/ periods' = Cap
    BY <1>1, <2>1, <2>2
  <2>4. ~Waiting' => ticks' = 0 /\ periods' = 0
    BY <1>1, <2>1, <2>2
  <2> QED
    BY <2>3, <2>4 DEF PeriodInv
<1>4. CASE AlertBegins \/ AlertEnds \/ ReadByte \/ ReadAgain \/ UNCHANGED vars
  <2>1. ticks' = ticks /\ periods' = periods /\ Due' = Due /\ Waiting' = Waiting
    BY <1>4 DEF AlertBegins, AlertEnds, ReadByte, ReadAgain, vars, Due, Waiting
  <2> QED
    BY <2>1 DEF PeriodInv
<1>5. CASE Begin
  <2>1. ticks' = 0 /\ periods' = 0
    BY <1>5 DEF Begin
  <2>2. Due' = 0 \/ Due' = 1
    BY DEF Due
  <2>3. ticks' + Due' <= periods' + 1
    BY <2>1, <2>2
  <2> QED
    BY <2>1, <2>3 DEF PeriodInv
<1>6. CASE Check
  <2>1. Due' = Due
    BY <1>6 DEF Check, Due
  <2>2. CASE job' = NoJob
    <3>1. ticks' = 0 /\ periods' = 0
      BY <1>6, <2>2 DEF Check
    <3> QED
      BY <1>1, <2>1, <3>1 DEF PeriodInv
  <2>3. CASE job' # NoJob
    <3>1. ticks' = ticks /\ periods' = periods /\ Waiting'
      BY <1>6, <2>3 DEF Check, Waiting
    <3> QED
      BY <1>1, <2>1, <3>1 DEF PeriodInv
  <2> QED
    BY <2>2, <2>3
<1> QED
  BY <1>2, <1>3, <1>4, <1>5, <1>6 DEF Next, Main

LEMMA WaitStep == IInv /\ [Next]_vars => WaitInv'
<1> SUFFICES ASSUME TypeOK, ReadInv, WaitInv, [Next]_vars,
                    Waiting', ticks' < job'.delay
             PROVE  /\ burst' <= ticks'
                    /\ job'.phase # "start" =>
                          \E a \in burst' .. ticks' : Since(job', jiffies', burst', a)
  BY DEF IInv, WaitInv
<1>1. /\ ticks \in 0 .. Cap /\ burst \in 0 .. Slip /\ jiffies \in 0 .. Top - 1
      /\ Cap \in Nat /\ Slip \in Nat /\ Top \in Nat
      /\ Waiting <=> job \in Jobs
  BY Sizes, JobsWait DEF TypeOK
<1>2. \A j \in Jobs : j.delay \in Nat /\ 0 < j.delay /\ j.delay < Cap /\ 2 * j.delay < Top
  BY Sizes DEF Jobs
<1>3. CASE UNCHANGED <<jiffies, job, burst, ticks>>
  BY <1>3 DEF WaitInv, Waiting
<1>4. CASE increment_ms_clk
  <2>1. /\ job' = job /\ burst' = burst + 1 /\ jiffies' = (jiffies + 1) % Top /\ Waiting
    BY <1>4 DEF increment_ms_clk, Waiting
  <2>2. ticks' = ticks + 1
    BY <1>1, <1>2, <1>4, <2>1, CountedRange DEF increment_ms_clk
  <2>3. ticks < job.delay
    BY <1>1, <1>2, <2>1, <2>2
  <2>4. burst' <= ticks'
    BY <1>1, <2>1, <2>2, <2>3 DEF WaitInv
  <2>5. ASSUME job.phase # "start"
        PROVE  \E a \in burst' .. ticks' : Since(job', jiffies', burst', a)
    <3>1. PICK a \in burst .. ticks : Since(job, jiffies, burst, a)
      BY <2>1, <2>3, <2>5 DEF WaitInv
    <3>2. a \in 0 .. Top - 2 /\ burst \in Nat /\ a + 1 \in burst' .. ticks'
      BY <1>1, <1>2, <2>1, <2>2, <2>3
    <3>3. Since(job', jiffies', burst', a + 1)
      BY <1>1, <2>1, <3>1, <3>2, SinceTick
    <3> QED
      BY <3>2, <3>3
  <2> QED
    BY <2>1, <2>4, <2>5
<1>5. CASE Begin
  <2>1. job'.phase = "start" /\ burst' = 0 /\ ticks' = 0
    BY <1>5 DEF Begin
  <2> QED
    BY <2>1
<1>6. CASE Check
  <2>1. /\ Waiting /\ Len(temp) = 4 /\ ~Torn /\ job' = Step(job, Read) /\ jiffies' = jiffies
        /\ burst' = 0 /\ ticks' = ticks /\ job' # NoJob
    BY <1>6 DEF Check, Waiting
  <2>2. PICK i \in 0 .. burst : Read = Back(jiffies, i)
    BY <2>1, WholeRead
  <2>3. Read \in 0 .. Top - 1 /\ job \in Jobs
    BY <1>1, <2>1, ReadRange
  <2>4. job'.delay = job.delay
    BY <2>1, <2>3, StepType
  <2>5. ticks < job.delay /\ burst <= ticks
    BY <2>1, <2>4 DEF WaitInv
  <2>6. CASE job.phase = "start"
    <3> DEFINE s == Started(job, Read)
    <3>1. job' = s
      BY <2>1, <2>3, <2>6, StepCases
    <3>2. /\ s.timeout = Wrapped(Read + s.delay)
          /\ s.overflowed <=> Read + s.delay >= Top
          /\ s.phase = IF s.kind = "mdelay" /\ Read + s.delay >= Top THEN "wrap" ELSE "wait"
      BY <2>3, StartedFacts
    <3> HIDE DEF s
    <3>3. Since(s, jiffies, 0, i)
      BY <2>2, <3>2 DEF Since
    <3>4. i \in 0 .. ticks
      BY <1>1, <2>2, <2>5
    <3> QED
      BY <1>1, <2>1, <3>1, <3>3, <3>4
  <2>7. CASE job.phase # "start"
    <3>1. PICK a \in burst .. ticks : Since(job, jiffies, burst, a)
      BY <2>1, <2>5, <2>7 DEF WaitInv
    <3>2. a \in burst .. job.delay + 2 * Slip /\ burst \in Nat /\ a \in 0 .. ticks
      BY <1>1, <1>2, <2>3, <2>5
    <3>3. Since(job', jiffies, 0, a)
      BY <1>1, <2>1, <2>2, <2>3, <2>7, <3>1, <3>2, SinceLook
    <3> QED
      BY <1>1, <2>1, <3>2, <3>3
  <2> QED
    BY <2>6, <2>7
<1>7. CASE Period \/ AlertBegins \/ AlertEnds \/ ReadByte \/ ReadAgain \/ UNCHANGED vars
  BY <1>3, <1>7 DEF Period, AlertBegins, AlertEnds, ReadByte, ReadAgain, vars
<1> QED
  BY <1>4, <1>5, <1>6, <1>7 DEF Next, Main

LEMMA LateStep == IInv /\ [Next]_vars => LateInv'
<1> SUFFICES ASSUME TypeOK, ReadInv, LateInv, [Next]_vars, Waiting'
             PROVE  /\ job'.phase = "start" => ticks' <= burst'
                    /\ job'.phase # "start" /\ ~Misses' =>
                          \E a \in burst' .. job'.delay + Slip + burst' :
                             /\ Since(job', jiffies', burst', a) /\ OnTime(job', jiffies', burst', a)
                             /\ ticks' <= a + Slip
  BY DEF IInv, LateInv
<1>1. /\ ticks \in 0 .. Cap /\ burst \in 0 .. Slip /\ jiffies \in 0 .. Top - 1
      /\ Cap \in Nat /\ Slip \in Nat /\ Top \in Nat
      /\ Waiting <=> job \in Jobs
  BY Sizes, JobsWait DEF TypeOK
<1>2. \A j \in Jobs : j.delay \in Nat /\ 0 < j.delay /\ 2 * (j.delay + 3 * Slip) < Top
  BY Sizes DEF Jobs
<1>3. CASE UNCHANGED <<jiffies, job, burst, ticks>>
  BY <1>3 DEF LateInv, Waiting, Misses
<1>4. CASE increment_ms_clk
  <2>1. /\ job' = job /\ burst' = burst + 1 /\ jiffies' = (jiffies + 1) % Top /\ Waiting
        /\ burst < Slip
    BY <1>4 DEF increment_ms_clk, Waiting
  <2>2. ticks' <= ticks + 1 /\ ticks' \in Nat
    BY <1>1, <1>4, <2>1, CountedRange DEF increment_ms_clk
  <2>3. ASSUME job.phase # "start", ~Misses
        PROVE  \E a \in burst' .. job'.delay + Slip + burst' :
                  /\ Since(job', jiffies', burst', a) /\ OnTime(job', jiffies', burst', a)
                  /\ ticks' <= a + Slip
    <3>1. PICK a \in burst .. job.delay + Slip + burst :
             Since(job, jiffies, burst, a) /\ OnTime(job, jiffies, burst, a) /\ ticks <= a + Slip
      BY <2>1, <2>3 DEF LateInv
    <3>2. /\ a \in 0 .. Top - 2 /\ burst \in Nat /\ a + 1 \in burst' .. job'.delay + Slip + burst'
          /\ ticks' <= a + 1 + Slip /\ a + 1 - burst' = a - burst
      BY <1>1, <1>2, <2>1, <2>2, <3>1
    <3>3. Since(job', jiffies', burst', a + 1)
      BY <1>1, <2>1, <3>1, <3>2, SinceTick
    <3>4. Back(jiffies', a + 1) = Back(jiffies, a)
      BY <1>1, <2>1, <3>2, BackTick
    <3>5. OnTime(job', jiffies', burst', a + 1)
      BY <2>1, <3>1, <3>2, <3>4 DEF OnTime
    <3> QED
      BY <3>2, <3>3, <3>5
  <2>4. Misses' = Misses
    BY <2>1 DEF Misses, Waiting
  <2>5. job.phase = "start" => ticks' <= burst'
    BY <1>1, <2>1, <2>2 DEF LateInv
  <2> QED
    BY <2>1, <2>3, <2>4, <2>5
<1>5. CASE Begin
  <2>1. job'.phase = "start" /\ burst' = 0 /\ ticks' = 0
    BY <1>5 DEF Begin
  <2> QED
    BY <2>1
<1>6. CASE Check
  <2>1. /\ Waiting /\ Len(temp) = 4 /\ ~Torn /\ job' = Step(job, Read) /\ jiffies' = jiffies
        /\ burst' = 0 /\ ticks' = ticks /\ job' # NoJob
    BY <1>6 DEF Check, Waiting
  <2>2. PICK i \in 0 .. burst : Read = Back(jiffies, i)
    BY <2>1, WholeRead
  <2>3. Read \in 0 .. Top - 1 /\ job \in Jobs
    BY <1>1, <2>1, ReadRange
  <2>4. job'.delay = job.delay /\ job'.kind = job.kind /\ job.delay \in Nat /\ 0 < job.delay
    BY <1>2, <2>1, <2>3, StepType
  <2>5. CASE job.phase = "start"
    <3> DEFINE s == Started(job, Read)
    <3>1. job' = s
      BY <2>1, <2>3, <2>5, StepCases
    <3>2. /\ s.timeout = Wrapped(Read + s.delay) /\ s.delay = job.delay
          /\ s.overflowed <=> Read + s.delay >= Top
          /\ s.phase = IF s.kind = "mdelay" /\ Read + s.delay >= Top THEN "wrap" ELSE "wait"
      BY <2>3, StartedFacts
    <3> HIDE DEF s
    <3>3. Since(s, jiffies, 0, i)
      BY <2>2, <3>2 DEF Since
    <3>4. /\ i \in 0 .. job.delay + Slip + 0 /\ ticks <= i + Slip
          /\ Read + (i - 0) < Top + Slip /\ i - 0 < job.delay + Slip /\ i - 0 <= job.delay + Slip
      BY <1>1, <2>1, <2>2, <2>3, <2>4, <2>5 DEF LateInv
    <3>5. OnTime(s, jiffies, 0, i)
      BY <2>2, <3>2, <3>4 DEF OnTime
    <3>6. s.phase # "start"
      BY <3>2
    <3> QED
      BY <2>1, <3>1, <3>2, <3>3, <3>4, <3>5, <3>6
  <2>6. CASE job.phase # "start" /\ ~Misses
    <3>1. PICK a \in burst .. job.delay + Slip + burst :
             Since(job, jiffies, burst, a) /\ OnTime(job, jiffies, burst, a) /\ ticks <= a + Slip
      BY <2>1, <2>6 DEF LateInv
    <3>2. a \in burst .. job.delay + 2 * Slip /\ burst \in Nat /\ a \in Nat
      BY <1>1, <2>4
    <3>3. job'.phase # "start" /\ Since(job', jiffies, 0, a)
      BY <1>1, <2>1, <2>2, <2>3, <2>6, <3>1, <3>2, SinceLook
    <3>4. job.kind # "signed" => ~Missed(job)
      BY <2>1, <2>6 DEF Misses, Missed
    <3>5. OnTime(job', jiffies, 0, a)
      BY <1>1, <2>1, <2>2, <2>3, <2>6, <3>1, <3>4, OnTimeLook
    <3>6. a <= job'.delay + Slip
      <4>1. job'.phase = "wrap" => a <= job'.delay + Slip
        <5>1. job'.phase = "wrap" =>
                 Back(jiffies, a) + job'.delay >= Top /\ Back(jiffies, a) + (a - 0) < Top + Slip
          BY <3>3, <3>5 DEF Since, OnTime
        <5>2. Back(jiffies, a) \in Nat
          <6>1. a \in 0 .. Top - 1
            BY <1>1, <1>2, <2>3, <3>2
          <6> QED
            BY <1>1, <6>1, BackRange
        <5> QED
          BY <1>1, <2>4, <3>2, <5>1, <5>2
      <4>2. job'.phase = "wait" => a <= job'.delay + Slip
        BY <3>2, <3>5 DEF OnTime
      <4>3. job' \in Jobs
        BY <2>1, <2>3, StepType
      <4> QED
        BY <3>3, <4>1, <4>2, <4>3 DEF Jobs
    <3>7. a \in burst' .. job'.delay + Slip + burst'
      BY <1>1, <2>1, <2>4, <3>2, <3>6
    <3> QED
      BY <2>1, <3>1, <3>3, <3>5, <3>7
  <2>7. CASE job.phase # "start" /\ Misses
    <3>1. job'.timeout = job.timeout /\ job'.overflowed = job.overflowed /\ job'.phase # "start"
      BY <2>1, <2>3, <2>7, StepCases, WaitPhase
    <3>2. Misses'
      BY <2>4, <2>7, <3>1 DEF Misses
    <3> QED
      BY <3>1, <3>2
  <2> QED
    BY <2>5, <2>6, <2>7
<1>7. CASE Period \/ AlertBegins \/ AlertEnds \/ ReadByte \/ ReadAgain \/ UNCHANGED vars
  BY <1>3, <1>7 DEF Period, AlertBegins, AlertEnds, ReadByte, ReadAgain, vars
<1> QED
  BY <1>4, <1>5, <1>6, <1>7 DEF Next, Main

LEMMA InitInv == Init => IInv
<1> SUFFICES ASSUME Init PROVE IInv
  OBVIOUS
<1>1. TypeOK
  <2>1. 0 \in 0 .. Cap /\ 0 \in 0 .. Slip /\ <<>> \in Seq(0 .. Base - 1) /\ Len(<<>>) <= 4
    BY Sizes
  <2> QED
    BY <2>1 DEF Init, TypeOK
<1>2. ReadInv
  <2>1. Copied(temp, jiffies, 0, 0, 0, 0)
    BY DEF Init, Copied
  <2>2. 0 \in 0 .. burst
    BY DEF Init
  <2> QED
    BY <2>1, <2>2 DEF ReadInv
<1>3. PeriodInv /\ WaitInv /\ LateInv
  BY DEF Init, PeriodInv, WaitInv, LateInv, Waiting, Due
<1> QED
  BY <1>1, <1>2, <1>3 DEF IInv

\* What a wait knows of its time, and what get_ms_clk knows of the bytes it read.
THEOREM ClockInvariant == Spec => []IInv
<1>1. IInv /\ [Next]_vars => IInv'
  BY TypesStep, ReadStep, PeriodStep, WaitStep, LateStep DEF IInv
<1> QED
  BY <1>1, InitInv, PTL DEF Spec

\* Every variable of the clock and of its waits stays in its type.
THEOREM ClockTypeCorrect == Spec => []TypeOK
  BY ClockInvariant, PTL DEF IInv

\* get_ms_clk returns a value the counter had while it ran.
THEOREM ReadsAreFresh == Spec => []FreshRead
<1>1. IInv => FreshRead
  <2> SUFFICES ASSUME TypeOK, ReadInv, Len(temp) = 4, ~Torn
               PROVE  Read \in {(jiffies - i + Top) % Top : i \in 0 .. burst}
    BY DEF IInv, FreshRead
  <2>1. PICK i \in 0 .. burst : Read = Back(jiffies, i)
    BY WholeRead
  <2>2. jiffies \in 0 .. Top - 1 /\ i \in 0 .. Top - 1
    BY Sizes DEF TypeOK
  <2>3. Read = (jiffies - i + Top) % Top
    BY <2>1, <2>2, BackRange
  <2> QED
    BY <2>3
<1> QED
  BY <1>1, ClockInvariant, PTL

\* A wait that does not look for values it can miss ends within a few ticks of its
\* time.
THEOREM WaitsNotLate == Spec => []NeverLate
<1>1. IInv => NeverLate
  <2> SUFFICES ASSUME TypeOK, LateInv, Waiting, ~Misses PROVE ticks <= job.delay + 3 * Slip
    BY DEF IInv, NeverLate
  <2>1. /\ ticks \in Nat /\ burst \in 0 .. Slip /\ Slip \in Nat /\ job \in Jobs
        /\ job.delay \in Nat
    BY Sizes, JobsWait DEF TypeOK, Jobs
  <2>2. CASE job.phase = "start"
    BY <2>1, <2>2 DEF LateInv
  <2>3. CASE job.phase # "start"
    <3>1. PICK a \in burst .. job.delay + Slip + burst : ticks <= a + Slip
      BY <2>3 DEF LateInv
    <3> QED
      BY <2>1, <3>1
  <2> QED
    BY <2>2, <2>3
<1> QED
  BY <1>1, ClockInvariant, PTL

-----------------------------------------------------------------------------
(* How a wait ends.                                                         *)

\* A wait that ends lasted long enough, or was a deadline whose sum overflowed.
LEMMA WaitEnd ==
    ASSUME IInv, Check, job' = NoJob
    PROVE  periods >= job.delay - 1 \/ (job.kind = "deadline" /\ job.overflowed)
<1>1. /\ Waiting /\ Len(temp) = 4 /\ ~Torn /\ Step(job, Read) = NoJob
      /\ TypeOK /\ ReadInv /\ PeriodInv /\ WaitInv
  BY DEF Check, IInv
<1>2. /\ ticks \in 0 .. Cap /\ periods \in 0 .. Cap /\ burst \in 0 .. Slip
      /\ jiffies \in 0 .. Top - 1 /\ Cap \in Nat /\ Slip \in Nat /\ job \in Jobs
  BY <1>1, Sizes, JobsWait DEF TypeOK
<1>3. job.delay \in Nat /\ job.delay < Cap
  BY <1>2, Sizes DEF Jobs
<1>4. CASE ticks >= job.delay
  <2>1. Due \in {0, 1}
    BY DEF Due
  <2> QED
    BY <1>1, <1>2, <1>3, <1>4, <2>1 DEF PeriodInv
<1>5. CASE ticks < job.delay
  <2>1. PICK i \in 0 .. burst : Read = Back(jiffies, i)
    BY <1>1, WholeRead
  <2>2. Read \in 0 .. Top - 1
    BY <1>1, ReadRange
  <2>3. CASE job.phase = "start"
    <3>1. Step(job, Read) \in Jobs
      BY <1>2, <2>2, <2>3, StepCases, StartedFacts
    <3> QED
      BY <1>1, <3>1, JobsWait
  <2>4. CASE job.phase # "start"
    <3>1. PICK a \in burst .. ticks : Since(job, jiffies, burst, a)
      BY <1>1, <1>5, <2>4 DEF WaitInv
    <3>2. a \in burst .. job.delay + 2 * Slip /\ burst \in Nat /\ a < job.delay
      BY <1>2, <1>3, <1>5
    <3> QED
      BY <1>1, <1>2, <2>1, <2>4, <3>1, <3>2, SinceLook
  <2> QED
    BY <2>3, <2>4
<1> QED
  BY <1>2, <1>3, <1>4, <1>5

\* Only a look at the clock ends a wait.
LEMMA EndsInCheck ==
    ASSUME [Next]_vars, Waiting, job' = NoJob PROVE Check
BY DEF Next, Main, Period, increment_ms_clk, AlertBegins, AlertEnds, Begin, ReadByte, ReadAgain,
       vars, Waiting

\* usleep_range, a delayed state change or the timeout of a transmission is over
\* early only if its sum overflowed.
THEOREM DeadlinesNotEarly == Spec => DeadlineNotEarly
<1>1. IInv /\ [Next]_vars =>
        [Waiting /\ job.kind = "deadline" /\ job' = NoJob
            => periods >= job.delay - 1 \/ job.overflowed]_vars
  BY EndsInCheck, WaitEnd
<1> QED
  BY <1>1, ClockInvariant, PTL DEF Spec, DeadlineNotEarly

-----------------------------------------------------------------------------
(* MsClock implements Delay.                                                *)

\* What a step does to the wait.
LEMMA Outcomes ==
    ASSUME TypeOK, ReadInv, [Next]_vars
    PROVE  \/ ~Waiting /\ job' \in Jobs /\ periods' = 0
           \/ Waiting /\ job' = job /\ periods' = Counted(periods)
           \/ /\ Waiting /\ job' \in Jobs /\ job'.kind = job.kind /\ job'.delay = job.delay
              /\ periods' = periods
           \/ Waiting /\ job' = NoJob /\ periods' = 0 /\ Check
           \/ ~Waiting /\ job' = job
<1>1. CASE Period
  BY <1>1 DEF Period
<1>2. CASE increment_ms_clk \/ AlertBegins \/ AlertEnds \/ ReadByte \/ ReadAgain \/ UNCHANGED vars
  <2>1. job' = job /\ periods' = periods
    BY <1>2 DEF increment_ms_clk, AlertBegins, AlertEnds, ReadByte, ReadAgain, vars
  <2> QED
    BY <2>1, JobsWait
<1>3. CASE Begin
  <2>1. PICK k \in Kinds, d \in Delays :
           job' = [kind |-> k, delay |-> d, phase |-> "start", timeout |-> 0, overflowed |-> FALSE]
    BY <1>3 DEF Begin
  <2>2. job' \in Jobs
    BY <2>1, Sizes DEF Jobs
  <2> QED
    BY <1>3, <2>2 DEF Begin
<1>4. CASE Check
  <2>1. Waiting /\ Len(temp) = 4 /\ ~Torn /\ job' = Step(job, Read) /\ job \in Jobs
    BY <1>4, JobsWait DEF Check
  <2>2. CASE job' = NoJob
    BY <1>4, <2>1, <2>2 DEF Check
  <2>3. CASE job' # NoJob
    <3>1. job' \in Jobs /\ job'.kind = job.kind /\ job'.delay = job.delay
      BY <2>1, <2>3, ReadRange, StepType
    <3>2. periods' = periods
      BY <1>4, <2>3 DEF Check
    <3> QED
      BY <2>1, <3>1, <3>2
  <2> QED
    BY <2>2, <2>3
<1> QED
  BY <1>1, <1>2, <1>3, <1>4 DEF Next, Main

\* mdelay and the wait of tcpci_init never end early, across an overflow of the
\* clock too, however many ticks are lost.
THEOREM DelaysImplemented == Spec => NeverEarly
<1>1. Init => Promise!Init
  BY DEF Init, Promise!Init, Waiting
<1>2. IInv /\ [Next]_vars => [Promise!Next]_(Promise!vars)
  <2> SUFFICES ASSUME IInv, [Next]_vars PROVE [Promise!Next]_(Promise!vars)
    OBVIOUS
  <2> DEFINE d == IF Waiting /\ job.kind # "deadline" THEN job.delay ELSE 0
             p == IF Waiting /\ job.kind # "deadline" THEN periods ELSE 0
  <2>1. TypeOK /\ ReadInv /\ (Waiting <=> job \in Jobs)
    BY JobsWait DEF IInv
  <2>2. CASE ~Waiting /\ job' \in Jobs /\ periods' = 0
    <3>1. d = 0 /\ p' = 0 /\ p = 0 /\ d' \in {0} \cup Delays
      BY <2>2 DEF Jobs
    <3> QED
      BY <3>1 DEF Promise!Next, Promise!Begin, Promise!vars
  <2>3. CASE Waiting /\ job' = job /\ periods' = Counted(periods)
    <3>1. Waiting'
      BY <2>3 DEF Waiting
    <3>2. CASE job.kind = "deadline"
      BY <2>3, <3>1, <3>2 DEF Promise!vars
    <3>3. CASE job.kind # "deadline"
      <4>1. d = job.delay /\ d' = d /\ p = periods /\ p' = Counted(periods) /\ d # 0
        BY <2>1, <2>3, <3>1, <3>3, Sizes DEF Jobs
      <4> QED
        BY <4>1 DEF Promise!Next, Promise!Period, Promise!Counted, Counted
    <3> QED
      BY <3>2, <3>3
  <2>4. CASE /\ Waiting /\ job' \in Jobs /\ job'.kind = job.kind /\ job'.delay = job.delay
             /\ periods' = periods
    <3>1. Waiting'
      BY <2>4, JobsWait DEF Waiting
    <3> QED
      BY <2>4, <3>1 DEF Promise!vars
  <2>5. CASE Waiting /\ job' = NoJob /\ periods' = 0 /\ Check
    <3>1. ~Waiting' /\ d' = 0 /\ p' = 0
      BY <2>5 DEF Waiting
    <3>2. CASE job.kind = "deadline"
      BY <3>1, <3>2 DEF Promise!vars
    <3>3. CASE job.kind # "deadline"
      <4>1. d = job.delay /\ p = periods /\ d # 0 /\ p >= d - 1
        BY <2>1, <2>5, <3>3, WaitEnd, Sizes DEF Jobs
      <4> QED
        BY <3>1, <4>1 DEF Promise!Next, Promise!End
    <3> QED
      BY <3>2, <3>3
  <2>6. CASE ~Waiting /\ job' = job
    BY <2>6 DEF Promise!vars, Waiting
  <2> QED
    BY <2>1, <2>2, <2>3, <2>4, <2>5, <2>6, Outcomes
<1> QED
  BY <1>1, <1>2, ClockInvariant, PTL DEF Spec, NeverEarly, Promise!Spec
=============================================================================
