# MAX25432B / ATtiny3217 USB-C charger firmware: TLA+ models and proofs

The firmware in `src/MPLAB Project/MAX25432B AtTiny3217 27W-1P KH0201 sds0.0.2`
turns an ATtiny3217 and a MAX25432B port controller (TCPC) into a 27 W USB-C PD
charger. It is a bare-metal program: one main loop, interrupt handlers that do
not nest, and a Type-C port manager (`tcpm.c`) derived from the Linux one. This
directory models the parts that decide when the connector is powered, at which
voltage, and whether a sink is served, down to the alert interrupt, the register
accesses, the clock and the I2C transfers they rest on. File and line numbers below are relative
to that project directory.

## Inventory

| component | state | operations | talks to |
|---|---|---|---|
| Port manager `tcpm.c` | `struct tcpm_port`: state, entered, previous and delayed state, run and running flags, CC values, polarity, attachment, contract, counters, queued reply, message IDs; `_event` | `tcpm_init`, `tcpm_pd_event_handler_mx` (events, state machine, timer), `tcpm_pd_receive`, `tcpm_cc_change`, `tcpm_vbus_change`, `tcpm_pd_hard_reset`, `tcpm_tcpc_reset`, `tcpm_pd_transmit(_complete)`, `tcpm_pd_disable` | calls the TCPC driver through `struct tcpc_dev`; is called by it from the interrupt handler |
| TCPC driver `tcpci.c` | the TCPC's registers, `src_pdo`, `general_setup_reg`, `last_pdo_type`, receive buffer | CC, VCONN, VBUS, roles, reception, transmission, alarms, slope compensation; `tcpci_irq` | I2C through `mx_tcpm.c`; raises `pd_events` |
| Main loop `main.c`, `mx_tcpm.c` | mode switch counters, EEPROM mode, interrupt enable | `main`, `alertb_handler`, `m_switch_check`, `m_sw_init` | all of the above; feeds the watchdog once a pass |
| Clock `mx_time.c` | 32 bit millisecond counter | increment (RTC interrupt), `get_ms_clk`, `mdelay`, `usleep_range` | every timer and delay |
| I2C master `twi0_master.c` | transfer state machine | open, read/write, poll, close | the TCPC |
| EEPROM driver `nvmctrl.c` | busy flag | read and write a byte | `main.c` |
| RTC, pins, USART, start-up | registers, callbacks | generated set-up and dispatch | |
| Message formats `pd*.h` | none | field access, timers and counts | |

What is hard about it:

- *Interleaving.* `tcpci_irq` runs between any two steps of the main loop and
  sets bits of `pd_events`, which the main loop clears by read-modify-write
  after it has handled a snapshot of them (2435-2469).
- *Two owners of the state.* Events, timers, the mode switch and the state
  machine all assign `state`; whether the new state is run depends on
  `run_state_machine_flag`, `state_machine_running`, `enter_state` and
  `delayed_state` together (778-823, 1588-1612, 2471-2487).
- *Feedback.* What the port presents on CC (Rp) decides what it observes there,
  so the port's own actions raise CC and VBUS events.
- *Failure.* Messages fail or are discarded; the TCPC may lose its registers; the
  watchdog restarts the microcontroller but not the TCPC, and the port's memory is
  whatever `malloc` finds in SRAM.
- *Timers.* Delayed state changes race the event that they wait for; the clock they
  are measured with is read byte by byte while it ticks, loses ticks while another
  handler runs, and overflows.
- *The alert pin.* Its interrupt sees falling edges only, its flag is cleared after the
  handler, and `int_en` throws edges away during I2C transfers.
- *Copies of registers.* `general_setup_reg`, `last_pdo_type` and `tcpc_alert_mask`
  are RAM copies that several functions keep in step with the TCPC.

What makes each component correct: the port manager must not rest in a
state it has not run nor wait for ever in a transient one, must source VBUS and VCONN only to something
attached, high voltage only under a contract and at the contracted value, and
must end up serving a sink that stays; the driver must keep its cached setup in
step with the TCPC and lose no alert; the clock must be read whole and delays must
end; the I2C master must finish each transfer once; the main loop must not hang
and must survive a restart. The hazards, each at its line, with the properties
that watch it, are in `PROJECT.json`.

## Modules

| module | role |
|---|---|
| `TcpmPort` | `struct tcpm_port` as a record, and the helpers of `tcpm.c` as functions from port to port, in the C code's order |
| `Tcpm` | the main loop: one action per event handled, one per case of `run_state_machine`, the timer, the switch; the interrupt handler, the sink, the cable, the resets |
| `TcpmProps` | the properties of `Tcpm` and its fair specification |
| `PowerSource` | abstract: what the port manager promises as a source of power; implemented by `Tcpm` |
| `MCTcpm` | instances of `Tcpm` for TLC |
| `AlertPath` | the alert pin, its interrupt, `int_en`, the poll, `tcpci_irq` step by step, the wait for the end of a transmission |
| `SupplySetup`, `MCSetup` | the registers that go with a contract, the voltage alarms, the mode switch and its EEPROM byte |
| `MsClock` | the millisecond counter, `get_ms_clk` byte by byte, and the three ways to wait for it |
| `Delay` | abstract: what a delay promises; implemented by `MsClock` |
| `TwiMaster`, `MCTwi` | the polled I2C master: every handler of its state table |
| `RegBus` | abstract: what a transfer of a register block promises; implemented by `TwiMaster` |
| `TcpmProofs`, `TcpmControlProofs`, `TcpmPowerProofs`, `TcpmVoltageProofs` | theorems about `Tcpm` |
| `AlertProofs`, `SetupProofs`, `ClockProofs`, `TwiProofs` | theorems about `AlertPath`, `SupplySetup`, `MsClock` and `TwiMaster` |

The modules are layers of one program. `TwiMaster` promises what `RegBus` says, and
the layers above take a register access for one step. `MsClock` promises
what `Delay` says, and they take a delay for a step or a timer action that fires when
it likes. `AlertPath` shows which alerts reach `pd_events`, and that a transmission
ends with its own outcome or a timeout; `Tcpm` takes the interrupt handler for one
step and lets a transmission end in any outcome. `SupplySetup` shows which
registers belong to a contract; `Tcpm` keeps only the voltage of them.

### How state and actions correspond to the code

`port` is the record `struct tcpm_port` plus the registers only this program
writes (`rp`, `vconn`, `pd_rx`, `supply`: the voltage the TCPC was told to source,
0 when off). `events` is `pd_events`, `todo` the snapshot `events` of the handler,
`rx` the one message slot `_event`, `line` the terminations on the CC pins, `vbus`
the presence of VBUS. `pc` says where the loop is: `events` (about to look at
`pd_events`), `handle`, `clear` and `store` (an event of the snapshot is handled; its bit is
cleared with a load and a store of `pd_events`: the interrupt handler may act before
each), `sm` (in the loop of `tcpm_state_machine_work`), `tail` (after it), `switch`
and `top` (outside the handler). `Torn` says whether an interrupt can come between
that load and that store (`StoreEvents`): what it raises is then lost with the old
value. It is TRUE in the runs `attach`, `contract` and `prompt`, and
the theorems hold for either value; `serve` takes FALSE, because a lost CC or VBUS
event does leave a sink unserved until it is plugged again. A case of `run_state_machine` is one action: it is sequential code, and
what the interrupt handler does meanwhile only sets bits and the message slot,
which the case does not read. A transmission ends in any of `TxOutcomes`; a
timeout reads an old `tx_status` and so is one of these outcomes too. Every
register write that changes what the TCPC reports raises the matching event in
the same step (`Alerted`), and the values an event handler uses are read when it
runs, not when the event was raised.

Timers: a delayed state change may happen at any pass after it was armed.
`AwaitsVbus` is the one assumption on real time: unless `LateVbus`, VBUS follows
the supply sooner than a timer that was armed to wait for it (275-650 ms,
against at most a few tens of ms for the supply). tErrorRecovery is exempt: it is too
short. `SlowDischarge` allows VBUS to be still present when `tcpci_set_vbus(false)`
returns, after 250-350 ms, and then `tcpm_init` may read it as present.

A RESET event comes from a hard reset of the sink or from the low voltage alarm (tcpci.c:899-902), both
`HardResetIrq`. The alarm is switched on with a programmable voltage and needs no sink that talks; it may
still be latched, or reported because the write that ends it was blocked, after that voltage is gone,
so `HardResetIrq` asks only that a programmable voltage was the last one granted. `SupplySetup`
shows when it is armed.

The message slot is read in one step. A message that overwrites it while `tcpm_pd_rx_handler` reads it
(tcpm.c:1917) is lost when the event bit is cleared, and the parts of two messages that the handler
sees make one message. The sets of messages hold every kind, and requests with each payload, so
what such a mixture does is covered by a sink that sends it.

Messages are grouped by what the port does with them: `OTHER` stands for all the
messages whose only effect is a queued reply. A message that has no effect at all
(GoodCRC, Ping, Sink_Capabilities) is not a message of the model. The message ID
filter is outside `RxHandler`: a message it drops has no effect.

*The alert path.* `alert` is the TCPC's ALERT register, and the pin is low while it is
not empty; `flag` is the pin's interrupt flag, `context` says who runs `alertb_handler`,
`hpc` where `tcpci_irq` is (one step per access of the TCPC, so that alerts come in
between), `status` its copy of ALERT. `pc` is the main loop: `boot`, `poll` (line 235 of
main.c), `events` and `work` (the handler of port events), `transfer` (an I2C
transfer, `int_en` is 0), `fill`, `transmit` and `wait` (a transmission). The last look at the pin (`CheckPin`) and `int_en = 1` (`LeaveHandler`)
are two steps, so that an edge can be thrown away between them. `unseen`, `spared`, `risk`, `dropped`
and `missed` are history: what was latched and not acted on, what of it the handler cleared unread and
has leave to, what its next clearing has leave to clear, whether an edge was thrown
away, whether an outcome was cleared unread. `CC` stands for the four alerts whose event is
raised before ALERT is cleared.

*The supply setup.* `reg` holds the registers of the TCPC that go with a contract,
`cache` is `general_setup_reg`, `last` is `last_pdo_type`, `op` and `pc` say which call is
under way and which access comes next: one action per access, with the alarm's
interrupt in between wherever `int_en` allows it. The reporting of alarms is switched off with
one access per write of POWER_CTRL and its reading back, repeated as `disable_vbus_alarms` does (`i`
counts the retries, `Tries` of them at most; the program's is 100). `deal` is the contract
`tcpci_set_vbus_hv` was last called for, `chosen` the mode last handed to the EEPROM,
`writing` a write the EEPROM has not finished. `stale` and `refused` are history and
name the two exceptions described below: `refused` counts the writes of POWER_CTRL blocked in a row.
In the alert handler `disable_vbus_alarms` is one step with the rest of the handler.

*The clock.* `jiffies` is the counter, in two bytes (the code's four behave alike: a
byte that carries into the next), `pit` the one flag of the periodic timer, `temp` the
bytes `get_ms_clk` has read, `job` the wait of the main program: `mdelay` (with its extra
wait for an overflow), a plain deadline, or the signed comparison of `tcpci_init`.

*The I2C master.* `twi` is `I2C0_status`, the registers of TWI0 and the caller's
buffers as one record; each handler of the state table (`DO_IDLE` to `DO_BUS_ERROR`) is a
function from `twi` to `twi`. `dev` is the TCPC: its registers, its register pointer, and
whether the next byte is a register number. The device withholds an acknowledgement, or
the bus is disturbed, as often as the budget says.

Counters saturate where the code only compares them (`hard_reset_count`,
`caps_count`, `disc_cable_count`). `NCaps` is 2 in the runs and 33 in the program.

## Runs

| run | question | properties |
|---|---|---|
| `attach` | sinks, cables and accessories come, go and bounce; press, TCPC reset, watchdog restart; VBUS events late; any heap | `TypeOK` `NoOrphanVbus` `TimerArmed` `StateEntered` |
| `contract` | any message in any state, unplugs, hard resets and presses in between | `HighVoltageUnderContract` `VbusStartsAt5V` `PowersAsPromised` `TimerArmed` `StateEntered` |
| `prompt` | a sink that talks only when it is its turn: capabilities offered, VCONN awaited, or SRC_READY; an unplug and a hard reset while it does | `ContractVoltage` `RpOkInReady` `NoOrphanVbus` `NoOrphanVconn` |
| `serve` | does everything end well, under fairness | `SinkServed` `VbusGoesOff` |
| `alert` | alerts, register losses and the watchdog at any step of the handler and of the main loop | `TypeOK` `NoNestedTransfer` `NothingForgotten` `OwnOutcome` `AnswerHeard` `AlertServed` |
| `setup` | contracts, alarms, restarts, register losses, Type-A faults and the mode switch between any two register accesses | `TypeOK` `SupplyMatches` `AlarmsFit` `UnitsAgree` `ModeInForce` `ModeKept` `PressActs` |
| `clock` | ticks between any two bytes read, lost ticks, every start value | `TypeOK` `FreshRead` `NeverLate` `NeverEarly` `DeadlineNotEarly` `WaitEnds` |
| `twi` | block transfers with withheld acknowledgements, lost arbitration and bus errors anywhere | `TypeOK` `InBounds` `Implements` `TransferEnds` |
| `soft_reset` | violated: a soft reset is asked for and not sent | `SoftResetSent` |
| `recovery_time` | violated: error recovery is cut short | `RecoveryKeepsRpOpen` |
| `button` | violated: a press that removes no Rp | `ButtonRemovesRp` |
| `error_recovery` | violated: the port does not recover by itself | `ErrorRecovers` |

`attach` and `contract` check `TimerArmed` and `StateEntered` in disjoint parts
of the state machine (attachment and accessories; PD). The mutants show it: each
is broken by a different bug. `StateEntered` says that the state the port is left in has been
run. A state that the next event, message or press overwrites before the loop gets to it is
not run, in the code as in the model, and is no violation of it; what skipping one leaves
undone is for `TimerArmed`, `NoOrphanVbus` and the properties of the supply to find.

*Bounds.* A budget limits how often each outside input happens in a behaviour;
`Budgets` is a set of them, and a run takes every one. Two plug changes let an
unplug and a replug race the handling of the first; two messages let the second
overwrite or overtake the first; three take a port from one contract through a
rejected or renegotiated one. `NHard = 2` is the program's. `NCaps = 2` reaches
both the retry and the giving up. The requests name each PDO once and a PDO that
does not exist; the messages include one of each kind.

`alert` has three alerts and one register loss: one alert to be handled, one to come
while it is, one for the next round, next to the outcome of every transmission
(transmissions are not bounded). `setup` has a fixed contract (9 V, 3 A) and a programmable
one (9 V, 1 A) in any order, a switch delay of two passes, one retry of a blocked write (the loop
goes round, and gives up), and one restart, loss or fault. `clock` has
bytes of four values, so that both bytes carry and the counter overflows within
a wait, delays of one and of three ticks, one tick at most between two looks at the clock, and
counts to 7, past every delay plus what the loop may be late. `twi` has three registers, so that
a block wraps and two blocks overlap, a block and a single register each way, and
two withheld acknowledgements or one of them with a disturbed bus.

*Heaps.* `attach` starts from memory with any run and running flag, polarity and
hard reset count. Excluded is `running` without `run`: then the port never
queues the state machine and nothing works (`tcpm_register_port` initialises
neither). A watchdog restart reuses the memory of the last run, which the
invariant `ControlInv` shows never to hold that combination.

*Fairness.* Weak fairness of `Program`: the main loop never blocks. Weak fairness
of `TimerExpires`: the clock goes on and the loop tests it in every pass. Weak
fairness of `VbusIrq`: the supply switches and the TCPC reports it. No fairness
of the sink, the cable or the user; `serve`'s sink has no PD and never
acknowledges a message, so that the port must serve it by giving up.

The other runs: in `alert`, the TCPC answers each TRANSMIT, the processor goes on, a pass
is not endless (`SF` of its end: the alerts are few), and the watchdog, enabled by fuse,
ends a handler that hangs. In `setup`, the loop goes on, an EEPROM write ends, and the
watchdog likewise. In `clock`, `SF` of the main program and of the timer's interrupt: between two
interrupts the processor executes an instruction of the main program, and the handlers are
served by priority; `WF` of the timer's period and of the end of a handler. In `twi`, the
caller polls, the TCPC answers an address or a byte in some way, and the watchdog ends a
wait for nothing.

*What the passing runs leave out, because the code fails there.* They are
hazards in `PROJECT.json`, with their lines:
- `serve` plugs and unplugs only after the port acted on the last change
  (`Bounce = FALSE`). With bounces inside a pass, SRC_UNATTACHED can be skipped, the
  port stays attached, and a sink may wait for a CC event that never comes.
- `serve` reverses no plug and has no late VBUS.
- `prompt` has no extended status messages: a source acts on them as a sink would,
  entering SRC_READY twice, and then Rp stays at 1.5 A.
- `ContractVoltage` is not checked with messages in any state: a request during
  SRC_HARD_RESET_VBUS_ON skips SRC_STARTUP and keeps the old contract.
- `contract` and `prompt` have no VBUS event later than the timer that awaits it and no slow
  discharge. The theorems allow late events, and but for those that say so slow discharge.

Elsewhere nothing is left out of a run; what fails in the code is named in the
property as an exception, so that the property says it fails there and nowhere else:
- `NoOrphanVbus`, `NoOrphanVconn`: a hard reset that arrives while the port detaches (for
  BIST carrier mode 2 it detaches from a sink still there, and the discharge takes
  250-350 ms) is executed with nothing attached, and SRC_HARD_RESET_VBUS_ON switches VBUS
  on, with a powered cable VCONN too. If the plug is pulled before SRC_STARTUP,
  `tcpm_detach` returns early because nothing is attached (tcpm.c:1063), and they stay on.
  Only a counted hard reset does that (`hard_reset_count # 0`).
- `SupplyMatches`, `AlarmsFit`: `last_pdo_type` outlives the supply, so a programmable
  contract after a programmable one that ended with a detach or a hard reset has neither the current limit
  bit nor alarms (`stale`, tcpci.c:608); a write of POWER_CTRL is ignored during a Type-A
  fault: `disable_vbus_alarms`, for a fixed contract and in the alert handler, tries again, while
  `set_vbus` and `enable_vbus_alarms` write once. Under a fixed contract reporting may be left on only if
  every try was blocked, without a contract only if the one write was (`refused`).
- `NothingForgotten`, `AlertServed`: three losses are named (`spared`), each in the round of
  `tcpci_irq` in which it happens and for the alert concerned only. When a round finds that the TCPC
  lost its registers, `tcpm_init` throws the events away, and a CC alert that comes before
  ALERT is cleared goes with the old one. A loss that comes between the reading of FAULT_STATUS and the
  clearing of ALERT is overlooked: its alert is cleared, it raises no event, and only the next FAULT alert
  finds it. A short read (tcpci.c:934) leaves HARD_RST and TX behind. Before and
  after such a round CC and FAULT alerts are held to the property like the others.
- `OwnOutcome`, `AnswerHeard`: an answer comes within the 100 ms of the wait, or not at all; an outcome the
  TCPC produces only after them is assumed away (`TimedOut`).
- `AnswerHeard`: an edge dropped while `int_en` is 0 or when the flag is cleared after the
  handler is not seen in the wait for a transmission, which does not poll; a short read
  clears the outcome unread (tcpci.c:934).
- A register loss found by the interrupt handler calls `mdelay` where the clock's
  interrupt cannot run: the handler hangs (`hpc = "hung"`) until the watchdog ends it.
- `NeverLate`, `WaitEnds`: a wait that looks for one of the last values before an
  overflow, or `mdelay` for one of the first after it, can miss them and goes on until the
  clock comes round (`Misses`). `DeadlineNotEarly`: a plain deadline whose sum overflows is
  over at once.
- `Implements`: a transfer that fails ends half done and its caller is not told; after a
  refused read address the driver writes the receive buffer to the device (`StrayByte`).

## Refinements

`Tcpm` implements `PowerSource` (`PowersAsPromised`; checked in `contract` and proved, for
`~SlowDischarge`). The mapping keeps four fields of `port`: `supply`, `supply_voltage` (the voltage
granted), `attached` and `explicit_contract`; the advertised voltages are those of the requests
that `tcpm_pd_check_request` grants. What it shows is that each step of the
policy engine, whatever message, event, timer or reset it answers, is one of seven: VBUS comes up
at 5 V, moves on only to the voltage granted, and goes off from anywhere; a voltage is granted
only to something attached while VBUS is on, and forgotten with the attachment, so that nobody
inherits one; a contract is forgotten only while VBUS is at 5 V. With slow discharge it fails, and so
does `VbusStartsAt5V`: `tcpm_reset_port` leaves reception on (tcpm.c:947-948), so a debug accessory
plugged in while VBUS is still charged, which attaches without VBUS, can send a Request, and
SRC_TRANSITION_SUPPLY then sources its voltage from off. TLC finds that behaviour with three changes of
the plug and one message, more than a run of `contract` has.

`MsClock` implements `Delay` (`NeverEarly`; checked and proved): periods of the timer
are counted from the call, and a delay that ends after `d - 1` of them is on time, because the
first may have been almost over. The mapping forgets the counter, the bytes and
plain deadlines.

`TwiMaster` implements `RegBus` (`Implements`; checked and proved): its registers are the TCPC's, its
transfer the one the caller started. What it shows is that bytes go to the registers they are meant
for and a transfer ends only when the block is where it belongs, unless an
acknowledgement of data was withheld or the bus disturbed.

## Findings

1. *Error recovery time* (`recovery_time`). PORT_RESET removes Rp for
   tErrorRecovery, "a clean disconnect" (tcpm.c:2410-2413). Removing Rp raises a CC
   event, and the default case of `_tcpm_cc_change` answers it with
   SRC_UNATTACHED, which restores Rp at once. Every restart with a sink attached
   does this.
2. *Soft reset* (`soft_reset`). A failed Accept or cable discovery enters
   SOFT_RESET_SEND (tcpm.c:460), but the case that sent it then arms its own timer
   and the loop stops; the soft reset is never sent.
3. *Button* (`button`). `tcpm_pd_disable` goes through `tcpm_set_state_cond`,
   which drops the request in the pass in which a timer expired; the flag stays set.
4. *Error recovery* (`error_recovery`). ERROR_RECOVERY does nothing
   (tcpm.c:1558), where the comment at 2421 expects a recovery: only an unplug, a message or
   a press leads out of it.

## Theorems

`TcpmProofs` proves `Spec => []TypeOK` for every value of the constants: any
requests, messages, lines, budgets, outcomes, heaps of the right type, `NCaps` and
`NHard`. There is a lemma per helper of `TcpmPort` (it maps ports to ports) and a
step per case of the state machine. No strengthening is needed.

`TcpmControlProofs` proves `StateEntered`: unless it is asked to run, the state machine has run
the state the port is in, whatever events, timers, presses and resets did. The
inductive invariant `ControlInv` adds that a running state machine was asked to
run (`running => run`) and that `pc = "sm"` only while it runs. The argument:
outside the loop `running` is false, so every immediate state change sets `run`;
inside it, `run` is already set and the loop goes round until the state it ran is
the state the port is in or a timer is armed; the only pairs of states that leave
it otherwise are the two named in `Overtaken`, found by a case analysis over the
states. It assumes `HeapRuns`: the memory `malloc` returns at power-on does not
hold `running` without `run`.

It also proves `TimerArmed`: at rest in a transient state a timer is armed. The
invariant `TimerInv` is that a port whose state machine is not asked to run has one; on top of
`ControlInv` it is inductive, because whoever disarms a timer changes the state and
asks for a run, and each case of the state machine leaves its state or arms a timer. It
assumes `HeapRuns`.

Its third part proves `NoOrphanVbus` and `NoOrphanVconn`: with nothing attached, nothing is
sourced unless a hard reset was counted. The inductive invariant `Kept` allows slow
discharge, late VBUS events, bouncing pins and any heap. Its parts: the states outside `Bare` need something
attached, now and as the target of a timer, because messages are only handled
when attached and `pd_capable` implies it; a hard reset is counted in HARD_RESET_START,
before the states in `Resets` that switch VBUS off and on again, and only an exchange with
something attached clears the count; a state that detaches has no timer armed that leads to a state
needing an attachment; and a port that has run SRC_UNATTACHED is detached. `StateEntered`,
and so `HeapRuns`, is needed only for a port at rest in SRC_UNATTACHED.

Its last part proves `ContractVoltage` and `RpOkInReady` for a sink that talks only in its turn
(`Prompt`); with messages in any state they do not hold. The grant, the supply and Rp are
set by three different functions, so the inductive invariant `SettledInv` says how far they may be apart.
While the supply is not what was granted under a contract, no message is pending, the
port is in a state of `Rough`, a timer leads on to the next one, and a request it is negotiating
is one it grants (`Level`): so SRC_TRANSITION_SUPPLY comes before SRC_READY, and nobody can
replace the grant meanwhile. Rp is txSinkOK in SRC_READY and in the state after it,
because `tcpm_set_state` knows by `prev_state` that the port comes from SRC_READY; it is back at
txSinkOK before the next SRC_READY unless a state is entered twice in a row (`RpKept`),
and the states in `Late` are reached only after a PD sink was found or the
capabilities were offered often enough (`Past`). `Turn` is what every run of the state machine starts
from: no timer is armed, but for the one a VBUS event overtook in SRC_HARD_RESET_VBUS_ON. Slow discharge, late VBUS events, bouncing pins, torn updates of `pd_events` and any heap are
allowed. `RpOkInReady` also assumes `NoStatus`: no message is one that only a source sends. TLC checked
`SettledInv` with the instance of `prompt` before it was proved.

`TcpmPowerProofs` proves `VbusStartsAt5V`: no step takes VBUS from off to a negotiated
voltage. Only SRC_TRANSITION_SUPPLY sets such a voltage, and a Request is handled in
any attached state, so what has to be shown is that no message is pending while an
attached port sources nothing. The inductive invariant `PowerInv` says so, and adds
why: a message needs VBUS and reception to arrive (`CanTalk`); a hard reset stops
reception (HARD_RESET_START) before the states in `Off` switch VBUS off, and is the only
thing that switches it off while `attached` stays true; the accessory states, the only
ones that attach without sourcing, are entered by an event or a timer, so the pending
messages were handled before them; the states in `Fed`, and the timers that lead to
them, exist only with VBUS sourced. It assumes `~SlowDischarge`: VBUS is gone when
`tcpci_set_vbus(false)` returns, after its 250-350 ms of discharge (see *Refinements* for what
happens otherwise). Late VBUS events,
bouncing pins, torn updates of `pd_events`, any heap and any message are allowed. TLC
checked `PowerInv` with the instances of `contract` (VBUS late as well) and `attach`
before it was proved.

`TcpmVoltageProofs` proves `HighVoltageUnderContract`. The contract and the supply are
changed by different functions: SRC_TRANSITION_SUPPLY makes the contract and
SRC_STARTUP forgets it. SRC_STARTUP is entered on a VBUS event, so `VoltageInv`, on top of
`PowerInv`, says that no VBUS event is pending while the voltage is high or about to be: a
Request needs VBUS to arrive, and VBUS then stays until the port switches it off. It assumes
`~SlowDischarge` and allows late VBUS events, which the run `contract` excludes.

Its second part proves that `Tcpm` implements `PowerSource`. `Powers` relates the four fields of two ports
the way a step of the source does; there is a lemma for each case of the state machine and each
event, and on top of them `Granted`: VBUS is off, at 5 V or at an advertised voltage, what is granted is
advertised, and nothing is granted while nothing is attached. `PowerInv` gives what the steps
need of VBUS when a message is handled, `VoltageInv` that SRC_STARTUP finds it at 5 V.

`AlertProofs` proves all safety properties of `AlertPath`, for any number of alerts and
resets. The inductive invariant has a part for each question: who runs the handler and
may (`ContextInv`); what was latched and not acted on is latched still or in the handler's
copy of ALERT at each of its steps, or named (`HeldInv`); an outcome the handler can find while a
transmission waits is its own, because one left over from an earlier transmission has no
edge to come (`OutcomeInv`); a low pin at rest has its flag set or an edge was dropped
(`EdgeInv`), so a wait that no interrupt can end had an edge dropped or its outcome
cleared (`WaitInv`).

`SetupProofs` proves all safety properties of `SupplySetup`, for any contracts, switch
delay, number of retries and of faults. `OpFits` says which calls may be under way at each access,
`StoredInv` how the stored mode follows the chosen one, `SetupInv` how the
TCPC's GENERAL_SETUP follows the cached copy (it may differ only after a loss and until it is written
again), `TargetInv` that target, limit and `last_pdo_type` fit the contract at each
access of `set_vbus_hv`, `AlarmInv` that reporting and the saved mask fit `last_pdo_type`.
`tcpci_set_vbus_hv` is called only with VBUS sourced, which `VbusStartsAt5V` proves of `Tcpm`.

`ClockProofs` proves the safety properties of `MsClock` and its refinement of `Delay`, for any
size of a byte, delays and number of ticks between two looks that satisfy
`ClockAssumption`. `ReadInv`: the four bytes are those of the clock a, b, c and d
ticks ago, with the ticks since the call at most `Slip`; the low byte comes round only
after `Base` ticks, so equal copies mean that there was no tick in between. `PeriodInv`: each
tick had a period of the timer but for the one that was due. `WaitInv`: a wait knows
the clock's value at its start, and mdelay's second phase begins only when the clock has
overflowed. `LateInv`: the last look was in time.

`TwiProofs` proves the safety properties of `TwiMaster` and its refinement of `RegBus`, for any
number of registers, longest block, transfers and troubles that satisfy `TwiAssumption`.
`CallInv` says where the call is, `BufferInv` that the buffer in use fits the state of the
driver and is neither passed nor left early, `CmdInv` what the TCPC may be asked for in it.
`TroubleInv`: what went wrong is in `seen`, so a driver that goes on saw nothing go
wrong. Then the registers: while the register number goes out the TCPC stores nothing
(`RegInv`); a block is written up to where the driver is as long as it owns the bus
(`WriteInv`), and read up to there as long as nothing fatal happened (`ReadInv`); so one
that ends well is complete (`EndInv`).

Only model-checked: liveness (`SinkServed`, `VbusGoesOff`, `AlertServed`, `PressActs`, `WaitEnds`,
`TransferEnds`), which is out of the prover's reach.

## Not modelled

Sink and dual-role states of `tcpm.c` (unreachable: `port_type` is
TYPEC_PORT_SRC), the API functions nobody calls (`tcpm_update_source_capabilities`,
`mx_pd_hard_reset_value`), LEDs, logging, VIF and generated files.
Message layout, PDO fields and register layout are abstracted to what they mean.

Of the driver: slope compensation (`set_slp` and its cached value; it changes how cable
drop is compensated, not what is sourced), BC1.2 (in the TCPC). Message IDs and the
duplicate filter: a message they drop has no effect in `Tcpm`. Of `twi0_master.c`: the
interrupt-driven mode and the callbacks nobody sets. Of `nvmctrl.c`: the flash
routines nobody calls. The USART is set up and not used. Generated register set-up has no
behaviour to state; its one part that matters, the sense of the alert pin and the
timer's period, is in `AlertPath` and `MsClock`.

## Plan

Done: the port manager core, the alert path, the clock, the I2C master, the supply setup,
`PowerSource`, and the theorems above. What remains, in this order:

1. `PdLink`: message IDs, duplicate filter and retransmission between port and sink.
2. The check of a request over the full PDO fields against a reference definition.
