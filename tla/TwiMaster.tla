------------------------------ MODULE TwiMaster ------------------------------
(***************************************************************************)
(* The polled I2C master of twi0_master.c, as twi0_master_example.c uses it *)
(* to read and write a block of TCPC registers. twi holds I2C0_status, the  *)
(* TWI0 registers and the caller's buffers; handlers map it to the next one.*)
(***************************************************************************)
EXTENDS Naturals, Sequences

CONSTANTS
    Size,     \* number of registers, and of values of a byte
    MaxLen,   \* longest block
    Calls,    \* the transfers asked for: kind, register, buffer as it is given
    Faults    \* budgets: how often an answer is withheld, and the bus disturbed

ASSUME TwiAssumption ==
    /\ Size \in Nat /\ MaxLen \in 1 .. Size
    /\ Calls \subseteq [kind : {"READ", "WRITE"}, reg : 0 .. Size - 1,
                         data : UNION {[1 .. n -> 0 .. Size - 1] : n \in 1 .. MaxLen}]
    /\ Faults \subseteq [nack : Nat, bus : Nat]

VARIABLES
    twi,      \* the master
    dev,      \* the TCPC: registers, register pointer, what it takes part in
    pc,       \* where the transfer functions are
    call,     \* the function called: "READ", "WRITE" or "NONE"
    seen,     \* what went wrong during the call
    left      \* what is left of the budget

vars == <<twi, dev, pc, call, seen, left>>

Byte   == 0 .. Size - 1
Blocks == UNION {[1 .. n -> Byte] : n \in 1 .. MaxLen}

PowerUp == [
    inUse |-> FALSE, busy |-> FALSE, bufferFree |-> FALSE, addressNACKCheck |-> FALSE,
    state |-> "IDLE", error |-> "NOERR", complete |-> "STOP", nack |-> "STOP",
    buffer |-> "REG", ptr |-> 1, len |-> 0, reg |-> 0, data |-> <<0>>,
    rif |-> FALSE, wif |-> FALSE, arblost |-> FALSE, buserr |-> FALSE,
    rxack |-> FALSE, ackact |-> "ACK", cmd |-> "NONE", own |-> FALSE, mdata |-> 0 ]

-----------------------------------------------------------------------------
(* Registers. MSTATUS |= flag writes back every flag that is set, and a flag *)
(* is cleared by writing 1: any such assignment clears them all.             *)

MasterClearIrq(m) ==
    [m EXCEPT !.rif = FALSE, !.wif = FALSE, !.arblost = FALSE, !.buserr = FALSE]
MasterResetBus(m) == [MasterClearIrq(m) EXCEPT !.own = FALSE, !.cmd = "NONE"]
MasterStop(m)     == [m EXCEPT !.own = FALSE, !.cmd = "NONE"]
MasterTxData(m, b) == [m EXCEPT !.cmd = "TX", !.mdata = b]
MasterIsRxOrTx(m)  == [m EXCEPT !.cmd = "RX"]
Event(m) == m.rif \/ m.wif

-----------------------------------------------------------------------------
(* Buffers and callbacks.                                                   *)

Buffer(m) == IF m.buffer = "REG" THEN <<m.reg>> ELSE m.data

SetBuffer(m, b) ==
    IF ~m.bufferFree THEN m
    ELSE [m EXCEPT !.buffer = b, !.ptr = 1, !.bufferFree = FALSE,
                   !.len = IF b = "REG" THEN 1 ELSE Len(m.data)]

\* As if the callback did not remove itself.
DataCompleteAgain(m) == IF m.complete = "STOP" THEN m ELSE SetBuffer(m, "DATA")

\* What the callback of a block transfer returns.
CompleteHandler(kind) == IF kind = "READ" THEN "RESTART_READ" ELSE "CONTINUE"

\* The callback of a block transfer hands over the data buffer, once.
DataComplete(m) ==
    IF m.complete = "STOP" THEN m ELSE [SetBuffer(m, "DATA") EXCEPT !.complete = "STOP"]

-----------------------------------------------------------------------------
(* The handlers of the state table.                                         *)

DO_IDLE(m)  == [m EXCEPT !.busy = FALSE, !.error = "NOERR", !.state = "IDLE"]
DO_RESET(m) == [MasterResetBus(m) EXCEPT !.busy = FALSE, !.error = "NOERR", !.state = "RESET"]
DO_SEND_STOP(m) == DO_IDLE(MasterStop(m))

SendAddress(m, dir, next) ==
    [m EXCEPT !.addressNACKCheck = TRUE, !.cmd = dir, !.own = TRUE, !.state = next]
DO_SEND_ADR_READ(m)  == SendAddress(m, "ADR_READ", "RX")
DO_SEND_ADR_WRITE(m) == SendAddress(m, "ADR_WRITE", "TX")

DO_RX_NACK_STOP(m) == DO_SEND_STOP([m EXCEPT !.ackact = "NACK"])

DO_ADDRESS_NACK(m) ==
    LET n == [m EXCEPT !.addressNACKCheck = FALSE, !.error = "FAIL"]
    IN  IF m.nack = "RESTART_WRITE" THEN DO_SEND_ADR_WRITE(n) ELSE DO_SEND_STOP(n)

DO_TX(m) ==
    IF m.rxack THEN DO_SEND_STOP(m)
    ELSE [MasterTxData(m, Buffer(m)[m.ptr]) EXCEPT
             !.addressNACKCheck = FALSE, !.ptr = @ + 1, !.len = @ - 1,
             !.state = IF m.len = 1 THEN "TX_EMPTY" ELSE "TX"]

DO_TX_EMPTY(m) ==
    LET n == DataComplete([m EXCEPT !.bufferFree = TRUE])
    IN  CASE m.rxack                       -> DO_SEND_STOP(m)
          [] ~m.rxack /\ m.complete = "RESTART_READ" -> DO_SEND_ADR_READ(n)
          [] ~m.rxack /\ m.complete = "CONTINUE"     -> DO_TX(n)
          [] ~m.rxack /\ m.complete = "STOP"         -> DO_SEND_STOP(n)

\* As if the last byte was announced one byte early, and one byte late.
DO_RX_EARLY(m) ==
    LET n == [m EXCEPT !.addressNACKCheck = FALSE, !.data[m.ptr] = m.mdata,
                       !.ackact = IF m.len = 2 THEN "NACK" ELSE "ACK",
                       !.ptr = @ + 1, !.len = @ - 1]
    IN  IF m.len # 1 THEN MasterIsRxOrTx(n)
        ELSE DO_RX_NACK_STOP(DataComplete([n EXCEPT !.bufferFree = TRUE]))
DO_RX_LATE(m) ==
    LET n == [m EXCEPT !.addressNACKCheck = FALSE, !.data[m.ptr] = m.mdata,
                       !.ackact = IF m.len = 0 THEN "NACK" ELSE "ACK",
                       !.ptr = @ + 1, !.len = @ - 1]
    IN  IF m.len # 0 THEN MasterIsRxOrTx(n)
        ELSE DO_RX_NACK_STOP(DataComplete([n EXCEPT !.bufferFree = TRUE]))

\* The read callback has removed itself: the last byte ends in NACK and STOP.
DO_RX(m) ==
    LET n == [m EXCEPT !.addressNACKCheck = FALSE, !.data[m.ptr] = m.mdata,
                       !.ackact = IF m.len = 1 THEN "NACK" ELSE "ACK",
                       !.ptr = @ + 1, !.len = @ - 1]
    IN  IF m.len # 1 THEN MasterIsRxOrTx(n)
        ELSE DO_RX_NACK_STOP(DataComplete([n EXCEPT !.bufferFree = TRUE]))

\* The callback is the default one: stop.
DO_BUS_COLLISION(m) == DO_RESET(MasterClearIrq(m))
DO_BUS_ERROR(m) == [MasterResetBus(m) EXCEPT !.busy = FALSE, !.error = "FAIL", !.state = "RESET"]

Dispatch(m) ==
    CASE m.buserr                                   -> DO_BUS_ERROR(m)
      [] ~m.buserr /\ m.arblost                     -> DO_BUS_COLLISION(m)
      [] ~m.buserr /\ ~m.arblost ->
           IF m.addressNACKCheck /\ m.rxack THEN DO_ADDRESS_NACK(m)
           ELSE CASE m.state = "SEND_ADR_WRITE" -> DO_SEND_ADR_WRITE(m)
                  [] m.state = "TX"             -> DO_TX(m)
                  [] m.state = "TX_EMPTY"       -> DO_TX_EMPTY(m)
                  [] m.state = "RX"             -> DO_RX(m)

-----------------------------------------------------------------------------
(* The calls, one step for each place where the bus can act in between.     *)

Goto(p) == pc' = p /\ UNCHANGED <<dev, call, left>>

Begin ==
    /\ pc = "idle" /\ pc' = "open" /\ seen' = {}
    /\ \E c \in Calls :
          call' = c.kind /\ twi' = [twi EXCEPT !.reg = c.reg, !.data = c.data]
    /\ UNCHANGED <<dev, left>>

\* As if I2C0_Open did not free the buffer.
OpenKeepsBuffer ==
    /\ pc = "open" /\ ~twi.inUse
    /\ twi' = [MasterResetBus(twi) EXCEPT
                  !.busy = FALSE, !.inUse = TRUE, !.addressNACKCheck = FALSE,
                  !.state = "RESET", !.complete = "STOP", !.nack = "STOP"]
    /\ Goto("open") /\ UNCHANGED seen

\* while (!I2C0_Open(address)): I2C0_NOERR is 0, so the loop goes round once
\* more after the bus was opened and ends when it is found in use.
Open ==
    /\ pc = "open" /\ ~twi.inUse
    /\ twi' = [MasterResetBus(twi) EXCEPT
                  !.busy = FALSE, !.inUse = TRUE, !.addressNACKCheck = FALSE,
                  !.state = "RESET", !.bufferFree = TRUE, !.complete = "STOP",
                  !.nack = "STOP"]
    /\ Goto("open") /\ UNCHANGED seen

MasterOperation(m) ==
    IF m.busy THEN m ELSE [m EXCEPT !.busy = TRUE, !.state = "SEND_ADR_WRITE"]

MasterWrite ==
    /\ pc = "open" /\ twi.inUse
    /\ twi' = MasterOperation([SetBuffer(twi, "REG") EXCEPT
                  !.complete = CompleteHandler(call), !.nack = "RESTART_WRITE"])
    /\ Goto(IF twi.busy THEN "close" ELSE "clear") /\ UNCHANGED seen

ClearIrq == pc = "clear" /\ twi' = MasterClearIrq(twi) /\ Goto("test") /\ UNCHANGED seen

MasterIsr ==
    /\ pc = "test" /\ twi' = Dispatch(twi)
    /\ Goto(IF Dispatch(twi).busy THEN "wait" ELSE "close") /\ UNCHANGED seen

WaitForEvent ==
    pc = "wait" /\ Event(twi) /\ Goto("clear") /\ UNCHANGED <<twi, seen>>

\* The caller ignores what Close returns and takes its buffers away.
Close ==
    /\ pc = "close"
    /\ LET m == IF twi.buserr THEN [twi EXCEPT !.busy = FALSE, !.error = "FAIL"] ELSE twi
       IN  /\ ~m.busy
           /\ twi' = [MasterClearIrq(m) EXCEPT !.inUse = FALSE, !.reg = 0, !.data = <<0>>]
    /\ pc' = "idle" /\ call' = "NONE" /\ UNCHANGED <<dev, seen, left>>

-----------------------------------------------------------------------------
(* The TCPC and the bus.                                                    *)

Answer(m, d) == twi' = m /\ dev' = d /\ UNCHANGED <<pc, call>>
Withhold(t)  == left.nack > 0 /\ left' = [left EXCEPT !.nack = @ - 1] /\ seen' = seen \cup {t}
After(r)     == IF r + 1 < Size THEN r + 1 ELSE 0
Done(m)      == [m EXCEPT !.cmd = "NONE"]

AckWrite ==
    /\ twi.cmd = "ADR_WRITE"
    /\ Answer([Done(twi) EXCEPT !.wif = TRUE, !.rxack = FALSE], [dev EXCEPT !.first = TRUE])
    /\ UNCHANGED <<seen, left>>

AckRead ==
    /\ twi.cmd = "ADR_READ"
    /\ Answer([Done(twi) EXCEPT !.rif = TRUE, !.rxack = FALSE, !.mdata = dev.regs[dev.ptr]],
              [dev EXCEPT !.ptr = After(@)])
    /\ UNCHANGED <<seen, left>>

\* The first byte of a write is the register pointer.
AckByte ==
    /\ twi.cmd = "TX" /\ twi.own
    /\ Answer([Done(twi) EXCEPT !.wif = TRUE, !.rxack = FALSE],
              IF dev.first THEN [dev EXCEPT !.first = FALSE, !.ptr = twi.mdata]
              ELSE [dev EXCEPT !.regs[dev.ptr] = twi.mdata, !.ptr = After(@)])
    /\ UNCHANGED <<seen, left>>

\* A byte that was not acknowledged is the last one the TCPC sends.
SendByte ==
    /\ twi.cmd = "RX" /\ twi.own
    /\ \E b \in Byte :
          /\ twi.ackact = "ACK" => b = dev.regs[dev.ptr]
          /\ Answer([Done(twi) EXCEPT !.rif = TRUE, !.mdata = b], [dev EXCEPT !.ptr = After(@)])
    /\ UNCHANGED <<seen, left>>

Nack ==
    /\ \/ twi.cmd = "ADR_WRITE" /\ Withhold("ADDRESS_NACK")
       \/ twi.cmd = "ADR_READ" /\ Withhold("READ_NACK")
       \/ twi.cmd = "TX" /\ twi.own /\ Withhold("DATA_NACK")
    /\ Answer([Done(twi) EXCEPT !.wif = TRUE, !.rxack = TRUE], dev)

\* Arbitration is lost, or a start or stop is seen out of place.
BusFault ==
    /\ call # "NONE" /\ left.bus > 0
    /\ \/ twi.own /\ Answer([MasterStop(twi) EXCEPT !.wif = TRUE, !.arblost = TRUE], dev)
       \/ Answer([MasterStop(twi) EXCEPT !.wif = TRUE, !.buserr = TRUE], dev)
    /\ seen' = seen \cup {"BUS"} /\ left' = [left EXCEPT !.bus = @ - 1]

\* A transfer that waits for an event that cannot come ends with the watchdog.
Stuck == pc = "wait" /\ ~Event(twi) /\ (twi.cmd = "NONE" \/ ~twi.own)
Watchdog ==
    /\ Stuck
    /\ twi' = PowerUp /\ pc' = "idle" /\ call' = "NONE" /\ UNCHANGED <<dev, seen, left>>

-----------------------------------------------------------------------------
Init ==
    /\ twi = PowerUp /\ pc = "idle" /\ call = "NONE" /\ seen = {}
    /\ dev \in [regs : [Byte -> Byte], ptr : Byte, first : {FALSE}]
    /\ left \in Faults

Master == Open \/ MasterWrite \/ ClearIrq \/ MasterIsr \/ WaitForEvent \/ Close
Device == AckWrite \/ AckRead \/ AckByte \/ SendByte
Next == Begin \/ Master \/ Device
            \/ Nack \/ BusFault \/ Watchdog
Spec == Init /\ [][Next]_vars

-----------------------------------------------------------------------------
(* What the transfers of a block promise.                                   *)

\* Every field of I2C0_status and of the TWI0 registers keeps its type; in
\* particular data_length, a size_t that is decremented, never wraps.
I2C0_status_t == [
    inUse : BOOLEAN, busy : BOOLEAN, bufferFree : BOOLEAN, addressNACKCheck : BOOLEAN,
    state : {"IDLE", "RESET", "SEND_ADR_WRITE", "TX", "TX_EMPTY", "RX"},
    error : {"NOERR", "FAIL"}, complete : {"STOP", "CONTINUE", "RESTART_READ"},
    nack : {"STOP", "RESTART_WRITE"}, buffer : {"REG", "DATA"}, ptr : Nat, len : Nat,
    reg : Byte, data : Blocks, rif : BOOLEAN, wif : BOOLEAN, arblost : BOOLEAN,
    buserr : BOOLEAN, rxack : BOOLEAN, ackact : {"ACK", "NACK"},
    cmd : {"NONE", "ADR_READ", "ADR_WRITE", "TX", "RX"}, own : BOOLEAN, mdata : Byte ]
TypeOK ==
    /\ twi \in I2C0_status_t
    /\ dev \in [regs : [Byte -> Byte], ptr : Byte, first : BOOLEAN]
    /\ pc \in {"idle", "open", "clear", "test", "wait", "close"}
    /\ call \in {"READ", "WRITE", "NONE"}
    /\ seen \subseteq {"ADDRESS_NACK", "READ_NACK", "DATA_NACK", "BUS"}
    /\ left \in [nack : Nat, bus : Nat]

\* The handlers never take a byte from beyond a buffer, nor put one there: while
\* a transfer is in progress data_ptr and data_length end where the buffer does.
InBounds ==
    twi.busy /\ twi.state \in {"SEND_ADR_WRITE", "TX", "RX"} =>
        twi.len > 0 /\ twi.ptr + twi.len = Len(Buffer(twi)) + 1

\* The driver implements RegBus: without a fatal trouble a transfer ends when,
\* and only when, the block is in the registers (or in the buffer), a write
\* stores nothing but its bytes, and a read changes no register unless its
\* address was refused.
Bus == INSTANCE RegBus WITH
    regs <- dev.regs,
    op   <- IF call = "NONE" THEN [kind |-> "NONE"]
            ELSE [kind |-> call, reg |-> twi.reg, data |-> twi.data]
Implements == Bus!Spec

\* Every transfer ends, if need be with the watchdog: the two polling loops
\* wait for events that come, whatever went wrong before.
TransferEnds == call # "NONE" ~> call = "NONE"

\* The caller polls in a loop, the TCPC answers an address or a byte in the end,
\* and the watchdog is enabled by fuse and cleared only between transfers.
FairSpec == Spec /\ WF_vars(Master) /\ WF_vars(Device \/ Nack) /\ WF_vars(Watchdog)
=============================================================================
