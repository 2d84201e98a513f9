------------------------------- MODULE RegBus --------------------------------
(***************************************************************************)
(* What reg_read_bytes and reg_write_bytes of main.c promise the drivers    *)
(* above them: a transfer moves a block between a buffer and consecutive    *)
(* registers of the TCPC, byte by byte, and touches nothing else.           *)
(* TwiMaster, the I2C driver below them, implements this module.            *)
(***************************************************************************)
EXTENDS Naturals, Sequences

CONSTANTS
    Size,    \* number of registers, and of values of a byte
    MaxLen   \* longest block, at most Size

VARIABLES
    regs,    \* the registers of the TCPC
    op,      \* the transfer in progress: its kind, first register and buffer
    seen     \* what went wrong during it

vars == <<regs, op, seen>>

Byte     == 0 .. Size - 1
Blocks   == UNION {[1 .. n -> Byte] : n \in 1 .. MaxLen}
Op       == [kind : {"READ", "WRITE"}, reg : Byte, data : Blocks]
NoOp     == [kind |-> "NONE"]
Troubles == {"ADDRESS_NACK", "READ_NACK", "DATA_NACK", "BUS"}

\* An address that is not acknowledged is sent again; the other troubles end a
\* transfer half done, and the caller is not told.
Fatal == Troubles \ {"ADDRESS_NACK"}

Active      == op # NoOp
Wrapped(r)  == IF r < Size THEN r ELSE r - Size
Slot(k)     == Wrapped(op.reg + k - 1)
Transferred == \A k \in DOMAIN op.data : regs[Slot(k)] = op.data[k]

-----------------------------------------------------------------------------
Init == regs \in [Byte -> Byte] /\ op = NoOp /\ seen = {}

Begin == ~Active /\ op' \in Op /\ seen' = {} /\ UNCHANGED regs

Trouble == Active /\ \E t \in Troubles : seen' = seen \cup {t} /\ UNCHANGED <<regs, op>>

StoreByte ==
    /\ Active /\ op.kind = "WRITE"
    /\ \E k \in DOMAIN op.data : regs' = [regs EXCEPT ![Slot(k)] = op.data[k]]
    /\ UNCHANGED <<op, seen>>

FetchByte ==
    /\ Active /\ op.kind = "READ"
    /\ \E k \in DOMAIN op.data, b \in Byte :
          /\ b = regs[Slot(k)] \/ seen \cap Fatal # {}
          /\ op' = [op EXCEPT !.data[k] = b]
    /\ UNCHANGED <<regs, seen>>

\* After the read address was not acknowledged, the driver writes the receive
\* buffer to the device: the one way a read changes a register.
StrayByte ==
    /\ Active /\ op.kind = "READ" /\ "READ_NACK" \in seen
    /\ \E r, b \in Byte : regs' = [regs EXCEPT ![r] = b]
    /\ UNCHANGED <<op, seen>>

Finish == Active /\ (Transferred \/ seen \cap Fatal # {}) /\ op' = NoOp /\ UNCHANGED <<regs, seen>>

\* The watchdog ends a transfer that waits for an answer for too long.
Abort == Active /\ seen # {} /\ op' = NoOp /\ UNCHANGED <<regs, seen>>

Next == Begin \/ Trouble \/ StoreByte \/ FetchByte \/ StrayByte \/ Finish \/ Abort
Spec == Init /\ [][Next]_vars
=============================================================================
