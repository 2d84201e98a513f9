-------------------------------- MODULE MCTwi --------------------------------
(***************************************************************************)
(* Instances of TwiMaster for TLC.                                         *)
(***************************************************************************)
EXTENDS TwiMaster

\* A block and a single register each way, at registers that overlap.
Call(kind, reg, data) == [kind |-> kind, reg |-> reg, data |-> data]
MCCalls == {Call("READ", 0, <<2, 0>>), Call("READ", 2, <<1>>),
            Call("WRITE", 1, <<2, 0>>), Call("WRITE", 0, <<1>>)}

\* Two answers withheld and a disturbed bus, apart and together.
MCFaults == {[nack |-> 2, bus |-> 0], [nack |-> 1, bus |-> 1]}
=============================================================================
