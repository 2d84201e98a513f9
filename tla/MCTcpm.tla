------------------------------- MODULE MCTcpm -------------------------------
(***************************************************************************)
(* Instances of Tcpm for TLC.                                              *)
(***************************************************************************)
EXTENDS TcpmProps

\* What may be plugged in: nothing, a sink, a sink behind a powered cable, an
\* audio accessory, half of one (bouncing), and a debug accessory.
Sink        == <<"RD", "OPEN">>
CabledSink  == <<"RA", "RD">>
MCSinkLine   == {Sink}
MCPlainLines == {Nothing, Sink}
MCCableLines == {Nothing, CabledSink}
MCLines      == {Nothing, Sink, CabledSink}
MCAccLines   == {Nothing, CabledSink, <<"RA", "RA">>, <<"RA", "OPEN">>, <<"RD", "RD">>}

\* One request per PDO, and one for a PDO that does not exist.
R5   == [index |-> 1, mv |-> 5000, ma |-> 3000]
R9   == [index |-> 2, mv |-> 9000, ma |-> 3000]
RPps == [index |-> 3, mv |-> 9000, ma |-> 1000]
RBad == [index |-> 4, mv |-> 9000, ma |-> 3000]
MCRequests == {R5, R9, RPps, RBad}

\* Every message; all but the status messages no sink sends a source; one request.
MessagesOf(kinds, rdos) ==
    [kind : kinds, rdo : {NoRequest}] \cup [kind : {"REQUEST"}, rdo : rdos]
AllMessages == MessagesOf(Kinds \ {"REQUEST"}, MCRequests)
PdMessages  == MessagesOf(Kinds \ (ExtKinds \cup {"REQUEST"}), MCRequests)
ReqMessages == MessagesOf({}, {R9})
NoMessages  == {}

\* A sink without PD never acknowledges.
AnyTx == {"SUCCESS", "DISCARDED", "FAILED"}
NoTx  == {"DISCARDED", "FAILED"}

Uses(plug, message, hardReset, press, tcpc, mcu) ==
    [i \in Inputs |-> CASE i = "plug"       -> plug  [] i = "message"    -> message
                        [] i = "hard_reset" -> hardReset [] i = "press"  -> press
                        [] i = "tcpc_reset" -> tcpc  [] i = "mcu_reset"  -> mcu]
B_attach   == {Uses(2, 0, 0, 0, 0, 1), Uses(1, 0, 0, 1, 0, 0), Uses(1, 0, 0, 0, 1, 0)}
B_contract == {Uses(1, 2, 0, 0, 0, 0), Uses(0, 2, 1, 0, 0, 0), Uses(0, 1, 1, 1, 0, 0)}
B_prompt   == {Uses(1, 2, 1, 0, 0, 0), Uses(0, 3, 0, 0, 0, 0), Uses(0, 2, 0, 1, 0, 0)}
B_serve    == {Uses(2, 0, 0, 1, 0, 1), Uses(2, 0, 0, 0, 1, 0)}
B_one      == {Uses(0, 1, 0, 0, 0, 0)}
B_reset    == {Uses(0, 0, 0, 0, 0, 1)}
B_press    == {Uses(0, 0, 0, 1, 0, 0)}
B_none     == {Uses(0, 0, 0, 0, 0, 0)}

\* Memory that reads as zero, and memory that reads as anything that matters,
\* but for the pair of flags that keeps the state machine from ever starting.
ZeroHeap == [
    state |-> "INVALID_STATE", enter_state |-> "INVALID_STATE",
    prev_state |-> "INVALID_STATE", delayed_state |-> "INVALID_STATE",
    run |-> FALSE, running |-> FALSE, queued |-> FALSE, cc |-> Nothing,
    polarity |-> "CC1", attached |-> FALSE, vbus_present |-> FALSE,
    pd_capable |-> FALSE, explicit_contract |-> FALSE, hard_reset_count |-> 0,
    caps_count |-> 0, disc_cable_count |-> 0, sink_request |-> NoRequest,
    pdo_type |-> "FIXED", pdo_index |-> 0, last_pdo_index |-> 0,
    supply_voltage |-> 0, force_disable_flag |-> FALSE, bist_carrier2 |-> FALSE,
    rp |-> "OPEN", vconn |-> FALSE, pd_rx |-> FALSE, supply |-> 0 ]
MCZeroHeap == {ZeroHeap}
MCAnyHeap  ==
    {h \in {[ZeroHeap EXCEPT !.run = a, !.running = b, !.polarity = q,
                             !.hard_reset_count = n] :
              a, b \in BOOLEAN, n \in {0, NHard}, q \in {"CC1", "NONE"}} :
       h.running => h.run}
=============================================================================
