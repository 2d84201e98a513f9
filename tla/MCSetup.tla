------------------------------ MODULE MCSetup ------------------------------
(***************************************************************************)
(* SupplySetup for TLC: a fixed contract and a programmable one.            *)
(***************************************************************************)
EXTENDS SupplySetup

MCDeals == {[type |-> "FIXED", mv |-> 9000, ma |-> 3000], [type |-> "APDO", mv |-> 9000, ma |-> 1000]}
=============================================================================
