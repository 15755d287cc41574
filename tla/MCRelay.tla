------------------------------ MODULE MCRelay ------------------------------
(* Instances of Relay for TLC: two events in one block, one of them with    *)
(* two machines, and one event in a later block.                           *)
EXTENDS Relay

MCEvents == {"a", "b", "c"}
MCBlockOf == [e \in MCEvents |-> IF e = "c" THEN 3 ELSE 2]
MCMachines == [e \in MCEvents |-> IF e = "a" THEN {"t1", "t2"} ELSE {"t1"}]
=============================================================================
