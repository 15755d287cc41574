---------------------------- MODULE MCCollector ----------------------------
(* Instances of Collector for TLC. *)
EXTENDS CollectionRefinement

\* Two events in one block, one in a later block.
MCEvents == {"a", "b", "c"}
MCBlockOf == [e \in MCEvents |-> CASE e = "a" -> 2 [] e = "b" -> 2 [] e = "c" -> 3]
=============================================================================
