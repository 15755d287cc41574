------------------------ MODULE CollectionRefinement ------------------------
(* Collector implements Collection: the window is open from the first state *)
(* to the end of the listener, and an event is sent when its batch is on    *)
(* the channel.                                                             *)
EXTENDS Collector

Promise == INSTANCE Collection WITH
               head <- index,
               base <- IF Active THEN start ELSE -1,
               sent <- IF Active THEN sends ELSE [e \in Events |-> 0]

\* Whatever queries fail, whatever the indexer writes between two of them, and
\* whenever the process ends: each batch the listener sends completes its window
\* up to the block of some state it has read, so the router never sees an event
\* before an earlier one has been sent, nor any event twice.
KeepsCollection == Promise!Spec
=============================================================================
