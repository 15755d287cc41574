------------------------- MODULE PipelineRefinement -------------------------
(***************************************************************************)
(* Pipeline implements Delivery: a log is taken with its batch, dropped by *)
(* a filter, an error or a shutdown, and dispatched when the sender takes  *)
(* its instance; the goroutines of the sender are the open offers.         *)
(***************************************************************************)
EXTENDS Pipeline

Taken == UNION {Range(Batches[k]) : k \in 1 .. collected - Len(cToR)}
stageOf(l) ==
    IF l \notin Taken THEN "none"
    ELSE IF phase[l] \in {"ignored", "failed"} THEN "dropped"
    ELSE IF phase[l] = "emitted" /\ l \notin Range(rToS) THEN "dispatched"
    ELSE "taken"

D == INSTANCE Delivery WITH
        Events <- Logs,
        Machines <- [l \in Logs |-> Range(TeeMachines[l])],
        stage <- [l \in Logs |-> stageOf(l)],
        Tries <- MaxPosts,
        open <- {<<s[1], Tees(s[1])[s[2]]>> : s \in {t \in Slots : post[t] \in {"prepare", "post"}}},
        asked <- UNION {{<<<<msg[s].log, msg[s].machine>>, n>> : n \in 1 .. posts[s]} : s \in Slots},
        got <- {<<m.log, m.machine>> : m \in received}

\* Whatever the interleaving of router, goroutines and sender, each event is
\* handed to the sender once at most, and every machine it names then has one
\* open offer.  A machine is asked while its own offer is open, at most MaxPosts
\* times, and hears of no event it was not asked for; a request that SendToTEE
\* has given up may still arrive, but none is made after that.
KeepsDelivery == D!Spec

\* Once the goroutine of a machine is done, delivered or given up, no further
\* request is made to the machine for the event: what it still hears was posted
\* before, however the two batches, the goroutines and the sender interleave.
NoRequestAfterClose == [][D!ClosedForGood]_vars
=============================================================================
