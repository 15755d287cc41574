------------------------------ MODULE Delivery -----------------------------
(***************************************************************************)
(* What router, processors and sender promise of an event once the router  *)
(* has taken it from the collector's channel (Pipeline has the detail).    *)
(* It is either dropped, by a filter, a failure or a shutdown, or handed   *)
(* once to the sender, which then has one open offer for every machine the *)
(* event names.  While its offer is open a machine is asked at most Tries  *)
(* times, and never afterwards; what it was asked may reach it at any time *)
(* later, also when the offer is closed, or never.  Every offer is closed  *)
(* on its own.                                                             *)
(***************************************************************************)
EXTENDS Naturals

CONSTANTS Events,
          Machines, \* the set of machines each event names
          Tries     \* requests made for one offer

VARIABLES
    stage,  \* "none", "taken", "dropped" or "dispatched"
    open,   \* offers being made, <<event, machine>>
    asked,  \* requests made, <<offer, number>>
    got     \* offers of which a request has reached the machine

delivery == <<stage, open, asked, got>>

Offers(e) == {e} \X Machines[e]

\* The router takes a batch.
Accept(b) ==
    /\ \A e \in b : stage[e] = "none"
    /\ stage' = [e \in Events |-> IF e \in b THEN "taken" ELSE stage[e]]
    /\ UNCHANGED <<open, asked, got>>

Drop(e) ==
    /\ stage[e] = "taken"
    /\ stage' = [stage EXCEPT ![e] = "dropped"]
    /\ UNCHANGED <<open, asked, got>>

\* The sender starts all offers of the event at once.
Dispatch(e) ==
    /\ stage[e] = "taken"
    /\ stage' = [stage EXCEPT ![e] = "dispatched"]
    /\ open' = open \cup Offers(e)
    /\ UNCHANGED <<asked, got>>

\* One more request to the machine.
Ask(o) ==
    /\ o \in open
    /\ \E n \in 1 .. Tries : <<o, n>> \notin asked /\ asked' = asked \cup {<<o, n>>}
    /\ UNCHANGED <<stage, open, got>>

\* One of them reaches it.
Arrive(o) ==
    /\ \E n \in 1 .. Tries : <<o, n>> \in asked
    /\ got' = got \cup {o}
    /\ UNCHANGED <<stage, open, asked>>

\* A receipt, or the relay gives up.
Close(o) ==
    /\ o \in open
    /\ open' = open \ {o}
    /\ UNCHANGED <<stage, asked, got>>

Init == /\ stage = [e \in Events |-> "none"]
        /\ open = {} /\ asked = {} /\ got = {}

\* What the relay does about an event, and what the network does.
Work(e) == Drop(e) \/ Dispatch(e) \/ (\E o \in Offers(e) : Ask(o) \/ Close(o))
Network(e) == \E o \in Offers(e) : Arrive(o)

Next == \/ \E b \in SUBSET Events : Accept(b)
        \/ \E e \in Events : Work(e) \/ Network(e)

Spec == Init /\ [][Next]_delivery

\* What may not happen to a machine whose offer is closed (an action): that it
\* is asked again, or hears of an event it was never asked for.
ClosedForGood ==
    \A e \in Events : \A m \in Machines[e] :
        stage[e] = "dispatched" /\ <<e, m>> \notin open
        => /\ stage'[e] = "dispatched" /\ <<e, m>> \notin open'
           /\ \A n \in 1 .. Tries :
                 <<<<e, m>>, n>> \in asked' => <<<<e, m>>, n>> \in asked
           /\ <<e, m>> \in got' \ got => \E n \in 1 .. Tries : <<<<e, m>>, n>> \in asked

\* Nothing of this life will be done about the event any more.
Settled(e) == stage[e] = "dropped" \/ (stage[e] = "dispatched" /\ open \cap Offers(e) = {})
=============================================================================
