------------------------------- MODULE Relay -------------------------------
(***************************************************************************)
(* The relay from the chain to the machines: Collector composed with       *)
(* Delivery over the channel between them (internal/client).  All of the   *)
(* pipeline is volatile: when the process ends, what the router had taken  *)
(* is lost with the channel and the cursor, also what Client.Wait does not *)
(* wait for, and the next life starts from its own window.                 *)
(***************************************************************************)
EXTENDS Collector

CONSTANTS Machines,  \* the machines each event names
          Tries,     \* requests made for one offer
          Stuck      \* events whose signer or machines may never answer

VARIABLES
    stage, open, asked   \* Delivery, of this life

\* What becomes of a request is the network's affair and not followed here.
D == INSTANCE Delivery WITH got <- {}
down == <<stage, open, asked>>
relay == <<vars, down>>

\* Everything Delivery holds is lost.  A request made before may still arrive;
\* asked begins anew as what the next life asks for.
Lost == stage' = [e \in Events |-> "none"] /\ open' = {} /\ asked' = {}

\* A step of Collector; one that ends the process ends the pipeline too.
Couple == IF pc' = "off" THEN Lost ELSE UNCHANGED down
Hand == Receive /\ D!Accept(Head(chan))
Work(e) == pc # "off" /\ D!Work(e) /\ UNCHANGED vars

RelayInit == Init /\ D!Init
RelayNext == \/ (Indexer \/ Process \/ Listener) /\ Couple
             \/ Hand
             \/ \E e \in Events : Work(e)
RelaySpec == RelayInit /\ [][RelayNext]_relay

(* Collector's fairness; the router takes batches, and the goroutines of an *)
(* event that is not stuck end (Pipeline and Retry).                       *)
Coupled(A) == A /\ Couple
Closes(e) == Work(e) /\ (stage'[e] # stage[e] \/ open' # open)
RelayFairness ==
    /\ WF_relay(Coupled(Indexer))
    /\ WF_relay(Coupled(WaitSynced \/ WaitFails))
    /\ WF_relay(Coupled(FetchInitialState \/ InitialStateFails))
    /\ WF_relay(Coupled(Tick))
    /\ WF_relay(Coupled(FetchState \/ FetchLogs \/ FetchFails))
    /\ SF_relay(Coupled(FetchState))
    /\ SF_relay(Coupled(FetchLogs))
    /\ WF_relay(Coupled(Send))
    /\ WF_relay(~cancelled /\ Hand)
    /\ \A e \in Events \ Stuck : WF_relay(Closes(e))
RelayFairSpec == RelaySpec /\ RelayFairness

----------------------------------------------------------------------------
(* Properties.                                                             *)

\* The router never takes an event twice in a life: no two goroutines sign and
\* send the same instruction, which nothing downstream of the collector would
\* notice (the cursor of instructionsListener is the only safeguard).
TakenOncePerLife == chan # << >> => \A e \in Head(chan) : stage[e] = "none"

\* End to end, an event at or below the cursor is in the hands of this life,
\* from the listener's batch to the last offer, or it was StartInterval blocks
\* below the index when this life began: crashes and shutdowns at any stage of
\* earlier lives, after the router had taken an event or while it was being
\* offered, lose no other event.
LostOnlyBelowWindow ==
    pc \in {"select", "state", "logs", "send"} =>
        \A e \in Events :
            \/ e \in InChan \cup batch
            \/ stage[e] # "none"
            \/ BlockOf[e] > from
            \/ BlockOf[e] + StartInterval <= startIndex

\* A life asks a machine about an event only if its window holds the event and
\* the event names the machine, and only once the cursor is past the block: what
\* an earlier life was about to do is not done by a later one.
AskedOnlyInWindow ==
    pc \in {"select", "state", "logs", "send"} =>
        \A r \in asked : \E e \in Events :
            /\ r[1] \in D!Offers(e)
            /\ start < BlockOf[e] /\ BlockOf[e] <= from

\* While the process runs and is not told to stop, every event of its window is
\* settled in the end, whatever queries fail and whatever other events hang.
EventuallySettled ==
    \A e \in Events \ Stuck :
        (pc = "select" /\ start < BlockOf[e] /\ BlockOf[e] <= MaxBlock)
            ~> (D!Settled(e) \/ cancelled \/ pc = "off")
=============================================================================
