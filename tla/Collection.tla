----------------------------- MODULE Collection -----------------------------
(***************************************************************************)
(* What the collector promises the router.  While it listens it has a      *)
(* window that begins StartInterval blocks below the head it found, or at  *)
(* the first block of a shorter chain; what it has sent is at any time     *)
(* every event of the window up to some block, each of them once.  Queries,*)
(* rounds, cursor, channel and crashes do not appear; Collector implements *)
(* this specification (see CollectionRefinement).                          *)
(***************************************************************************)
EXTENDS Integers

CONSTANTS Events,
          BlockOf,       \* the block of each event
          StartInterval

VARIABLES
    head,  \* the newest block of the chain
    base,  \* the window is of the blocks above base; Off when nobody listens
    sent   \* how often each event was sent in this window

collection == <<head, base, sent>>

Off == -1
Nothing == [e \in Events |-> 0]
Window(low, high) ==
    [e \in Events |-> IF low < BlockOf[e] /\ BlockOf[e] <= high THEN 1 ELSE 0]

Init == head \in Nat /\ base = Off /\ sent = Nothing

Grow == /\ head' \in Nat /\ head' > head
        /\ UNCHANGED <<base, sent>>

\* The least base from which at most StartInterval blocks are behind the head.
Begin == /\ base = Off
         /\ \E b \in 0 .. head :
               /\ head - b <= StartInterval
               /\ b = 0 \/ head - b = StartInterval
               /\ base' = b
         /\ UNCHANGED <<head, sent>>

\* A batch: the window is complete up to a later block.
Ship == /\ base # Off
        /\ \E h \in base .. head : sent' = Window(base, h)
        /\ \A e \in Events : sent[e] <= sent'[e]
        /\ UNCHANGED <<head, base>>

End == base # Off /\ base' = Off /\ sent' = Nothing /\ UNCHANGED head

Next == Grow \/ Begin \/ Ship \/ End

Spec == Init /\ [][Next]_collection
=============================================================================
