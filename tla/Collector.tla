----------------------------- MODULE Collector -----------------------------
(***************************************************************************)
(* The collector: internal/collector/collector.go.                         *)
(*                                                                         *)
(* One goroutine (instructionsListener) polls the database of an external  *)
(* C-chain indexer for TeeInstructionsSent events and pushes every         *)
(* non-empty batch on the bounded channel to the router.  The state of the *)
(* indexer and its rows are read by TWO queries, and the indexer moves     *)
(* between them.  The only cursor is the local variable params: a crash or *)
(* a restart loses it, together with everything still in the channel, and  *)
(* the next life starts StartInterval blocks below the indexer's last      *)
(* block.                                                                  *)
(*                                                                         *)
(* A life is one run of the process.  Lives are counted by life, so that   *)
(* MaxLives bounds the crashes TLC explores.                               *)
(***************************************************************************)
EXTENDS Integers, Sequences

CONSTANTS Events,         \* the TeeInstructionsSent events of the chain
          BlockOf,        \* the block of each event
          MaxBlock,       \* bound: the last block of the chain
          StartInterval,  \* [collector] start_interval of the configuration
          ChanCap,        \* capacity of the channel to the router
          MaxLives        \* bound: how often the process is started

ASSUME EventsAssumption == BlockOf \in [Events -> Nat \ {0}]
ASSUME BoundsAssumption == /\ MaxBlock \in Nat
                           /\ StartInterval \in Nat
                           /\ ChanCap \in Nat \ {0}
                           /\ MaxLives \in Nat

VARIABLES
    index,      \* indexer: last block of its state row
    stored,     \* indexer: events with a row in the logs table
    pc,         \* where the collector is; "off" when the process is not running
    from, to,   \* params.From and params.To
    batch,      \* the logs of the last query, until they are on the channel
    chan,       \* cToR: a sequence of batches
    cancelled,  \* ctx has been cancelled (SIGTERM, SIGINT)
    reported,   \* last block given to health.Status
    start,      \* history: params.From of this life's first query
    startIndex, \* history: the index this life's window was computed from
    sends,      \* history: how often this life put each event on the channel
    accepted,   \* history: events the router took from the channel, in any life
    life        \* history: number of starts of the process

indexer == <<index, stored>>
history == <<start, startIndex, sends, accepted, life>>
vars == <<index, stored, pc, from, to, batch, chan, cancelled, reported,
          start, startIndex, sends, accepted, life>>

PCs == {"off", "sync", "init", "select", "state", "logs", "send", "done"}

\* The listener is past its initial query: params hold a cursor.
Listening == pc \in {"select", "state", "logs", "send", "done"}

\* Mutant of the next definition: a plausible slip, used by no action.
LogsInInclusive(lo, hi) == {e \in stored : lo <= BlockOf[e] /\ BlockOf[e] <= hi}

\* The rows FetchLogsByAddressAndTopic0BlockNumber returns for (lo, hi].
LogsIn(lo, hi) == {e \in stored : lo < BlockOf[e] /\ BlockOf[e] <= hi}

Elements(c) == UNION {c[k] : k \in DOMAIN c}
InChan == Elements(chan)

\* Mutants of the definitions below: each is a plausible slip that one of the
\* properties at the end of the module has to catch.  No action uses them.
windowStartUnclamped(i) == i - StartInterval
windowStartInclusive(i) ==
    IF i < StartInterval THEN 0 ELSE i + 1 - StartInterval
FetchStateUnreported ==
    /\ pc = "state"
    /\ to' = index
    /\ pc' = "logs"
    /\ UNCHANGED <<indexer, from, batch, chan, cancelled, reported, history>>
FetchLogsToIndex ==
    /\ pc = "logs"
    /\ batch' = LogsIn(from, to)
    /\ from' = index
    /\ pc' = IF batch' = {} THEN "select" ELSE "send"
    /\ UNCHANGED <<indexer, to, chan, cancelled, reported, history>>
FetchLogsKeepsFrom ==
    /\ pc = "logs"
    /\ batch' = LogsIn(from, to)
    /\ pc' = IF batch' = {} THEN "select" ELSE "send"
    /\ UNCHANGED <<indexer, from, to, chan, cancelled, reported, history>>
CtxDoneOnlyAtTop ==
    /\ pc = "select"
    /\ cancelled
    /\ pc' = "done"
    /\ UNCHANGED <<indexer, from, to, batch, chan, cancelled, reported, history>>
SendOrDrop ==
    /\ pc = "send"
    /\ chan' = IF Len(chan) < ChanCap THEN Append(chan, batch) ELSE chan
    /\ sends' = [e \in Events |-> sends[e] +
                   (IF Len(chan) < ChanCap /\ e \in batch THEN 1 ELSE 0)]
    /\ batch' = {}
    /\ pc' = "select"
    /\ UNCHANGED <<indexer, from, to, cancelled, reported, start, startIndex,
                   accepted, life>>

\* The exclusive lower bound of the initial scan, clamped at 0.
windowStart(i) == IF i < StartInterval THEN 0 ELSE i - StartInterval

----------------------------------------------------------------------------
(* The external indexer writes the rows of a block before its state row     *)
(* moves past that block; the two become visible separately.                *)

IndexerStore(e) ==
    /\ e \notin stored
    /\ BlockOf[e] > index
    /\ stored' = stored \cup {e}
    /\ UNCHANGED <<index, pc, from, to, batch, chan, cancelled, reported, history>>

IndexerAdvance(n) ==
    /\ n \in index + 1 .. MaxBlock
    /\ \A e \in Events : BlockOf[e] <= n => e \in stored
    /\ index' = n
    /\ UNCHANGED <<stored, pc, from, to, batch, chan, cancelled, reported, history>>

----------------------------------------------------------------------------
(* The process.                                                            *)

Start ==
    /\ pc = "off"
    /\ life < MaxLives
    /\ life' = life + 1
    /\ pc' = "sync"
    /\ from' = 0 /\ to' = 0 /\ reported' = 0
    /\ batch' = {} /\ chan' = << >>
    /\ cancelled' = FALSE
    /\ start' = 0 /\ startIndex' = 0
    /\ sends' = [e \in Events |-> 0]
    /\ UNCHANGED <<indexer, accepted>>

\* The process is killed, or one of its goroutines panics.
Crash ==
    /\ pc # "off"
    /\ pc' = "off"
    /\ batch' = {} /\ chan' = << >>
    /\ UNCHANGED <<indexer, from, to, cancelled, reported, history>>

\* A signal cancels the context the whole pipeline runs under.
Cancel ==
    /\ pc # "off"
    /\ ~cancelled
    /\ cancelled' = TRUE
    /\ UNCHANGED <<indexer, pc, from, to, batch, chan, reported, history>>

\* After the listener has returned the process ends, whatever is queued.
Exit ==
    /\ pc = "done"
    /\ cancelled
    /\ pc' = "off"
    /\ batch' = {} /\ chan' = << >>
    /\ UNCHANGED <<indexer, from, to, cancelled, reported, history>>

----------------------------------------------------------------------------
(* Collector.Run and instructionsListener.                                 *)

\* Run waits for the indexer to sync and starts the listener.
WaitSynced ==
    /\ pc = "sync"
    /\ pc' = "init"
    /\ UNCHANGED <<indexer, from, to, batch, chan, cancelled, reported, history>>

\* The wait fails (retries used up, or ctx cancelled): Run returns the error
\* and the process ends.
WaitFails ==
    /\ pc = "sync"
    /\ pc' = "off"
    /\ UNCHANGED <<indexer, from, to, batch, chan, cancelled, reported, history>>

\* The first FetchState fixes the window of this life.
FetchInitialState ==
    /\ pc = "init"
    /\ from' = windowStart(index)
    /\ to' = index
    /\ reported' = index
    /\ start' = from'
    /\ startIndex' = index
    /\ pc' = "select"
    /\ UNCHANGED <<indexer, batch, chan, cancelled, sends, accepted, life>>

\* Its failure panics, which ends the process, unless shutdown raced startup.
InitialStateFails ==
    /\ pc = "init"
    /\ pc' = IF cancelled THEN "done" ELSE "off"
    /\ UNCHANGED <<indexer, from, to, batch, chan, cancelled, reported, history>>

\* select: the ticker has fired.  With ctx done too, Go picks either branch.
Tick ==
    /\ pc = "select"
    /\ pc' = "state"
    /\ UNCHANGED <<indexer, from, to, batch, chan, cancelled, reported, history>>

\* select: ctx is done, at the top of the loop or instead of the send.
CtxDone ==
    /\ pc \in {"select", "send"}
    /\ cancelled
    /\ pc' = "done"
    /\ batch' = {}
    /\ UNCHANGED <<indexer, from, to, chan, cancelled, reported, history>>

FetchState ==
    /\ pc = "state"
    /\ to' = index
    /\ reported' = index
    /\ pc' = "logs"
    /\ UNCHANGED <<indexer, from, batch, chan, cancelled, history>>

\* The logs query succeeds: the cursor moves before the batch is sent.
FetchLogs ==
    /\ pc = "logs"
    /\ batch' = LogsIn(from, to)
    /\ from' = to
    /\ pc' = IF batch' = {} THEN "select" ELSE "send"
    /\ UNCHANGED <<indexer, to, chan, cancelled, reported, history>>

\* Either query fails: the round is given up, the cursor stays.
FetchFails ==
    /\ pc \in {"state", "logs"}
    /\ pc' = "select"
    /\ UNCHANGED <<indexer, from, to, batch, chan, cancelled, reported, history>>

\* out <- logs: blocks while the channel is full.
Send ==
    /\ pc = "send"
    /\ Len(chan) < ChanCap
    /\ chan' = Append(chan, batch)
    /\ batch' = {}
    /\ sends' = [e \in Events |-> sends[e] + (IF e \in batch THEN 1 ELSE 0)]
    /\ pc' = "select"
    /\ UNCHANGED <<indexer, from, to, cancelled, reported, start, startIndex,
                   accepted, life>>

\* The router takes a batch (router.Run).
Receive ==
    /\ pc # "off"
    /\ chan # << >>
    /\ chan' = Tail(chan)
    /\ accepted' = accepted \cup Head(chan)
    /\ UNCHANGED <<indexer, pc, from, to, batch, cancelled, reported, start,
                   startIndex, sends, life>>

----------------------------------------------------------------------------
Init ==
    /\ index \in 0 .. MaxBlock
    /\ stored = {e \in Events : BlockOf[e] <= index}
    /\ pc = "off"
    /\ from = 0 /\ to = 0 /\ reported = 0
    /\ batch = {} /\ chan = << >>
    /\ cancelled = FALSE
    /\ start = 0 /\ startIndex = 0
    /\ sends = [e \in Events |-> 0]
    /\ accepted = {}
    /\ life = 0

Indexer == \/ \E e \in Events : IndexerStore(e)
           \/ \E n \in 0 .. MaxBlock : IndexerAdvance(n)
Process == Start \/ Crash \/ Cancel \/ Exit
Listener == \/ WaitSynced \/ WaitFails \/ FetchInitialState \/ InitialStateFails
            \/ Tick \/ CtxDone \/ FetchState \/ FetchLogs \/ FetchFails \/ Send

Next == Indexer \/ Process \/ Listener \/ Receive

Spec == Init /\ [][Next]_vars

(* The indexer keeps indexing, the listener keeps running, each query is    *)
(* answered now and then (SF: it may fail any number of times in between),  *)
(* and of two ready branches of a select none is passed over for ever.      *)
Fairness ==
    /\ WF_vars(Indexer)
    /\ WF_vars(WaitSynced \/ WaitFails)
    /\ WF_vars(FetchInitialState \/ InitialStateFails)
    /\ WF_vars(Tick)
    /\ WF_vars(FetchState \/ FetchLogs \/ FetchFails)
    /\ SF_vars(FetchState)
    /\ SF_vars(FetchLogs)
    /\ SF_vars(CtxDone)
    /\ WF_vars(Send)
    /\ WF_vars(~cancelled /\ Receive)

FairSpec == Spec /\ Fairness

----------------------------------------------------------------------------
(* Properties.                                                             *)

TypeOK ==
    /\ index \in Nat
    /\ stored \in SUBSET Events
    /\ pc \in PCs
    /\ from \in Nat /\ to \in Nat /\ reported \in Nat
    /\ batch \in SUBSET Events
    /\ chan \in Seq(SUBSET Events)
    /\ cancelled \in BOOLEAN
    /\ start \in Nat /\ startIndex \in Nat
    /\ sends \in [Events -> Nat]
    /\ accepted \in SUBSET Events
    /\ life \in Nat

\* Every event of the window (start, from] is on its way exactly once: it was
\* sent once, or it is in the batch about to be sent; nothing outside the
\* window was ever sent.  No failed query, no block indexed between the two
\* queries and no row stored ahead of the state row opens a gap or repeats an
\* event (the cursor arithmetic of instructionsListener).
ExactlyOnce ==
    pc \in {"select", "state", "logs", "send"} =>
        \A e \in Events :
            sends[e] + (IF e \in batch THEN 1 ELSE 0)
              = (IF start < BlockOf[e] /\ BlockOf[e] <= from THEN 1 ELSE 0)

\* What is at or below the cursor and reached neither the router (in this life
\* or an earlier one), nor the channel, nor the listener's batch was already at
\* least StartInterval blocks below the index when this life began: crashes and
\* restarts lose no other event (README: "re-collected after restart only if
\* ... the block is still inside that window").
LossOnlyBelowWindow ==
    pc \in {"select", "state", "logs", "send"} =>
        \A e \in Events :
            \/ e \in accepted \cup InChan \cup batch
            \/ BlockOf[e] > from
            \/ BlockOf[e] + StartInterval <= startIndex

\* The cursor never passes the block the health status last heard of, nor that
\* one the indexer's state: readiness is never judged on a block older than
\* what was already collected.
CursorBehindReport ==
    Listening => from <= reported /\ reported <= index

\* Why ExactlyOnce and LossOnlyBelowWindow hold: the cursor, the window of this
\* life and what is on its way agree between any two steps of the listener.
Active == pc \in {"select", "state", "logs", "send"}
CursorOrdered == start <= from /\ from <= to /\ to = reported /\ reported <= index
WindowFixed == start = windowStart(startIndex)
SentIsHeld == \A e \in Events : sends[e] > 0 => e \in accepted \cup InChan
Idle == /\ start = 0 /\ startIndex = 0 /\ from = 0 /\ to = 0 /\ reported = 0
        /\ sends = [e \in Events |-> 0]
CursorInv ==
    /\ \A e \in Events : BlockOf[e] <= index => e \in stored
    /\ batch # {} => pc = "send"
    /\ pc \in {"sync", "init"} => Idle
    /\ Listening => from <= reported /\ reported <= index
    /\ Active => CursorOrdered /\ WindowFixed /\ SentIsHeld
    /\ ExactlyOnce

\* An event of the window reaches the channel in this life, however often the
\* queries fail, unless the life ends first.
EventuallySent ==
    \A e \in Events :
        (pc = "select" /\ start < BlockOf[e] /\ BlockOf[e] <= MaxBlock)
            ~> (sends[e] > 0 \/ cancelled \/ pc = "off")

\* After cancellation the listener returns, even when the channel is full and
\* nobody receives any more (Client.Wait depends on it).
ListenerStops == cancelled ~> (pc \in {"done", "off"})

=============================================================================
