------------------------------ MODULE Lifecycle -----------------------------
(***************************************************************************)
(* The life of the process: main (cmd/main/main.go), client.Run            *)
(* (internal/client/client.go), the loops it starts, and the status the    *)
(* probes are answered from (internal/health).                             *)
(*                                                                         *)
(* main starts everything from one goroutine, in an order that matters:    *)
(* the probes answer while it connects to the database and waits for the   *)
(* indexer, the collector is already running when the router and the       *)
(* sender are not, and a signal is looked at only after all that.  On a    *)
(* signal ctx is cancelled, the probes are refused, and main waits for the *)
(* loops, not for the instructions they have handed on.                    *)
(*                                                                         *)
(* A probe only reads: what it answers is an operator on the state.  The   *)
(* status is guarded by a mutex, so a report and a probe are atomic.       *)
(***************************************************************************)
EXTENDS Naturals

CONSTANTS HealthDisabled, \* [health] disabled
          MaxLag,         \* max_indexer_lag, at least 1
          Skew,           \* how far a block may be stamped ahead of this clock
          ChannelCap,     \* capacity of the channel from collector to router
          BatchSize,      \* logs in one batch
          MaxTries,       \* retries of the sync wait
          MaxTime,        \* bound on the clock
          MaxBatches,     \* bound on the batches the collector finds
          MaxSignals      \* bound on the signals that arrive

ASSUME LifecycleAssumption ==
    /\ HealthDisabled \in BOOLEAN
    /\ MaxLag \in Nat \ {0} /\ Skew \in Nat
    /\ ChannelCap \in Nat \ {0} /\ BatchSize \in Nat \ {0}
    /\ MaxTries \in Nat \ {0} /\ MaxTime \in Nat
    /\ MaxBatches \in Nat /\ MaxSignals \in Nat

VARIABLES
    main,      \* where main is
    tries,     \* attempts of the sync wait
    pending,   \* signals in signalChan, which has room for one
    arrived,   \* signals that arrived
    cancelled, \* ctx has been cancelled
    listening, \* the health server accepts probes
    started,   \* Status: SetStarted has been called
    seen,      \* Status: timestamp of the last reported block, 0 if none
    collector, \* the collector's loop
    router,    \* the router's loop
    sender,    \* the sender's loop
    queues,    \* the goroutines of the FDC queues, all together
    channel,   \* batches in the channel from collector to router
    todo,      \* logs left of the batch the router is in
    now,       \* this machine's clock
    blockTime, \* timestamp of the indexer's last block
    batches,   \* batches found so far
    handled,   \* logs the router has handled so far
    fetched    \* when the indexer's state was last fetched

vars == <<main, tries, pending, arrived, cancelled, listening, started, seen,
          collector, router, sender, queues, channel, todo, now, blockTime,
          batches, handled, fetched>>
world == <<now, blockTime>>
status == <<started, seen, fetched>>
loops == <<collector, router, sender, queues, channel, todo, batches, handled>>
signals == <<pending, arrived>>

MainPCs == {"load", "listen", "connect", "sync", "router", "sender", "started",
            "wait", "close", "drain", "exited", "panicked", "killed"}
Ended == {"exited", "panicked", "killed"}
LoopPCs == {"none", "run", "done"}

----------------------------------------------------------------------------
(* Health.                                                                 *)

\* Status.Startup and Status.Ready answer nil.
Startup == started
Age == IF now > seen THEN now - seen ELSE 0
\* Mutant of the next definition: a plausible slip, used by no action.
ReadyIgnoresAge == started /\ seen # 0
Ready == started /\ seen # 0 /\ Age <= MaxLag

\* GET /startup and GET /ready answer 200.
StartupOK == listening /\ Startup
ReadyOK == listening /\ Ready

\* Mutants of the actions below: each is a plausible slip that one of
\* the properties at the end has to catch.  No action uses them.
RunRouterSetsStarted ==
    /\ main = "router"
    /\ router' = "run" /\ queues' = "run"
    /\ started' = TRUE
    /\ main' = "sender"
    /\ UNCHANGED <<tries, signals, cancelled, listening, seen, fetched, collector,
                   sender, channel, todo, batches, handled, world>>
NotifyUnbuffered ==
    /\ main \notin Ended
    /\ arrived < MaxSignals
    /\ arrived' = arrived + 1
    /\ main' = IF main = "load" THEN "killed" ELSE main
    /\ pending' = IF main = "wait" THEN 1 ELSE pending
    /\ UNCHANGED <<tries, cancelled, listening, status, loops, world>>
CloseAndExit ==
    /\ main = "close"
    /\ listening' = FALSE
    /\ main' = "exited"
    /\ UNCHANGED <<tries, signals, cancelled, status, loops, world>>
SendUnbounded ==
    /\ main \notin Ended
    /\ collector = "send"
    /\ channel' = channel + 1
    /\ collector' = "tick"
    /\ UNCHANGED <<main, tries, signals, cancelled, listening, status, router,
                   sender, queues, todo, batches, handled, world>>

----------------------------------------------------------------------------
(* main, up to the pipeline.                                               *)

\* The configuration is read, overridden and checked, then signals are
\* directed to signalChan.
Load ==
    /\ main = "load"
    /\ main' \in {"listen", "panicked"}
    /\ UNCHANGED <<tries, signals, cancelled, listening, status, loops, world>>

\* A port that is taken fails the startup here.
Listen ==
    /\ main = "listen"
    /\ \/ /\ main' = "connect"
          /\ listening' = ~HealthDisabled
       \/ /\ main' = "panicked"
          /\ ~HealthDisabled
          /\ UNCHANGED listening
    /\ UNCHANGED <<tries, signals, cancelled, status, loops, world>>

\* client.New: database, signer, queues.
Connect ==
    /\ main = "connect"
    /\ main' \in {"sync", "panicked"}
    /\ UNCHANGED <<tries, signals, cancelled, listening, status, loops, world>>

\* collector.Run: the indexer is in sync, and the collector starts.
Synced ==
    /\ main = "sync"
    /\ collector' = "initial"
    /\ main' = "router"
    /\ UNCHANGED <<tries, signals, cancelled, listening, status, router, sender,
                   queues, channel, todo, batches, handled, world>>

\* It is not: another try, or the last one has failed.
NotSynced ==
    /\ main = "sync"
    /\ tries' = tries + 1
    /\ main' = IF tries + 1 < MaxTries THEN "sync" ELSE "panicked"
    /\ UNCHANGED <<signals, cancelled, listening, status, loops, world>>

RunRouter ==
    /\ main = "router"
    /\ router' = "run" /\ queues' = "run"
    /\ main' = "sender"
    /\ UNCHANGED <<tries, signals, cancelled, listening, status, collector, sender,
                   channel, todo, batches, handled, world>>

RunSender ==
    /\ main = "sender"
    /\ sender' = "run"
    /\ main' = "started"
    /\ UNCHANGED <<tries, signals, cancelled, listening, status, collector, router,
                   queues, channel, todo, batches, handled, world>>

SetStarted ==
    /\ main = "started"
    /\ started' = ~HealthDisabled
    /\ main' = "wait"
    /\ UNCHANGED <<tries, signals, cancelled, listening, seen, fetched, loops, world>>

----------------------------------------------------------------------------
(* Shutdown.                                                               *)

\* A signal kills the process until it is directed to signalChan; after that
\* it waits there, and a second one is dropped.
SignalArrives ==
    /\ main \notin Ended
    /\ arrived < MaxSignals
    /\ arrived' = arrived + 1
    /\ main' = IF main = "load" THEN "killed" ELSE main
    /\ pending' = IF main = "load" THEN pending ELSE 1
    /\ UNCHANGED <<tries, cancelled, listening, status, loops, world>>

ReceiveSignal ==
    /\ main = "wait"
    /\ pending = 1
    /\ pending' = 0
    /\ cancelled' = TRUE
    /\ main' = "close"
    /\ UNCHANGED <<tries, arrived, listening, status, loops, world>>

\* hs.Close returns, after at most healthShutdownTimeout.
Close ==
    /\ main = "close"
    /\ listening' = FALSE
    /\ main' = "drain"
    /\ UNCHANGED <<tries, signals, cancelled, status, loops, world>>

AllDone == collector = "done" /\ router = "done" /\ sender = "done" /\ queues = "done"

\* cl.Wait returns when every loop has.
Exit ==
    /\ main = "drain"
    /\ AllDone
    /\ main' = "exited"
    /\ UNCHANGED <<tries, signals, cancelled, listening, status, loops, world>>

----------------------------------------------------------------------------
(* The loops.                                                              *)

reportState ==
    /\ seen' = IF HealthDisabled THEN seen ELSE blockTime
    /\ fetched' = now

FetchInitialState ==
    /\ main \notin Ended
    /\ collector = "initial"
    /\ reportState
    /\ collector' = "tick"
    /\ UNCHANGED <<main, tries, signals, cancelled, listening, started, router,
                   sender, queues, channel, todo, batches, handled, world>>

\* The initial query fails: at shutdown the loop ends, else the process does.
InitialStateFails ==
    /\ main \notin Ended
    /\ collector = "initial"
    /\ IF cancelled THEN collector' = "done" /\ UNCHANGED main
                    ELSE main' = "panicked" /\ UNCHANGED collector
    /\ UNCHANGED <<tries, signals, cancelled, listening, status, router, sender,
                   queues, channel, todo, batches, handled, world>>

\* The state is fetched and reported; the query of the logs then fails, finds
\* none, or finds a batch.  A failing query of the state changes nothing.
Poll ==
    /\ main \notin Ended
    /\ collector = "tick"
    /\ reportState
    /\ \/ UNCHANGED <<collector, batches>>
       \/ /\ batches < MaxBatches
          /\ batches' = batches + 1
          /\ collector' = "send"
    /\ UNCHANGED <<main, tries, signals, cancelled, listening, started, router,
                   sender, queues, channel, todo, handled, world>>

Send ==
    /\ main \notin Ended
    /\ collector = "send"
    /\ channel < ChannelCap
    /\ channel' = channel + 1
    /\ collector' = "tick"
    /\ UNCHANGED <<main, tries, signals, cancelled, listening, status, router,
                   sender, queues, todo, batches, handled, world>>

CollectorDone ==
    /\ main \notin Ended
    /\ collector \in {"tick", "send"}
    /\ cancelled
    /\ collector' = "done"
    /\ UNCHANGED <<main, tries, signals, cancelled, listening, status, router,
                   sender, queues, channel, todo, batches, handled, world>>

\* select takes a batch although ctx may be done as well.
RouterTakes ==
    /\ main \notin Ended
    /\ router = "run" /\ todo = 0
    /\ channel > 0
    /\ channel' = channel - 1
    /\ todo' = BatchSize
    /\ UNCHANGED <<main, tries, signals, cancelled, listening, status, collector,
                   router, sender, queues, batches, handled, world>>

Handle ==
    /\ main \notin Ended
    /\ todo > 0
    /\ todo' = todo - 1
    /\ handled' = handled + 1
    /\ UNCHANGED <<main, tries, signals, cancelled, listening, status, collector,
                   router, sender, queues, channel, batches, world>>

RouterDone ==
    /\ main \notin Ended
    /\ router = "run" /\ todo = 0
    /\ cancelled
    /\ router' = "done"
    /\ UNCHANGED <<main, tries, signals, cancelled, listening, status, collector,
                   sender, queues, channel, todo, batches, handled, world>>

SenderDone ==
    /\ main \notin Ended
    /\ sender = "run"
    /\ cancelled
    /\ sender' = "done"
    /\ UNCHANGED <<main, tries, signals, cancelled, listening, status, collector,
                   router, queues, channel, todo, batches, handled, world>>

\* The queue stops handing out instructions; its waits observe ctx.
QueuesDone ==
    /\ main \notin Ended
    /\ queues = "run"
    /\ cancelled
    /\ queues' = "done"
    /\ UNCHANGED <<main, tries, signals, cancelled, listening, status, collector,
                   router, sender, channel, todo, batches, handled, world>>

----------------------------------------------------------------------------
(* The world: the clock, and the indexer storing blocks.                   *)

Clock ==
    /\ now < MaxTime
    /\ now' = now + 1
    /\ UNCHANGED <<main, tries, signals, cancelled, listening, status, loops, blockTime>>

IndexBlock ==
    /\ blockTime' \in (blockTime + 1) .. (now + Skew)
    /\ UNCHANGED <<main, tries, signals, cancelled, listening, status, loops, now>>

----------------------------------------------------------------------------
Init ==
    /\ main = "load" /\ tries = 0
    /\ pending = 0 /\ arrived = 0 /\ cancelled = FALSE
    /\ listening = FALSE /\ started = FALSE /\ seen = 0
    /\ collector = "none" /\ router = "none" /\ sender = "none"
    /\ queues = "none"
    /\ channel = 0 /\ todo = 0
    /\ now = 1 /\ blockTime = 1
    /\ batches = 0 /\ handled = 0 /\ fetched = 0

Main == \/ Load \/ Listen \/ Connect \/ Synced \/ NotSynced
        \/ RunRouter \/ RunSender \/ SetStarted
        \/ ReceiveSignal \/ Close \/ Exit
CollectorStep == FetchInitialState \/ InitialStateFails \/ Poll \/ Send \/ CollectorDone
RouterStep == RouterTakes \/ Handle \/ RouterDone

Next == Main \/ SignalArrives \/ CollectorStep \/ RouterStep \/ SenderDone \/ QueuesDone
        \/ Clock \/ IndexBlock

Spec == Init /\ [][Next]_vars

\* Goroutines are scheduled, every wait of main before the signal is bounded
\* by timeouts and retries, queries return, and select does not for ever
\* prefer another branch to ctx.Done.
FairSpec ==
    /\ Spec
    /\ WF_vars(Main) /\ WF_vars(CollectorStep) /\ WF_vars(RouterStep)
    /\ SF_vars(CollectorDone) /\ SF_vars(RouterDone)
    /\ WF_vars(SenderDone) /\ WF_vars(QueuesDone)

----------------------------------------------------------------------------
(* Properties.                                                             *)

TypeOK ==
    /\ main \in MainPCs
    /\ tries \in 0 .. MaxTries
    /\ main \in {"load", "listen", "connect"} => tries = 0
    /\ main = "sync" => tries < MaxTries
    /\ pending \in 0 .. 1 /\ arrived \in 0 .. MaxSignals
    /\ cancelled \in BOOLEAN /\ listening \in BOOLEAN /\ started \in BOOLEAN
    /\ collector \in {"none", "initial", "tick", "send", "done"}
    /\ router \in LoopPCs /\ sender \in LoopPCs /\ queues \in LoopPCs
    /\ channel \in 0 .. ChannelCap /\ todo \in 0 .. BatchSize
    /\ now \in Nat /\ blockTime \in Nat /\ seen \in Nat /\ fetched \in Nat
    /\ batches \in Nat /\ handled \in Nat

\* /startup answers 200 only when collector, router and sender have all been
\* started, although the collector is running and reporting before the others.
StartupMeansLaunched ==
    StartupOK => collector # "none" /\ router # "none" /\ sender # "none"
                 /\ queues # "none"

\* /ready answers 200 only if the relay has talked to the indexer recently:
\* a stalled indexer, an unreachable database and a collector loop that hangs,
\* also on its full channel, all show within max_indexer_lag, give or take
\* the clocks.
ReadyMeansRecentFetch == ReadyOK => now - fetched <= MaxLag + Skew

\* main is gone only after the loops have returned: none of them runs on.
NoLoopAfterExit ==
    main = "exited" => collector = "done" /\ router = "done" /\ sender = "done"
                       /\ queues = "done"

\* The inductive invariant behind the three: what main has launched when, and
\* how far the timestamps in the status can be from the clock.
LifecycleInv ==
    /\ blockTime <= now + Skew /\ fetched <= now /\ seen <= fetched + Skew
    /\ main \in {"router", "sender", "started", "wait", "close", "drain", "exited"} =>
          collector # "none"
    /\ main \in {"sender", "started", "wait", "close", "drain", "exited"} =>
          router # "none" /\ queues # "none"
    /\ main \in {"started", "wait", "close", "drain", "exited"} => sender # "none"
    /\ started => collector # "none" /\ router # "none" /\ sender # "none"
                  /\ queues # "none"
    /\ NoLoopAfterExit

\* What the comment at the closing of the health server says: the probes are
\* refused while the pipeline drains, and nothing is being routed.
NothingRoutedWhileDraining == [][main = "drain" => handled' = handled]_vars

\* A signal that arrives at any time, also in the middle of the start, ends
\* the process in the end, and more signals do no harm.
SignalEndsProcess == arrived > 0 ~> main \in Ended
=============================================================================
