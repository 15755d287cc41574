-------------------------- MODULE LifecycleProofs --------------------------
(***************************************************************************)
(* Proofs about Lifecycle, for every tolerated lag, clock skew, channel    *)
(* capacity, batch size and number of signals.                             *)
(*                                                                         *)
(* main starts the loops in a fixed order and a loop that has been started *)
(* is never "none" again; a report copies a timestamp that is at most Skew *)
(* ahead of the clock, and the clock only goes on.                         *)
(***************************************************************************)
EXTENDS Lifecycle, TLAPS

USE LifecycleAssumption DEF LifecycleAssumption

----------------------------------------------------------------------------
(* The type invariant.                                                      *)

LEMMA TypeInit == Init => TypeOK
<1> SUFFICES ASSUME Init PROVE TypeOK
  OBVIOUS
<1>1. cancelled \in BOOLEAN /\ listening \in BOOLEAN /\ started \in BOOLEAN
  BY DEF Init
<1>2. /\ tries \in 0 .. MaxTries /\ pending \in 0 .. 1 /\ arrived \in 0 .. MaxSignals
      /\ channel \in 0 .. ChannelCap /\ todo \in 0 .. BatchSize
      /\ tries = 0 /\ tries < MaxTries
  BY DEF Init
<1>3. /\ now \in Nat /\ blockTime \in Nat /\ seen \in Nat /\ fetched \in Nat
      /\ batches \in Nat /\ handled \in Nat
  BY DEF Init
<1>4. /\ main \in MainPCs /\ collector \in {"none"}
      /\ router \in LoopPCs /\ sender \in LoopPCs /\ queues \in LoopPCs
  BY DEF Init, MainPCs, LoopPCs
<1> QED BY <1>1, <1>2, <1>3, <1>4 DEF TypeOK

LEMMA TypeStep == TypeOK /\ [Next]_vars => TypeOK'
<1> SUFFICES ASSUME TypeOK, [Next]_vars PROVE TypeOK'
  OBVIOUS
<1> USE DEF TypeOK, MainPCs, LoopPCs, Ended, loops, status, signals, world
<1>1. CASE Load
  BY <1>1 DEF Load
<1>2. CASE Listen
  <2>1. listening' \in BOOLEAN
    BY <1>2, Zenon DEF Listen
  <2>2. main' \in {"connect", "panicked"} /\ main = "listen"
    BY <1>2 DEF Listen
  <2>3. UNCHANGED <<tries, signals, cancelled, status, loops, world>>
    BY <1>2, Zenon DEF Listen
  <2>4. main' \in MainPCs /\ (main' = "connect" => tries' = 0)
    BY <2>2, <2>3
  <2> QED BY <2>1, <2>2, <2>3, <2>4
<1>3. CASE Connect
  BY <1>3 DEF Connect
<1>4. CASE Synced
  BY <1>4 DEF Synced
<1>5. CASE NotSynced
  BY <1>5 DEF NotSynced
<1>6. CASE RunRouter
  BY <1>6 DEF RunRouter
<1>7. CASE RunSender
  BY <1>7 DEF RunSender
<1>8. CASE SetStarted
  BY <1>8 DEF SetStarted
<1>9. CASE ReceiveSignal
  BY <1>9 DEF ReceiveSignal
<1>10. CASE Close
  BY <1>10 DEF Close
<1>11. CASE Exit
  BY <1>11 DEF Exit
<1>12. CASE SignalArrives
  BY <1>12 DEF SignalArrives
<1>13. CASE FetchInitialState
  BY <1>13 DEF FetchInitialState, reportState
<1>14. CASE InitialStateFails
  BY <1>14 DEF InitialStateFails
<1>15. CASE Poll
  BY <1>15 DEF Poll, reportState
<1>16. CASE Send
  BY <1>16 DEF Send
<1>17. CASE CollectorDone
  BY <1>17 DEF CollectorDone
<1>18. CASE RouterTakes
  BY <1>18 DEF RouterTakes
<1>19. CASE Handle
  BY <1>19 DEF Handle
<1>20. CASE RouterDone
  BY <1>20 DEF RouterDone
<1>21. CASE SenderDone
  BY <1>21 DEF SenderDone
<1>25. CASE QueuesDone
  BY <1>25 DEF QueuesDone
<1>22. CASE Clock
  BY <1>22 DEF Clock
<1>23. CASE IndexBlock
  BY <1>23 DEF IndexBlock
<1>24. CASE UNCHANGED vars
  BY <1>24 DEF vars
<1> QED
  BY <1>1, <1>2, <1>3, <1>4, <1>5, <1>6, <1>7, <1>8, <1>9, <1>10, <1>11, <1>12, <1>13, <1>14, <1>15, <1>16, <1>17, <1>18, <1>19, <1>20, <1>21, <1>22, <1>23, <1>24, <1>25
  DEF Next, Main, CollectorStep, RouterStep

\* Every variable keeps its type; the channel, signalChan and the retries keep
\* their bounds.
THEOREM Typing == Spec => []TypeOK
  BY TypeInit, TypeStep, PTL DEF Spec

----------------------------------------------------------------------------
(* The inductive invariant.                                                 *)

LEMMA InvInit == Init => LifecycleInv
  BY DEF Init, LifecycleInv, NoLoopAfterExit

LEMMA InvStep == TypeOK /\ LifecycleInv /\ [Next]_vars => LifecycleInv'
<1> SUFFICES ASSUME TypeOK, LifecycleInv, [Next]_vars PROVE LifecycleInv'
  OBVIOUS
<1> USE DEF TypeOK, LifecycleInv, NoLoopAfterExit, AllDone, Ended, loops, status, signals, world
<1>1. CASE Load
  BY <1>1 DEF Load
<1>2. CASE Listen
  BY <1>2 DEF Listen
<1>3. CASE Connect
  BY <1>3 DEF Connect
<1>4. CASE Synced
  BY <1>4 DEF Synced
<1>5. CASE NotSynced
  BY <1>5 DEF NotSynced
<1>6. CASE RunRouter
  BY <1>6 DEF RunRouter
<1>7. CASE RunSender
  BY <1>7 DEF RunSender
<1>8. CASE SetStarted
  BY <1>8 DEF SetStarted
<1>9. CASE ReceiveSignal
  BY <1>9 DEF ReceiveSignal
<1>10. CASE Close
  BY <1>10 DEF Close
<1>11. CASE Exit
  BY <1>11 DEF Exit
<1>12. CASE SignalArrives
  BY <1>12 DEF SignalArrives
<1>13. CASE FetchInitialState
  BY <1>13 DEF FetchInitialState, reportState
<1>14. CASE InitialStateFails
  BY <1>14 DEF InitialStateFails
<1>15. CASE Poll
  BY <1>15 DEF Poll, reportState
<1>16. CASE Send
  BY <1>16 DEF Send
<1>17. CASE CollectorDone
  BY <1>17 DEF CollectorDone
<1>18. CASE RouterTakes
  BY <1>18 DEF RouterTakes
<1>19. CASE Handle
  BY <1>19 DEF Handle
<1>20. CASE RouterDone
  BY <1>20 DEF RouterDone
<1>21. CASE SenderDone
  BY <1>21 DEF SenderDone
<1>25. CASE QueuesDone
  BY <1>25 DEF QueuesDone
<1>22. CASE Clock
  BY <1>22 DEF Clock
<1>23. CASE IndexBlock
  BY <1>23 DEF IndexBlock
<1>24. CASE UNCHANGED vars
  BY <1>24 DEF vars
<1> QED
  BY <1>1, <1>2, <1>3, <1>4, <1>5, <1>6, <1>7, <1>8, <1>9, <1>10, <1>11, <1>12, <1>13, <1>14, <1>15, <1>16, <1>17, <1>18, <1>19, <1>20, <1>21, <1>22, <1>23, <1>24, <1>25
  DEF Next, Main, CollectorStep, RouterStep

\* What main has launched when, and how the status lags behind the clock.
THEOREM Invariance == Spec => []LifecycleInv
  BY Typing, InvInit, InvStep, PTL DEF Spec

\* No probe is told that the pipeline has started before all of it has.
THEOREM StartupSound == Spec => []StartupMeansLaunched
<1>1. LifecycleInv => StartupMeansLaunched
  BY DEF LifecycleInv, StartupMeansLaunched, StartupOK, Startup
<1> QED BY <1>1, Invariance, PTL

\* /ready answers 200 only within max_indexer_lag of the last fetch of the
\* indexer's state, give or take the clocks.
THEOREM ReadySound == Spec => []ReadyMeansRecentFetch
<1>1. TypeOK /\ LifecycleInv => ReadyMeansRecentFetch
  BY DEF TypeOK, LifecycleInv, ReadyMeansRecentFetch, ReadyOK, Ready, Age
<1> QED BY <1>1, Typing, Invariance, PTL

\* main waits for the loops.
THEOREM ExitSound == Spec => []NoLoopAfterExit
<1>1. LifecycleInv => NoLoopAfterExit
  BY DEF LifecycleInv
<1> QED BY <1>1, Invariance, PTL
=============================================================================
