---------------------------- MODULE RelayProofs -----------------------------
(***************************************************************************)
(* Proofs about Collector, that it implements Collection, and about Relay, *)
(* for every set of events, chain, start_interval, channel capacity and    *)
(* number of restarts.  What Collector guarantees is taken over for Relay, *)
(* as every step of Relay is one of Collector or leaves it alone.          *)
(***************************************************************************)
EXTENDS Relay, CollectionRefinement, TLAPS

USE EventsAssumption, BoundsAssumption DEF EventsAssumption, BoundsAssumption

(* windowStart is a block number, at most StartInterval below the index.   *)
LEMMA WindowStartBounds ==
    ASSUME NEW i \in Nat
    PROVE  /\ windowStart(i) \in Nat
           /\ windowStart(i) <= i
           /\ \A b \in Nat \ {0} : b <= windowStart(i) => b + StartInterval <= i
  BY DEF windowStart

(* The variables keep their types: the cursor never becomes negative, and   *)
(* what is on the channel are sets of events.                               *)
THEOREM Typing == Spec => []TypeOK
<1>1. Init => TypeOK
  <2> SUFFICES ASSUME Init PROVE TypeOK
    OBVIOUS
  <2>1. cancelled \in BOOLEAN
    BY DEF Init
  <2>2. chan \in Seq(SUBSET Events)
    BY DEF Init
  <2> QED BY <2>1, <2>2 DEF Init, TypeOK, PCs
<1>2. TypeOK /\ [Next]_vars => TypeOK'
  <2> SUFFICES ASSUME TypeOK, [Next]_vars PROVE TypeOK'
    OBVIOUS
  <2> USE DEF TypeOK, PCs, indexer, history
  <2>1. CASE Indexer
    BY <2>1 DEF Indexer, IndexerStore, IndexerAdvance
  <2>2. CASE Start
    <3>1. cancelled' \in BOOLEAN
      BY <2>2 DEF Start
    <3>2. chan' \in Seq(SUBSET Events)
      BY <2>2 DEF Start
    <3> QED BY <2>2, <3>1, <3>2 DEF Start
  <2>3. CASE Crash
    <3>1. cancelled' \in BOOLEAN
      BY <2>3 DEF Crash
    <3>2. chan' \in Seq(SUBSET Events)
      BY <2>3 DEF Crash
    <3> QED BY <2>3, <3>1, <3>2 DEF Crash
  <2>10. CASE Cancel
    <3>1. cancelled' \in BOOLEAN
      BY <2>10 DEF Cancel
    <3>2. chan' \in Seq(SUBSET Events)
      BY <2>10 DEF Cancel
    <3> QED BY <2>10, <3>1, <3>2 DEF Cancel
  <2>11. CASE Exit
    <3>1. cancelled' \in BOOLEAN
      BY <2>11 DEF Exit
    <3>2. chan' \in Seq(SUBSET Events)
      BY <2>11 DEF Exit
    <3> QED BY <2>11, <3>1, <3>2 DEF Exit
  <2>4. CASE WaitSynced \/ WaitFails \/ InitialStateFails \/ Tick \/ CtxDone \/ FetchFails
    BY <2>4 DEF WaitSynced, WaitFails, InitialStateFails, Tick, CtxDone, FetchFails
  <2>5. CASE FetchInitialState
    BY <2>5, WindowStartBounds DEF FetchInitialState
  <2>6. CASE FetchState \/ FetchLogs
    BY <2>6 DEF FetchState, FetchLogs, LogsIn
  <2>7. CASE Send
    <3>1. chan' \in Seq(SUBSET Events)
      BY <2>7 DEF Send
    <3>2. sends' \in [Events -> Nat]
      BY <2>7 DEF Send
    <3> QED BY <2>7, <3>1, <3>2 DEF Send
  <2>8. CASE Receive
    <3>1. Head(chan) \in SUBSET Events /\ Tail(chan) \in Seq(SUBSET Events)
      BY <2>8 DEF Receive
    <3> QED BY <2>8, <3>1 DEF Receive
  <2>9. CASE UNCHANGED vars
    BY <2>9 DEF vars
  <2> QED
    BY <2>1, <2>2, <2>3, <2>4, <2>5, <2>6, <2>7, <2>8, <2>9, <2>10, <2>11
    DEF Next, Process, Listener
<1> QED BY <1>1, <1>2, PTL DEF Spec

----------------------------------------------------------------------------
(* What a channel operation does to the events on the channel.             *)
LEMMA ElementsAppend ==
    ASSUME NEW c \in Seq(SUBSET Events), NEW b \in SUBSET Events
    PROVE  Elements(Append(c, b)) = Elements(c) \cup b
<1>1. ASSUME NEW e PROVE e \in Elements(Append(c, b)) => e \in Elements(c) \cup b
  BY DEF Elements
<1>2. ASSUME NEW e \in Elements(c) PROVE e \in Elements(Append(c, b))
  <2>1. PICK k \in DOMAIN c : e \in c[k]
    BY DEF Elements
  <2>2. k \in DOMAIN Append(c, b) /\ Append(c, b)[k] = c[k]
    BY <2>1
  <2> QED BY <2>1, <2>2 DEF Elements
<1>3. ASSUME NEW e \in b PROVE e \in Elements(Append(c, b))
  <2>1. /\ Len(c) + 1 \in DOMAIN Append(c, b)
        /\ Append(c, b)[Len(c) + 1] = b
    OBVIOUS
  <2> QED BY <2>1, <1>3 DEF Elements
<1> QED BY <1>1, <1>2, <1>3

LEMMA ElementsTail ==
    ASSUME NEW c \in Seq(SUBSET Events), c # << >>
    PROVE  Elements(c) = Head(c) \cup Elements(Tail(c))
<1>1. ASSUME NEW e \in Elements(c) PROVE e \in Head(c) \cup Elements(Tail(c))
  <2>1. PICK k \in DOMAIN c : e \in c[k]
    BY DEF Elements
  <2>2. CASE k = 1
    BY <2>1, <2>2
  <2>3. CASE k # 1
    <3>1. k - 1 \in DOMAIN Tail(c) /\ Tail(c)[k - 1] = c[k]
      BY <2>1, <2>3
    <3> QED BY <2>1, <3>1 DEF Elements
  <2> QED BY <2>2, <2>3
<1>2. ASSUME NEW e \in Head(c) PROVE e \in Elements(c)
  <2>1. 1 \in DOMAIN c /\ c[1] = Head(c)
    OBVIOUS
  <2> QED BY <1>2, <2>1 DEF Elements
<1>3. ASSUME NEW e \in Elements(Tail(c)) PROVE e \in Elements(c)
  <2>1. PICK k \in DOMAIN Tail(c) : e \in Tail(c)[k]
    BY DEF Elements
  <2>2. k + 1 \in DOMAIN c /\ c[k + 1] = Tail(c)[k]
    BY <2>1
  <2> QED BY <2>1, <2>2 DEF Elements
<1> QED BY <1>1, <1>2, <1>3

----------------------------------------------------------------------------
(* The invariant holds at the start and is kept by every step.             *)
LEMMA InitCursorInv == Init => CursorInv
  BY DEF Init, CursorInv, Listening, Active, ExactlyOnce

(* The steps of the indexer: rows come before the state row that covers     *)
(* them, and nothing of the process changes.                                *)
LEMMA IndexerCursorInv ==
    ASSUME TypeOK, CursorInv, Indexer
    PROVE  CursorInv'
<1> USE DEF TypeOK, CursorInv, indexer, history, Idle, Listening, Active,
            CursorOrdered, WindowFixed, SentIsHeld, ExactlyOnce, InChan
<1>1. CASE \E e \in Events : IndexerStore(e)
  BY <1>1 DEF IndexerStore
<1>2. CASE \E n \in 0 .. MaxBlock : IndexerAdvance(n)
  BY <1>2 DEF IndexerAdvance
<1> QED BY <1>1, <1>2 DEF Indexer

(* The logs query moves the window and the batch together.                  *)
LEMMA FetchLogsCursorInv ==
    ASSUME TypeOK, CursorInv, FetchLogs
    PROVE  CursorInv'
<1> USE DEF TypeOK, indexer, history
<1>1. /\ batch' = LogsIn(from, to) /\ from' = to /\ pc' \in {"select", "send"}
      /\ batch' # {} => pc' = "send"
      /\ UNCHANGED <<index, stored, to, chan, cancelled, reported, start, startIndex,
                     sends, accepted, life>>
  BY DEF FetchLogs
<1>2. CursorOrdered /\ WindowFixed /\ SentIsHeld /\ batch = {}
  BY DEF CursorInv, Active, FetchLogs
<1>3. CursorOrdered' /\ WindowFixed' /\ SentIsHeld'
  BY <1>1, <1>2 DEF CursorOrdered, WindowFixed, SentIsHeld, InChan, windowStart
<1>4. ExactlyOnce'
  <2> SUFFICES ASSUME NEW e \in Events
               PROVE  sends[e] + (IF e \in batch' THEN 1 ELSE 0)
                       = (IF start < BlockOf[e] /\ BlockOf[e] <= to THEN 1 ELSE 0)
    BY <1>1 DEF ExactlyOnce
  <2>1. sends[e] = (IF start < BlockOf[e] /\ BlockOf[e] <= from THEN 1 ELSE 0)
    BY <1>2 DEF CursorInv, ExactlyOnce, FetchLogs
  <2>2. e \in batch' <=> from < BlockOf[e] /\ BlockOf[e] <= to
    BY <1>1, <1>2 DEF LogsIn, CursorInv, CursorOrdered
  <2> QED BY <2>1, <2>2, <1>2 DEF CursorOrdered
<1>5. from' <= reported' /\ reported' <= index'
  BY <1>3 DEF CursorOrdered
<1> QED BY <1>1, <1>3, <1>4, <1>5 DEF CursorInv, Listening, Active

(* The send moves the batch to the channel, nothing else.                   *)
LEMMA SendCursorInv ==
    ASSUME TypeOK, CursorInv, Send
    PROVE  CursorInv'
<1> USE DEF TypeOK, indexer, history
<1>1. /\ pc = "send" /\ pc' = "select" /\ batch' = {}
      /\ chan' = Append(chan, batch)
      /\ sends' = [e \in Events |-> sends[e] + (IF e \in batch THEN 1 ELSE 0)]
      /\ UNCHANGED <<index, stored, from, to, cancelled, reported, start, startIndex,
                     accepted, life>>
  BY DEF Send
<1>2. CursorOrdered' /\ WindowFixed'
  BY <1>1 DEF CursorInv, Active, CursorOrdered, WindowFixed, windowStart
<1>3. SentIsHeld'
  <2>1. InChan' = InChan \cup batch
    BY <1>1, ElementsAppend DEF InChan
  <2>2. SentIsHeld
    BY <1>1 DEF CursorInv, Active
  <2> QED BY <1>1, <2>1, <2>2 DEF SentIsHeld
<1>4. ExactlyOnce'
  BY <1>1 DEF CursorInv, ExactlyOnce
<1> QED BY <1>1, <1>2, <1>3, <1>4 DEF CursorInv, CursorOrdered, Listening, Active

(* Receiving moves the head of the channel to the router.                   *)
LEMMA ReceiveCursorInv ==
    ASSUME TypeOK, CursorInv, Receive
    PROVE  CursorInv'
<1> USE DEF TypeOK, indexer, history
<1>1. accepted' \cup InChan' = accepted \cup InChan
  BY ElementsTail DEF Receive, InChan
<1>2. UNCHANGED <<index, stored, pc, from, to, batch, cancelled, reported, start,
                  startIndex, sends, life>>
  BY DEF Receive
<1>3. SentIsHeld => SentIsHeld'
  BY <1>1, <1>2 DEF SentIsHeld
<1> QED BY <1>2, <1>3 DEF CursorInv, CursorOrdered, WindowFixed, Listening, Active,
                          ExactlyOnce, Idle, windowStart

(* The other steps of the process and of the listener.                      *)
LEMMA OtherCursorInv ==
    ASSUME TypeOK, CursorInv,
           Process \/ (Listener /\ ~FetchLogs /\ ~Send) \/ UNCHANGED vars
    PROVE  CursorInv'
<1> USE DEF TypeOK, CursorInv, indexer, history, Idle, Listening, Active,
            CursorOrdered, WindowFixed, SentIsHeld, ExactlyOnce, InChan
<1>1. CASE Start
  BY <1>1 DEF Start
<1>2. CASE Crash \/ Cancel \/ Exit
  BY <1>2 DEF Crash, Cancel, Exit
<1>3. CASE WaitSynced \/ WaitFails \/ InitialStateFails
  BY <1>3 DEF WaitSynced, WaitFails, InitialStateFails
<1>4. CASE FetchInitialState
  BY <1>4, WindowStartBounds DEF FetchInitialState
<1>5. CASE Tick \/ CtxDone \/ FetchFails
  BY <1>5 DEF Tick, CtxDone, FetchFails
<1>6. CASE FetchState
  BY <1>6 DEF FetchState
<1>7. CASE UNCHANGED vars
  BY <1>7 DEF vars
<1> QED BY <1>1, <1>2, <1>3, <1>4, <1>5, <1>6, <1>7 DEF Process, Listener

(* The inductive invariant of the cursor.                                   *)
THEOREM CursorInvariant == Spec => []CursorInv
<1>1. TypeOK /\ CursorInv /\ [Next]_vars => CursorInv'
  BY IndexerCursorInv, FetchLogsCursorInv, SendCursorInv, ReceiveCursorInv,
     OtherCursorInv DEF Next, Listener
<1> QED BY <1>1, InitCursorInv, Typing, PTL DEF Spec

(* Every event of the window goes to the router exactly once per life.      *)
THEOREM ExactlyOncePerLife == Spec => []ExactlyOnce
<1>1. CursorInv => ExactlyOnce
  BY DEF CursorInv
<1> QED BY <1>1, CursorInvariant, PTL

(* Crashes, restarts and shutdowns lose no event but those below the window *)
(* of the next life.                                                        *)
THEOREM LossBounded == Spec => []LossOnlyBelowWindow
<1>1. TypeOK /\ CursorInv => LossOnlyBelowWindow
  <2> SUFFICES ASSUME TypeOK, CursorInv, Active, NEW e \in Events,
                      e \notin accepted \cup InChan \cup batch, ~(BlockOf[e] > from)
               PROVE  BlockOf[e] + StartInterval <= startIndex
    BY DEF LossOnlyBelowWindow, Active
  <2>1. /\ sends[e] \in Nat /\ start \in Nat /\ from \in Nat
        /\ startIndex \in Nat /\ BlockOf[e] \in Nat \ {0}
    BY DEF TypeOK
  <2>2. ~(sends[e] > 0)
    BY DEF CursorInv, SentIsHeld
  <2>3. sends[e] + 0 = (IF start < BlockOf[e] /\ BlockOf[e] <= from THEN 1 ELSE 0)
    BY DEF CursorInv, ExactlyOnce, Active
  <2>4. BlockOf[e] <= windowStart(startIndex)
    BY <2>1, <2>2, <2>3 DEF CursorInv, WindowFixed
  <2> QED BY <2>1, <2>4, WindowStartBounds
<1> QED BY <1>1, Typing, CursorInvariant, PTL

(* The cursor never passes what the health status was told.                 *)
THEOREM CursorReported == Spec => []CursorBehindReport
<1>1. CursorInv => CursorBehindReport
  BY DEF CursorInv, CursorBehindReport
<1> QED BY <1>1, CursorInvariant, PTL

----------------------------------------------------------------------------
(* Collector implements Collection.                                        *)

\* No window is open, nothing is sent.
LEMMA ImplementsInit == Init => Promise!Init
  BY DEF Init, Active, Promise!Init, Promise!Off, Promise!Nothing

\* The listener reads the first state: the window begins where windowStart says.
LEMMA ImplementsBegin ==
    ASSUME TypeOK, CursorInv, FetchInitialState
    PROVE  Promise!Begin
<1>1. /\ pc = "init" /\ pc' = "select" /\ start' = windowStart(index)
      /\ UNCHANGED <<index, sends>> /\ index \in Nat
  BY DEF FetchInitialState, indexer, TypeOK
<1>2. sends = [e \in Events |-> 0]
  BY <1>1 DEF CursorInv, Idle
<1>3. /\ windowStart(index) \in 0 .. index
      /\ index - windowStart(index) <= StartInterval
      /\ windowStart(index) = 0 \/ index - windowStart(index) = StartInterval
  BY <1>1 DEF windowStart
<1> QED BY <1>1, <1>2, <1>3 DEF Active, Promise!Begin, Promise!Off

\* A batch on the channel: ExactlyOnce before the send says what was missing.
LEMMA ImplementsShip ==
    ASSUME TypeOK, CursorInv, Send
    PROVE  Promise!Ship
<1>1. /\ pc = "send" /\ pc' = "select" /\ UNCHANGED <<index, start, from>>
      /\ sends' = [e \in Events |-> sends[e] + (IF e \in batch THEN 1 ELSE 0)]
      /\ sends \in [Events -> Nat] /\ start \in Nat /\ from \in Nat /\ index \in Nat
  BY DEF Send, indexer, TypeOK
<1>2. from \in start .. index
  BY <1>1 DEF CursorInv, Active, CursorOrdered, TypeOK
<1>3. sends' = [e \in Events |-> IF start < BlockOf[e] /\ BlockOf[e] <= from THEN 1 ELSE 0]
  BY <1>1 DEF CursorInv, ExactlyOnce
<1>4. \A e \in Events : sends[e] <= sends'[e]
  BY <1>1
<1>5. start # -1 /\ Active /\ Active'
  BY <1>1 DEF Active
<1> QED BY <1>1, <1>2, <1>3, <1>4, <1>5 DEF Promise!Ship, Promise!Window, Promise!Off

\* The other steps: the chain grows, the window ends, or nothing is seen.
LEMMA ImplementsOther ==
    ASSUME TypeOK, TypeOK', [Next]_vars, ~FetchInitialState, ~Send
    PROVE  [Promise!Next]_(Promise!collection)
<1> USE DEF Active, indexer, history
<1>1. ASSUME NEW e \in Events, IndexerStore(e) PROVE UNCHANGED Promise!collection
  BY <1>1 DEF IndexerStore, Promise!collection
<1>2. ASSUME NEW n \in 0 .. MaxBlock, IndexerAdvance(n) PROVE Promise!Grow
  BY <1>2 DEF IndexerAdvance, Promise!Grow, TypeOK
<1>3. CASE Start \/ Cancel \/ Exit \/ WaitSynced \/ WaitFails \/ InitialStateFails
  BY <1>3 DEF Start, Cancel, Exit, WaitSynced, WaitFails, InitialStateFails,
              Promise!collection
<1>4. CASE Tick \/ FetchState \/ FetchLogs \/ FetchFails \/ Receive
  BY <1>4 DEF Tick, FetchState, FetchLogs, FetchFails, Receive, Promise!collection
<1>5. CASE Crash \/ CtxDone
  <2>1. ~Active' /\ UNCHANGED <<index, start, sends>>
    BY <1>5 DEF Crash, CtxDone
  <2>2. start # -1
    BY DEF TypeOK
  <2>3. Active => Promise!End
    BY <2>1, <2>2 DEF Promise!End, Promise!Off, Promise!Nothing
  <2>4. ~Active => UNCHANGED Promise!collection
    BY <2>1 DEF Promise!collection
  <2> QED BY <2>3, <2>4 DEF Promise!Next
<1>6. CASE UNCHANGED vars
  BY <1>6 DEF vars, Promise!collection
<1> QED BY <1>1, <1>2, <1>3, <1>4, <1>5, <1>6
        DEF Next, Indexer, Process, Listener, Promise!Next

(* Every step of the collector is one of Collection, or is not seen there.  *)
THEOREM CollectionKept == Spec => KeepsCollection
<1>1. TypeOK /\ TypeOK' /\ CursorInv /\ [Next]_vars
        => [Promise!Next]_(Promise!collection)
  BY ImplementsBegin, ImplementsShip, ImplementsOther DEF Promise!Next
<1> QED BY <1>1, ImplementsInit, Typing, CursorInvariant, PTL
        DEF Spec, KeepsCollection, Promise!Spec

----------------------------------------------------------------------------
(* The composition.  The invariant counts: an event this life has put on   *)
(* the channel is on it, in one batch, or with the router, and never both. *)

Stages == {"none", "taken", "dropped", "dispatched"}
Staged == stage \in [Events -> Stages]
\* Nothing is in hand before the first round of the listener.
Fresh == pc \in {"off", "sync", "init"} => chan = << >> /\ \A e \in Events : stage[e] = "none"
Apart == \A e \in Events : e \in InChan => stage[e] = "none"
Disjoint(c) == \A j, k \in DOMAIN c : j # k => c[j] \cap c[k] = {}
Accounted == \A e \in Events : sends[e] > 0 <=> e \in InChan \/ stage[e] # "none"
HandInv == Staged /\ Fresh /\ Apart /\ Disjoint(chan) /\ (pc # "off" => Accounted)

----------------------------------------------------------------------------
\* Every step of the composition is a step of Collector, or none.
LEMMA Projection == [RelayNext]_relay => [Next]_vars
<1> SUFFICES ASSUME [RelayNext]_relay PROVE [Next]_vars
  OBVIOUS
<1>1. CASE Hand
  BY <1>1 DEF Hand, Next
<1>2. ASSUME NEW e \in Events, Work(e) PROVE UNCHANGED vars
  BY <1>2 DEF Work
<1>3. CASE UNCHANGED relay
  BY <1>3 DEF relay
<1> QED BY <1>1, <1>2, <1>3 DEF RelayNext, Next

\* So whatever Collector guarantees holds here.
LEMMA CollectorHolds == RelaySpec => [](TypeOK /\ CursorInv)
<1>1. RelayInit => Init
  BY DEF RelayInit
<1>2. RelaySpec => Spec
  BY <1>1, Projection, PTL DEF RelaySpec, Spec
<1> QED BY <1>2, Typing, CursorInvariant, PTL

----------------------------------------------------------------------------
\* No process, nothing in hand.
LEMMA InitHandInv == RelayInit => HandInv
<1> SUFFICES ASSUME RelayInit PROVE HandInv
  OBVIOUS
<1>1. /\ stage = [e \in Events |-> "none"] /\ chan = << >> /\ pc = "off"
  BY DEF RelayInit, Init, D!Init
<1>2. InChan = {}
  BY <1>1 DEF InChan, Elements
<1> QED BY <1>1, <1>2 DEF HandInv, Staged, Stages, Fresh, Apart, Disjoint

\* The process has ended, or has just been started.
LEMMA EmptyHanded ==
    ASSUME TypeOK, Staged', chan' = << >>, \A e \in Events : stage'[e] = "none",
           pc' # "off" => sends' = [e \in Events |-> 0]
    PROVE  HandInv'
<1>1. InChan' = {}
  BY DEF InChan, Elements
<1> QED BY <1>1 DEF HandInv, Fresh, Apart, Disjoint, Accounted

\* The process goes on, and nothing is handed over.
LEMMA HandsStill ==
    ASSUME HandInv, pc \notin {"off"}, pc' # "off", pc' \in {"sync", "init"} => pc \in {"sync", "init"},
           UNCHANGED <<chan, sends>>, stage' \in [Events -> Stages],
           \A e \in Events : stage'[e] = "none" <=> stage[e] = "none"
    PROVE  HandInv'
<1>1. InChan' = InChan
  BY DEF InChan
<1> QED BY <1>1 DEF HandInv, Staged, Fresh, Apart, Disjoint, Accounted

\* The listener sends its batch: nothing of it has been sent in this life.
LEMMA SendHand ==
    ASSUME TypeOK, CursorInv, HandInv, Send, UNCHANGED stage
    PROVE  HandInv'
<1>1. /\ pc = "send" /\ pc' = "select" /\ chan' = Append(chan, batch)
      /\ sends' = [e \in Events |-> sends[e] + (IF e \in batch THEN 1 ELSE 0)]
      /\ batch \in SUBSET Events /\ chan \in Seq(SUBSET Events) /\ sends \in [Events -> Nat]
  BY DEF Send, TypeOK
<1>2. \A e \in batch : sends[e] = 0
  <2> SUFFICES ASSUME NEW e \in batch PROVE sends[e] = 0
    OBVIOUS
  <2>1. sends[e] + 1 = (IF start < BlockOf[e] /\ BlockOf[e] <= from THEN 1 ELSE 0)
    BY <1>1 DEF CursorInv, ExactlyOnce
  <2> QED BY <1>1, <2>1
<1>3. \A e \in batch : e \notin InChan /\ stage[e] = "none"
  BY <1>1, <1>2 DEF HandInv, Accounted
<1>4. InChan' = InChan \cup batch
  BY <1>1, ElementsAppend DEF InChan
<1>5. Disjoint(chan')
  <2>1. \A k \in DOMAIN chan : chan[k] \subseteq InChan
    BY DEF InChan, Elements
  <2>2. /\ \A k \in DOMAIN chan' : k \in DOMAIN chan \/ k = Len(chan) + 1
        /\ \A k \in DOMAIN chan : chan'[k] = chan[k]
        /\ chan'[Len(chan) + 1] = batch
    BY <1>1
  <2>3. \A k \in DOMAIN chan : chan[k] \cap batch = {}
    BY <1>3, <2>1
  <2> QED BY <2>2, <2>3 DEF HandInv, Disjoint
<1>6. Accounted'
  <2> SUFFICES ASSUME NEW e \in Events
               PROVE  sends'[e] > 0 <=> e \in InChan' \/ stage'[e] # "none"
    BY DEF Accounted
  <2>1. sends[e] > 0 <=> e \in InChan \/ stage[e] # "none"
    BY <1>1 DEF HandInv, Accounted
  <2>2. sends[e] \in Nat /\ sends'[e] = sends[e] + (IF e \in batch THEN 1 ELSE 0)
    BY <1>1
  <2> QED BY <1>4, <2>1, <2>2
<1> QED BY <1>1, <1>3, <1>4, <1>5, <1>6 DEF HandInv, Staged, Fresh, Apart

\* The router takes the first batch of the channel.
LEMMA HandHand ==
    ASSUME TypeOK, HandInv, Hand
    PROVE  HandInv'
<1>1. /\ pc # "off" /\ pc' = pc /\ sends' = sends /\ chan # << >> /\ chan' = Tail(chan)
      /\ chan \in Seq(SUBSET Events)
      /\ stage' = [e \in Events |-> IF e \in Head(chan) THEN "taken" ELSE stage[e]]
  BY DEF Hand, Receive, D!Accept, TypeOK
<1>2. InChan = Head(chan) \cup InChan'
  BY <1>1, ElementsTail DEF InChan
<1>3. /\ \A k \in DOMAIN chan' : k + 1 \in DOMAIN chan /\ chan'[k] = chan[k + 1] /\ k + 1 # 1
      /\ 1 \in DOMAIN chan /\ Head(chan) = chan[1]
      /\ \A j, k \in DOMAIN chan' : j # k => j + 1 # k + 1
  BY <1>1
<1>4. Disjoint(chan')
  BY <1>3 DEF HandInv, Disjoint
<1>5. Head(chan) \cap InChan' = {}
  <2>1. \A k \in DOMAIN chan' : Head(chan) \cap chan'[k] = {}
    BY <1>3 DEF HandInv, Disjoint
  <2> QED BY <2>1 DEF InChan, Elements
<1>6. \A e \in Events : stage'[e] # "none" <=> e \in Head(chan) \/ stage[e] # "none"
  BY <1>1
<1>7. Staged' /\ pc \notin {"off", "sync", "init"}
  BY <1>1 DEF HandInv, Staged, Stages, Fresh
<1>8. Apart' /\ Accounted'
  BY <1>1, <1>2, <1>5, <1>6 DEF HandInv, Apart, Accounted
<1> QED BY <1>1, <1>4, <1>7, <1>8 DEF HandInv, Fresh

\* Processors and sender keep what the router has taken.
LEMMA WorkHand ==
    ASSUME TypeOK, HandInv, NEW e \in Events, Work(e)
    PROVE  HandInv'
<1>1. pc # "off" /\ UNCHANGED <<pc, chan, sends>>
  BY DEF Work, vars
<1>2. CASE stage' = stage
  BY <1>1, <1>2, HandsStill DEF HandInv, Staged
<1>3. CASE stage[e] = "taken" /\ stage' \in {[stage EXCEPT ![e] = "dropped"],
                                              [stage EXCEPT ![e] = "dispatched"]}
  <2>1. stage' \in [Events -> Stages] /\ \A f \in Events : stage'[f] = "none" <=> stage[f] = "none"
    BY <1>3 DEF HandInv, Staged, Stages
  <2> QED BY <1>1, <2>1, HandsStill
<1> QED BY <1>2, <1>3 DEF Work, D!Work, D!Drop, D!Dispatch, D!Ask, D!Close

\* The other steps of Collector, with what they do to the pipeline.
LEMMA OtherHand ==
    ASSUME TypeOK, CursorInv, HandInv, Couple, ~Send, Indexer \/ Process \/ Listener
    PROVE  HandInv'
<1>1. CASE pc' = "off"
  <2>1. Staged' /\ \A e \in Events : stage'[e] = "none"
    BY <1>1 DEF Couple, Lost, Staged, Stages
  <2>2. chan' = << >>
    BY <1>1 DEF Indexer, IndexerStore, IndexerAdvance, Process, Start, Crash, Cancel, Exit,
                Listener, WaitSynced, WaitFails, FetchInitialState, InitialStateFails, Tick,
                CtxDone, FetchState, FetchLogs, FetchFails, HandInv, Fresh
  <2> QED BY <1>1, <2>1, <2>2, EmptyHanded
<1>2. CASE Start
  <2>1. stage' = stage /\ chan' = << >> /\ sends' = [e \in Events |-> 0] /\ pc = "off"
    BY <1>2 DEF Start, Couple, down
  <2> QED BY <2>1, EmptyHanded DEF HandInv, Staged, Fresh
<1>3. CASE pc' # "off" /\ ~Start
  <2>1. stage' = stage
    BY <1>3 DEF Couple, down
  <2>2. /\ UNCHANGED <<chan, sends>> /\ pc # "off"
        /\ pc' \in {"sync", "init"} => pc \in {"sync", "init"}
    BY <1>3 DEF Indexer, IndexerStore, IndexerAdvance, Process, Crash, Cancel, Exit,
                Listener, WaitSynced, WaitFails, FetchInitialState, InitialStateFails, Tick,
                CtxDone, FetchState, FetchLogs, FetchFails, history
  <2> QED BY <1>3, <2>1, <2>2, HandsStill DEF HandInv, Staged
<1> QED BY <1>1, <1>2, <1>3

(* The inductive invariant of the composition.                              *)
THEOREM Accounting == RelaySpec => []HandInv
<1>1. TypeOK /\ CursorInv /\ HandInv /\ [RelayNext]_relay => HandInv'
  <2> SUFFICES ASSUME TypeOK, CursorInv, HandInv, [RelayNext]_relay PROVE HandInv'
    OBVIOUS
  <2>1. CASE Send /\ Couple
    <3>1. stage' = stage
      BY <2>1 DEF Send, Couple, down
    <3> QED BY <2>1, <3>1, SendHand
  <2>2. CASE ~Send /\ (Indexer \/ Process \/ Listener) /\ Couple
    BY <2>2, OtherHand
  <2>3. CASE Hand
    BY <2>3, HandHand
  <2>4. ASSUME NEW e \in Events, Work(e) PROVE HandInv'
    BY <2>4, WorkHand
  <2>5. CASE UNCHANGED relay
    BY <2>5 DEF relay, down, vars, HandInv, Staged, Fresh, Apart, Disjoint, Accounted, InChan
  <2> QED BY <2>1, <2>2, <2>3, <2>4, <2>5 DEF RelayNext
<1> QED BY <1>1, InitHandInv, CollectorHolds, PTL DEF RelaySpec

(* The router never takes an event twice in a life: what instructionsListener *)
(* sends has not been sent before, and what was taken is not sent again.    *)
THEOREM TakenOnce == RelaySpec => []TakenOncePerLife
<1>1. TypeOK /\ HandInv => TakenOncePerLife
  <2> SUFFICES ASSUME TypeOK, HandInv, chan # << >>, NEW e \in Head(chan)
               PROVE  stage[e] = "none"
    BY DEF TakenOncePerLife
  <2>1. chan \in Seq(SUBSET Events)
    BY DEF TypeOK
  <2>2. e \in InChan /\ e \in Events
    BY <2>1, ElementsTail DEF InChan
  <2> QED BY <2>2 DEF HandInv, Apart
<1> QED BY <1>1, Accounting, CollectorHolds, PTL

(* End to end, crashes and shutdowns at any stage lose no event but those    *)
(* below the window of the next life.                                       *)
THEOREM EndToEndLoss == RelaySpec => []LostOnlyBelowWindow
<1>1. TypeOK /\ CursorInv /\ HandInv => LostOnlyBelowWindow
  <2> SUFFICES ASSUME TypeOK, CursorInv, HandInv, Active, NEW e \in Events,
                      e \notin InChan \cup batch, stage[e] = "none", ~(BlockOf[e] > from)
               PROVE  BlockOf[e] + StartInterval <= startIndex
    BY DEF LostOnlyBelowWindow, Active
  <2>1. /\ sends[e] \in Nat /\ start \in Nat /\ from \in Nat
        /\ startIndex \in Nat /\ BlockOf[e] \in Nat \ {0}
    BY EventsAssumption DEF TypeOK
  <2>2. ~(sends[e] > 0)
    BY DEF HandInv, Accounted, Active
  <2>3. sends[e] + 0 = (IF start < BlockOf[e] /\ BlockOf[e] <= from THEN 1 ELSE 0)
    BY DEF CursorInv, ExactlyOnce, Active
  <2>4. BlockOf[e] <= windowStart(startIndex)
    BY <2>1, <2>2, <2>3 DEF CursorInv, WindowFixed
  <2> QED BY <2>1, <2>4, WindowStartBounds
<1> QED BY <1>1, Accounting, CollectorHolds, PTL

----------------------------------------------------------------------------
(* What the composition adds to the two specifications it is made of.       *)

\* Put in front of the pipeline, the collector keeps its promise.
THEOREM CollectionKeptInRelay == RelaySpec => KeepsCollection
<1>1. RelayInit => Init
  BY DEF RelayInit
<1>2. RelaySpec => Spec
  BY <1>1, Projection, PTL DEF RelaySpec, Spec
<1> QED BY <1>2, CollectionKept, PTL

\* What is offered or was asked belongs to an event that was dispatched.
Dispatched(o) == \E e \in Events : o \in D!Offers(e) /\ stage[e] = "dispatched"
OffersInv == (\A o \in open : Dispatched(o)) /\ (\A r \in asked : Dispatched(r[1]))

LEMMA OffersStep ==
    ASSUME HandInv, OffersInv, [RelayNext]_relay
    PROVE  OffersInv'
<1>1. CASE Lost
  BY <1>1 DEF Lost, OffersInv
<1>2. CASE UNCHANGED <<stage, open, asked>>
  BY <1>2 DEF OffersInv, Dispatched, D!Offers
<1>3. ASSUME \A e \in Events : stage[e] = "dispatched" => stage'[e] = "dispatched"
      PROVE  \A o : Dispatched(o) => Dispatched(o)'
  BY <1>3 DEF Dispatched, D!Offers
<1>4. CASE Hand
  <2>1. /\ \A e \in Head(chan) : stage[e] = "none"
        /\ stage' = [e \in Events |-> IF e \in Head(chan) THEN "taken" ELSE stage[e]]
        /\ UNCHANGED <<open, asked>>
    BY <1>4 DEF Hand, D!Accept
  <2>2. \A e \in Events : stage[e] = "dispatched" => stage'[e] = "dispatched"
    BY <2>1
  <2> QED BY <1>3, <2>1, <2>2 DEF OffersInv
<1>5. ASSUME NEW e \in Events, Work(e) PROVE OffersInv'
  <2>1. CASE D!Drop(e)
    <3>1. \A f \in Events : stage[f] = "dispatched" => stage'[f] = "dispatched"
      BY <2>1 DEF D!Drop, HandInv, Staged
    <3>2. UNCHANGED <<open, asked>>
      BY <2>1 DEF D!Drop
    <3> QED BY <1>3, <3>1, <3>2 DEF OffersInv
  <2>2. CASE D!Dispatch(e)
    <3>1. /\ stage'[e] = "dispatched"
          /\ \A f \in Events : stage[f] = "dispatched" => stage'[f] = "dispatched"
      BY <2>2 DEF D!Dispatch, HandInv, Staged
    <3>2. open' = open \cup D!Offers(e) /\ asked' = asked
      BY <2>2 DEF D!Dispatch
    <3>3. \A o \in D!Offers(e) : Dispatched(o)'
      BY <3>1 DEF Dispatched, D!Offers
    <3> QED BY <1>3, <3>1, <3>2, <3>3 DEF OffersInv
  <2>3. ASSUME NEW o \in D!Offers(e), D!Ask(o) PROVE OffersInv'
    <3>1. /\ o \in open /\ UNCHANGED <<stage, open>>
          /\ \A r \in asked' : r \in asked \/ r[1] = o
      BY <2>3 DEF D!Ask
    <3> QED BY <1>3, <3>1 DEF OffersInv
  <2>4. ASSUME NEW o \in D!Offers(e), D!Close(o) PROVE OffersInv'
    <3>1. open' = open \ {o} /\ UNCHANGED <<stage, asked>>
      BY <2>4 DEF D!Close
    <3> QED BY <1>3, <3>1 DEF OffersInv
  <2> QED BY <1>5, <2>1, <2>2, <2>3, <2>4 DEF Work, D!Work
<1> QED BY <1>1, <1>2, <1>4, <1>5 DEF RelayNext, Couple, relay, down

(* No machine is asked about an event outside the window of the present     *)
(* life, nor about one that was not dispatched in it.                        *)
THEOREM WindowAsked == RelaySpec => []AskedOnlyInWindow
<1>1. RelayInit => OffersInv
  BY DEF RelayInit, D!Init, OffersInv
<1>2. HandInv /\ OffersInv /\ [RelayNext]_relay => OffersInv'
  BY OffersStep
<1>3. TypeOK /\ CursorInv /\ HandInv /\ OffersInv => AskedOnlyInWindow
  <2> SUFFICES ASSUME TypeOK, CursorInv, HandInv, OffersInv, Active, NEW r \in asked
               PROVE  \E e \in Events : /\ r[1] \in D!Offers(e)
                                        /\ start < BlockOf[e] /\ BlockOf[e] <= from
    BY DEF AskedOnlyInWindow, Active
  <2>1. PICK e \in Events : r[1] \in D!Offers(e) /\ stage[e] = "dispatched"
    BY DEF OffersInv, Dispatched
  <2>2. sends[e] > 0 /\ sends[e] \in Nat
    BY <2>1 DEF HandInv, Accounted, Active, TypeOK
  <2>3. sends[e] + (IF e \in batch THEN 1 ELSE 0)
          = (IF start < BlockOf[e] /\ BlockOf[e] <= from THEN 1 ELSE 0)
    BY DEF CursorInv, ExactlyOnce, Active
  <2>4. start < BlockOf[e] /\ BlockOf[e] <= from
    BY <2>2, <2>3
  <2> QED BY <2>1, <2>4
<1> QED BY <1>1, <1>2, <1>3, Accounting, CollectorHolds, PTL DEF RelaySpec
=============================================================================
