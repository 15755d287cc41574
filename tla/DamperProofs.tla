---------------------------- MODULE DamperProofs ----------------------------
(***************************************************************************)
(* Proofs about Damper, for every summary interval, every delay between a  *)
(* line and its stamp, any times between two rounds and any clock.         *)
(***************************************************************************)
EXTENDS Damper, TLAPS

USE DamperAssumption DEF DamperAssumption

----------------------------------------------------------------------------
(* What the rationing needs of the arithmetic.                              *)

\* One interval more is one multiple more.
LEMMA OneMore ==
    ASSUME NEW n \in Nat, NEW d \in Nat
    PROVE  n * d = (n - 1) * d + d
  OBVIOUS

\* Whole intervals that fit into a time are at most its quotient.
LEMMA QuotientBounds ==
    ASSUME NEW n \in Int, NEW t \in Nat, NEW d \in Nat \ {0}, n * d <= t
    PROVE  n <= t \div d
<1> DEFINE q == t \div d
<1>1. q \in Int /\ t < (q + 1) * d
  OBVIOUS
<1>2. SUFFICES ASSUME n > q PROVE FALSE
  BY <1>1
<1> HIDE DEF q
<1>3. q + 1 <= n
  BY <1>1, <1>2
<1>4. (q + 1) * d <= n * d
  BY <1>1, <1>3
<1>5. (q + 1) * d \in Int /\ n * d \in Int
  BY <1>1
<1> QED BY <1>1, <1>4, <1>5

----------------------------------------------------------------------------
\* The fields of the dampers and the history keep their types.
THEOREM Typing == Spec => []TypeOK
<1>1. Init => TypeOK
  BY DEF Init, TypeOK, Ops, Never
<1>2. TypeOK /\ [Next]_vars => TypeOK'
  <2> SUFFICES ASSUME TypeOK, [Next]_vars PROVE TypeOK'
    OBVIOUS
  <2> USE DEF TypeOK
  <2>1. CASE Tick
    BY <2>1 DEF Tick, Ops
  <2>2. CASE FetchState \/ FetchLogs
    BY <2>2 DEF FetchState, FetchLogs, ok, Ops
  <2>3. CASE FetchFails
    BY <2>3 DEF FetchFails, fail
  <2>4. CASE UNCHANGED vars
    BY <2>4 DEF vars
  <2> QED BY <2>1, <2>2, <2>3, <2>4 DEF Next
<1> QED BY <1>1, <1>2, PTL DEF Spec

----------------------------------------------------------------------------
(* One damper at a time.                                                    *)

Inv(op) == IF failures[op] = 0 THEN lines[op] = 0 ELSE Stamped(op) /\ Rationed(op)

\* The other damper, and time that passes.
LEMMA Frame ==
    ASSUME TypeOK, NEW op \in Ops, Inv(op), clock' \in Nat, clock <= clock',
           failures'[op] = failures[op], lastErr'[op] = lastErr[op],
           written'[op] = written[op], began'[op] = began[op], lines'[op] = lines[op]
    PROVE  Inv(op)'
  BY DEF TypeOK, Inv, Stamped, Rationed

\* The damper of the operation that failed.
LEMMA FailKeeps ==
    ASSUME TypeOK, NEW op \in Ops, Inv(op), fail(op)
    PROVE  Inv(op)'
<1> USE DEF TypeOK
<1>1. /\ failures'[op] = failures[op] + 1 /\ failures[op] \in Nat
      /\ lines[op] \in Nat /\ lastErr[op] \in Nat /\ clock \in Nat
      /\ began[op] \in Nat /\ written[op] \in Nat \cup {Never}
  BY DEF fail
<1>2. CASE failures[op] = 0
  <2>1. /\ began'[op] = clock /\ written'[op] = clock /\ lines'[op] = 1
        /\ clock' \in clock .. clock + Delay /\ lastErr'[op] = clock'
    BY <1>1, <1>2 DEF fail, Inv
  <2>2. Stamped(op)'
    BY <1>1, <2>1 DEF Stamped, Never
  <2>3. Rationed(op)'
    <3>1. lines'[op] - 1 = 0 /\ lines'[op] >= 1
      BY <2>1
    <3>2. (lines'[op] - 1) * SummaryInterval = 0
      BY <3>1
    <3>3. began'[op] + 0 <= lastErr'[op]
      BY <1>1, <2>1
    <3> QED BY <3>1, <3>2, <3>3 DEF Rationed
  <2> QED BY <1>1, <2>2, <2>3 DEF Inv
<1>3. CASE failures[op] # 0 /\ SummaryDue(op)
  <2>1. /\ began'[op] = began[op] /\ written'[op] = clock /\ lines'[op] = lines[op] + 1
        /\ clock' \in clock .. clock + Delay /\ lastErr'[op] = clock'
    BY <1>3 DEF fail
  <2>2. Rationed(op) /\ clock - lastErr[op] >= SummaryInterval
    BY <1>3 DEF Inv, SummaryDue
  <2>3. Stamped(op)'
    BY <1>1, <2>1 DEF Stamped, Never
  <2>4. Rationed(op)'
    <3>1. lines[op] * SummaryInterval = (lines[op] - 1) * SummaryInterval + SummaryInterval
      BY <1>1, OneMore
    <3> DEFINE m == (lines[op] - 1) * SummaryInterval
    <3>2. m \in Int /\ began[op] + m <= lastErr[op]
      BY <1>1, <2>2 DEF Rationed
    <3> HIDE DEF m
    <3>3. began'[op] + (m + SummaryInterval) <= lastErr'[op]
      BY <1>1, <2>1, <2>2, <3>2
    <3>4. lines'[op] - 1 = lines[op] /\ lines'[op] >= 1
      BY <1>1, <2>1
    <3>5. (lines'[op] - 1) * SummaryInterval = m + SummaryInterval
      BY <3>1, <3>4 DEF m
    <3> QED BY <3>3, <3>4, <3>5 DEF Rationed
  <2> QED BY <1>1, <2>3, <2>4 DEF Inv
<1>4. CASE failures[op] # 0 /\ ~SummaryDue(op)
  <2>1. UNCHANGED <<clock, lastErr, written, lines, began>>
    BY <1>4 DEF fail
  <2> QED BY <1>1, <1>4, <2>1 DEF Inv, Stamped, Rationed
<1> QED BY <1>2, <1>3, <1>4

\* The recovery ends the outage.
LEMMA OkKeeps ==
    ASSUME TypeOK, NEW op \in Ops, ok(op)
    PROVE  Inv(op)'
  BY DEF TypeOK, ok, Inv

LEMMA InvInit == Init => DamperInv
  BY DEF Init, DamperInv

LEMMA InvStep == TypeOK /\ TypeOK' /\ DamperInv /\ [Next]_vars => DamperInv'
<1> SUFFICES ASSUME TypeOK, TypeOK', DamperInv, [Next]_vars, NEW j \in Ops
             PROVE  Inv(j)'
  BY DEF DamperInv, Inv
<1>1. Inv(j)
  BY DEF DamperInv, Inv
<1>2. CASE Tick
  BY <1>1, <1>2, Frame DEF Tick, TypeOK
<1>3. ASSUME NEW op \in Ops, ok(op) PROVE Inv(j)'
  <2>1. CASE j = op
    BY <1>3, <2>1, OkKeeps
  <2>2. CASE j # op
    BY <1>1, <1>3, <2>2, Frame DEF ok, TypeOK
  <2> QED BY <2>1, <2>2
<1>4. ASSUME NEW op \in Ops, fail(op) PROVE Inv(j)'
  <2>1. CASE j = op
    BY <1>1, <1>4, <2>1, FailKeeps
  <2>2. CASE j # op
    <3>1. clock' \in Nat /\ clock <= clock'
      BY <1>4 DEF fail, TypeOK
    <3> QED BY <1>1, <1>4, <2>2, <3>1, Frame DEF fail, TypeOK
  <2> QED BY <2>1, <2>2
<1>5. CASE UNCHANGED vars
  BY <1>1, <1>5, Frame DEF vars, TypeOK
<1> QED BY <1>2, <1>3, <1>4, <1>5 DEF Next, FetchState, FetchLogs, FetchFails, Ops

\* The inductive invariant: how old the stamp is, and what the lines have cost.
THEOREM Invariance == Spec => []DamperInv
  BY Typing, InvInit, InvStep, PTL DEF Spec

----------------------------------------------------------------------------
\* The Error lines of one outage are rationed, whatever the times of the rounds.
THEOREM Rationing == Spec => []ErrorsRationed
<1>1. TypeOK /\ DamperInv => ErrorsRationed
  <2> SUFFICES ASSUME TypeOK, DamperInv, NEW op \in Ops, failures[op] > 0
               PROVE  lines[op] <= 1 + (clock - began[op]) \div SummaryInterval
    BY DEF ErrorsRationed
  <2>1. /\ lines[op] \in Nat /\ lastErr[op] \in Nat /\ began[op] \in Nat
        /\ clock \in Nat /\ failures[op] \in Nat
    BY DEF TypeOK
  <2>2. Stamped(op) /\ Rationed(op)
    BY <2>1 DEF DamperInv
  <2> DEFINE n == lines[op] - 1
             t == clock - began[op]
             m == n * SummaryInterval
  <2>3. n \in Int /\ n >= 0 /\ m \in Int /\ m >= 0
    BY <2>1, <2>2 DEF Rationed
  <2>4. m <= t /\ t \in Nat
    <3>1. began[op] + m <= lastErr[op] /\ lastErr[op] <= clock
      BY <2>2 DEF Stamped, Rationed
    <3> HIDE DEF m
    <3> QED BY <2>1, <2>3, <3>1
  <2>5. n <= t \div SummaryInterval
    <3> HIDE DEF t, n
    <3> QED BY <2>3, <2>4, QuotientBounds DEF m
  <2>6. t \div SummaryInterval \in Int
    BY <2>4
  <2> HIDE DEF t
  <2>7. lines[op] <= 1 + t \div SummaryInterval
    BY <2>1, <2>5, <2>6
  <2> QED BY <2>7 DEF t
<1> QED BY <1>1, Typing, Invariance, PTL

\* A failure is never silent, in whatever way the outages of the two overlap.
THEOREM NeverSilent == Spec => NoSilentOutage
<1>1. TypeOK /\ DamperInv /\ [Next]_vars =>
        [FetchFails => /\ written'[pc] # Never
                       /\ clock - written'[pc] < SummaryInterval + Delay]_vars
  <2> SUFFICES ASSUME TypeOK, DamperInv, FetchFails
               PROVE  /\ written'[pc] # Never
                      /\ clock - written'[pc] < SummaryInterval + Delay
    OBVIOUS
  <2>1. /\ pc \in Ops /\ fail(pc)
        /\ clock \in Nat /\ lastErr[pc] \in Nat /\ failures[pc] \in Nat
        /\ written[pc] \in Nat \cup {Never}
    BY DEF TypeOK, FetchFails
  <2>2. CASE failures[pc] = 0 \/ SummaryDue(pc)
    <3>1. written'[pc] = clock
      BY <2>1, <2>2 DEF fail, TypeOK
    <3> QED BY <2>1, <3>1 DEF Never
  <2>3. CASE failures[pc] # 0 /\ ~SummaryDue(pc)
    <3>1. written'[pc] = written[pc] /\ Stamped(pc)
      BY <2>1, <2>3 DEF fail, DamperInv
    <3>2. written[pc] \in Nat
      BY <2>1, <3>1 DEF Stamped
    <3> QED BY <2>1, <2>3, <3>1, <3>2 DEF Stamped, SummaryDue
  <2> QED BY <2>2, <2>3
<1> QED BY <1>1, Typing, Invariance, PTL DEF Spec, NoSilentOutage
=============================================================================
