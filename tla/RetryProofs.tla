---------------------------- MODULE RetryProofs ----------------------------
(***************************************************************************)
(* Proofs about Retry, for every set of statuses and every lateness the    *)
(* module's assumption admits.  The inductive invariant bounds the time at *)
(* which each attempt and each delay may begin, relates the shared         *)
(* counters to the attempts that have ended, and keeps the answers that    *)
(* came before the last attempt.                                           *)
(***************************************************************************)
EXTENDS Retry, TLAPS

\* The latest moment at which the wait in pc begins when no call stalls.
Step == P.call + Slack
Latest ==
    CASE pc = "call"  /\ k = 1 -> 0
      [] pc = "delay" /\ k = 1 -> Step
      [] pc = "call"  /\ k = 2 -> Step + MaxDelay(P, 1) + Slack
      [] pc = "delay" /\ k = 2 -> 2 * Step + MaxDelay(P, 1) + Slack
      [] OTHER -> 2 * Step + MaxDelay(P, 1) + MaxDelay(P, 2) + 2 * Slack

Waiting == pc \in {"call", "delay"}
Transient(a) == ~a.ok /\ a.status \in {0, 408, 429} \cup 500 .. 599

Timely == Waiting /\ ~stalled => elapsed <= Latest
Counted ==
    /\ Waiting => st = "none" /\ loose = 0
    /\ pc = "call" => attempts = k - 1
    /\ pc = "delay" => attempts = k /\ k < 3
    /\ ~Waiting => st # "none" /\ attempts = IF loose = 0 THEN k ELSE k - 1
    /\ loose # 0 => st = "abandoned" /\ loose = k
FirstKept ==
    /\ k = 1 /\ (pc = "call" \/ loose # 0) => firstErr = 0
    /\ k > 1 \/ pc = "delay" => firstErr = 1
Answered ==
    client = "verify" =>
        /\ \A i \in 1 .. k - 1 : Transient(answers[i])
        /\ pc = "delay" => Transient(answers[k])
Inv == /\ TypeOK /\ Timely /\ Counted /\ FirstKept /\ Answered
       /\ GivesUpOnlyAfterAllAttempts /\ DecidedByLastAttempt /\ HistoryIsTrue

----------------------------------------------------------------------------
\* Each budget is larger than the longest schedule, all steps late.
LEMMA BudgetCoversSchedule ==
    ASSUME NEW c \in Clients
    PROVE  LET p == Params[c] IN
           /\ p.tries = 3 /\ p.call \in Nat /\ p.budget \in 0 .. 120
           /\ \A n \in {1, 2, 3} : MinDelay(p, n) \in Nat /\ MaxDelay(p, n) \in Nat
           /\ MaxDelay(p, 3) = MaxDelay(p, 2)
           /\ 3 * (p.call + Slack) + MaxDelay(p, 1) + MaxDelay(p, 2) + 2 * Slack < p.budget
<1> USE RetryAssumption
<1>1. CASE c = "verify"
  BY <1>1 DEF Params, NewVerifier, MinDelay, MaxDelay, Backoff
<1>2. CASE c = "sign"
  BY <1>2 DEF Params, RemoteSign, MinDelay, MaxDelay, Backoff
<1>3. CASE c = "identify"
  BY <1>3 DEF Params, Identify, MinDelay, MaxDelay, Backoff
<1>4. CASE c = "send"
  BY <1>4 DEF Params, SendToTEE, MinDelay, MaxDelay, Backoff
<1> QED BY <1>1, <1>2, <1>3, <1>4 DEF Clients

\* The type of an answer.
LEMMA AnswerFacts ==
    /\ \A a \in Answers : a.status \in Nat /\ a.ok \in BOOLEAN
    /\ NoAnswer.status = 0 /\ ~NoAnswer.ok
<1>1. \A a \in [status : Statuses, ok : {FALSE}] : a.status \in Nat /\ a.ok = FALSE
  BY RetryAssumption
<1>2. \A a \in [status : {200}, ok : BOOLEAN] : a.status = 200 /\ a.ok \in BOOLEAN
  OBVIOUS
<1>3. NoAnswer.status = 0 /\ ~NoAnswer.ok
  BY DEF NoAnswer
<1>4. \A a \in Answers : \/ a \in [status : Statuses, ok : {FALSE}]
                       \/ a \in [status : {200}, ok : BOOLEAN]
  BY DEF Answers
<1>5. 200 \in Nat /\ FALSE \in BOOLEAN
  OBVIOUS
<1> QED BY <1>1, <1>2, <1>3, <1>4, <1>5, Zenon

\* Before the first attempt.
LEMMA InitInv == Init => Inv
<1> SUFFICES ASSUME Init PROVE Inv
  OBVIOUS
<1>1. TypeOK
  <2>1. answers \in [1 .. 3 -> Answers \cup {NoAnswer}]
    BY DEF Init
  <2>2. result \in [outcome : Outcomes, n : 0 .. 3, first : 0 .. 3]
    BY DEF Init, Outcomes
  <2>3. client \in Clients /\ stalled \in BOOLEAN /\ cancelled \in BOOLEAN
    BY DEF Init
  <2>4. /\ pc \in {"call", "delay", "executed", "returned"} /\ st \in Outcomes
        /\ elapsed \in 0 .. 120 /\ k \in 1 .. 3 /\ attempts \in 0 .. 3
        /\ firstErr \in 0 .. 3 /\ loose \in 0 .. 3
    BY DEF Init, Outcomes
  <2> QED BY <2>1, <2>2, <2>3, <2>4, Zenon DEF TypeOK
<1>2. Timely /\ Counted /\ FirstKept /\ Answered
  BY DEF Init, Timely, Counted, FirstKept, Answered, Waiting, Latest
<1>3. GivesUpOnlyAfterAllAttempts /\ DecidedByLastAttempt /\ HistoryIsTrue
  BY DEF Init, GivesUpOnlyAfterAllAttempts, DecidedByLastAttempt, HistoryIsTrue
<1> QED BY <1>1, <1>2, <1>3 DEF Inv

----------------------------------------------------------------------------
\* An attempt ends in time.
LEMMA AttemptInv ==
    ASSUME Inv, NEW a \in Answers, NEW d \in 0 .. P.budget, AttemptEnds(a, d)
    PROVE  Inv'
<1> USE RetryAssumption
<1>1. /\ TypeOK /\ Timely /\ Counted /\ FirstKept /\ Answered /\ HistoryIsTrue
      /\ DecidedByLastAttempt /\ GivesUpOnlyAfterAllAttempts
  BY DEF Inv
<1>2. /\ P.tries = 3 /\ P.call \in Nat /\ P.budget \in 0 .. 120
      /\ P' = P /\ client' = client /\ client \in Clients
      /\ MaxDelay(P, 1) \in Nat /\ MaxDelay(P, 2) \in Nat
  BY <1>1, BudgetCoversSchedule DEF AttemptEnds, TypeOK, P
<1>3. /\ pc = "call" /\ k' = k /\ k \in 1 .. 3 /\ elapsed' = elapsed + d /\ loose' = loose
      /\ loose = 0 /\ attempts = k - 1 /\ attempts' = k /\ st = "none"
      /\ stalled' = stalled /\ cancelled' = cancelled /\ result' = result
      /\ (stalled \/ d <= P.call + Slack) /\ d \in Nat /\ elapsed + d <= P.budget
      /\ answers' = [answers EXCEPT ![k] = a]
  BY <1>1, <1>2 DEF AttemptEnds, TypeOK, Counted, Count, Waiting
<1>4. /\ a.ok \in BOOLEAN /\ a.status \in Nat
  BY AnswerFacts
<1>5. \/ pc' = "delay" /\ st' = "none" /\ k < 3 /\ Repeats(a)
      \/ pc' = "executed" /\ st' = "value" /\ a.ok
      \/ pc' = "executed" /\ st' = "terminal" /\ ~a.ok /\ ~Repeats(a)
      \/ pc' = "executed" /\ st' = "exhausted" /\ Repeats(a) /\ k = 3
  BY <1>2, <1>3, <1>4 DEF AttemptEnds, Repeats
<1>6. /\ firstErr' \in 0 .. 3
      /\ k > 1 => firstErr' = 1
      /\ k = 1 => firstErr' = IF a.ok THEN 0 ELSE 1
  BY <1>1, <1>3, <1>4 DEF AttemptEnds, Count, FirstKept, TypeOK
<1>7. Repeats(a) => ~a.ok
  BY DEF Repeats
<1>8. /\ client = "verify" /\ Repeats(a) => Transient(a)
      /\ client = "verify" /\ ~a.ok /\ ~Repeats(a) => a.status \notin {0, 408, 429} \cup 500 .. 599
  BY <1>4 DEF Repeats, Transient, retryable
<1>9. answers'[k] = a /\ \A i \in 1 .. k - 1 : answers'[i] = answers[i]
  BY <1>1, <1>3 DEF TypeOK
<1>10. TypeOK'
  <2>1. (st' \in Outcomes /\ pc' \in {"call", "delay", "executed", "returned"})
    BY <1>5 DEF Outcomes
  <2>2. answers' \in [1 .. 3 -> Answers \cup {NoAnswer}]
    BY <1>1, <1>3 DEF TypeOK
  <2>3. elapsed' \in 0 .. 120 /\ attempts' \in 0 .. 3
    BY <1>1, <1>2, <1>3 DEF TypeOK
  <2> QED BY <1>1, <1>2, <1>3, <1>6, <2>1, <2>2, <2>3 DEF TypeOK
<1>11. Timely'
  <2> SUFFICES ASSUME pc' = "delay", ~stalled PROVE elapsed' <= Latest'
    BY <1>3, <1>5 DEF Timely, Waiting
  <2>1. elapsed <= Latest /\ elapsed \in Nat
    BY <1>1, <1>3 DEF Timely, Waiting, TypeOK
  <2>2. Step' = Step /\ Step = P.call + Slack /\ MaxDelay(P, 1)' = MaxDelay(P, 1)
    BY <1>2 DEF Step, MaxDelay, Backoff
  <2>3. k \in {1, 2}
    BY <1>3, <1>5
  <2>4. CASE k = 1
    <3>1. Latest = 0 /\ Latest' = Step
      BY <1>3, <2>2, <2>4 DEF Latest
    <3> QED BY <1>2, <1>3, <2>1, <2>2, <3>1
  <2>5. CASE k = 2
    <3>1. /\ Latest = Step + MaxDelay(P, 1) + Slack
          /\ Latest' = 2 * Step + MaxDelay(P, 1) + Slack
      BY <1>3, <2>2, <2>5 DEF Latest
    <3> QED BY <1>2, <1>3, <2>1, <2>2, <3>1
  <2> QED BY <2>3, <2>4, <2>5
<1>12. Counted'
  BY <1>3, <1>5 DEF Counted, Waiting
<1>13. FirstKept'
  BY <1>3, <1>5, <1>6, <1>7 DEF FirstKept
<1>14. Answered'
  BY <1>1, <1>2, <1>3, <1>5, <1>8, <1>9 DEF Answered
<1>15. DecidedByLastAttempt'
  <2> SUFFICES ASSUME client = "verify", pc' = "executed" PROVE DecidedByLastAttempt'
    BY <1>2, <1>5 DEF DecidedByLastAttempt
  <2>1. \A i \in 1 .. k - 1 : ~answers'[i].ok /\ answers'[i].status \in {0, 408, 429} \cup 500 .. 599
    BY <1>1, <1>9 DEF Answered, Transient
  <2>2. st' = "value" => answers'[k].ok
    BY <1>5, <1>9
  <2>3. st' = "terminal" => answers'[k].status \notin {0, 408, 429} \cup 500 .. 599
    BY <1>5, <1>8, <1>9
  <2> QED BY <1>3, <2>1, <2>2, <2>3 DEF DecidedByLastAttempt
<1>16. GivesUpOnlyAfterAllAttempts' /\ HistoryIsTrue'
  BY <1>5 DEF GivesUpOnlyAfterAllAttempts, HistoryIsTrue
<1> QED BY <1>10, <1>11, <1>12, <1>13, <1>14, <1>15, <1>16 DEF Inv

\* A delay is over and the next attempt starts.
LEMMA DelayInv ==
    ASSUME Inv, NEW d \in 0 .. P.budget, DelayEnds(d)
    PROVE  Inv'
<1> USE RetryAssumption
<1>1. /\ TypeOK /\ Timely /\ Counted /\ FirstKept /\ Answered
  BY DEF Inv
<1>2. /\ P.call \in Nat /\ P.budget \in 0 .. 120 /\ P' = P /\ client' = client
      /\ MaxDelay(P, 1) \in Nat /\ MaxDelay(P, 2) \in Nat
      /\ MinDelay(P, 1) \in Nat /\ MinDelay(P, 2) \in Nat
  BY <1>1, BudgetCoversSchedule DEF DelayEnds, TypeOK, P
<1>3. /\ pc = "delay" /\ pc' = "call" /\ k' = k + 1 /\ k \in {1, 2} /\ elapsed' = elapsed + d
      /\ st = "none" /\ st' = st /\ loose = 0 /\ loose' = 0 /\ attempts = k /\ attempts' = attempts
      /\ d \in Nat /\ elapsed + d <= P.budget /\ d \in MinDelay(P, k) .. MaxDelay(P, k) + Slack
      /\ stalled' = stalled /\ cancelled' = cancelled /\ result' = result
      /\ answers' = answers /\ firstErr' = firstErr
  BY <1>1, <1>2 DEF DelayEnds, TypeOK, Counted, Waiting, counters
<1>4. TypeOK'
  <2>1. elapsed' \in 0 .. 120
    BY <1>1, <1>2, <1>3 DEF TypeOK
  <2>2. st' \in Outcomes
    BY <1>3 DEF Outcomes
  <2> QED BY <1>1, <1>2, <1>3, <2>1, <2>2 DEF TypeOK
<1>5. Timely'
  <2> SUFFICES ASSUME ~stalled PROVE elapsed' <= Latest'
    BY <1>3 DEF Timely
  <2>1. elapsed <= Latest /\ elapsed \in Nat
    BY <1>1, <1>3 DEF Timely, Waiting, TypeOK
  <2>2. /\ Step' = Step /\ Step = P.call + Slack
        /\ MaxDelay(P, 1)' = MaxDelay(P, 1) /\ MaxDelay(P, 2)' = MaxDelay(P, 2)
    BY <1>2 DEF Step, MaxDelay, Backoff
  <2>3. CASE k = 1
    <3>1. Latest = Step /\ Latest' = Step + MaxDelay(P, 1) + Slack
      BY <1>3, <2>2, <2>3 DEF Latest
    <3>2. d <= MaxDelay(P, 1) + Slack
      BY <1>2, <1>3, <2>3
    <3> QED BY <1>2, <1>3, <2>1, <2>2, <3>1, <3>2
  <2>4. CASE k = 2
    <3>1. /\ Latest = 2 * Step + MaxDelay(P, 1) + Slack
          /\ Latest' = 2 * Step + MaxDelay(P, 1) + MaxDelay(P, 2) + 2 * Slack
      BY <1>3, <2>2, <2>4 DEF Latest
    <3>2. d <= MaxDelay(P, 2) + Slack
      BY <1>2, <1>3, <2>4
    <3> QED BY <1>2, <1>3, <2>1, <2>2, <3>1, <3>2
  <2> QED BY <1>3, <2>3, <2>4
<1>6. Counted' /\ FirstKept'
  BY <1>1, <1>3 DEF Counted, FirstKept, Waiting
<1>7. Answered'
  BY <1>1, <1>2, <1>3 DEF Answered
<1>8. GivesUpOnlyAfterAllAttempts' /\ DecidedByLastAttempt' /\ HistoryIsTrue'
  BY <1>3 DEF GivesUpOnlyAfterAllAttempts, DecidedByLastAttempt, HistoryIsTrue
<1> QED BY <1>4, <1>5, <1>6, <1>7, <1>8 DEF Inv

\* The loop is abandoned: by the budget only if something stalled.
LEMMA AbandonInv == Inv /\ Abandon => Inv'
<1> USE RetryAssumption
<1> SUFFICES ASSUME Inv, Abandon PROVE Inv'
  OBVIOUS
<1>1. /\ TypeOK /\ Timely /\ Counted /\ FirstKept /\ Answered
  BY DEF Inv
<1>2. /\ P.call \in Nat /\ P.budget \in 0 .. 120 /\ client' = client /\ k \in 1 .. 3
      /\ MaxDelay(P, 1) \in Nat /\ MaxDelay(P, 2) \in Nat /\ elapsed \in Nat
      /\ 3 * (P.call + Slack) + MaxDelay(P, 1) + MaxDelay(P, 2) + 2 * Slack < P.budget
  BY <1>1, BudgetCoversSchedule DEF Abandon, TypeOK, P
<1>3. stalled \/ cancelled
  <2> SUFFICES ASSUME ~stalled, BudgetEnds PROVE FALSE
    BY DEF Abandon
  <2>1. elapsed <= Latest /\ Step = P.call + Slack
    BY DEF Abandon, Inv, Timely, Waiting, Step
  <2>2. CASE pc = "call"
    <3>1. elapsed + P.call + Slack >= P.budget
      BY <2>2 DEF BudgetEnds
    <3>2. Latest <= 2 * Step + MaxDelay(P, 1) + MaxDelay(P, 2) + 2 * Slack
      BY <1>2, <2>1, <2>2 DEF Latest
    <3>3. Latest \in Nat
      BY <1>2, <2>1, <2>2 DEF Latest
    <3> QED BY <1>2, <2>1, <3>1, <3>2, <3>3
  <2>3. CASE pc = "delay"
    <3>1. elapsed + MaxDelay(P, k) + Slack >= P.budget /\ k \in {1, 2}
      BY <1>1, <1>2, <2>3 DEF BudgetEnds, Counted
    <3>2. CASE k = 1
      <4>1. Latest = Step
        BY <2>3, <3>2 DEF Latest
      <4> QED BY <1>2, <2>1, <3>1, <3>2, <4>1
    <3>3. CASE k = 2
      <4>1. Latest = 2 * Step + MaxDelay(P, 1) + Slack
        BY <2>3, <3>3 DEF Latest
      <4> QED BY <1>2, <2>1, <3>1, <3>3, <4>1
    <3> QED BY <3>1, <3>2, <3>3
  <2> QED BY <2>2, <2>3 DEF Abandon
<1>4. /\ pc \in {"call", "delay"} /\ pc' = "executed" /\ st' = "abandoned" /\ loose = 0
      /\ loose' = (IF pc = "call" THEN k ELSE 0) /\ k' = k /\ elapsed' = elapsed
      /\ attempts' = attempts /\ firstErr' = firstErr /\ answers' = answers
      /\ result' = result /\ stalled' = stalled /\ cancelled' = cancelled
  BY <1>1 DEF Abandon, Counted, Waiting, counters
<1>5. TypeOK'
  <2>1. st' \in Outcomes
    BY <1>4 DEF Outcomes
  <2> QED BY <1>1, <1>2, <1>4, <2>1 DEF TypeOK
<1>6. Timely' /\ GivesUpOnlyAfterAllAttempts' /\ HistoryIsTrue'
  BY <1>3, <1>4 DEF Timely, Waiting, GivesUpOnlyAfterAllAttempts, HistoryIsTrue
<1>7. Counted'
  BY <1>1, <1>2, <1>4 DEF Counted, Waiting
<1>8. FirstKept'
  BY <1>1, <1>2, <1>4 DEF FirstKept
<1>9. Answered'
  BY <1>1, <1>2, <1>4 DEF Answered
<1>10. DecidedByLastAttempt'
  BY <1>1, <1>2, <1>4 DEF DecidedByLastAttempt, Answered, Transient
<1> QED BY <1>5, <1>6, <1>7, <1>8, <1>9, <1>10 DEF Inv

\* The abandoned goroutine counts its attempt, whenever it does.
LEMMA LateInv ==
    ASSUME Inv, NEW a \in Answers, LooseEnds(a)
    PROVE  Inv'
<1>1. /\ TypeOK /\ Timely /\ Counted /\ FirstKept /\ Answered /\ HistoryIsTrue
      /\ DecidedByLastAttempt /\ GivesUpOnlyAfterAllAttempts
  BY DEF Inv
<1>2. /\ pc' = pc /\ k' = k /\ st' = st /\ loose = k /\ loose' = 0 /\ st = "abandoned"
      /\ pc \in {"executed", "returned"} /\ attempts = k - 1 /\ attempts' = k /\ k \in 1 .. 3
      /\ client' = client /\ elapsed' = elapsed /\ answers' = answers
      /\ result' = result /\ stalled' = stalled /\ cancelled' = cancelled
  BY <1>1 DEF LooseEnds, Count, Counted, TypeOK, Waiting
<1>3. /\ firstErr' \in 0 .. 3
      /\ k > 1 => firstErr' = 1
  BY <1>1, <1>2 DEF LooseEnds, Count, FirstKept, TypeOK
<1>4. TypeOK'
  <2>1. st' \in Outcomes
    BY <1>2 DEF Outcomes
  <2> QED BY <1>1, <1>2, <1>3, <2>1 DEF TypeOK
<1>5. Timely' /\ Counted' /\ FirstKept'
  BY <1>2, <1>3 DEF Timely, Counted, FirstKept, Waiting
<1>6. Answered' /\ DecidedByLastAttempt'
  BY <1>1, <1>2 DEF Answered, DecidedByLastAttempt
<1>7. GivesUpOnlyAfterAllAttempts' /\ HistoryIsTrue'
  BY <1>1, <1>2 DEF GivesUpOnlyAfterAllAttempts, HistoryIsTrue
<1> QED BY <1>4, <1>5, <1>6, <1>7 DEF Inv

\* The caller takes its snapshot.
LEMMA ReturnInv == Inv /\ Return => Inv'
<1> SUFFICES ASSUME Inv, Return PROVE Inv'
  OBVIOUS
<1>1. /\ TypeOK /\ Counted /\ FirstKept /\ Answered
      /\ DecidedByLastAttempt /\ GivesUpOnlyAfterAllAttempts
  BY DEF Inv
<1>2. /\ pc = "executed" /\ pc' = "returned" /\ k' = k /\ k \in 1 .. 3 /\ st' = st /\ loose' = loose
      /\ attempts' = attempts /\ firstErr' = firstErr /\ answers' = answers /\ client' = client
      /\ elapsed' = elapsed /\ stalled' = stalled /\ cancelled' = cancelled
      /\ result' = [outcome |-> st, n |-> attempts, first |-> firstErr]
  BY <1>1 DEF Return, TypeOK, counters
<1>3. TypeOK'
  BY <1>1, <1>2 DEF TypeOK
<1>4. Timely' /\ Counted' /\ FirstKept' /\ Answered'
  BY <1>1, <1>2 DEF Timely, Counted, FirstKept, Answered, Waiting
<1>5. GivesUpOnlyAfterAllAttempts' /\ DecidedByLastAttempt'
  BY <1>1, <1>2 DEF GivesUpOnlyAfterAllAttempts, DecidedByLastAttempt
<1>6. HistoryIsTrue'
  <2>1. /\ attempts \in IF st = "abandoned" THEN {k - 1, k} ELSE {k}
        /\ attempts > 1 => firstErr = 1
    BY <1>1, <1>2 DEF Counted, FirstKept, Waiting, TypeOK
  <2> QED BY <1>2, <2>1 DEF HistoryIsTrue
<1> QED BY <1>3, <1>4, <1>5, <1>6 DEF Inv

----------------------------------------------------------------------------
\* Every step keeps the invariant.
LEMMA NextInv == Inv /\ [Next]_vars => Inv'
<1> SUFFICES ASSUME Inv, [Next]_vars PROVE Inv'
  OBVIOUS
<1>1. CASE Attempt
  BY <1>1, AttemptInv DEF Attempt
<1>2. CASE Delay
  BY <1>2, DelayInv DEF Delay
<1>3. CASE Abandon
  BY <1>3, AbandonInv
<1>4. CASE Late
  BY <1>4, LateInv DEF Late
<1>5. CASE Return
  BY <1>5, ReturnInv
<1>6. CASE Stall \/ Cancel \/ UNCHANGED vars
  <2>1. /\ client' = client /\ pc' = pc /\ elapsed' = elapsed /\ k' = k /\ answers' = answers
        /\ attempts' = attempts /\ firstErr' = firstErr /\ loose' = loose /\ st' = st
        /\ result' = result
        /\ (stalled' = stalled \/ stalled' = TRUE)
        /\ (cancelled' = cancelled \/ cancelled' = TRUE)
    BY <1>6 DEF Stall, Cancel, vars, counters
  <2>2. P' = P /\ Latest' = Latest
    BY <2>1 DEF P, Latest, Step, MaxDelay, Backoff
  <2>3. TypeOK'
    BY <2>1, Zenon DEF Inv, TypeOK
  <2>4. Timely' /\ Counted' /\ FirstKept' /\ Answered'
    BY <2>1, <2>2 DEF Inv, Timely, Counted, FirstKept, Answered, Waiting
  <2>5. GivesUpOnlyAfterAllAttempts' /\ DecidedByLastAttempt' /\ HistoryIsTrue'
    BY <2>1 DEF Inv, GivesUpOnlyAfterAllAttempts, DecidedByLastAttempt, HistoryIsTrue
  <2> QED BY <2>3, <2>4, <2>5 DEF Inv
<1> QED BY <1>1, <1>2, <1>3, <1>4, <1>5, <1>6 DEF Next

\* The strengthening holds in every reachable state of the retry loop.
THEOREM SpecInv == Spec => []Inv
<1> QED BY InitInv, NextInv, PTL DEF Spec

\* Every variable of the retry loop keeps its type.
THEOREM TypeCorrect == Spec => []TypeOK
<1>1. Inv => TypeOK
  BY DEF Inv
<1> QED BY <1>1, SpecInv, PTL

\* Whatever the servers answer and however late each step is within Slack, no
\* budget of the four schedules ends a loop early (NewVerifier, Remote.Sign and
\* Decrypt, Remote.Identify, SendToTEE).
THEOREM BudgetSuffices == Spec => []GivesUpOnlyAfterAllAttempts
<1>1. Inv => GivesUpOnlyAfterAllAttempts
  BY DEF Inv
<1> QED BY <1>1, SpecInv, PTL

\* A verifier's terminal answer ends WithRetry, and only transient failures
\* were repeated, for every set of statuses.
THEOREM LastAttemptDecides == Spec => []DecidedByLastAttempt
<1>1. Inv => DecidedByLastAttempt
  BY DEF Inv
<1> QED BY <1>1, SpecInv, PTL

\* The count and the first error in WithRetry's error are true whenever the
\* goroutine of an abandoned attempt finishes.
THEOREM HistoryHonest == Spec => []HistoryIsTrue
<1>1. Inv => HistoryIsTrue
  BY DEF Inv
<1> QED BY <1>1, SpecInv, PTL
=============================================================================
