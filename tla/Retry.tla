------------------------------- MODULE Retry -------------------------------
(***************************************************************************)
(* One remote call with retries: post.WithRetry (internal/post/post.go)    *)
(* with the parameters NewVerifier gives it, and the three callers that    *)
(* use the library's loop directly: Remote.Sign and Decrypt,               *)
(* Remote.Identify (pkg/signer/remote.go) and SendToTEE (internal/sender). *)
(*                                                                         *)
(* retry.Execute runs the attempts one after the other under a budget of   *)
(* its own.  When the budget or the context ends it returns at once and    *)
(* ABANDONS the attempt in flight, whose goroutine still finishes: before  *)
(* or after the caller has read the counters it shares with it.            *)
(*                                                                         *)
(* Time is counted in half seconds.  Every step may be late by Slack.      *)
(***************************************************************************)
EXTENDS Naturals

CONSTANTS Statuses,  \* HTTP statuses of failures; 0: there was no response
          Slack      \* bound: how late a call or a delay may end

ASSUME RetryAssumption == Statuses \subseteq Nat /\ Slack \in 0 .. 1

VARIABLES
    client,     \* which of the callers this is
    pc,         \* "call", "delay", "executed" (Execute returned), "returned"
    elapsed,    \* since the loop began
    k,          \* attempt in flight, or the last one
    answers,    \* history: what each attempt was answered in time
    attempts, firstErr, \* WithRetry's counters; firstErr by its attempt, 0: nil
    loose,      \* abandoned attempt whose goroutine still runs, 0: none
    st,         \* how Execute ended
    result,     \* what the caller reports
    stalled,    \* an attempt outlasts its own timeout
    cancelled   \* ctx has been cancelled

vars == <<client, pc, elapsed, k, answers, attempts, firstErr, loose, st, result,
          stalled, cancelled>>
counters == <<attempts, firstErr>>

----------------------------------------------------------------------------
(* The schedules.  jitter is in tenths of the delay.                       *)

NewVerifier  == [call |-> 20, tries |-> 3, delay |-> 10, mult |-> 2, jitter |-> 3, budget |-> 120]
RemoteSign   == [call |-> 10, tries |-> 3, delay |-> 20, mult |-> 1, jitter |-> 0, budget |-> 80]
Identify     == [call |-> 20, tries |-> 3, delay |-> 10, mult |-> 1, jitter |-> 0, budget |-> 90]
SendToTEE    == [call |-> 10, tries |-> 3, delay |-> 20, mult |-> 1, jitter |-> 0, budget |-> 120]

\* Mutant of the next definition: the budget before the jitter was considered.
ParamsTight == [verify |-> [NewVerifier EXCEPT !.budget = 100], sign |-> RemoteSign,
                identify |-> Identify, send |-> SendToTEE]
Params == [verify |-> NewVerifier, sign |-> RemoteSign, identify |-> Identify,
           send |-> SendToTEE]
Clients == {"verify", "sign", "identify", "send"}
P == Params[client]

\* The delay after attempt n, at least and at most.
Backoff(p, n) == IF n = 1 THEN p.delay ELSE p.delay * p.mult
MinDelay(p, n) == (Backoff(p, n) * (10 - p.jitter)) \div 10
MaxDelay(p, n) == (Backoff(p, n) * (10 + p.jitter)) \div 10

----------------------------------------------------------------------------
(* Answers.  An answer that is not ok with status 200 did not decode.      *)

Answers == [status : Statuses, ok : {FALSE}] \cup [status : {200}, ok : BOOLEAN]
NoAnswer == [status |-> 0, ok |-> FALSE]

\* Mutant of the next definition: every client and server error is transient.
retryableErrors(status) == status = 0 \/ status >= 400
retryable(status) ==
    \/ status \in {0, 408, 429}
    \/ status >= 500 /\ status <= 599

\* The callers of the library's loop have every failed request repeated.
Repeats(a) == ~a.ok /\ IF client = "verify" THEN retryable(a.status) ELSE a.status # 200

----------------------------------------------------------------------------
(* Mutants of the actions below; no action uses them.                      *)
CountLatest(a, n) ==
    /\ attempts' = attempts + 1
    /\ firstErr' = IF ~a.ok THEN n ELSE firstErr
\* WithRetry waits for the goroutines of all attempts before it reads their counters.
ReturnAfterAttempts ==
    /\ pc = "executed"
    /\ loose = 0
    /\ result' = [outcome |-> st, n |-> attempts, first |-> firstErr]
    /\ pc' = "returned"
    /\ UNCHANGED <<client, elapsed, k, answers, counters, loose, st, stalled, cancelled>>

----------------------------------------------------------------------------
(* The loop.                                                               *)

\* The critical section of wrapped, run by the goroutine of attempt n.
Count(a, n) ==
    /\ attempts' = attempts + 1
    /\ firstErr' = IF ~a.ok /\ firstErr = 0 THEN n ELSE firstErr

\* A terminal answer ends the loop as a success of wrapped that carries an error.
AttemptEnds(a, d) ==
    /\ pc = "call"
    /\ stalled \/ d <= P.call + Slack
    /\ elapsed + d <= P.budget
    /\ elapsed' = elapsed + d
    /\ answers' = [answers EXCEPT ![k] = a]
    /\ Count(a, k)
    /\ stalled' = stalled
    /\ st' = CASE a.ok -> "value"
               [] ~a.ok /\ ~Repeats(a) -> "terminal"
               [] Repeats(a) /\ k = P.tries -> "exhausted"
               [] OTHER -> st
    /\ pc' = IF Repeats(a) /\ k < P.tries THEN "delay" ELSE "executed"
    /\ UNCHANGED <<client, k, loose, result, cancelled>>

DelayEnds(d) ==
    /\ pc = "delay"
    /\ d \in MinDelay(P, k) .. MaxDelay(P, k) + Slack
    /\ elapsed + d <= P.budget
    /\ elapsed' = elapsed + d
    /\ k' = k + 1
    /\ pc' = "call"
    /\ UNCHANGED <<client, answers, counters, loose, st, result, stalled, cancelled>>

\* The attempt in flight does not keep to its timeout.
Stall ==
    /\ pc = "call"
    /\ ~stalled
    /\ stalled' = TRUE
    /\ UNCHANGED <<client, pc, elapsed, k, answers, counters, loose, st, result, cancelled>>

\* The wait that is going on may last to the end of the budget.
BudgetEnds ==
    \/ pc = "call" /\ (stalled \/ elapsed + P.call + Slack >= P.budget)
    \/ pc = "delay" /\ elapsed + MaxDelay(P, k) + Slack >= P.budget

\* Execute returns without waiting for the attempt in flight.
Abandon ==
    /\ pc \in {"call", "delay"}
    /\ cancelled \/ BudgetEnds
    /\ loose' = IF pc = "call" THEN k ELSE 0
    /\ st' = "abandoned"
    /\ pc' = "executed"
    /\ UNCHANGED <<client, elapsed, k, answers, counters, result, stalled, cancelled>>

\* Its goroutine finishes, before or after the caller's snapshot.
LooseEnds(a) ==
    /\ loose # 0
    /\ Count(a, loose)
    /\ loose' = 0
    /\ UNCHANGED <<client, pc, elapsed, k, answers, st, result, stalled, cancelled>>

\* The caller reads the counters and turns st into its answer.
Return ==
    /\ pc = "executed"
    /\ result' = [outcome |-> st, n |-> attempts, first |-> firstErr]
    /\ pc' = "returned"
    /\ UNCHANGED <<client, elapsed, k, answers, counters, loose, st, stalled, cancelled>>

Cancel ==
    /\ ~cancelled
    /\ cancelled' = TRUE
    /\ UNCHANGED <<client, pc, elapsed, k, answers, counters, loose, st, result, stalled>>

----------------------------------------------------------------------------
Init ==
    /\ client \in Clients
    /\ pc = "call" /\ k = 1 /\ elapsed = 0
    /\ answers = [i \in 1 .. 3 |-> NoAnswer]
    /\ attempts = 0 /\ firstErr = 0 /\ loose = 0
    /\ st = "none"
    /\ result = [outcome |-> "none", n |-> 0, first |-> 0]
    /\ stalled = FALSE /\ cancelled = FALSE

Attempt == \E a \in Answers, d \in 0 .. P.budget : AttemptEnds(a, d)
Delay == \E d \in 0 .. P.budget : DelayEnds(d)
Late == \E a \in Answers : LooseEnds(a)

Next == Attempt \/ Delay \/ Stall \/ Abandon \/ Late \/ Return \/ Cancel

Spec == Init /\ [][Next]_vars

(* Timers fire; a call that keeps to its timeout ends.  Nothing makes a     *)
(* stalled attempt end.                                                    *)
Fairness == /\ WF_vars(~stalled /\ Attempt) /\ WF_vars(Delay) /\ WF_vars(Abandon)
            /\ WF_vars(Return)
FairSpec == Spec /\ Fairness

----------------------------------------------------------------------------
(* Properties.                                                             *)

Outcomes == {"none", "value", "terminal", "exhausted", "abandoned"}
TypeOK ==
    /\ client \in Clients
    /\ pc \in {"call", "delay", "executed", "returned"}
    /\ elapsed \in 0 .. 120
    /\ k \in 1 .. 3
    /\ answers \in [1 .. 3 -> Answers \cup {NoAnswer}]
    /\ attempts \in 0 .. 3
    /\ firstErr \in 0 .. 3 /\ loose \in 0 .. 3
    /\ st \in Outcomes
    /\ result \in [outcome : Outcomes, n : 0 .. 3, first : 0 .. 3]
    /\ stalled \in BOOLEAN /\ cancelled \in BOOLEAN

\* No retry is dropped for want of time: unless the relay shuts down or a call
\* ignores its own timeout, the loop ends by an answer or after all attempts,
\* though calls run to their timeouts, delays to their jitter and every step is
\* late (the comments on the budgets: "covers the worst-case schedule").
GivesUpOnlyAfterAllAttempts ==
    pc \in {"executed", "returned"} =>
        \/ st # "abandoned"
        \/ stalled \/ cancelled

\* The attempt that decides is the last one, and only transient failures came
\* before it: the verifier is not asked again after 404, 600 or an answer that
\* does not decode, and such an answer is never taken for a response.
DecidedByLastAttempt ==
    (client = "verify" /\ pc \in {"executed", "returned"}) =>
        /\ \A i \in 1 .. k - 1 : ~answers[i].ok /\ answers[i].status \in {0, 408, 429} \cup 500 .. 599
        /\ st = "value" => answers[k].ok
        /\ st = "terminal" => answers[k].status \notin {0, 408, 429} \cup 500 .. 599

\* The history WithRetry reports is that of the attempts before the return: all
\* that were started, the abandoned one possibly excepted, and the first error
\* is the first attempt's, whenever the abandoned goroutine finishes.
HistoryIsTrue ==
    pc = "returned" =>
        /\ result.n \in IF st = "abandoned" THEN {k - 1, k} ELSE {k}
        /\ result.n > 1 => result.first = 1

\* The caller gets its answer or an error, even when the attempt in flight
\* never ends (a worker of an FDC queue is not lost to a hanging verifier).
CallerNeverHangs == <>(pc = "returned")
=============================================================================
