------------------------------- MODULE Damper -------------------------------
(***************************************************************************)
(* The failure dampers of the collector: internal/collector/damper.go, and *)
(* the rounds of instructionsListener that drive two of them, one for each *)
(* query.  A failing operation writes an Error line first, then one about  *)
(* every SummaryInterval, and Debug lines in between.  The time stamps are *)
(* read after the line is written (the clock may move on, by Delay).  A    *)
(* round that fails at the state says nothing to the damper of the logs:   *)
(* the outages of the two operations overlap in any way.                   *)
(***************************************************************************)
EXTENDS Integers

CONSTANTS SummaryInterval,
          MaxGap,    \* bound: time between two rounds, at least one unit
          Delay,     \* bound: time between a line and the stamp of it
          MaxClock   \* bound: of the clock

ASSUME DamperAssumption == /\ SummaryInterval \in Nat \ {0}
                           /\ MaxGap \in Nat /\ Delay \in Nat /\ MaxClock \in Nat

Ops == {"state", "logs"}  \* stateDamper, logsDamper

VARIABLES
    clock,    \* time.Now
    pc,       \* the listener: "tick", or the query it is about to make
    failures, \* fields of the two dampers
    lastErr,
    written,  \* history: time of the last Error line of this outage, or Never
    began,    \* history: time of the first failure of this outage
    lines     \* history: Error lines of this outage

vars == <<clock, pc, failures, lastErr, written, began, lines>>

Never == -1

\* Mutants of the definitions below: plausible slips, used by no action.
failStampsAlways(op) ==
    /\ failures' = [failures EXCEPT ![op] = @ + 1]
    /\ clock' \in clock .. clock + Delay
    /\ lastErr' = [lastErr EXCEPT ![op] = clock']
    /\ IF failures[op] = 0 \/ clock - lastErr[op] >= SummaryInterval
       THEN /\ written' = [written EXCEPT ![op] = clock]
            /\ lines' = [lines EXCEPT ![op] = @ + 1]
       ELSE UNCHANGED <<written, lines>>
    /\ began' = IF failures[op] = 0 THEN [began EXCEPT ![op] = clock] ELSE began
okKeepsCount(op) ==
    /\ UNCHANGED failures
    /\ written' = [written EXCEPT ![op] = Never]
    /\ lines' = [lines EXCEPT ![op] = 0]
    /\ UNCHANGED <<clock, lastErr, began>>
SummaryDueSinceStart(op) == clock - began[op] >= SummaryInterval

\* A summary is due: measured from the stamp of the last Error line.
SummaryDue(op) == clock - lastErr[op] >= SummaryInterval

\* damper.fail
fail(op) ==
    /\ failures' = [failures EXCEPT ![op] = @ + 1]
    /\ began' = IF failures[op] = 0 THEN [began EXCEPT ![op] = clock] ELSE began
    /\ IF failures[op] = 0 \/ SummaryDue(op)
       THEN /\ written' = [written EXCEPT ![op] = clock]
            /\ lines' = [lines EXCEPT ![op] = @ + 1]
            /\ clock' \in clock .. clock + Delay
            /\ lastErr' = [lastErr EXCEPT ![op] = clock']
       ELSE UNCHANGED <<clock, lastErr, written, lines>>

\* damper.ok: the Info line of the recovery ends the outage.
ok(op) ==
    /\ failures' = [failures EXCEPT ![op] = 0]
    /\ written' = [written EXCEPT ![op] = Never]
    /\ lines' = [lines EXCEPT ![op] = 0]
    /\ UNCHANGED <<clock, lastErr, began>>

----------------------------------------------------------------------------
(* One round of instructionsListener.                                      *)

Tick ==
    /\ pc = "tick"
    /\ clock < MaxClock
    /\ clock' \in clock + 1 .. clock + MaxGap
    /\ pc' = "state"
    /\ UNCHANGED <<failures, lastErr, written, began, lines>>

FetchState == pc = "state" /\ ok("state") /\ pc' = "logs"
FetchLogs == pc = "logs" /\ ok("logs") /\ pc' = "tick"
FetchFails == pc \in Ops /\ fail(pc) /\ pc' = "tick"

Init == /\ clock = 0 /\ pc = "tick"
        /\ failures = [op \in Ops |-> 0] /\ lastErr = [op \in Ops |-> 0]
        /\ written = [op \in Ops |-> Never] /\ began = [op \in Ops |-> 0]
        /\ lines = [op \in Ops |-> 0]

Next == Tick \/ FetchState \/ FetchLogs \/ FetchFails
Spec == Init /\ [][Next]_vars

----------------------------------------------------------------------------
(* Properties.                                                             *)

\* A failure is never silent: when a round fails, the operation that failed has
\* written an Error line in its present outage, and the last one is less than
\* SummaryInterval old (and Delay, as stamps are late), however long the outage,
\* however the two operations alternate, and also right after a recovery.
NoSilentOutage ==
    [][FetchFails =>
         /\ written'[pc] # Never
         /\ clock - written'[pc] < SummaryInterval + Delay]_vars

\* The Error lines of one outage are rationed: one, and at most one more for
\* each SummaryInterval the outage has lasted, for any times between rounds.
ErrorsRationed ==
    \A op \in Ops : failures[op] > 0 =>
        lines[op] <= 1 + (clock - began[op]) \div SummaryInterval

TypeOK ==
    /\ clock \in Nat
    /\ pc \in {"tick"} \cup Ops
    /\ failures \in [Ops -> Nat] /\ lines \in [Ops -> Nat]
    /\ lastErr \in [Ops -> Nat] /\ began \in [Ops -> Nat]
    /\ written \in [Ops -> Nat \cup {Never}]

\* Why the two hold: in an outage the stamp is at most Delay behind its line,
\* and every line but the first has used up one more SummaryInterval between
\* the beginning of the outage and the stamp.
Stamped(op) ==
    /\ written[op] # Never
    /\ written[op] <= lastErr[op] /\ lastErr[op] <= written[op] + Delay
    /\ lastErr[op] <= clock
Rationed(op) ==
    /\ lines[op] >= 1
    /\ began[op] + (lines[op] - 1) * SummaryInterval <= lastErr[op]
DamperInv ==
    \A op \in Ops :
        IF failures[op] = 0 THEN lines[op] = 0 ELSE Stamped(op) /\ Rationed(op)
=============================================================================
