----------------------------- MODULE FdcQueue ------------------------------
(***************************************************************************)
(* One FDC queue with its workers and the handler they run:                *)
(* internal/router/processors/fdc.go, fdc_queue.go, fdc_handler.go and     *)
(* fdc_verifier.go.                                                        *)
(*                                                                         *)
(* FDC.Process stamps an instruction with its arrival and hands it to the  *)
(* queue, a heap of the external package priority.  A loop dequeues the    *)
(* oldest one for a worker, the worker runs FDCHandler.Handle, and a       *)
(* failed attempt puts THE SAME INSTANCE back after time_off.  Handle      *)
(* changes the instance in place, so an attempt that fails half way leaves *)
(* its traces for the next one; the sender reads the instance after it was *)
(* put on the channel.  The state therefore keeps, per instruction, the    *)
(* fields of the shared instance (afm, avm, sigs), and every place that    *)
(* can hold a reference to it is a set or a sequence of its own.           *)
(*                                                                         *)
(* Of the package priority only what src/ relies on is modelled: retried   *)
(* items keep their weight, a failed attempt frees its worker, the final   *)
(* failure goes to Errors.  max_dequeues_per_second only delays a dequeue  *)
(* and is left out.                                                        *)
(***************************************************************************)
EXTENDS Naturals, Sequences, FiniteSets

CONSTANTS Instrs,       \* FDC2 PROVE instructions
          Bodies,       \* response bodies of the verifier
          TooBig,       \* those above the size limit of the TEEs
          Unhashable,   \* those fdc.HashMessage returns an error for
          Empty,        \* no bytes
          MaxAttempts,  \* max_attempts of the queue
          MaxWorkers,   \* max_workers of the queue, 0 for unlimited
          OutCap,       \* capacity of the channel to the sender
          ErrCap        \* capacity of the queue's Errors channel

ASSUME FdcAssumption == /\ IsFiniteSet(Instrs)
                        /\ Empty \notin Bodies
                        /\ TooBig \subseteq Bodies
                        /\ Unhashable \subseteq Bodies
                        /\ MaxAttempts \in Nat \ {0}
                        /\ MaxWorkers \in Nat
                        /\ OutCap \in Nat \ {0}
                        /\ ErrCap \in Nat \ {0}

VARIABLES
    weight,     \* arrival time of each instruction, 0 before Process
    intake,     \* handed to Add, not yet pushed on the heap
    heap,       \* the priority queue
    step,       \* where a worker is in Handle with the instruction, or "idle"
    tries,      \* failed attempts of each instruction
    timers,     \* waiting for time_off to pass
    errors,     \* the Errors channel
    out,        \* rToS: the channel to the sender
    dq, drain,  \* the two goroutines of ProcessOut
    cancelled,  \* ctx has been cancelled
    afm,        \* AdditionalFixedMessage of the instance
    avm,        \* AdditionalVariableMessage: the body the FDC signature covers
    sigs,       \* Signatures: the two fields the TEE signatures cover
    verified,   \* history: bodies the verifier answered VERIFIED with
    queries,    \* history: verifier queries made
    emits,      \* history: how often the instruction was put on out
    rejected,   \* history: instructions the verifier rejected
    dropped     \* history: instructions given up after their last attempt

queue == <<weight, intake, heap, timers, dq>>
instance == <<afm, avm, sigs>>
history == <<verified, queries, emits, rejected, dropped>>
vars == <<weight, intake, heap, step, tries, timers, errors, out, dq, drain,
          cancelled, afm, avm, sigs, verified, queries, emits, rejected, dropped>>

Steps == {"idle", "start", "verify", "hash", "signTees", "emit", "report"}
Statuses == {"VERIFIED", "RETRY", "REJECTED", "UNKNOWN"}
Answers == [status : Statuses, body : Bodies \cup {Empty}]

Working == {i \in Instrs : step[i] # "idle"}
clock == Cardinality({i \in Instrs : weight[i] # 0})
NoSigs == [afm |-> Empty, avm |-> Empty]

Goto(i, s) == step' = [step EXCEPT ![i] = s]

\* Mutants of the definitions below: each is a plausible slip that one of the
\* properties at the end of the module has to catch.  No action uses them.
validateResponseAnySize(res) ==
    IF \/ res.status = "UNKNOWN"
       \/ res.status = "VERIFIED" /\ res.body = Empty
    THEN "error" ELSE res.status
AttemptFailsOneMore(i) ==
    /\ tries' = [tries EXCEPT ![i] = @ + 1]
    /\ IF tries[i] < MaxAttempts
       THEN Goto(i, "idle") /\ timers' = timers \cup {i}
       ELSE Goto(i, "report") /\ timers' = timers
AttemptFailsOneLess(i) ==
    /\ tries' = [tries EXCEPT ![i] = @ + 1]
    /\ IF tries[i] + 2 < MaxAttempts
       THEN Goto(i, "idle") /\ timers' = timers \cup {i}
       ELSE Goto(i, "report") /\ timers' = timers
AttemptFailsSilently(i) ==
    /\ tries' = [tries EXCEPT ![i] = @ + 1]
    /\ Goto(i, "idle")
    /\ timers' = IF tries[i] + 1 < MaxAttempts THEN timers \cup {i} ELSE timers
StartHandleAlwaysQueries(i) ==
    /\ step[i] = "start"
    /\ Goto(i, "verify")
    /\ UNCHANGED <<queue, tries, errors, out, drain, cancelled, instance, history>>
EmitThenFails(i) ==
    /\ step[i] = "emit"
    /\ Len(out) < OutCap
    /\ out' = Append(out, i)
    /\ emits' = [emits EXCEPT ![i] = @ + 1]
    /\ tries' = [tries EXCEPT ![i] = @ + 1]
    /\ timers' = timers \cup {i}
    /\ Goto(i, "idle")
    /\ UNCHANGED <<weight, intake, heap, dq, errors, drain, cancelled, instance,
                   verified, queries, rejected, dropped>>
EmitWithoutCtx(i) == step[i] = "never" /\ UNCHANGED vars

\* validateResponse: an answer outside the wire contract is an error.
validateResponse(res) ==
    IF \/ res.status = "UNKNOWN"
       \/ res.status = "VERIFIED" /\ res.body \in TooBig \cup {Empty}
    THEN "error" ELSE res.status

\* Weight.Less: i may be dequeued, nothing in the heap arrived before it.
Oldest(i) == i \in heap /\ \A j \in heap : weight[i] <= weight[j]

----------------------------------------------------------------------------
(* FDC.Process and the queue.                                              *)

\* Process takes the arrival time, then hands the instruction to the queue.
Process(i) ==
    /\ weight[i] = 0
    /\ ~cancelled
    /\ weight' = [weight EXCEPT ![i] = clock + 1]
    /\ intake' = intake \cup {i}
    /\ UNCHANGED <<heap, step, tries, timers, errors, out, dq, drain, cancelled,
                   instance, history>>

\* Add is asynchronous: the heap sees concurrent arrivals in any order.
Push(i) ==
    /\ i \in intake
    /\ intake' = intake \ {i}
    /\ heap' = heap \cup {i}
    /\ UNCHANGED <<weight, step, tries, timers, errors, out, dq, drain, cancelled,
                   instance, history>>

\* time_off has passed: the instance is queued again under its old weight.
TimerFires(i) ==
    /\ i \in timers
    /\ timers' = timers \ {i}
    /\ heap' = heap \cup {i}
    /\ UNCHANGED <<weight, intake, step, tries, errors, out, dq, drain, cancelled,
                   instance, history>>

\* The dequeue loop looks at ctx before each Dequeue.
DequeueLoop ==
    /\ dq = "loop"
    /\ dq' = IF cancelled THEN "exited" ELSE "dequeue"
    /\ UNCHANGED <<weight, intake, heap, step, tries, timers, errors, out, drain,
                   cancelled, instance, history>>

\* Dequeue waits for an instruction and a free worker.
Dequeue(i) ==
    /\ dq = "dequeue"
    /\ Oldest(i)
    /\ MaxWorkers = 0 \/ Cardinality(Working) < MaxWorkers
    /\ heap' = heap \ {i}
    /\ step' = [step EXCEPT ![i] = "start"]
    /\ dq' = "loop"
    /\ UNCHANGED <<weight, intake, tries, timers, errors, out, drain, cancelled,
                   instance, history>>

DequeueCancelled ==
    /\ dq = "dequeue"
    /\ cancelled
    /\ dq' = "loop"
    /\ UNCHANGED <<weight, intake, heap, step, tries, timers, errors, out, drain,
                   cancelled, instance, history>>

\* ProcessOut logs instructions dropped after their last attempt.
Drain ==
    /\ drain = "run"
    /\ errors # << >>
    /\ errors' = Tail(errors)
    /\ UNCHANGED <<queue, step, tries, out, drain, cancelled, instance, history>>

DrainExits ==
    /\ drain = "run"
    /\ cancelled
    /\ drain' = "exited"
    /\ UNCHANGED <<queue, step, tries, errors, out, cancelled, instance, history>>

----------------------------------------------------------------------------
(* wrapHandle and FDCHandler.Handle.                                       *)

\* The attempt ends with an error (a panic is recovered into one): the queue
\* waits for time_off and tries again, or gives up after max_attempts.
AttemptFails(i) ==
    /\ tries' = [tries EXCEPT ![i] = @ + 1]
    /\ IF tries[i] + 1 < MaxAttempts
       THEN Goto(i, "idle") /\ timers' = timers \cup {i}
       ELSE Goto(i, "report") /\ timers' = timers

\* An instruction that already verified skips the verifier.
StartHandle(i) ==
    /\ step[i] = "start"
    /\ Goto(i, IF afm[i] = Empty THEN "verify" ELSE "hash")
    /\ UNCHANGED <<queue, tries, errors, out, drain, cancelled, instance, history>>

\* Verifier.Response: VERIFIED fixes the body, REJECTED ends the instruction
\* without an error, anything else fails the attempt.
Query(i, res) ==
    LET verdict == validateResponse(res) IN
    /\ step[i] = "verify"
    /\ queries' = [queries EXCEPT ![i] = @ + 1]
    /\ \/ /\ verdict = "VERIFIED"
          /\ afm' = [afm EXCEPT ![i] = res.body]
          /\ verified' = [verified EXCEPT ![i] = @ \cup {res.body}]
          /\ Goto(i, "hash")
          /\ UNCHANGED <<tries, timers, rejected>>
       \/ /\ verdict = "REJECTED"
          /\ rejected' = rejected \cup {i}
          /\ Goto(i, "idle")
          /\ UNCHANGED <<tries, timers, afm, verified>>
       \/ /\ verdict \in {"RETRY", "error"}
          /\ AttemptFails(i)
          /\ UNCHANGED <<afm, verified, rejected>>
    /\ UNCHANGED <<weight, intake, heap, dq, errors, out, drain, cancelled, avm,
                   sigs, emits, dropped>>

\* No answer (HTTP failure, undecodable answer, ctx done), a failing signer, a
\* wrong number of signatures, or a panic anywhere before the emit.
HandleFails(i) ==
    /\ step[i] \in {"start", "verify", "hash", "signTees"}
    /\ AttemptFails(i)
    /\ queries' = [queries EXCEPT ![i] = IF step[i] = "verify" THEN @ + 1 ELSE @]
    /\ UNCHANGED <<weight, intake, heap, dq, errors, out, drain, cancelled,
                   instance, verified, emits, rejected, dropped>>

\* HashMessage, the Relay digest and its signature, stored in the instance.
SignResponse(i) ==
    /\ step[i] = "hash"
    /\ afm[i] \notin Unhashable
    /\ avm' = [avm EXCEPT ![i] = afm[i]]
    /\ Goto(i, "signTees")
    /\ UNCHANGED <<queue, tries, errors, out, drain, cancelled, afm, sigs, history>>

\* ib.Sign: one signature per TEE over the whole of GeneralData.
SignTees(i) ==
    /\ step[i] = "signTees"
    /\ sigs' = [sigs EXCEPT ![i] = [afm |-> afm[i], avm |-> avm[i]]]
    /\ Goto(i, "emit")
    /\ UNCHANGED <<queue, tries, errors, out, drain, cancelled, afm, avm, history>>

\* h.out <- ib
Emit(i) ==
    /\ step[i] = "emit"
    /\ Len(out) < OutCap
    /\ out' = Append(out, i)
    /\ emits' = [emits EXCEPT ![i] = @ + 1]
    /\ Goto(i, "idle")
    /\ UNCHANGED <<queue, tries, errors, drain, cancelled, instance, verified,
                   queries, rejected, dropped>>

\* ... or ctx is done.
EmitCancelled(i) ==
    /\ step[i] = "emit"
    /\ cancelled
    /\ AttemptFails(i)
    /\ UNCHANGED <<weight, intake, heap, dq, errors, out, drain, cancelled,
                   instance, history>>

\* The last failed attempt is reported on Errors.
Report(i) ==
    /\ step[i] = "report"
    /\ Len(errors) < ErrCap
    /\ errors' = Append(errors, i)
    /\ dropped' = dropped \cup {i}
    /\ Goto(i, "idle")
    /\ UNCHANGED <<queue, tries, out, drain, cancelled, instance, verified, queries,
                   emits, rejected>>

----------------------------------------------------------------------------
(* The environment: the sender takes instructions, a signal cancels ctx.   *)

SenderTakes ==
    /\ out # << >>
    /\ out' = Tail(out)
    /\ UNCHANGED <<queue, step, tries, errors, drain, cancelled, instance, history>>

Cancel ==
    /\ ~cancelled
    /\ cancelled' = TRUE
    /\ UNCHANGED <<queue, step, tries, errors, out, drain, instance, history>>

----------------------------------------------------------------------------
Init ==
    /\ weight = [i \in Instrs |-> 0]
    /\ intake = {} /\ heap = {} /\ timers = {}
    /\ step = [i \in Instrs |-> "idle"]
    /\ tries = [i \in Instrs |-> 0]
    /\ errors = << >> /\ out = << >>
    /\ dq = "loop" /\ drain = "run"
    /\ cancelled = FALSE
    /\ afm = [i \in Instrs |-> Empty]
    /\ avm = [i \in Instrs |-> Empty]
    /\ sigs = [i \in Instrs |-> NoSigs]
    /\ verified = [i \in Instrs |-> {}]
    /\ queries = [i \in Instrs |-> 0]
    /\ emits = [i \in Instrs |-> 0]
    /\ rejected = {} /\ dropped = {}

Handle(i) ==
    \/ StartHandle(i)
    \/ \E res \in Answers : Query(i, res)
    \/ HandleFails(i)
    \/ SignResponse(i)
    \/ SignTees(i)
    \/ Emit(i)
    \/ EmitCancelled(i)
    \/ Report(i)

Loop == DequeueLoop \/ DequeueCancelled \/ \E i \in Instrs : Dequeue(i)

Next ==
    \/ \E i \in Instrs : Process(i) \/ Push(i) \/ TimerFires(i) \/ Handle(i)
    \/ Loop
    \/ Drain \/ DrainExits
    \/ SenderTakes \/ Cancel

Spec == Init /\ [][Next]_vars

(* The goroutines keep running (every call in Handle is bounded by its own  *)
(* timeout, so a worker always gets on), timers fire, and the sender takes  *)
(* instructions until ctx is cancelled.  Nothing has to succeed.            *)
Fairness ==
    /\ \A i \in Instrs : /\ WF_vars(Push(i))
                         /\ WF_vars(TimerFires(i))
                         /\ WF_vars(Handle(i))
    /\ WF_vars(Loop)
    /\ WF_vars(Drain)
    /\ WF_vars(DrainExits)
    /\ WF_vars(~cancelled /\ SenderTakes)

FairSpec == Spec /\ Fairness

----------------------------------------------------------------------------
(* Properties.                                                             *)

TypeOK ==
    /\ weight \in [Instrs -> Nat]
    /\ intake \in SUBSET Instrs /\ heap \in SUBSET Instrs
    /\ timers \in SUBSET Instrs
    /\ step \in [Instrs -> Steps]
    /\ tries \in [Instrs -> 0 .. MaxAttempts]
    /\ errors \in Seq(Instrs) /\ out \in Seq(Instrs)
    /\ dq \in {"loop", "dequeue", "exited"}
    /\ drain \in {"run", "exited"}
    /\ cancelled \in BOOLEAN
    /\ afm \in [Instrs -> Bodies \cup {Empty}]
    /\ avm \in [Instrs -> Bodies \cup {Empty}]
    /\ sigs \in [Instrs -> [afm : Bodies \cup {Empty}, avm : Bodies \cup {Empty}]]
    /\ verified \in [Instrs -> SUBSET Bodies]
    /\ queries \in [Instrs -> Nat]
    /\ emits \in [Instrs -> Nat]
    /\ rejected \in SUBSET Instrs /\ dropped \in SUBSET Instrs

\* From the moment an instruction is on the channel, whatever attempts came
\* before: its body is nonempty, small enough and the one the verifier
\* confirmed, the FDC signature covers that body, and the TEE signatures cover
\* exactly these two fields.
EmittedIsConsistent ==
    \A i \in Instrs : emits[i] > 0 =>
        /\ afm[i] \in verified[i] \ (TooBig \cup {Empty})
        /\ avm[i] = afm[i]
        /\ sigs[i] = [afm |-> afm[i], avm |-> avm[i]]

\* The instance has one holder at a time: intake, heap, timer, worker, or one
\* of the final states.  Two holders would be two goroutines writing one
\* instance, or one writing what the sender reads.
One(p) == IF p THEN 1 ELSE 0
Holders(i) == One(i \in intake) + One(i \in heap) + One(i \in timers)
              + One(step[i] # "idle") + One(i \in rejected) + One(i \in dropped)
              + emits[i]
OneHolder ==
    \A i \in Instrs : Holders(i) = IF weight[i] = 0 THEN 0 ELSE 1

\* The verifier is asked at most once per attempt, never after it confirmed a
\* body, and no instruction is given up before its max_attempts-th failure.
AttemptsBounded ==
    \A i \in Instrs :
        /\ queries[i] <= MaxAttempts
        /\ verified[i] = {afm[i]} \ {Empty}
        /\ i \in dropped => tries[i] = MaxAttempts
        /\ emits[i] > 0 \/ i \in rejected => tries[i] < MaxAttempts

\* A confirmed body is final, and once emitted no field of the instance
\* changes: the sender and the TEEs see what was signed.
VerdictFinal ==
    [][\A i \in Instrs :
        /\ afm[i] # Empty => afm'[i] = afm[i]
        /\ emits[i] > 0 => /\ avm'[i] = avm[i]
                           /\ sigs'[i] = sigs[i]]_vars

\* Why the properties above hold: what each step of Handle can rely on when it
\* finds the traces earlier attempts left in the instance.
StepKnows(i) ==
    /\ step[i] = "verify" => afm[i] = Empty
    /\ step[i] \in {"hash", "signTees", "emit"} => afm[i] # Empty
    /\ step[i] \in {"signTees", "emit"} => avm[i] = afm[i]
    /\ step[i] = "emit" => sigs[i] = [afm |-> afm[i], avm |-> avm[i]]
    /\ step[i] = "report" => tries[i] = MaxAttempts
    /\ step[i] # "report" /\ i \notin dropped => tries[i] < MaxAttempts
    /\ afm[i] = Empty /\ i \notin rejected => queries[i] <= tries[i]
FdcInv ==
    /\ \A i \in Instrs : StepKnows(i) /\ afm[i] \notin TooBig
    /\ OneHolder /\ EmittedIsConsistent /\ AttemptsBounded

\* How far an instruction is from its end: the stages ahead of it in the present
\* attempt, at most ten, and the attempts it has left.
AtWorker == [start |-> 6, verify |-> 5, hash |-> 4, signTees |-> 3, emit |-> 2,
             report |-> 1, idle |-> 0]
Ahead(i) ==
    CASE weight[i] = 0   -> 10
      [] i \in intake    -> 9
      [] i \in timers    -> 8
      [] i \in heap      -> 7
      [] OTHER           -> AtWorker[step[i]]
Left(i) == (MaxAttempts - tries[i]) * 11 + Ahead(i)

\* No instruction goes round for nothing: whatever happens to it, other than
\* waiting, brings it nearer to its end, and coming back to the queue uses up an
\* attempt.  This is why Settles holds as soon as each step is taken: the worker
\* that panics, the timer and a shutdown can make no instruction return for ever.
NothingForNothing ==
    [][\A i \in Instrs :
          \/ tries'[i] = tries[i] /\ Ahead(i)' = Ahead(i)
          \/ Left(i)' < Left(i)]_vars

\* Every instruction handed to the queue is emitted, rejected or dropped, also
\* while older ones keep coming back with their old weight, unless shut down.
Settles ==
    \A i \in Instrs :
        weight[i] # 0 ~> (emits[i] > 0 \/ i \in rejected \cup dropped \/ cancelled)

\* After cancellation both goroutines the client waits for return, and no
\* worker stays in Handle, even with the channel to the sender full.
QueueStops ==
    cancelled ~> /\ dq = "exited" /\ drain = "exited"
                 /\ \A i \in Instrs : step[i] \in {"idle", "report"}
=============================================================================
