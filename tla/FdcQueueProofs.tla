--------------------------- MODULE FdcQueueProofs --------------------------
(***************************************************************************)
(* Proofs about FdcQueue and its refinement of FdcPromise, for every set   *)
(* of instructions and bodies and every max_attempts, max_workers and      *)
(* channel capacity.                                                       *)
(*                                                                         *)
(* The invariant speaks of one instruction at a time, and every action     *)
(* changes at most one: Inv(j) is kept for the instruction an action is    *)
(* about by the action's own argument, for the others by Frame.            *)
(***************************************************************************)
EXTENDS FdcRefinement, FiniteSetTheorems, TLAPS

USE FdcAssumption DEF FdcAssumption

(* FdcInv for one instruction.                                              *)
Emitted(j) == emits[j] > 0 =>
    /\ afm[j] \in verified[j] \ (TooBig \cup {Empty})
    /\ avm[j] = afm[j]
    /\ sigs[j] = [afm |-> afm[j], avm |-> avm[j]]
Attempts(j) ==
    /\ queries[j] <= MaxAttempts
    /\ verified[j] = {afm[j]} \ {Empty}
    /\ j \in dropped => tries[j] = MaxAttempts
    /\ emits[j] > 0 \/ j \in rejected => tries[j] < MaxAttempts
Inv(j) ==
    /\ StepKnows(j) /\ afm[j] \notin TooBig
    /\ Holders(j) = One(weight[j] # 0)
    /\ Emitted(j) /\ Attempts(j)

Typed(j) ==
    /\ weight[j] \in Nat /\ step[j] \in Steps
    /\ tries[j] \in 0 .. MaxAttempts
    /\ afm[j] \in Bodies \cup {Empty} /\ avm[j] \in Bodies \cup {Empty}
    /\ sigs[j] \in [afm : Bodies \cup {Empty}, avm : Bodies \cup {Empty}]
    /\ verified[j] \in SUBSET Bodies
    /\ queries[j] \in Nat /\ emits[j] \in Nat

(* TypeOK without the flags. *)
Funs ==
    /\ weight \in [Instrs -> Nat] /\ step \in [Instrs -> Steps]
    /\ intake \in SUBSET Instrs /\ heap \in SUBSET Instrs /\ timers \in SUBSET Instrs
    /\ rejected \in SUBSET Instrs /\ dropped \in SUBSET Instrs
    /\ tries \in [Instrs -> 0 .. MaxAttempts]
    /\ afm \in [Instrs -> Bodies \cup {Empty}] /\ avm \in [Instrs -> Bodies \cup {Empty}]
    /\ sigs \in [Instrs -> [afm : Bodies \cup {Empty}, avm : Bodies \cup {Empty}]]
    /\ verified \in [Instrs -> SUBSET Bodies]
    /\ queries \in [Instrs -> Nat] /\ emits \in [Instrs -> Nat]

(* What an action about i leaves alone of every other instruction.          *)
Same(j) ==
    /\ weight'[j] = weight[j] /\ step'[j] = step[j] /\ tries'[j] = tries[j]
    /\ afm'[j] = afm[j] /\ avm'[j] = avm[j] /\ sigs'[j] = sigs[j]
    /\ verified'[j] = verified[j] /\ queries'[j] = queries[j] /\ emits'[j] = emits[j]
    /\ j \in intake' <=> j \in intake
    /\ j \in heap' <=> j \in heap
    /\ j \in timers' <=> j \in timers
    /\ j \in rejected' <=> j \in rejected
    /\ j \in dropped' <=> j \in dropped

LEMMA InvIsFdcInv == FdcInv <=> \A j \in Instrs : Inv(j)
  BY DEF FdcInv, Inv, OneHolder, EmittedIsConsistent, AttemptsBounded, Emitted,
         Attempts, One

LEMMA TypedOf == ASSUME TypeOK, NEW j \in Instrs PROVE Typed(j) /\ Funs
  BY DEF TypeOK, Typed, Funs

LEMMA Frame ==
    ASSUME NEW j \in Instrs, Inv(j), Same(j)
    PROVE  Inv(j)'
  BY DEF Inv, Same, StepKnows, Holders, One, Emitted, Attempts

----------------------------------------------------------------------------
(* An attempt that fails: it is counted, and the instance goes to exactly   *)
(* one of the timers and the final report.                                  *)
Fails(i) ==
    /\ tries'[i] = tries[i] + 1
    /\ \/ step'[i] = "idle" /\ i \in timers' /\ tries[i] + 1 < MaxAttempts
       \/ step'[i] = "report" /\ i \notin timers' /\ tries[i] + 1 = MaxAttempts
    /\ weight'[i] = weight[i] /\ afm'[i] = afm[i] /\ avm'[i] = avm[i]
    /\ sigs'[i] = sigs[i] /\ verified'[i] = verified[i] /\ emits'[i] = emits[i]
    /\ queries'[i] = queries[i] + One(step[i] = "verify")
    /\ UNCHANGED <<intake, heap, rejected, dropped>>

(* While a worker has the instance nobody else does, and no attempt is      *)
(* counted as the last one.                                                 *)
LEMMA WorkerHolds ==
    ASSUME NEW i \in Instrs, Typed(i), Inv(i), step[i] # "idle"
    PROVE  /\ weight[i] # 0 /\ emits[i] = 0
           /\ i \notin intake /\ i \notin heap /\ i \notin timers
           /\ i \notin rejected /\ i \notin dropped
           /\ step[i] # "report" => tries[i] < MaxAttempts
  BY DEF Typed, Inv, Holders, One, StepKnows

LEMMA FailsInv ==
    ASSUME NEW i \in Instrs, Typed(i), Inv(i),
           step[i] \in {"start", "verify", "hash", "signTees", "emit"}, Fails(i)
    PROVE  Inv(i)'
<1> USE WorkerHolds
<1>1. StepKnows(i)' /\ afm'[i] \notin TooBig
  BY DEF Typed, Inv, StepKnows, One, Attempts, Fails
<1>2. (Holders(i) = One(weight[i] # 0))'
  BY DEF Fails, Holders, One
<1>3. Emitted(i)'
  BY DEF Fails, Emitted
<1>4. Attempts(i)'
  BY DEF Typed, Inv, StepKnows, One, Attempts, Fails
<1> QED BY <1>1, <1>2, <1>3, <1>4 DEF Inv

LEMMA AttemptFailsEffect ==
    ASSUME Funs, NEW i \in Instrs, AttemptFails(i), tries[i] < MaxAttempts,
           i \notin timers
    PROVE  /\ tries'[i] = tries[i] + 1
           /\ \/ step'[i] = "idle" /\ i \in timers' /\ tries[i] + 1 < MaxAttempts
              \/ step'[i] = "report" /\ i \notin timers' /\ tries[i] + 1 = MaxAttempts
           /\ \A j \in Instrs \ {i} :
                 /\ tries'[j] = tries[j] /\ step'[j] = step[j]
                 /\ j \in timers' <=> j \in timers
<1>1. tries' = [tries EXCEPT ![i] = @ + 1]
  BY DEF AttemptFails
<1>2. tries[i] \in Nat
  BY DEF Funs
<1>3. CASE tries[i] + 1 < MaxAttempts
  <2>1. step' = [step EXCEPT ![i] = "idle"] /\ timers' = timers \cup {i}
    BY <1>3 DEF AttemptFails, Goto
  <2> QED BY <1>1, <1>2, <1>3, <2>1 DEF Funs
<1>4. CASE ~(tries[i] + 1 < MaxAttempts)
  <2>1. step' = [step EXCEPT ![i] = "report"] /\ timers' = timers
    BY <1>4 DEF AttemptFails, Goto
  <2> QED BY <1>1, <1>2, <1>4, <2>1 DEF Funs
<1> QED BY <1>3, <1>4

----------------------------------------------------------------------------
(* Every action about i keeps Inv(i) and leaves the others alone.           *)

(* Process takes the arrival time and holds the instance in intake. *)
LEMMA ProcessInv ==
    ASSUME TypeOK, NEW i \in Instrs, Inv(i), Process(i)
    PROVE  Inv(i)' /\ \A j \in Instrs \ {i} : Same(j)
<1>1. Typed(i) /\ Funs
  BY TypedOf
<1>2. clock \in Nat
  BY FS_Subset, FS_CardinalityType DEF clock
<1>3. /\ weight[i] = 0 /\ weight'[i] = clock + 1 /\ intake' = intake \cup {i}
      /\ \A j \in Instrs \ {i} : weight'[j] = weight[j]
      /\ UNCHANGED <<heap, step, tries, timers, instance, history>>
  BY <1>1 DEF Process, Funs
<1>4. StepKnows(i)' /\ afm'[i] \notin TooBig
  BY <1>1, <1>3 DEF Typed, Inv, StepKnows, Holders, One, instance, history
<1>5. (Holders(i) = One(weight[i] # 0))'
  BY <1>1, <1>2, <1>3 DEF Typed, Inv, Holders, One, history
<1>6. Emitted(i)' /\ Attempts(i)'
  BY <1>1, <1>3 DEF Inv, Emitted, Attempts, instance, history
<1>7. \A j \in Instrs \ {i} : Same(j)
  BY <1>3 DEF Same, instance, history
<1> QED BY <1>4, <1>5, <1>6, <1>7 DEF Inv

(* Push moves it from intake to the heap. *)
LEMMA PushInv ==
    ASSUME TypeOK, NEW i \in Instrs, Inv(i), Push(i)
    PROVE  Inv(i)' /\ \A j \in Instrs \ {i} : Same(j)
<1>1. Typed(i) /\ Funs
  BY TypedOf
<1>2. StepKnows(i)' /\ afm'[i] \notin TooBig
  BY <1>1 DEF Funs, Typed, Inv, StepKnows, Holders, One, Attempts, Push, Goto, Steps,
              queue, instance, history
<1>3. (Holders(i) = One(weight[i] # 0))'
  BY <1>1 DEF Funs, Typed, Inv, Holders, One, Push, Goto, queue, history
<1>4. Emitted(i)' /\ Attempts(i)'
  BY <1>1 DEF Funs, Typed, Inv, StepKnows, Holders, One, Emitted, Attempts, Push,
              Goto, Steps, queue, instance, history
<1>5. \A j \in Instrs \ {i} : Same(j)
  BY <1>1 DEF Funs, Same, Push, Goto, queue, instance, history
<1> QED BY <1>2, <1>3, <1>4, <1>5 DEF Inv

(* TimerFires moves it from the timers to the heap. *)
LEMMA TimerFiresInv ==
    ASSUME TypeOK, NEW i \in Instrs, Inv(i), TimerFires(i)
    PROVE  Inv(i)' /\ \A j \in Instrs \ {i} : Same(j)
<1>1. Typed(i) /\ Funs
  BY TypedOf
<1>2. StepKnows(i)' /\ afm'[i] \notin TooBig
  BY <1>1 DEF Funs, Typed, Inv, StepKnows, Holders, One, Attempts, TimerFires, Goto, Steps,
              queue, instance, history
<1>3. (Holders(i) = One(weight[i] # 0))'
  BY <1>1 DEF Funs, Typed, Inv, Holders, One, TimerFires, Goto, queue, history
<1>4. Emitted(i)' /\ Attempts(i)'
  BY <1>1 DEF Funs, Typed, Inv, StepKnows, Holders, One, Emitted, Attempts, TimerFires,
              Goto, Steps, queue, instance, history
<1>5. \A j \in Instrs \ {i} : Same(j)
  BY <1>1 DEF Funs, Same, TimerFires, Goto, queue, instance, history
<1> QED BY <1>2, <1>3, <1>4, <1>5 DEF Inv

(* Dequeue moves it from the heap to a worker. *)
LEMMA DequeueInv ==
    ASSUME TypeOK, NEW i \in Instrs, Inv(i), Dequeue(i)
    PROVE  Inv(i)' /\ \A j \in Instrs \ {i} : Same(j)
<1>1. Typed(i) /\ Funs
  BY TypedOf
<1>2. /\ i \in heap /\ heap' = heap \ {i} /\ step' = [step EXCEPT ![i] = "start"]
      /\ UNCHANGED <<weight, intake, tries, timers, instance, history>>
  BY DEF Dequeue, Oldest
<1>3. StepKnows(i)' /\ afm'[i] \notin TooBig
  BY <1>1, <1>2 DEF Funs, Typed, Inv, StepKnows, Holders, One, instance, history
<1>4. (Holders(i) = One(weight[i] # 0))'
  BY <1>1, <1>2 DEF Funs, Typed, Inv, Holders, One, history
<1>5. Emitted(i)' /\ Attempts(i)'
  BY <1>1, <1>2 DEF Inv, Emitted, Attempts, instance, history
<1>6. \A j \in Instrs \ {i} : Same(j)
  BY <1>1, <1>2 DEF Funs, Same, instance, history
<1> QED BY <1>3, <1>4, <1>5, <1>6 DEF Inv

(* StartHandle decides by the body whether the verifier is asked. *)
LEMMA StartHandleInv ==
    ASSUME TypeOK, NEW i \in Instrs, Inv(i), StartHandle(i)
    PROVE  Inv(i)' /\ \A j \in Instrs \ {i} : Same(j)
<1>1. Typed(i) /\ Funs
  BY TypedOf
<1>2. StepKnows(i)' /\ afm'[i] \notin TooBig
  BY <1>1 DEF Funs, Typed, Inv, StepKnows, Holders, One, Attempts, StartHandle, Goto, Steps,
              queue, instance, history
<1>3. (Holders(i) = One(weight[i] # 0))'
  BY <1>1 DEF Funs, Typed, Inv, Holders, One, StartHandle, Goto, queue, history
<1>4. Emitted(i)' /\ Attempts(i)'
  BY <1>1 DEF Funs, Typed, Inv, StepKnows, Holders, One, Emitted, Attempts, StartHandle,
              Goto, Steps, queue, instance, history
<1>5. \A j \in Instrs \ {i} : Same(j)
  BY <1>1 DEF Funs, Same, StartHandle, Goto, queue, instance, history
<1> QED BY <1>2, <1>3, <1>4, <1>5 DEF Inv

(* HandleFails counts the attempt and puts the instance back, or gives up. *)
LEMMA HandleFailsInv ==
    ASSUME TypeOK, NEW i \in Instrs, Inv(i), HandleFails(i)
    PROVE  Inv(i)' /\ \A j \in Instrs \ {i} : Same(j)
<1>1. Typed(i) /\ Funs
  BY TypedOf
<1>2. /\ step[i] \in {"start", "verify", "hash", "signTees", "emit"} /\ AttemptFails(i)
      /\ queries' = [queries EXCEPT ![i] = IF step[i] = "verify" THEN @ + 1 ELSE @]
      /\ UNCHANGED <<weight, intake, heap, instance, verified, emits, rejected, dropped>>
  BY <1>1 DEF HandleFails, Funs, history
<1>3. tries[i] < MaxAttempts /\ i \notin timers
  BY <1>1, <1>2, WorkerHolds
<1>4. Fails(i)
  BY <1>1, <1>2, <1>3, AttemptFailsEffect DEF Fails, One, instance, Funs
<1>5. \A j \in Instrs \ {i} : Same(j)
  BY <1>1, <1>2, <1>3, AttemptFailsEffect DEF Same, instance, Funs
<1> QED BY <1>1, <1>2, <1>4, <1>5, FailsInv

(* SignResponse covers the body with the FDC signature. *)
LEMMA SignResponseInv ==
    ASSUME TypeOK, NEW i \in Instrs, Inv(i), SignResponse(i)
    PROVE  Inv(i)' /\ \A j \in Instrs \ {i} : Same(j)
<1>1. Typed(i) /\ Funs
  BY TypedOf
<1>2. StepKnows(i)' /\ afm'[i] \notin TooBig
  BY <1>1 DEF Funs, Typed, Inv, StepKnows, Holders, One, Attempts, SignResponse, Goto, Steps,
              queue, instance, history
<1>3. (Holders(i) = One(weight[i] # 0))'
  BY <1>1 DEF Funs, Typed, Inv, Holders, One, SignResponse, Goto, queue, history
<1>4. Emitted(i)' /\ Attempts(i)'
  BY <1>1 DEF Funs, Typed, Inv, StepKnows, Holders, One, Emitted, Attempts, SignResponse,
              Goto, Steps, queue, instance, history
<1>5. \A j \in Instrs \ {i} : Same(j)
  BY <1>1 DEF Funs, Same, SignResponse, Goto, queue, instance, history
<1> QED BY <1>2, <1>3, <1>4, <1>5 DEF Inv

(* SignTees covers both fields with the TEE signatures. *)
LEMMA SignTeesInv ==
    ASSUME TypeOK, NEW i \in Instrs, Inv(i), SignTees(i)
    PROVE  Inv(i)' /\ \A j \in Instrs \ {i} : Same(j)
<1>1. Typed(i) /\ Funs
  BY TypedOf
<1>2. StepKnows(i)' /\ afm'[i] \notin TooBig
  BY <1>1 DEF Funs, Typed, Inv, StepKnows, Holders, One, Attempts, SignTees, Goto, Steps,
              queue, instance, history
<1>3. (Holders(i) = One(weight[i] # 0))'
  BY <1>1 DEF Funs, Typed, Inv, Holders, One, SignTees, Goto, queue, history
<1>4. Emitted(i)' /\ Attempts(i)'
  BY <1>1 DEF Funs, Typed, Inv, StepKnows, Holders, One, Emitted, Attempts, SignTees,
              Goto, Steps, queue, instance, history
<1>5. \A j \in Instrs \ {i} : Same(j)
  BY <1>1 DEF Funs, Same, SignTees, Goto, queue, instance, history
<1> QED BY <1>2, <1>3, <1>4, <1>5 DEF Inv

(* Emit passes the instance to the sender and lets go of it. *)
LEMMA EmitInv ==
    ASSUME TypeOK, NEW i \in Instrs, Inv(i), Emit(i)
    PROVE  Inv(i)' /\ \A j \in Instrs \ {i} : Same(j)
<1>1. Typed(i) /\ Funs
  BY TypedOf
<1>2. /\ step[i] = "emit" /\ step' = [step EXCEPT ![i] = "idle"]
      /\ emits' = [emits EXCEPT ![i] = @ + 1]
      /\ UNCHANGED <<weight, intake, heap, tries, timers, instance, verified, queries,
                     rejected, dropped>>
  BY DEF Emit, Goto, queue
<1>3. StepKnows(i)' /\ afm'[i] \notin TooBig
  BY <1>1, <1>2, WorkerHolds DEF Funs, Typed, Inv, StepKnows, instance
<1>4. (Holders(i) = One(weight[i] # 0))'
  BY <1>1, <1>2, WorkerHolds DEF Funs, Holders, One
<1>5. Emitted(i)'
  <2>1. afm[i] # Empty /\ afm[i] \notin TooBig /\ verified[i] = {afm[i]} \ {Empty}
    BY <1>2 DEF Inv, StepKnows, Attempts
  <2>2. avm[i] = afm[i] /\ sigs[i] = [afm |-> afm[i], avm |-> avm[i]]
    BY <1>2 DEF Inv, StepKnows
  <2> QED BY <1>2, <2>1, <2>2 DEF Emitted, instance
<1>6. Attempts(i)'
  BY <1>1, <1>2, WorkerHolds DEF Inv, Attempts, instance
<1>7. \A j \in Instrs \ {i} : Same(j)
  BY <1>1, <1>2 DEF Funs, Same, instance
<1> QED BY <1>3, <1>4, <1>5, <1>6, <1>7 DEF Inv

(* EmitCancelled fails the attempt. *)
LEMMA EmitCancelledInv ==
    ASSUME TypeOK, NEW i \in Instrs, Inv(i), EmitCancelled(i)
    PROVE  Inv(i)' /\ \A j \in Instrs \ {i} : Same(j)
<1>1. Typed(i) /\ Funs
  BY TypedOf
<1>2. /\ step[i] \in {"start", "verify", "hash", "signTees", "emit"} /\ AttemptFails(i)
      /\ queries' = [queries EXCEPT ![i] = IF step[i] = "verify" THEN @ + 1 ELSE @]
      /\ UNCHANGED <<weight, intake, heap, instance, verified, emits, rejected, dropped>>
  BY <1>1 DEF EmitCancelled, Funs, history
<1>3. tries[i] < MaxAttempts /\ i \notin timers
  BY <1>1, <1>2, WorkerHolds
<1>4. Fails(i)
  BY <1>1, <1>2, <1>3, AttemptFailsEffect DEF Fails, One, instance, Funs
<1>5. \A j \in Instrs \ {i} : Same(j)
  BY <1>1, <1>2, <1>3, AttemptFailsEffect DEF Same, instance, Funs
<1> QED BY <1>1, <1>2, <1>4, <1>5, FailsInv

(* Report drops the instance. *)
LEMMA ReportInv ==
    ASSUME TypeOK, NEW i \in Instrs, Inv(i), Report(i)
    PROVE  Inv(i)' /\ \A j \in Instrs \ {i} : Same(j)
<1>1. Typed(i) /\ Funs
  BY TypedOf
<1>2. StepKnows(i)' /\ afm'[i] \notin TooBig
  BY <1>1 DEF Funs, Typed, Inv, StepKnows, Holders, One, Attempts, Report, Goto, Steps,
              queue, instance, history
<1>3. (Holders(i) = One(weight[i] # 0))'
  BY <1>1 DEF Funs, Typed, Inv, Holders, One, Report, Goto, queue, history
<1>4. Emitted(i)' /\ Attempts(i)'
  BY <1>1 DEF Funs, Typed, Inv, StepKnows, Holders, One, Emitted, Attempts, Report,
              Goto, Steps, queue, instance, history
<1>5. \A j \in Instrs \ {i} : Same(j)
  BY <1>1 DEF Funs, Same, Report, Goto, queue, instance, history
<1> QED BY <1>2, <1>3, <1>4, <1>5 DEF Inv

(* Query: the verdict decides; only VERIFIED writes the instance.           *)
LEMMA QueryInv ==
    ASSUME TypeOK, NEW i \in Instrs, Inv(i), NEW res \in Answers, Query(i, res)
    PROVE  Inv(i)' /\ \A j \in Instrs \ {i} : Same(j)
<1>1. Typed(i) /\ Funs
  BY TypedOf
<1>2. step[i] = "verify" /\ queries' = [queries EXCEPT ![i] = @ + 1]
      /\ UNCHANGED <<weight, intake, heap, avm, sigs, emits, dropped>>
  BY DEF Query
<1>3. /\ tries[i] < MaxAttempts /\ afm[i] = Empty /\ queries[i] <= tries[i]
      /\ i \notin timers /\ i \notin rejected
  BY <1>1, <1>2, WorkerHolds DEF Inv, StepKnows
<1>4. CASE validateResponse(res) = "VERIFIED"
  <2>1. res.body \in Bodies \ (TooBig \cup {Empty})
    BY <1>4 DEF validateResponse, Answers
  <2>2. /\ afm' = [afm EXCEPT ![i] = res.body]
        /\ verified' = [verified EXCEPT ![i] = @ \cup {res.body}]
        /\ step' = [step EXCEPT ![i] = "hash"]
        /\ UNCHANGED <<tries, timers, rejected>>
    BY <1>4 DEF Query, Goto
  <2>3. StepKnows(i)' /\ afm'[i] \notin TooBig
    BY <1>1, <1>2, <1>3, <2>1, <2>2, WorkerHolds DEF Funs, Typed, StepKnows
  <2>4. (Holders(i) = One(weight[i] # 0))'
    BY <1>1, <1>2, <2>2, WorkerHolds DEF Funs, Holders, One
  <2>5. Emitted(i)'
    BY <1>1, <1>2, WorkerHolds DEF Emitted
  <2>6. Attempts(i)'
    BY <1>1, <1>2, <1>3, <2>1, <2>2, WorkerHolds DEF Funs, Typed, Inv, Attempts
  <2>7. \A j \in Instrs \ {i} : Same(j)
    BY <1>1, <1>2, <2>2 DEF Funs, Same
  <2> QED BY <2>3, <2>4, <2>5, <2>6, <2>7 DEF Inv
<1>5. CASE validateResponse(res) = "REJECTED"
  <2>1. /\ rejected' = rejected \cup {i} /\ step' = [step EXCEPT ![i] = "idle"]
        /\ UNCHANGED <<tries, timers, afm, verified>>
    BY <1>5 DEF Query, Goto
  <2>2. StepKnows(i)' /\ afm'[i] \notin TooBig
    BY <1>1, <1>2, <1>3, <2>1 DEF Funs, Typed, Inv, StepKnows
  <2>3. (Holders(i) = One(weight[i] # 0))'
    BY <1>1, <1>2, <2>1, WorkerHolds DEF Funs, Holders, One
  <2>4. Emitted(i)' /\ Attempts(i)'
    BY <1>1, <1>2, <1>3, <2>1, WorkerHolds DEF Funs, Typed, Inv, Emitted, Attempts
  <2>5. \A j \in Instrs \ {i} : Same(j)
    BY <1>1, <1>2, <2>1 DEF Funs, Same
  <2> QED BY <2>2, <2>3, <2>4, <2>5 DEF Inv
<1>6. CASE validateResponse(res) \in {"RETRY", "error"}
  <2>1. AttemptFails(i) /\ UNCHANGED <<afm, verified, rejected>>
    BY <1>6 DEF Query
  <2>2. Fails(i)
    BY <1>1, <1>2, <1>3, <2>1, AttemptFailsEffect DEF Fails, One, Funs
  <2>3. \A j \in Instrs \ {i} : Same(j)
    BY <1>1, <1>2, <1>3, <2>1, AttemptFailsEffect DEF Same, Funs
  <2> QED BY <1>1, <1>2, <2>2, <2>3, FailsInv
<1> QED BY <1>4, <1>5, <1>6 DEF Query

----------------------------------------------------------------------------
(* The whole specification.                                                *)

\* The steps that are not about an instruction.
Around == \/ DequeueLoop \/ DequeueCancelled \/ Drain \/ DrainExits
          \/ SenderTakes \/ Cancel \/ UNCHANGED vars

LEMMA AroundSame == ASSUME Around PROVE \A j \in Instrs : Same(j)
  BY DEF Around, DequeueLoop, DequeueCancelled, Drain, DrainExits, SenderTakes,
         Cancel, Same, queue, instance, history, vars

\* A step is about one instruction, or about none.
LEMMA OneAtATime ==
    ASSUME TypeOK, \A j \in Instrs : Inv(j), [Next]_vars
    PROVE  \/ \A j \in Instrs : Same(j)
           \/ \E i \in Instrs : Inv(i)' /\ \A j \in Instrs \ {i} : Same(j)
<1>1. CASE Around
  BY <1>1, AroundSame
<1>2. ASSUME NEW i \in Instrs, Process(i) \/ Push(i) \/ TimerFires(i) \/ Dequeue(i)
      PROVE  Inv(i)' /\ \A j \in Instrs \ {i} : Same(j)
  BY <1>2, ProcessInv, PushInv, TimerFiresInv, DequeueInv
<1>3. ASSUME NEW i \in Instrs, Handle(i)
      PROVE  Inv(i)' /\ \A j \in Instrs \ {i} : Same(j)
  BY <1>3, StartHandleInv, QueryInv, HandleFailsInv, SignResponseInv, SignTeesInv,
     EmitInv, EmitCancelledInv, ReportInv DEF Handle
<1> QED BY <1>1, <1>2, <1>3 DEF Next, Loop, Around

LEMMA InvStep ==
    ASSUME TypeOK, FdcInv, [Next]_vars
    PROVE  FdcInv'
<1>1. \A j \in Instrs : Inv(j)
  BY InvIsFdcInv
<1>2. \A j \in Instrs : Inv(j)'
  BY <1>1, OneAtATime, Frame
<1> QED BY <1>2, InvIsFdcInv DEF FdcInv, Inv, OneHolder, EmittedIsConsistent,
           AttemptsBounded, Emitted, Attempts, One

----------------------------------------------------------------------------
(* Types.  The flags are separated from the functions.                      *)
Chans == /\ errors \in Seq(Instrs) /\ out \in Seq(Instrs)
         /\ dq \in {"loop", "dequeue", "exited"} /\ drain \in {"run", "exited"}

LEMMA TypeParts ==
    /\ TypeOK => Funs /\ Chans /\ cancelled \in BOOLEAN
    /\ Funs' /\ Chans' /\ cancelled' \in BOOLEAN => TypeOK'
  BY DEF TypeOK, Funs, Chans

LEMMA FlagStep == ASSUME cancelled \in BOOLEAN, [Next]_vars PROVE cancelled' \in BOOLEAN
<1>1. cancelled' = cancelled \/ cancelled' = TRUE
  BY DEF Next, Process, Push, TimerFires, Handle, StartHandle, Query, HandleFails,
         SignResponse, SignTees, Emit, EmitCancelled, Report, Loop, DequeueLoop,
         DequeueCancelled, Dequeue, Drain, DrainExits, SenderTakes, Cancel, vars
<1> QED BY <1>1

LEMMA ChansStep == ASSUME Chans, [Next]_vars PROVE Chans'
<1> USE DEF Chans, queue
<1>1. ASSUME NEW i \in Instrs, Process(i) \/ Push(i) \/ TimerFires(i) PROVE Chans'
  BY <1>1 DEF Process, Push, TimerFires
<1>2. ASSUME NEW i \in Instrs, Handle(i) PROVE Chans'
  <2>1. CASE StartHandle(i) \/ HandleFails(i) \/ SignResponse(i) \/ SignTees(i)
             \/ EmitCancelled(i) \/ \E res \in Answers : Query(i, res)
    BY <2>1 DEF StartHandle, HandleFails, SignResponse, SignTees, EmitCancelled, Query
  <2>2. CASE Emit(i)
    BY <2>2 DEF Emit
  <2>3. CASE Report(i)
    BY <2>3 DEF Report
  <2> QED BY <1>2, <2>1, <2>2, <2>3 DEF Handle
<1>3. ASSUME NEW i \in Instrs, Dequeue(i) PROVE Chans'
  BY <1>3 DEF Dequeue
<1>4. CASE DequeueLoop \/ DequeueCancelled \/ DrainExits \/ Cancel \/ UNCHANGED vars
  BY <1>4 DEF DequeueLoop, DequeueCancelled, DrainExits, Cancel, vars
<1>5. CASE Drain
  BY <1>5 DEF Drain
<1>6. CASE SenderTakes
  BY <1>6 DEF SenderTakes
<1> QED BY <1>1, <1>2, <1>3, <1>4, <1>5, <1>6 DEF Next, Loop

LEMMA FailsFuns ==
    ASSUME Funs, NEW i \in Instrs, tries[i] < MaxAttempts, AttemptFails(i)
    PROVE  /\ tries' \in [Instrs -> 0 .. MaxAttempts]
           /\ step' \in [Instrs -> Steps] /\ timers' \in SUBSET Instrs
<1>1. tries' = [tries EXCEPT ![i] = @ + 1] /\ tries[i] + 1 \in 0 .. MaxAttempts
  BY DEF AttemptFails, Funs
<1>2. \E s \in {"idle", "report"} : step' = [step EXCEPT ![i] = s]
  BY DEF AttemptFails, Goto
<1>3. timers' \in {timers, timers \cup {i}}
  BY DEF AttemptFails
<1> QED BY <1>1, <1>2, <1>3 DEF Funs, Steps

LEMMA FunsStep ==
    ASSUME TypeOK, FdcInv, [Next]_vars
    PROVE  Funs'
<1>1. Funs /\ \A i \in Instrs : Typed(i) /\ Inv(i)
  BY TypeParts, TypedOf, InvIsFdcInv
<1> USE DEF queue, instance, history
<1>2. CASE Around
  BY <1>1, <1>2 DEF Around, DequeueLoop, DequeueCancelled, Drain, DrainExits,
                    SenderTakes, Cancel, vars, Funs
<1>3. ASSUME NEW i \in Instrs, Process(i) PROVE Funs'
  <2>1. clock \in Nat
    BY FS_Subset, FS_CardinalityType DEF clock
  <2> QED BY <1>1, <1>3, <2>1 DEF Process, Funs
<1>4. ASSUME NEW i \in Instrs, Push(i) \/ TimerFires(i) PROVE Funs'
  BY <1>1, <1>4 DEF Push, TimerFires, Funs
<1>5. ASSUME NEW i \in Instrs, Dequeue(i) PROVE Funs'
  <2>1. /\ heap' = heap \ {i} /\ step' = [step EXCEPT ![i] = "start"]
        /\ UNCHANGED <<weight, intake, tries, timers, instance, history>>
    BY <1>5 DEF Dequeue
  <2> QED BY <1>1, <2>1 DEF Funs, Steps
<1>6. ASSUME NEW i \in Instrs, StartHandle(i) \/ SignResponse(i) \/ SignTees(i) PROVE Funs'
  <2>1. CASE StartHandle(i)
    BY <1>1, <2>1 DEF StartHandle, Goto, Funs, Steps
  <2>2. CASE SignResponse(i)
    BY <1>1, <2>2 DEF SignResponse, Goto, Funs, Steps
  <2>3. CASE SignTees(i)
    BY <1>1, <2>3 DEF SignTees, Goto, Funs, Steps
  <2> QED BY <1>6, <2>1, <2>2, <2>3
<1>7. ASSUME NEW i \in Instrs, NEW res \in Answers, Query(i, res) PROVE Funs'
  <2>1. /\ step[i] = "verify" /\ queries' = [queries EXCEPT ![i] = @ + 1]
        /\ UNCHANGED <<weight, intake, heap, avm, sigs, emits, dropped>>
    BY <1>7 DEF Query
  <2>2. tries[i] < MaxAttempts
    BY <1>1, <2>1, WorkerHolds
  <2>3. CASE validateResponse(res) = "VERIFIED"
    <3>1. res.body \in Bodies
      BY <2>3 DEF validateResponse, Answers
    <3>2. /\ afm' = [afm EXCEPT ![i] = res.body]
          /\ verified' = [verified EXCEPT ![i] = @ \cup {res.body}]
          /\ step' = [step EXCEPT ![i] = "hash"]
          /\ UNCHANGED <<tries, timers, rejected>>
      BY <1>7, <2>3 DEF Query, Goto
    <3> QED BY <1>1, <2>1, <3>1, <3>2 DEF Funs, Steps
  <2>4. CASE validateResponse(res) = "REJECTED"
    <3>1. /\ rejected' = rejected \cup {i} /\ step' = [step EXCEPT ![i] = "idle"]
          /\ UNCHANGED <<tries, timers, afm, verified>>
      BY <1>7, <2>4 DEF Query, Goto
    <3> QED BY <1>1, <2>1, <3>1 DEF Funs, Steps
  <2>5. CASE validateResponse(res) \in {"RETRY", "error"}
    <3>1. AttemptFails(i) /\ UNCHANGED <<afm, verified, rejected>>
      BY <1>7, <2>5 DEF Query
    <3> QED BY <1>1, <2>1, <2>2, <3>1, FailsFuns DEF Funs
  <2> QED BY <1>7, <2>3, <2>4, <2>5 DEF Query
<1>8. ASSUME NEW i \in Instrs, HandleFails(i) \/ EmitCancelled(i) PROVE Funs'
  <2>1. /\ AttemptFails(i) /\ step[i] \notin {"idle", "report"}
        /\ queries' \in [Instrs -> Nat]
        /\ UNCHANGED <<weight, intake, heap, instance, verified, emits, rejected, dropped>>
    BY <1>1, <1>8 DEF HandleFails, EmitCancelled, Funs
  <2>2. tries[i] < MaxAttempts
    BY <1>1, <2>1, WorkerHolds
  <2> QED BY <1>1, <2>1, <2>2, FailsFuns DEF Funs
<1>9. ASSUME NEW i \in Instrs, Emit(i) \/ Report(i) PROVE Funs'
  <2>1. /\ step' = [step EXCEPT ![i] = "idle"]
        /\ emits' \in [Instrs -> Nat] /\ dropped' \in SUBSET Instrs
        /\ UNCHANGED <<weight, intake, heap, timers, tries, afm, avm, sigs, verified,
                       queries, rejected>>
    <3>1. CASE Emit(i)
      BY <1>1, <3>1 DEF Emit, Goto, Funs
    <3>2. CASE Report(i)
      BY <1>1, <3>2 DEF Report, Goto, Funs
    <3> QED BY <1>9, <3>1, <3>2
  <2> QED BY <1>1, <2>1 DEF Funs, Steps
<1> QED BY <1>2, <1>3, <1>4, <1>5, <1>6, <1>7, <1>8, <1>9 DEF Next, Loop, Handle, Around

----------------------------------------------------------------------------
(* Types and the invariant together are inductive: that the number of failed *)
(* attempts stays within max_attempts needs the invariant, which in turn     *)
(* needs the types.                                                          *)
THEOREM Invariance == Spec => [](TypeOK /\ FdcInv)
<1>1. Init => TypeOK
  <2> SUFFICES ASSUME Init PROVE TypeOK
    OBVIOUS
  <2>1. cancelled \in BOOLEAN
    BY DEF Init
  <2>2. Chans /\ Funs
    BY DEF Init, Chans, Funs, Steps, NoSigs
  <2> QED BY <2>1, <2>2 DEF TypeOK, Chans, Funs
<1>2. Init => FdcInv
  <2> SUFFICES ASSUME Init, NEW j \in Instrs PROVE Inv(j)
    BY InvIsFdcInv
  <2> QED BY DEF Init, Inv, StepKnows, Holders, One, Emitted, Attempts
<1>3. TypeOK /\ FdcInv /\ [Next]_vars => TypeOK' /\ FdcInv'
  BY InvStep, FunsStep, ChansStep, FlagStep, TypeParts
<1> QED BY <1>1, <1>2, <1>3, PTL DEF Spec

(* The types of the queue, its channels, heaps and workers; that failed      *)
(* attempts are counted within max_attempts is part of them.                 *)
THEOREM Typing == Spec => []TypeOK
<1> QED BY Invariance, PTL

(* What the sender gets is what the verifier confirmed and both signatures   *)
(* cover, however many attempts left traces in the instance before.          *)
THEOREM Consistency == Spec => []EmittedIsConsistent
<1>1. FdcInv => EmittedIsConsistent
  BY DEF FdcInv
<1> QED BY <1>1, Invariance, PTL

(* No instance is ever in two places.                                        *)
THEOREM Ownership == Spec => []OneHolder
<1>1. FdcInv => OneHolder
  BY DEF FdcInv
<1> QED BY <1>1, Invariance, PTL

(* Verifier queries and attempts keep within max_attempts.                   *)
THEOREM Bounded == Spec => []AttemptsBounded
<1>1. FdcInv => AttemptsBounded
  BY DEF FdcInv
<1> QED BY <1>1, Invariance, PTL

(* The body is fixed once confirmed, the instance once emitted.              *)
THEOREM Finality == Spec => VerdictFinal
<1>1. ASSUME TypeOK, FdcInv, [Next]_vars, NEW i \in Instrs
      PROVE  /\ afm[i] # Empty => afm'[i] = afm[i]
             /\ emits[i] > 0 => avm'[i] = avm[i] /\ sigs'[i] = sigs[i]
  <2>1. Funs /\ \A j \in Instrs : Typed(j) /\ Inv(j)
    BY <1>1, TypeParts, TypedOf, InvIsFdcInv
  <2>3. CASE Around
    BY <2>3, AroundSame DEF Same
  <2>4. ASSUME NEW j \in Instrs, Process(j) \/ Push(j) \/ TimerFires(j) \/ Dequeue(j)
        PROVE  afm' = afm /\ avm' = avm /\ sigs' = sigs
    BY <2>4 DEF Process, Push, TimerFires, Dequeue, instance
  <2>5. ASSUME NEW j \in Instrs, Handle(j), j # i
        PROVE  afm'[i] = afm[i] /\ avm'[i] = avm[i] /\ sigs'[i] = sigs[i]
    <3>1. Same(i)
      BY <1>1, <2>1, <2>5, StartHandleInv, QueryInv, HandleFailsInv, SignResponseInv,
         SignTeesInv, EmitInv, EmitCancelledInv, ReportInv DEF Handle
    <3> QED BY <3>1 DEF Same
  <2>6. CASE Handle(i)
    <3>1. CASE \E res \in Answers : Query(i, res)
      <4>1. step[i] = "verify" /\ UNCHANGED <<avm, sigs>>
        BY <3>1 DEF Query
      <4> QED BY <2>1, <4>1 DEF Inv, StepKnows
    <3>2. CASE SignResponse(i)
      <4>1. step[i] = "hash" /\ UNCHANGED <<afm, sigs>>
        BY <3>2 DEF SignResponse
      <4> QED BY <2>1, <4>1, WorkerHolds
    <3>3. CASE SignTees(i)
      <4>1. step[i] = "signTees" /\ UNCHANGED <<afm, avm>>
        BY <3>3 DEF SignTees
      <4> QED BY <2>1, <4>1, WorkerHolds
    <3>4. CASE StartHandle(i) \/ HandleFails(i) \/ Emit(i) \/ EmitCancelled(i) \/ Report(i)
      BY <3>4 DEF StartHandle, HandleFails, Emit, EmitCancelled, Report, instance
    <3> QED BY <2>6, <3>1, <3>2, <3>3, <3>4 DEF Handle
  <2> QED BY <1>1, <2>3, <2>4, <2>5, <2>6 DEF Next, Loop, Around
<1>2. TypeOK /\ FdcInv /\ [Next]_vars =>
        [\A i \in Instrs :
            /\ afm[i] # Empty => afm'[i] = afm[i]
            /\ emits[i] > 0 => /\ avm'[i] = avm[i]
                               /\ sigs'[i] = sigs[i]]_vars
  BY <1>1
<1> QED BY <1>2, Invariance, PTL DEF Spec, VerdictFinal

----------------------------------------------------------------------------
(* The refinement: what a step does to the status the promise sees.         *)
statuses == [i \in Instrs |-> statusOf(i)]

LEMMA StatusSame ==
    ASSUME NEW j \in Instrs, Same(j) PROVE statusOf(j)' = statusOf(j)
  BY DEF Same, statusOf

LEMMA StatusStep ==
    ASSUME NEW i \in Instrs, \A j \in Instrs \ {i} : Same(j)
    PROVE  statuses' = [statuses EXCEPT ![i] = statusOf(i)']
<1>1. \A j \in Instrs \ {i} : statusOf(j)' = statusOf(j)
  BY StatusSame
<1>2. statuses = [j \in Instrs |-> statusOf(j)]
  BY DEF statuses
<1>3. statuses' = [j \in Instrs |-> statusOf(j)']
  BY DEF statuses
<1>4. [statuses EXCEPT ![i] = statusOf(i)']
         = [j \in Instrs |-> IF j = i THEN statusOf(i)' ELSE statusOf(j)]
  BY <1>2
<1>5. [j \in Instrs |-> statusOf(j)']
         = [j \in Instrs |-> IF j = i THEN statusOf(i)' ELSE statusOf(j)]
  BY <1>1
<1> QED BY <1>3, <1>4, <1>5

LEMMA StatusUnchanged ==
    ASSUME UNCHANGED <<weight, emits, rejected, dropped>> PROVE statuses' = statuses
  BY DEF statuses, statusOf

LEMMA StatusWorking ==
    ASSUME NEW i \in Instrs, Typed(i), Inv(i), step[i] # "idle"
    PROVE  statusOf(i) = "accepted"
  BY WorkerHolds DEF statusOf, Typed

LEMMA PromiseStep ==
    ASSUME TypeOK, FdcInv, [Next]_vars
    PROVE  [Promise!Next]_<<statuses, afm>>
<1>1. Funs /\ \A j \in Instrs : Typed(j) /\ Inv(j)
  BY TypeParts, TypedOf, InvIsFdcInv
<1> USE DEF Promise!Next, Promise!Become
<1>2. CASE Around
  <2>1. UNCHANGED <<weight, emits, rejected, dropped, afm>>
    BY <1>2 DEF Around, DequeueLoop, DequeueCancelled, Drain, DrainExits, SenderTakes,
                Cancel, queue, instance, history, vars
  <2> QED BY <2>1, StatusUnchanged
<1>3. ASSUME NEW i \in Instrs, Process(i) PROVE Promise!Accept(i)
  <2>1. statuses' = [statuses EXCEPT ![i] = statusOf(i)'] /\ afm' = afm
    BY <1>1, <1>3, ProcessInv, StatusStep DEF Process, instance
  <2>2. clock \in Nat
    BY FS_Subset, FS_CardinalityType DEF clock
  <2>3. weight[i] = 0 /\ weight'[i] = clock + 1 /\ UNCHANGED <<emits, rejected, dropped>>
    BY <1>1, <1>3 DEF Process, Funs, history
  <2>4. ~(emits[i] > 0) /\ i \notin rejected /\ i \notin dropped
    BY <1>1, <2>3 DEF Inv, Typed, Holders, One
  <2>5. statusOf(i) = "new" /\ statusOf(i)' = "accepted"
    BY <2>2, <2>3, <2>4 DEF statusOf
  <2> QED BY <2>1, <2>5 DEF Promise!Accept, statuses
<1>4. ASSUME NEW i \in Instrs, Push(i) \/ TimerFires(i) \/ Dequeue(i)
      PROVE  UNCHANGED <<statuses, afm>>
  <2>1. UNCHANGED <<weight, emits, rejected, dropped, afm>>
    BY <1>4 DEF Push, TimerFires, Dequeue, instance, history
  <2> QED BY <2>1, StatusUnchanged
<1>5. ASSUME NEW i \in Instrs, StartHandle(i) \/ HandleFails(i) \/ SignResponse(i)
                                \/ SignTees(i) \/ EmitCancelled(i)
      PROVE  UNCHANGED <<statuses, afm>>
  <2>1. UNCHANGED <<weight, emits, rejected, dropped, afm>>
    BY <1>5 DEF StartHandle, HandleFails, SignResponse, SignTees, EmitCancelled,
                queue, instance, history
  <2> QED BY <2>1, StatusUnchanged
<1>6. ASSUME NEW i \in Instrs, NEW res \in Answers, Query(i, res)
      PROVE  [Promise!Next]_<<statuses, afm>>
  <2>1. step[i] = "verify" /\ UNCHANGED <<weight, emits, dropped>>
    BY <1>6 DEF Query
  <2>2. statusOf(i) = "accepted" /\ ~(emits[i] > 0) /\ afm[i] = Empty
    <3>1. statusOf(i) = "accepted"
      BY <1>1, <2>1, StatusWorking
    <3>2. emits[i] = 0
      BY <1>1, <2>1, WorkerHolds
    <3>3. afm[i] = Empty
      BY <1>1, <2>1 DEF Inv, StepKnows
    <3> QED BY <3>1, <3>2, <3>3
  <2>3. CASE validateResponse(res) = "VERIFIED"
    <3>1. res.body \in Bodies \ TooBig
      BY <2>3 DEF validateResponse, Answers
    <3>2. afm' = [afm EXCEPT ![i] = res.body] /\ UNCHANGED rejected
      BY <1>6, <2>3 DEF Query
    <3>3. UNCHANGED statuses
      BY <2>1, <3>2, StatusUnchanged
    <3>4. Promise!Confirm(i)
      BY <2>2, <3>1, <3>2, <3>3 DEF Promise!Confirm, statuses
    <3> QED BY <3>4
  <2>4. CASE validateResponse(res) = "REJECTED"
    <3>1. rejected' = rejected \cup {i} /\ UNCHANGED afm
      BY <1>6, <2>4 DEF Query
    <3>2. statuses' = [statuses EXCEPT ![i] = statusOf(i)']
      BY <1>1, <1>6, QueryInv, StatusStep
    <3>3. statusOf(i)' = "rejected"
      BY <2>1, <2>2, <3>1 DEF statusOf
    <3>4. Promise!Reject(i)
      BY <2>2, <3>1, <3>2, <3>3 DEF Promise!Reject, statuses
    <3> QED BY <3>4
  <2>5. CASE validateResponse(res) \in {"RETRY", "error"}
    <3>1. UNCHANGED <<afm, rejected>>
      BY <1>6, <2>5 DEF Query
    <3> QED BY <2>1, <3>1, StatusUnchanged
  <2> QED BY <1>6, <2>3, <2>4, <2>5 DEF Query
<1>7. ASSUME NEW i \in Instrs, Emit(i) PROVE Promise!Emit(i)
  <2>1. step[i] = "emit" /\ emits'[i] = emits[i] + 1 /\ UNCHANGED <<afm, rejected, dropped>>
    BY <1>1, <1>7 DEF Emit, Funs, instance
  <2>2. /\ statusOf(i) = "accepted" /\ emits[i] = 0 /\ afm[i] # Empty
        /\ i \notin rejected /\ i \notin dropped
    BY <1>1, <2>1, StatusWorking, WorkerHolds DEF Inv, StepKnows
  <2>3. statuses' = [statuses EXCEPT ![i] = statusOf(i)']
    BY <1>1, <1>7, EmitInv, StatusStep
  <2>4. statusOf(i)' = "emitted"
    BY <2>1, <2>2 DEF statusOf
  <2> QED BY <2>1, <2>2, <2>3, <2>4 DEF Promise!Emit, statuses
<1>8. ASSUME NEW i \in Instrs, Report(i) PROVE Promise!Drop(i)
  <2>1. /\ step[i] = "report" /\ dropped' = dropped \cup {i}
        /\ UNCHANGED <<afm, emits, rejected>>
    BY <1>8 DEF Report, instance
  <2>2. statusOf(i) = "accepted" /\ ~(emits[i] > 0) /\ i \notin rejected
    BY <1>1, <2>1, StatusWorking, WorkerHolds
  <2>3. statuses' = [statuses EXCEPT ![i] = statusOf(i)']
    BY <1>1, <1>8, ReportInv, StatusStep
  <2>4. statusOf(i)' = "dropped"
    BY <2>1, <2>2 DEF statusOf
  <2> QED BY <2>1, <2>2, <2>3, <2>4 DEF Promise!Drop, statuses
<1>9. ASSUME NEW i \in Instrs, Handle(i) PROVE [Promise!Next]_<<statuses, afm>>
  BY <1>5, <1>6, <1>7, <1>8, <1>9 DEF Handle
<1> QED BY <1>2, <1>3, <1>4, <1>9 DEF Next, Loop, Around

(* The queue with its workers implements the promise.                        *)
THEOREM Refinement == Spec => KeepsPromise
<1>1. Init => Promise!Init
  <2> SUFFICES ASSUME Init PROVE Promise!Init
    OBVIOUS
  <2>1. \A i \in Instrs : statusOf(i) = "new"
    BY DEF Init, statusOf
  <2> QED BY <2>1 DEF Init, Promise!Init
<1>2. TypeOK /\ FdcInv /\ [Next]_vars =>
        [Promise!Next]_<<[i \in Instrs |-> statusOf(i)], afm>>
  BY PromiseStep DEF statuses
<1> QED BY <1>1, <1>2, Invariance, PTL DEF Spec, KeepsPromise, Promise!Spec

----------------------------------------------------------------------------
(* Nothing goes round for nothing.                                         *)

\* Who holds the instance decides what is ahead of it.
LEMMA HeldAhead ==
    ASSUME NEW i \in Instrs, Typed(i), Inv(i)
    PROVE  /\ weight[i] = 0 => step[i] = "idle" /\ Ahead(i) = 10
           /\ i \in intake => /\ weight[i] # 0 /\ i \notin timers /\ i \notin heap
                             /\ step[i] = "idle" /\ Ahead(i) = 9
           /\ i \in timers => /\ weight[i] # 0 /\ i \notin intake /\ i \notin heap
                             /\ step[i] = "idle" /\ Ahead(i) = 8
           /\ i \in heap => /\ weight[i] # 0 /\ i \notin intake /\ i \notin timers
                           /\ step[i] = "idle" /\ Ahead(i) = 7
           /\ step[i] # "idle" => Ahead(i) = AtWorker[step[i]]
<1>1. Holders(i) = One(weight[i] # 0) /\ emits[i] \in Nat
  BY DEF Typed, Inv
<1>2. weight[i] = 0 => step[i] = "idle"
  BY <1>1 DEF Holders, One
<1>3. i \in intake => weight[i] # 0 /\ i \notin timers /\ i \notin heap /\ step[i] = "idle"
  BY <1>1 DEF Holders, One
<1>4. i \in timers => weight[i] # 0 /\ i \notin intake /\ i \notin heap /\ step[i] = "idle"
  BY <1>1 DEF Holders, One
<1>5. i \in heap => weight[i] # 0 /\ i \notin intake /\ i \notin timers /\ step[i] = "idle"
  BY <1>1 DEF Holders, One
<1>6. step[i] # "idle" =>
         weight[i] # 0 /\ i \notin intake /\ i \notin timers /\ i \notin heap
  BY <1>1 DEF Holders, One
<1> QED BY <1>2, <1>3, <1>4, <1>5, <1>6 DEF Ahead

\* A failed attempt is worth more than what lies between timer and worker.
LEMMA FailsLeft ==
    ASSUME NEW i \in Instrs, Typed(i), Inv(i), Fails(i),
           step[i] \in {"start", "verify", "hash", "signTees", "emit"}
    PROVE  Left(i)' < Left(i)
<1>1. /\ weight'[i] = weight[i] /\ weight[i] # 0 /\ UNCHANGED <<intake, heap>>
      /\ i \notin intake /\ i \notin heap
  BY WorkerHolds DEF Fails
<1>2. Ahead(i) >= 2 /\ Ahead(i) \in Nat
  BY HeldAhead DEF AtWorker
<1>3. Ahead(i)' \in {1, 8}
  <2>1. CASE i \in timers'
    BY <1>1, <2>1 DEF Ahead
  <2>2. CASE i \notin timers'
    <3>1. step'[i] = "report"
      BY <2>2 DEF Fails
    <3> QED BY <1>1, <2>2, <3>1 DEF Ahead, AtWorker
  <2> QED BY <2>1, <2>2
<1>4. tries'[i] = tries[i] + 1 /\ tries[i] \in Nat
  BY DEF Fails, Typed
<1> QED BY <1>2, <1>3, <1>4 DEF Left

\* Every other step about an instruction takes it one stage on.
LEMMA StageLeft ==
    ASSUME NEW i \in Instrs, Typed(i), tries'[i] = tries[i],
           Ahead(i) \in Nat, Ahead(i)' \in Nat, Ahead(i)' < Ahead(i)
    PROVE  Left(i)' < Left(i)
<1>1. tries[i] \in Nat
  BY DEF Typed
<1> QED BY <1>1 DEF Left

LEMMA QueueLeft ==
    ASSUME TypeOK, NEW i \in Instrs, Inv(i),
           Process(i) \/ Push(i) \/ TimerFires(i) \/ Dequeue(i)
    PROVE  Left(i)' < Left(i)
<1>1. Typed(i) /\ Funs
  BY TypedOf
<1>2. CASE Process(i)
  <2>1. weight[i] = 0 /\ weight'[i] = clock + 1 /\ i \in intake' /\ tries' = tries
    BY <1>1, <1>2 DEF Process, Funs
  <2>2. clock \in Nat
    BY FS_Subset, FS_CardinalityType DEF clock
  <2>3. weight'[i] # 0
    <3>1. \A n \in Nat : n + 1 # 0
      OBVIOUS
    <3> QED BY <2>1, <2>2, <3>1
  <2>4. i \in intake' /\ i \notin timers' /\ i \notin heap'
    <3>1. i \notin timers /\ i \notin heap
      BY <1>1, <2>1, HeldAhead
    <3> QED BY <1>2, <2>1, <3>1 DEF Process
  <2>5. Ahead(i)' = 9
    BY <2>3, <2>4 DEF Ahead
  <2> QED BY <1>1, <2>1, <2>5, HeldAhead, StageLeft
<1>3. CASE Push(i)
  <2>1. /\ i \in intake /\ i \in heap' /\ i \notin intake'
        /\ UNCHANGED <<weight, timers, tries>>
    BY <1>3 DEF Push
  <2>2. Ahead(i)' = 7
    BY <1>1, <2>1, HeldAhead DEF Ahead
  <2> QED BY <1>1, <2>1, <2>2, HeldAhead, StageLeft
<1>4. CASE TimerFires(i)
  <2>1. /\ i \in timers /\ i \in heap' /\ i \notin timers'
        /\ UNCHANGED <<weight, intake, tries>>
    BY <1>4 DEF TimerFires
  <2>2. Ahead(i)' = 7
    BY <1>1, <2>1, HeldAhead DEF Ahead
  <2> QED BY <1>1, <2>1, <2>2, HeldAhead, StageLeft
<1>5. CASE Dequeue(i)
  <2>1. /\ i \in heap /\ i \notin heap' /\ step'[i] = "start"
        /\ UNCHANGED <<weight, intake, timers, tries>>
    BY <1>1, <1>5 DEF Dequeue, Oldest, Funs
  <2>2. Ahead(i)' = 6
    BY <1>1, <2>1, HeldAhead DEF Ahead, AtWorker
  <2> QED BY <1>1, <2>1, <2>2, HeldAhead, StageLeft
<1> QED BY <1>2, <1>3, <1>4, <1>5

\* From one place in Handle to a later one, or out of it.
LEMMA WorkerLeft ==
    ASSUME TypeOK, NEW i \in Instrs, Inv(i), step[i] # "idle", step'[i] \in Steps,
           UNCHANGED <<weight, intake, heap, timers, tries>>,
           AtWorker[step'[i]] < AtWorker[step[i]]
    PROVE  Left(i)' < Left(i)
<1>1. Typed(i)
  BY TypedOf
<1>2. /\ weight[i] # 0 /\ i \notin intake /\ i \notin timers /\ i \notin heap
      /\ Ahead(i) = AtWorker[step[i]]
  BY <1>1, WorkerHolds, HeldAhead
<1>3. Ahead(i)' = AtWorker[step'[i]]
  BY <1>2 DEF Ahead, AtWorker
<1>4. AtWorker[step[i]] \in Nat /\ AtWorker[step'[i]] \in Nat
  BY <1>1 DEF AtWorker, Typed, Steps
<1> QED BY <1>1, <1>2, <1>3, <1>4, StageLeft

LEMMA HandleLeft ==
    ASSUME TypeOK, NEW i \in Instrs, Inv(i), Handle(i)
    PROVE  Left(i)' < Left(i)
<1>1. Typed(i) /\ Funs
  BY TypedOf
<1> USE DEF Goto
<1>2. CASE StartHandle(i)
  <2>1. /\ step[i] = "start" /\ step'[i] \in {"verify", "hash"}
        /\ UNCHANGED <<weight, intake, heap, timers, tries>>
    BY <1>1, <1>2 DEF StartHandle, Funs, queue
  <2> QED BY <2>1, WorkerLeft DEF AtWorker, Steps
<1>3. CASE SignResponse(i)
  <2>1. /\ step[i] = "hash" /\ step'[i] = "signTees"
        /\ UNCHANGED <<weight, intake, heap, timers, tries>>
    BY <1>1, <1>3 DEF SignResponse, Funs, queue
  <2> QED BY <2>1, WorkerLeft DEF AtWorker, Steps
<1>4. CASE SignTees(i)
  <2>1. /\ step[i] = "signTees" /\ step'[i] = "emit"
        /\ UNCHANGED <<weight, intake, heap, timers, tries>>
    BY <1>1, <1>4 DEF SignTees, Funs, queue
  <2> QED BY <2>1, WorkerLeft DEF AtWorker, Steps
<1>5. CASE Emit(i)
  <2>1. /\ step[i] = "emit" /\ step'[i] = "idle"
        /\ UNCHANGED <<weight, intake, heap, timers, tries>>
    BY <1>1, <1>5 DEF Emit, Funs, queue
  <2> QED BY <2>1, WorkerLeft DEF AtWorker, Steps
<1>6. CASE Report(i)
  <2>1. /\ step[i] = "report" /\ step'[i] = "idle"
        /\ UNCHANGED <<weight, intake, heap, timers, tries>>
    BY <1>1, <1>6 DEF Report, Funs, queue
  <2> QED BY <2>1, WorkerLeft DEF AtWorker, Steps
<1>7. CASE HandleFails(i) \/ EmitCancelled(i)
  <2>1. /\ step[i] \in {"start", "verify", "hash", "signTees", "emit"} /\ AttemptFails(i)
        /\ queries' = [queries EXCEPT ![i] = IF step[i] = "verify" THEN @ + 1 ELSE @]
        /\ UNCHANGED <<weight, intake, heap, instance, verified, emits, rejected, dropped>>
    BY <1>1, <1>7 DEF HandleFails, EmitCancelled, Funs, history
  <2>2. Fails(i)
    BY <1>1, <2>1, WorkerHolds, AttemptFailsEffect DEF Fails, One, instance, Funs
  <2> QED BY <1>1, <2>1, <2>2, FailsLeft
<1>8. ASSUME NEW res \in Answers, Query(i, res) PROVE Left(i)' < Left(i)
  <2>1. /\ step[i] = "verify" /\ queries' = [queries EXCEPT ![i] = @ + 1]
        /\ UNCHANGED <<weight, intake, heap, avm, sigs, emits, dropped>>
    BY <1>8 DEF Query
  <2>2. CASE validateResponse(res) \in {"VERIFIED", "REJECTED"}
    <3>1. step'[i] \in {"hash", "idle"} /\ UNCHANGED <<timers, tries>>
      BY <1>1, <1>8, <2>2 DEF Query, Funs
    <3> QED BY <2>1, <3>1, WorkerLeft DEF AtWorker, Steps
  <2>3. CASE validateResponse(res) \in {"RETRY", "error"}
    <3>1. AttemptFails(i) /\ UNCHANGED <<afm, verified, rejected>>
      BY <1>8, <2>3 DEF Query
    <3>2. Fails(i)
      BY <1>1, <2>1, <3>1, WorkerHolds, AttemptFailsEffect DEF Fails, One, Funs
    <3> QED BY <1>1, <2>1, <3>2, FailsLeft
  <2> QED BY <1>8, <2>2, <2>3 DEF Query
<1> QED BY <1>2, <1>3, <1>4, <1>5, <1>6, <1>7, <1>8 DEF Handle

(* Whatever happens to an instruction brings it nearer to its end: the       *)
(* ranking behind Settles, for every max_attempts.                           *)
THEOREM Progress == Spec => NothingForNothing
<1>1. ASSUME TypeOK, FdcInv, [Next]_vars, NEW j \in Instrs
      PROVE  (tries'[j] = tries[j] /\ Ahead(j)' = Ahead(j)) \/ Left(j)' < Left(j)
  <2>1. Inv(j)
    BY <1>1, InvIsFdcInv
  <2>2. Same(j) => tries'[j] = tries[j] /\ Ahead(j)' = Ahead(j)
    BY DEF Same, Ahead
  <2>3. ASSUME NEW i \in Instrs,
               Process(i) \/ Push(i) \/ TimerFires(i) \/ Dequeue(i) \/ Handle(i)
        PROVE  Same(j) \/ Left(j)' < Left(j)
    <3>1. CASE i = j
      BY <1>1, <2>1, <2>3, <3>1, QueueLeft, HandleLeft
    <3>2. CASE i # j
      BY <1>1, <2>3, <3>2, InvIsFdcInv, ProcessInv, PushInv, TimerFiresInv, DequeueInv,
         StartHandleInv, QueryInv, HandleFailsInv, SignResponseInv, SignTeesInv, EmitInv,
         EmitCancelledInv, ReportInv DEF Handle
    <3> QED BY <3>1, <3>2
  <2>4. Around => Same(j)
    BY AroundSame
  <2> QED BY <1>1, <2>2, <2>3, <2>4 DEF Next, Loop, Around
<1>2. TypeOK /\ FdcInv /\ [Next]_vars =>
        [\A i \in Instrs : \/ tries'[i] = tries[i] /\ Ahead(i)' = Ahead(i)
                           \/ Left(i)' < Left(i)]_vars
  BY <1>1
<1> QED BY <1>2, Invariance, PTL DEF Spec, NothingForNothing

(* How an instruction has ended is never revised.                            *)
THEOREM Ending == Spec => EndsForGood
<1>1. ASSUME [Promise!Next]_<<statuses, afm>>, NEW i \in Instrs,
             statusOf(i) \in Promise!Final
      PROVE  statusOf(i)' = statusOf(i)
  <2>1. statuses[i] = statusOf(i) /\ statuses'[i] = statusOf(i)'
    BY DEF statuses
  <2>2. statuses'[i] = statuses[i]
    <3>1. ASSUME NEW j \in Instrs, NEW s, statuses[j] \in {"new", "accepted"},
                 statuses' = [statuses EXCEPT ![j] = s]
          PROVE  statuses'[i] = statuses[i]
      BY <1>1, <2>1, <3>1 DEF statuses, Promise!Final
    <3>2. ASSUME NEW j \in Instrs, Promise!Accept(j) PROVE statuses'[i] = statuses[i]
      BY <3>1, <3>2 DEF Promise!Accept, Promise!Become, statuses
    <3>3. ASSUME NEW j \in Instrs, Promise!Confirm(j) PROVE statuses'[i] = statuses[i]
      BY <3>3 DEF Promise!Confirm, statuses
    <3>4. ASSUME NEW j \in Instrs, Promise!Reject(j) PROVE statuses'[i] = statuses[i]
      BY <3>1, <3>4 DEF Promise!Reject, Promise!Become, statuses
    <3>5. ASSUME NEW j \in Instrs, Promise!Emit(j) PROVE statuses'[i] = statuses[i]
      BY <3>1, <3>5 DEF Promise!Emit, Promise!Become, statuses
    <3>6. ASSUME NEW j \in Instrs, Promise!Drop(j) PROVE statuses'[i] = statuses[i]
      BY <3>1, <3>6 DEF Promise!Drop, Promise!Become, statuses
    <3> QED BY <1>1, <3>2, <3>3, <3>4, <3>5, <3>6 DEF Promise!Next
  <2> QED BY <2>1, <2>2
<1>2. TypeOK /\ FdcInv /\ [Next]_vars =>
        [\A i \in Instrs : statusOf(i) \in Promise!Final => statusOf(i)' = statusOf(i)]_vars
  BY <1>1, PromiseStep
<1> QED BY <1>2, Invariance, PTL DEF Spec, EndsForGood
=============================================================================
