---------------------------- MODULE FdcPromise -----------------------------
(***************************************************************************)
(* What the FDC path promises the rest of the relay, per instruction: once *)
(* accepted it ends exactly once, and an emitted instruction carries one   *)
(* body, confirmed by the verifier and never exchanged for another.        *)
(* Queues, workers, attempts, timers and channels do not appear; FdcQueue  *)
(* implements this specification (see FdcRefinement).                      *)
(***************************************************************************)
CONSTANTS Instrs,   \* instructions
          Sendable, \* bodies a TEE accepts
          Empty     \* no body

VARIABLES status,   \* where each instruction is in its life
          body      \* the confirmed body

Final == {"emitted", "rejected", "dropped"}

TypeOK == /\ status \in [Instrs -> {"new", "accepted"} \cup Final]
          /\ body \in [Instrs -> Sendable \cup {Empty}]

Init == /\ status = [i \in Instrs |-> "new"]
        /\ body = [i \in Instrs |-> Empty]

Become(i, s) == status' = [status EXCEPT ![i] = s]

Accept(i) == status[i] = "new" /\ Become(i, "accepted") /\ UNCHANGED body

Confirm(i) == /\ status[i] = "accepted"
              /\ body[i] = Empty
              /\ \E b \in Sendable : body' = [body EXCEPT ![i] = b]
              /\ UNCHANGED status

\* The verifier cannot reject what it has confirmed.
Reject(i) == /\ status[i] = "accepted"
             /\ body[i] = Empty
             /\ Become(i, "rejected")
             /\ UNCHANGED body

Emit(i) == /\ status[i] = "accepted"
           /\ body[i] # Empty
           /\ Become(i, "emitted")
           /\ UNCHANGED body

Drop(i) == status[i] = "accepted" /\ Become(i, "dropped") /\ UNCHANGED body

Next == \E i \in Instrs :
            Accept(i) \/ Confirm(i) \/ Reject(i) \/ Emit(i) \/ Drop(i)

Spec == Init /\ [][Next]_<<status, body>>
=============================================================================
