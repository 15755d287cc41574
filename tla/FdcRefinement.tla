--------------------------- MODULE FdcRefinement ---------------------------
(* FdcQueue implements FdcPromise: the places an instruction can be in the  *)
(* queue are all "accepted", and the body is the one in the instance.       *)
EXTENDS FdcQueue

statusOf(i) ==
    CASE emits[i] > 0       -> "emitted"
      [] i \in rejected     -> "rejected"
      [] i \in dropped      -> "dropped"
      [] OTHER              -> IF weight[i] = 0 THEN "new" ELSE "accepted"

Promise == INSTANCE FdcPromise WITH
               Sendable <- Bodies \ TooBig,
               status <- [i \in Instrs |-> statusOf(i)],
               body <- afm

\* Every step of the queue, its workers and the handler is a step of the
\* promise or invisible to it: an instruction ends once, in one way, with the
\* one body the verifier confirmed.
KeepsPromise == Promise!Spec

\* An instruction that has been emitted, rejected or dropped stays so, whatever
\* is still done with the instances by the sender, timers and workers.
EndsForGood ==
    [][\A i \in Instrs :
          statusOf(i) \in Promise!Final => statusOf(i)' = statusOf(i)]_vars
=============================================================================
