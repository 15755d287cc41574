-------------------------- MODULE BackupRefinement --------------------------
(* Backup implements RestorePromise: every stage of a handler is "pending", *)
(* and the message is read from the instance, which the sender holds a      *)
(* pointer to, at any time after its emission.                              *)
EXTENDS Backup

statusOf(r) ==
    CASE pc[r] = "emitted"               -> "sent"
      [] pc[r] \in {"nothing", "failed"} -> "ended"
      [] OTHER                           -> "pending"
messageOf(r) ==
    IF pc[r] = "emitted"
    THEN [fixed |-> fixed[r], variable |-> variable[r], signature |-> signed[r]]
    ELSE NoData

Promise == INSTANCE RestorePromise WITH
               Nothing <- NoData,
               status <- [r \in Restores |-> statusOf(r)],
               message <- [r \in Restores |-> messageOf(r)]

\* Whatever the host answers and whatever fails on the way, a restore hands over
\* one message or none: the requested backup or envelope, for the one requested
\* machine and signed for it; what the sender reads later is still that message.
KeepsRestorePromise == Promise!Spec
=============================================================================
