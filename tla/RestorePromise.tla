--------------------------- MODULE RestorePromise ---------------------------
(***************************************************************************)
(* What the backup processor promises of a restore: it ends without a word *)
(* or hands over one message, once, which answers the request, is signed   *)
(* for the one machine the request names, and never changes again.  Hosts, *)
(* answers, stages and channel do not appear; Backup implements this       *)
(* specification (see BackupRefinement).                                   *)
(***************************************************************************)
EXTENDS Sequences

CONSTANTS Restores,
          Direct,   \* restores of a direct backup
          Parts,    \* the key splits a relay may own of a backup
          NoData,   \* a field without content
          Nothing   \* no message

VARIABLES request,  \* what each restore asks for
          status,   \* "pending", "sent" or "ended"
          message   \* what was handed over

promise == <<request, status, message>>

\* For a direct restore the envelope of the source, otherwise the requested
\* backup, with at least one of its splits, all of it for the destination.
Fixed(r) == IF r \in Direct THEN [signer |-> request[r].source, id |-> request[r].id]
            ELSE [metadata |-> request[r].id]
Variables(r) ==
    IF r \in Direct THEN {NoData}
    ELSE {[to |-> request[r].tees[1], splits |-> [p \in owned |-> request[r].id]] :
              owned \in (SUBSET Parts) \ {{}}}

Signed(tee, f, v) ==
    [fixed |-> f, variable |-> v, signature |-> [tee |-> tee, fixed |-> f, variable |-> v]]

Init == /\ status = [r \in Restores |-> "pending"]
        /\ message = [r \in Restores |-> Nothing]

Send(r) == /\ status[r] = "pending"
           /\ Len(request[r].tees) = 1
           /\ \E v \in Variables(r) :
                 message' = [message EXCEPT ![r] = Signed(request[r].tees[1], Fixed(r), v)]
           /\ status' = [status EXCEPT ![r] = "sent"]
           /\ UNCHANGED request

End(r) == /\ status[r] = "pending"
          /\ status' = [status EXCEPT ![r] = "ended"]
          /\ UNCHANGED <<request, message>>

Next == \E r \in Restores : Send(r) \/ End(r)

Spec == Init /\ [][Next]_promise
=============================================================================
