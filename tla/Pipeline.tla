------------------------------ MODULE Pipeline -----------------------------
(***************************************************************************)
(* From the collector's channel to the TEE machines: the router loop       *)
(* (internal/router/router.go, filterer.go), the goroutine it spawns per   *)
(* instruction (processors/processor.go, instructions/instructions.go) and *)
(* the sender with one goroutine per TEE machine (internal/sender).        *)
(*                                                                         *)
(* No stage waits for an instruction: the router never blocks on a         *)
(* processor, the sender never on a machine.  Nothing is retried but the   *)
(* posts, errors are only logged.  Two goroutines of the sender share one  *)
(* instance, and index its Signatures by the position of the machine in    *)
(* the list WITHOUT duplicates; the sender has no recover, so an index out *)
(* of range would end the process.                                         *)
(*                                                                         *)
(* A request that has been posted is the network's: it may reach the       *)
(* machine after its attempt has failed, and after SendToTEE has given it  *)
(* up (on ctx or at the end of its budget) and the goroutine is done.      *)
(*                                                                         *)
(* The FDC and backup processors appear as one step that completes the     *)
(* data before the common signing, or fails; FdcQueue has the detail of    *)
(* the former.  A signature is represented by what it signs.               *)
(***************************************************************************)
EXTENDS Naturals, Sequences, FiniteSets, Functions

CONSTANTS Logs,        \* TeeInstructionsSent logs
          Parsable,    \* those ParseInstruction accepts
          OpOf,        \* [type, command] of each log
          ValidOps,    \* the pairs op.IsValid accepts
          Cosigners,   \* the cosigners each event names
          TeeMachines, \* the machines each event names, [teeId, url], a sequence
          Address,     \* the address of this relay's signer
          IsCosigner,  \* is_cosigner of the configuration
          Remote,      \* the signer is a remote service
          Extras,      \* what FDC and backup processing can add to the data
          NoExtra,     \* nothing added
          Batches,     \* what the collector sends, a sequence of sequences
          CToRCap, RToSCap, \* capacities of the two channels
          MaxPosts,    \* attempts of SendToTEE
          Stuck        \* instructions whose own goroutines may hang for ever

ASSUME PipelineAssumption ==
    /\ TeeMachines \in [Logs -> Seq([teeId : STRING, url : STRING])]
    /\ Parsable \subseteq Logs /\ Stuck \subseteq Logs
    /\ NoExtra \notin Extras
    /\ Batches \in Seq(Seq(Logs))
    /\ CToRCap \in Nat \ {0} /\ RToSCap \in Nat \ {0} /\ MaxPosts \in Nat \ {0}

\* The collector sends no log twice (Collector!ExactlyOnce).
ASSUME BatchesAssumption ==
    \A b, c \in DOMAIN Batches :
        \A i \in DOMAIN Batches[b], j \in DOMAIN Batches[c] :
            Batches[b][i] = Batches[c][j] => b = c /\ i = j

VARIABLES
    collected,  \* batches the collector has sent so far
    cToR,       \* channel of batches
    routerPc, senderPc, \* "run" or "exited"
    todo,       \* rest of the batch the router loop is in
    phase,      \* the processing goroutine of each log
    extra,      \* fixed and variable message of the instance
    sigs,       \* Signatures of the instance
    rToS,       \* channel of instances
    post,       \* the sender's goroutine for each <<log, index>>
    posts,      \* attempts it has begun
    msg,        \* what it posts: PrepareInstruction's result
    received,   \* messages that reached a machine
    cancelled   \* ctx has been cancelled

vars == <<collected, cToR, routerPc, senderPc, todo, phase, extra, sigs, rToS,
          post, posts, msg, received, cancelled>>
router == <<collected, cToR, routerPc, todo>>
instance == <<extra, sigs>>
sender == <<senderPc, post, posts, msg, received>>

Phases == {"none", "ignored", "complete", "sign", "emit", "emitted", "failed"}
Posting == {"none", "prepare", "post", "delivered", "failed", "panic"}
Slots == UNION {{<<l, j>> : j \in 1 .. Len(TeeMachines[l])} : l \in Logs}
NoMsg == [none |-> TRUE]

----------------------------------------------------------------------------
(* Pure parts.                                                             *)

\* The entries of s at the positions F, in order: the j-th one is at the
\* position with j members of F up to it.
nth(F, j) == CHOOSE k \in F : Cardinality({i \in F : i <= k}) = j
entries(s, F) == [j \in 1 .. Cardinality(F) |-> s[nth(F, j)]]

\* Mutant of the next definition: a plausible slip, used by no action.
removeDuplicateIds(s) ==
    entries(s, {k \in DOMAIN s : \A i \in DOMAIN s : s[i].teeId = s[k].teeId => k <= i})

\* The first occurrence of each machine, in order; machines compare as records.
removeDuplicates(s) ==
    entries(s, {k \in DOMAIN s : \A i \in DOMAIN s : s[i] = s[k] => k <= i})
Tees(l) == removeDuplicates(TeeMachines[l])

instClass(o) ==
    CASE o = [type |-> "FDC2", command |-> "Prove"] -> "FDC"
      [] o \in {[type |-> "Wallet", command |-> "KeyDataProviderRestore"],
                [type |-> "Wallet", command |-> "KeyDirectRestore"]} -> "Backup"
      [] OTHER -> IF o \in ValidOps THEN "Plain" ELSE "Invalid"

\* Mutant of the next definition: a plausible slip, used by no action.
FilterNothing(l) == FALSE

\* CosignerFilterer and ProviderFilterer.
Filter(l) == IsCosigner /\ Address \notin Cosigners[l]

\* What is hashed, and signed, for one machine.
HashForSigning(l, m) == [log |-> l, teeId |-> m.teeId, extra |-> extra[l]]
hashesForSigning(l) == [j \in DOMAIN Tees(l) |-> HashForSigning(l, Tees(l)[j])]

\* A local signer signs every hash; a remote one may answer with too few or
\* too many signatures, which Remote.Sign turns into an error.
SignerAnswers(hashes) ==
    {hashes} \cup IF Remote THEN {SubSeq(hashes, 1, Len(hashes) - 1),
                                  Append(hashes, "surplus")} ELSE {}
\* Mutant of the next definition: a plausible slip, used by no action.
SignAcceptsAny(hashes, answer) == TRUE
SignAccepts(hashes, answer) == Len(answer) = Len(hashes)

\* Mutant of the next definition: a plausible slip, used by no action.
PrepareFromEvent(l, j) ==
    [log |-> l, machine |-> TeeMachines[l][j], extra |-> extra[l],
     signature |-> sigs[l][j]]

\* PrepareInstruction for machine j of the deduplicated list.
PrepareInstruction(l, j) ==
    [log |-> l, machine |-> Tees(l)[j], extra |-> extra[l], signature |-> sigs[l][j]]

\* Mutants of the actions below: each is a plausible slip that
\* one of the properties at the end has to catch.  No action uses them.
SenderWaits ==
    /\ senderPc = "run"
    /\ rToS # << >>
    /\ \A s \in Slots : post[s] \notin {"prepare", "post"}
    /\ rToS' = Tail(rToS)
    /\ post' = [s \in Slots |-> IF s[1] = Head(rToS) /\ s[2] \in DOMAIN Tees(s[1])
                                THEN "prepare" ELSE post[s]]
    /\ UNCHANGED <<router, senderPc, phase, instance, posts, msg, received, cancelled>>
HandleWaits ==
    /\ todo # << >>
    /\ \A l \in Logs : phase[l] \notin {"complete", "sign", "emit"}
    /\ LET l == Head(todo)
           class == instClass(OpOf[l])
       IN phase' = [phase EXCEPT ![l] =
              IF l \notin Parsable \/ Filter(l) \/ class = "Invalid" THEN "ignored"
              ELSE IF class = "Plain" THEN "sign" ELSE "complete"]
    /\ todo' = Tail(todo)
    /\ UNCHANGED <<collected, cToR, routerPc, instance, rToS, sender, cancelled>>
PostFailsStillPosting(s) ==
    /\ post[s] = "post"
    /\ posts' = [posts EXCEPT ![s] = IF @ < MaxPosts THEN @ + 1 ELSE @]
    /\ \E again \in BOOLEAN :
          post' = [post EXCEPT ![s] = IF again /\ posts[s] < MaxPosts THEN "post" ELSE "failed"]
    /\ UNCHANGED <<router, senderPc, phase, instance, rToS, msg, received, cancelled>>
EmitIgnoresCtx(l) == phase[l] = "never" /\ UNCHANGED vars

----------------------------------------------------------------------------
(* The collector and the router.                                           *)

\* The collector sends its next batch.
Collect ==
    /\ ~cancelled
    /\ collected < Len(Batches)
    /\ Len(cToR) < CToRCap
    /\ cToR' = Append(cToR, Batches[collected + 1])
    /\ collected' = collected + 1
    /\ UNCHANGED <<routerPc, todo, phase, instance, rToS, sender, cancelled>>

\* select: a batch has arrived.
RouterTakes ==
    /\ routerPc = "run"
    /\ todo = << >>
    /\ cToR # << >>
    /\ todo' = Head(cToR)
    /\ cToR' = Tail(cToR)
    /\ UNCHANGED <<collected, routerPc, phase, instance, rToS, sender, cancelled>>

\* select: ctx is done; only seen between batches.
RouterExits ==
    /\ routerPc = "run"
    /\ todo = << >>
    /\ cancelled
    /\ routerPc' = "exited"
    /\ UNCHANGED <<collected, cToR, todo, phase, instance, rToS, sender, cancelled>>

\* Handle parses, filters and routes one log and spawns its goroutine; an
\* error is logged and the loop goes on with the next log.
Handle ==
    /\ todo # << >>
    /\ LET l == Head(todo)
           class == instClass(OpOf[l])
       IN phase' = [phase EXCEPT ![l] =
              IF l \notin Parsable \/ Filter(l) \/ class = "Invalid" THEN "ignored"
              ELSE IF class = "Plain" THEN "sign" ELSE "complete"]
    /\ todo' = Tail(todo)
    /\ UNCHANGED <<collected, cToR, routerPc, instance, rToS, sender, cancelled>>

----------------------------------------------------------------------------
(* The goroutine of one instruction: processor.Process.                    *)

\* FDC and backup processing adds to GeneralData.
Complete(l) ==
    /\ phase[l] = "complete"
    /\ \E x \in Extras : extra' = [extra EXCEPT ![l] = x]
    /\ phase' = [phase EXCEPT ![l] = "sign"]
    /\ UNCHANGED <<router, sigs, rToS, sender, cancelled>>

\* Base.Sign: Signatures are set only when there is one per machine.
Sign(l) ==
    /\ phase[l] = "sign"
    /\ \E answer \in SignerAnswers(hashesForSigning(l)) :
          IF SignAccepts(hashesForSigning(l), answer)
          THEN /\ sigs' = [sigs EXCEPT ![l] = answer]
               /\ phase' = [phase EXCEPT ![l] = "emit"]
          ELSE /\ phase' = [phase EXCEPT ![l] = "failed"]
               /\ UNCHANGED sigs
    /\ UNCHANGED <<router, extra, rToS, sender, cancelled>>

\* An error, or a panic that the goroutine recovers: only logged.
ProcessFails(l) ==
    /\ phase[l] \in {"complete", "sign"}
    /\ phase' = [phase EXCEPT ![l] = "failed"]
    /\ UNCHANGED <<router, instance, rToS, sender, cancelled>>

Emit(l) ==
    /\ phase[l] = "emit"
    /\ Len(rToS) < RToSCap
    /\ rToS' = Append(rToS, l)
    /\ phase' = [phase EXCEPT ![l] = "emitted"]
    /\ UNCHANGED <<router, instance, sender, cancelled>>

EmitCancelled(l) ==
    /\ phase[l] = "emit"
    /\ cancelled
    /\ phase' = [phase EXCEPT ![l] = "failed"]
    /\ UNCHANGED <<router, instance, rToS, sender, cancelled>>

----------------------------------------------------------------------------
(* The sender.                                                             *)

\* One goroutine per machine of the instruction.
SenderTakes ==
    /\ senderPc = "run"
    /\ rToS # << >>
    /\ rToS' = Tail(rToS)
    /\ post' = [s \in Slots |-> IF s[1] = Head(rToS) /\ s[2] \in DOMAIN Tees(s[1])
                                THEN "prepare" ELSE post[s]]
    /\ UNCHANGED <<router, senderPc, phase, instance, posts, msg, received, cancelled>>

SenderExits ==
    /\ senderPc = "run"
    /\ cancelled
    /\ senderPc' = "exited"
    /\ UNCHANGED <<router, phase, instance, rToS, post, posts, msg, received, cancelled>>

\* PrepareInstruction reads the shared instance; a missing signature panics.
\* SendToTEE begins its first attempt at once.
Prepare(s) ==
    /\ post[s] = "prepare"
    /\ IF s[2] \in DOMAIN sigs[s[1]]
       THEN /\ msg' = [msg EXCEPT ![s] = PrepareInstruction(s[1], s[2])]
            /\ post' = [post EXCEPT ![s] = "post"]
            /\ posts' = [posts EXCEPT ![s] = 1]
       ELSE /\ post' = [post EXCEPT ![s] = "panic"]
            /\ UNCHANGED <<posts, msg>>
    /\ UNCHANGED <<router, senderPc, phase, instance, rToS, received, cancelled>>

\* A request reaches the machine, at any time after an attempt has begun.
PostArrives(s) ==
    /\ posts[s] > 0
    /\ msg[s] \notin received
    /\ received' = received \cup {msg[s]}
    /\ UNCHANGED <<router, senderPc, phase, instance, rToS, post, posts, msg, cancelled>>

\* The machine's receipt ends the goroutine.
PostDelivered(s) ==
    /\ post[s] = "post"
    /\ msg[s] \in received
    /\ post' = [post EXCEPT ![s] = "delivered"]
    /\ UNCHANGED <<router, senderPc, phase, instance, rToS, posts, msg, received, cancelled>>

\* The attempt fails or, on ctx or when the budget is used up, is abandoned:
\* another one follows unless it was abandoned, the last, or its answer allows
\* none.  What becomes of the request is not known here.
PostFails(s) ==
    /\ post[s] = "post"
    /\ \/ /\ posts[s] < MaxPosts
          /\ posts' = [posts EXCEPT ![s] = @ + 1]
          /\ post' = post
       \/ /\ post' = [post EXCEPT ![s] = "failed"]
          /\ posts' = posts
    /\ UNCHANGED <<router, senderPc, phase, instance, rToS, msg, received, cancelled>>

----------------------------------------------------------------------------
Cancel ==
    /\ ~cancelled
    /\ cancelled' = TRUE
    /\ UNCHANGED <<router, phase, instance, rToS, sender>>

Init ==
    /\ collected = 0
    /\ cToR = << >> /\ rToS = << >> /\ todo = << >>
    /\ routerPc = "run" /\ senderPc = "run"
    /\ phase = [l \in Logs |-> "none"]
    /\ extra = [l \in Logs |-> NoExtra]
    /\ sigs = [l \in Logs |-> << >>]
    /\ post = [s \in Slots |-> "none"]
    /\ posts = [s \in Slots |-> 0]
    /\ msg = [s \in Slots |-> NoMsg]
    /\ received = {}
    /\ cancelled = FALSE

Process(l) == Complete(l) \/ Sign(l) \/ ProcessFails(l) \/ Emit(l) \/ EmitCancelled(l)
Deliver(s) == Prepare(s) \/ PostDelivered(s) \/ PostFails(s)

Next == \/ Collect \/ Cancel
        \/ RouterTakes \/ RouterExits \/ Handle
        \/ \E l \in Logs : Process(l)
        \/ SenderTakes \/ SenderExits
        \/ \E s \in Slots : Deliver(s) \/ PostArrives(s)

Spec == Init /\ [][Next]_vars

(* The two loops run; the goroutines of an instruction run unless it is one *)
(* of the Stuck ones, whose signer, verifier or machines never answer.      *)
(* Nothing is assumed about when a request reaches a machine, if ever.      *)
Fairness ==
    /\ WF_vars(Handle)
    /\ WF_vars(~cancelled /\ RouterTakes)
    /\ SF_vars(RouterExits)
    /\ WF_vars(~cancelled /\ SenderTakes)
    /\ SF_vars(SenderExits)
    /\ \A l \in Logs \ Stuck : WF_vars(Process(l))
    /\ \A s \in Slots : s[1] \notin Stuck => WF_vars(Deliver(s))

FairSpec == Spec /\ Fairness

----------------------------------------------------------------------------
(* Properties.                                                             *)

Messages == [log : Logs, machine : UNION {Range(TeeMachines[l]) : l \in Logs},
             extra : Extras \cup {NoExtra},
             signature : [log : Logs, teeId : STRING, extra : Extras \cup {NoExtra}]]

TypeOK ==
    /\ collected \in 0 .. Len(Batches)
    /\ cToR \in Seq(Seq(Logs)) /\ Len(cToR) <= CToRCap
    /\ todo \in Seq(Logs)
    /\ rToS \in Seq(Logs) /\ Len(rToS) <= RToSCap
    /\ routerPc \in {"run", "exited"} /\ senderPc \in {"run", "exited"}
    /\ phase \in [Logs -> Phases]
    /\ extra \in [Logs -> Extras \cup {NoExtra}]
    /\ DOMAIN sigs = Logs
    /\ post \in [Slots -> Posting]
    /\ posts \in [Slots -> 0 .. MaxPosts]
    /\ DOMAIN msg = Slots
    /\ received \subseteq Messages
    /\ cancelled \in BOOLEAN

\* An instruction the relay acts on: it parses, names the relay if that is a
\* cosigner, and has a valid op.
Routable(l) == /\ l \in Parsable
               /\ IsCosigner => Address \in Cosigners[l]
               /\ OpOf[l] \in ValidOps \/ instClass(OpOf[l]) \in {"FDC", "Backup"}

\* Whatever a machine receives is an instruction this relay may act on, meant
\* for this machine, carrying the signature over exactly this instruction,
\* this machine's id and the data in the message: the positions of machines,
\* hashes and signatures agree although duplicates were removed.
ReceivedIsSignedForReceiver ==
    \A m \in received :
        /\ Routable(m.log)
        /\ m.machine \in Range(TeeMachines[m.log])
        /\ m.signature = [log |-> m.log, teeId |-> m.machine.teeId, extra |-> m.extra]

\* No goroutine of the sender indexes beyond the signatures: a signer that
\* answers with too few of them cannot end the process.
SenderNeverPanics == \A s \in Slots : post[s] # "panic"

\* When all goroutines of an instruction are done, each machine of its event
\* was served by exactly one of them, also a machine that shares its id with
\* another one at a different url.
Served(l) == {j \in 1 .. Len(TeeMachines[l]) : post[<<l, j>>] \in {"delivered", "failed"}}
EachMachineOnce ==
    \A l \in Logs :
        (\E s \in Slots : s[1] = l /\ post[s] # "none")
        /\ (\A s \in Slots : s[1] = l => post[s] \notin {"prepare", "post"})
        => /\ {msg[<<l, j>>].machine : j \in Served(l)} = Range(TeeMachines[l])
           /\ Cardinality(Served(l)) = Cardinality(Range(TeeMachines[l]))

Settled(l) ==
    \/ phase[l] \in {"ignored", "failed"}
    \/ /\ phase[l] = "emitted"
       /\ \A s \in Slots : s[1] = l /\ s[2] \in DOMAIN Tees(l)
                             => post[s] \in {"delivered", "failed"}

\* Every collected log is ignored, fails, or is offered to all its machines:
\* neither a bad log in the same batch nor an instruction whose signer or
\* machines hang for ever holds it up, unless the relay is shut down.
NoHeadOfLineBlocking ==
    \A b \in DOMAIN Batches :
        collected >= b
            ~> (\A l \in Range(Batches[b]) \ Stuck : Settled(l)) \/ cancelled

\* After cancellation both loops return, and no processing goroutine of a
\* responsive instruction is left waiting for room on the channel.
PipelineStops ==
    cancelled ~> /\ routerPc = "exited" /\ senderPc = "exited"
                 /\ \A l \in Logs \ Stuck : phase[l] \notin {"complete", "sign", "emit"}
=============================================================================
