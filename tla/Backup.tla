------------------------------- MODULE Backup -------------------------------
(***************************************************************************)
(* The backup processor (internal/router/processors/backup.go): one        *)
(* goroutine per restore instruction fetches a backup package or a direct  *)
(* backup envelope from a host that the instruction names, checks it,      *)
(* completes the instance, signs it and hands it to the sender.            *)
(*                                                                         *)
(* The host may answer with anything.  A package says which backup it is   *)
(* three times over: in the response, in the blob, and in each encrypted   *)
(* key split; the fixed message of the instance is set from it before the  *)
(* signer has even been asked who it is, and before the splits are         *)
(* decrypted.  An error on the way is only logged: the half filled         *)
(* instance is dropped, and nothing is retried.                            *)
(*                                                                         *)
(* A TEE stands for its id and its key, a backup id for all its fields, a  *)
(* signature for the TEE that made it.                                     *)
(***************************************************************************)
EXTENDS Naturals, Sequences

CONSTANTS Restores,   \* restore instructions the router gave to the processor
          Direct,     \* those with command KEY_DIRECT_RESTORE
          BackupIds,  \* wallet backup ids
          TeeIds,     \* TEE machines
          Actions,    \* ids of instructions that made a backup
          Asked,      \* requests that the restore instructions may make
          Junk,       \* a split that does not decrypt, or is not signed by its wallet
          NoData,     \* a field that has not been set
          OutCap      \* capacity of the channel to the sender

\* One machine, or more than one, which the checks refuse.
Machines == {<<t>> : t \in TeeIds} \cup TeeIds \X TeeIds

\* A request names machines, a backup and the key to encrypt for, or the TEE
\* that made the backup and the instruction it made it for.
Requests == [tees : Machines, id : BackupIds, key : TeeIds, source : TeeIds,
             action : Actions]

ASSUME BackupAssumption ==
    /\ Direct \subseteq Restores
    /\ Asked \subseteq Requests
    /\ Junk \notin BackupIds
    /\ OutCap \in Nat \ {0}

VARIABLES
    request,   \* what the instruction asks for
    pc,        \* where its goroutine is
    answer,    \* what the host answered
    decrypted, \* key splits decrypted and verified so far
    fixed,     \* AdditionalFixedMessage of the instance
    variable,  \* AdditionalVariableMessage of the instance
    signed,    \* what the instance's signature was made over
    out,       \* channel to the sender
    cancelled  \* ctx has been cancelled

vars == <<request, pc, answer, decrypted, fixed, variable, signed, out, cancelled>>

Provider == Restores \ Direct
Parts == {"provider", "admin"}

\* A backup package: the id of the response, the id in the blob, the parts of
\* which this relay's key is an owner, and the id inside each split.
Packages == [id : BackupIds, blob : BackupIds, owned : SUBSET Parts,
             split : [Parts -> BackupIds \cup {Junk}]]

\* An action response: who signed it, whether it is a successful threshold
\* answer of KEY_DIRECT_BACKUP, for which instruction, and the envelope.
Envelopes == [signer : TeeIds, id : BackupIds]
Responses == [signer : TeeIds, expected : BOOLEAN, action : Actions, data : Envelopes]

PCs == {"fetch", "check", "identify", "decrypt", "sign", "emit",
        "emitted", "nothing", "failed"}

----------------------------------------------------------------------------
(* Checks.                                                                 *)

checkConsistency(req, id) ==
    /\ Len(req.tees) = 1
    /\ req.key = req.tees[1]
    /\ req.id = id

\* Mutant of the next definition: a plausible slip, used by no action.
AcceptsPackageAnyBlob(req, a) == checkConsistency(req, a.id)

\* The package is for this request, and so is the blob inside it.
AcceptsPackage(req, a) == checkConsistency(req, a.id) /\ a.blob = a.id

validateActionResponseDirect(req, a) ==
    a.signer = req.source /\ a.expected /\ a.action = req.action

\* The envelope itself is signed by the source TEE and holds the backup.
AcceptsEnvelope(req, e) == e.signer = req.source /\ e.id = req.id

\* Mutants of the actions below: each is a plausible slip that one of
\* the properties at the end has to catch.  No action uses them.
EncryptFirst(r) ==
    /\ pc[r] = "decrypt"
    /\ variable' = [variable EXCEPT ![r] =
                       [to |-> request[r].key,
                        splits |-> [p \in answer[r].owned |-> answer[r].split[p]]]]
    /\ pc' = [pc EXCEPT ![r] = "sign"]
    /\ UNCHANGED <<request, answer, decrypted, fixed, signed, out, cancelled>>
SignFixedOnly(r) ==
    /\ pc[r] = "sign"
    /\ signed' = [signed EXCEPT ![r] =
                    [tee |-> request[r].tees[1], fixed |-> fixed[r], variable |-> NoData]]
    /\ pc' = [pc EXCEPT ![r] = "emit"]
    /\ UNCHANGED <<request, answer, decrypted, fixed, variable, out, cancelled>>
EmitUnbounded(r) ==
    /\ pc[r] = "emit"
    /\ out' = Append(out, r)
    /\ pc' = [pc EXCEPT ![r] = "emitted"]
    /\ UNCHANGED <<request, answer, decrypted, fixed, variable, signed, cancelled>>
EmitIgnoresCtx(r) == pc[r] = "never" /\ UNCHANGED vars

----------------------------------------------------------------------------
(* Fetching and checking.                                                  *)

\* Any error return: a request that does not parse, a URL that is refused, a
\* host that does not answer 200 with JSON in time, a blob that fails its own
\* check, a signer that does not answer, a key that does not encrypt.
Fails(r) ==
    /\ pc[r] \in {"fetch", "check", "identify", "decrypt", "sign"}
    /\ pc' = [pc EXCEPT ![r] = "failed"]
    /\ UNCHANGED <<request, answer, decrypted, fixed, variable, signed, out, cancelled>>

FetchPackage(r) ==
    /\ pc[r] = "fetch" /\ r \in Provider
    /\ \E a \in Packages : answer' = [answer EXCEPT ![r] = a]
    /\ pc' = [pc EXCEPT ![r] = "check"]
    /\ UNCHANGED <<request, decrypted, fixed, variable, signed, out, cancelled>>

\* The blob's metadata becomes the fixed message.
CheckPackage(r) ==
    /\ pc[r] = "check" /\ r \in Provider
    /\ IF AcceptsPackage(request[r], answer[r])
       THEN /\ fixed' = [fixed EXCEPT ![r] = [metadata |-> answer[r].blob]]
            /\ pc' = [pc EXCEPT ![r] = "identify"]
       ELSE /\ pc' = [pc EXCEPT ![r] = "failed"]
            /\ UNCHANGED fixed
    /\ UNCHANGED <<request, answer, decrypted, variable, signed, out, cancelled>>

\* One destination only, then the same with the source TEE's proxy.
FetchEnvelope(r) ==
    /\ pc[r] = "fetch" /\ r \in Direct
    /\ Len(request[r].tees) = 1
    /\ \E a \in Responses : answer' = [answer EXCEPT ![r] = a]
    /\ pc' = [pc EXCEPT ![r] = "check"]
    /\ UNCHANGED <<request, decrypted, fixed, variable, signed, out, cancelled>>

\* The envelope becomes the fixed message before it has been looked into.
CheckEnvelope(r) ==
    /\ pc[r] = "check" /\ r \in Direct
    /\ IF validateActionResponseDirect(request[r], answer[r])
       THEN /\ fixed' = [fixed EXCEPT ![r] = answer[r].data]
            /\ pc' = [pc EXCEPT ![r] = IF AcceptsEnvelope(request[r], answer[r].data)
                                       THEN "sign" ELSE "failed"]
       ELSE /\ pc' = [pc EXCEPT ![r] = "failed"]
            /\ UNCHANGED fixed
    /\ UNCHANGED <<request, answer, decrypted, variable, signed, out, cancelled>>

----------------------------------------------------------------------------
(* The key splits.                                                         *)

\* A relay that owns no split has nothing to send, which is no error.
Identify(r) ==
    /\ pc[r] = "identify"
    /\ pc' = [pc EXCEPT ![r] = IF answer[r].owned = {} THEN "nothing" ELSE "decrypt"]
    /\ UNCHANGED <<request, answer, decrypted, fixed, variable, signed, out, cancelled>>

\* decryptKeySplit, and the comparison of its backup id with the blob's; the
\* provider's split comes before the admin's.
Decrypt(r, p) ==
    /\ pc[r] = "decrypt"
    /\ p \in answer[r].owned \ decrypted[r]
    /\ p = "admin" => "provider" \notin answer[r].owned \ decrypted[r]
    /\ IF answer[r].split[p] = answer[r].blob
       THEN /\ decrypted' = [decrypted EXCEPT ![r] = @ \cup {p}]
            /\ UNCHANGED pc
       ELSE /\ pc' = [pc EXCEPT ![r] = "failed"]
            /\ UNCHANGED decrypted
    /\ UNCHANGED <<request, answer, fixed, variable, signed, out, cancelled>>

\* The split, or both of them, are encrypted to the requested key.
Encrypt(r) ==
    /\ pc[r] = "decrypt"
    /\ decrypted[r] = answer[r].owned
    /\ variable' = [variable EXCEPT ![r] =
                       [to |-> request[r].key,
                        splits |-> [p \in answer[r].owned |-> answer[r].split[p]]]]
    /\ pc' = [pc EXCEPT ![r] = "sign"]
    /\ UNCHANGED <<request, answer, decrypted, fixed, signed, out, cancelled>>

----------------------------------------------------------------------------
(* Signing and emission.                                                   *)

Sign(r) ==
    /\ pc[r] = "sign"
    /\ signed' = [signed EXCEPT ![r] =
                    [tee |-> request[r].tees[1], fixed |-> fixed[r], variable |-> variable[r]]]
    /\ pc' = [pc EXCEPT ![r] = "emit"]
    /\ UNCHANGED <<request, answer, decrypted, fixed, variable, out, cancelled>>

Emit(r) ==
    /\ pc[r] = "emit"
    /\ Len(out) < OutCap
    /\ out' = Append(out, r)
    /\ pc' = [pc EXCEPT ![r] = "emitted"]
    /\ UNCHANGED <<request, answer, decrypted, fixed, variable, signed, cancelled>>

EmitCancelled(r) ==
    /\ pc[r] = "emit"
    /\ cancelled
    /\ pc' = [pc EXCEPT ![r] = "failed"]
    /\ UNCHANGED <<request, answer, decrypted, fixed, variable, signed, out, cancelled>>

\* The sender may still receive after cancellation, but need not.
SenderTakes ==
    /\ out # << >>
    /\ out' = Tail(out)
    /\ UNCHANGED <<request, pc, answer, decrypted, fixed, variable, signed, cancelled>>

Cancel ==
    /\ ~cancelled
    /\ cancelled' = TRUE
    /\ UNCHANGED <<request, pc, answer, decrypted, fixed, variable, signed, out>>

----------------------------------------------------------------------------
Init ==
    /\ request \in [Restores -> Asked]
    /\ pc = [r \in Restores |-> "fetch"]
    /\ answer = [r \in Restores |-> NoData]
    /\ decrypted = [r \in Restores |-> {}]
    /\ fixed = [r \in Restores |-> NoData]
    /\ variable = [r \in Restores |-> NoData]
    /\ signed = [r \in Restores |-> NoData]
    /\ out = << >>
    /\ cancelled = FALSE

Process(r) ==
    \/ Fails(r)
    \/ FetchPackage(r) \/ CheckPackage(r)
    \/ FetchEnvelope(r) \/ CheckEnvelope(r)
    \/ Identify(r) \/ (\E p \in Parts : Decrypt(r, p)) \/ Encrypt(r)
    \/ Sign(r) \/ Emit(r) \/ EmitCancelled(r)

Next == (\E r \in Restores : Process(r)) \/ SenderTakes \/ Cancel

Spec == Init /\ [][Next]_vars

\* The fetch and the signer's answers are bounded by timeouts; the sender
\* receives until ctx is cancelled.
FairSpec ==
    /\ Spec
    /\ \A r \in Restores : WF_vars(Process(r))
    /\ WF_vars(~cancelled /\ SenderTakes)

----------------------------------------------------------------------------
(* Properties.                                                             *)

Settled(r) == pc[r] \in {"emitted", "nothing", "failed"}

FixedMessages == [metadata : BackupIds] \cup Envelopes \cup {NoData}
KeySplits == UNION {[owned -> BackupIds \cup {Junk}] : owned \in SUBSET Parts}
VariableMessages == [to : TeeIds, splits : KeySplits] \cup {NoData}
Signatures ==
    [tee : TeeIds, fixed : FixedMessages, variable : VariableMessages] \cup {NoData}

TypeOK ==
    /\ request \in [Restores -> Asked]
    /\ pc \in [Restores -> PCs]
    /\ \A r \in Direct : pc[r] \notin {"identify", "decrypt"}
    /\ answer \in [Restores -> Packages \cup Responses \cup {NoData}]
    /\ \A r \in Restores : pc[r] \notin {"fetch", "failed"} =>
          answer[r] \in IF r \in Direct THEN Responses ELSE Packages
    /\ decrypted \in [Restores -> SUBSET Parts]
    /\ fixed \in [Restores -> FixedMessages]
    /\ variable \in [Restores -> VariableMessages]
    /\ signed \in [Restores -> Signatures]
    /\ out \in Seq(Restores) /\ Len(out) <= OutCap
    /\ cancelled \in BOOLEAN

\* Whatever reaches the sender answers the request: one destination, the
\* requested backup in the fixed message and in every split, the splits
\* encrypted to that destination and exactly those this relay owns, at least
\* one; for a direct restore the envelope of the source TEE and nothing else.
\* So a package whose parts are about different backups goes nowhere.
ForwardedMatchesRequest ==
    \A r \in Restores : pc[r] = "emitted" =>
        LET req == request[r] IN
        /\ Len(req.tees) = 1
        /\ r \in Direct =>
              /\ fixed[r] = [signer |-> req.source, id |-> req.id]
              /\ variable[r] = NoData
        /\ r \in Provider =>
              /\ answer[r].owned # {}
              /\ fixed[r] = [metadata |-> req.id]
              /\ variable[r] = [to |-> req.tees[1],
                                splits |-> [p \in answer[r].owned |-> req.id]]

\* The signature covers the message as it is sent, for its destination: it was
\* made after the last change of the instance.
SignatureCoversMessage ==
    \A r \in Restores : pc[r] = "emitted" =>
        signed[r] = [tee |-> request[r].tees[1], fixed |-> fixed[r], variable |-> variable[r]]

\* The splits leave the relay only after each of them was verified.
VerifiedBeforeSent ==
    \A r \in Provider : pc[r] = "emitted" => decrypted[r] = DOMAIN variable[r].splits

\* The inductive invariant behind the three: what each stage of a restore
\* has established about the answer and the instance it fills.
Splits(r) == [p \in answer[r].owned |-> answer[r].split[p]]
PackageStages(r) ==
    /\ pc[r] \in {"identify", "decrypt", "sign", "emit", "emitted"} =>
          /\ AcceptsPackage(request[r], answer[r])
          /\ fixed[r] = [metadata |-> answer[r].blob]
    /\ pc[r] \in {"decrypt", "sign", "emit", "emitted"} =>
          /\ answer[r].owned # {}
          /\ decrypted[r] \subseteq answer[r].owned
          /\ \A p \in decrypted[r] : answer[r].split[p] = answer[r].blob
    /\ pc[r] \in {"fetch", "check", "identify"} => decrypted[r] = {}
    /\ pc[r] \in {"sign", "emit", "emitted"} =>
          /\ decrypted[r] = answer[r].owned
          /\ variable[r] = [to |-> request[r].key, splits |-> Splits(r)]
EnvelopeStages(r) ==
    /\ pc[r] \in {"check", "sign", "emit", "emitted"} => Len(request[r].tees) = 1
    /\ pc[r] \in {"sign", "emit", "emitted"} =>
          /\ fixed[r] = answer[r].data
          /\ AcceptsEnvelope(request[r], answer[r].data)
    /\ variable[r] = NoData
SignedLast(r) ==
    pc[r] \in {"emit", "emitted"} =>
        signed[r] = [tee |-> request[r].tees[1], fixed |-> fixed[r], variable |-> variable[r]]

BackupInv ==
    /\ \A r \in Provider : PackageStages(r)
    /\ \A r \in Direct : EnvelopeStages(r)
    /\ \A r \in Restores : SignedLast(r)

\* Every restore ends, whatever the hosts answer and also when the relay is
\* shut down while the channel is full.
RestoresSettle == \A r \in Restores : <>Settled(r)
=============================================================================
