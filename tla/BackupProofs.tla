---------------------------- MODULE BackupProofs ----------------------------
(***************************************************************************)
(* Proofs about Backup, for any set of restores, machines and backups and  *)
(* whatever the hosts answer.                                              *)
(*                                                                         *)
(* BackupInv speaks of one restore at a time.  An action of restore r      *)
(* keeps the part about r by what its stage has established, and leaves    *)
(* every other restore alone (Same).  The same split proves that Backup    *)
(* implements RestorePromise.                                              *)
(***************************************************************************)
EXTENDS BackupRefinement, TLAPS

USE BackupAssumption DEF BackupAssumption

----------------------------------------------------------------------------
(* The type invariant.                                                      *)

LEMMA Destination ==
    ASSUME NEW q \in Asked
    PROVE  q.tees[1] \in TeeIds /\ q.key \in TeeIds /\ q.id \in BackupIds
<1>1. q \in Requests
  OBVIOUS
<1>2. q.tees \in Machines /\ q.key \in TeeIds /\ q.id \in BackupIds
  BY <1>1 DEF Requests
<1>3. CASE q.tees \in {<<t>> : t \in TeeIds}
  BY <1>2, <1>3
<1>4. CASE q.tees \in TeeIds \X TeeIds
  BY <1>2, <1>4
<1> QED BY <1>2, <1>3, <1>4 DEF Machines

LEMMA SplitsType ==
    ASSUME NEW a \in Packages
    PROVE  [p \in a.owned |-> a.split[p]] \in KeySplits
  BY DEF Packages, KeySplits

LEMMA TypeInit == Init => TypeOK
<1> SUFFICES ASSUME Init PROVE TypeOK
  OBVIOUS
<1>1. out \in Seq(Restores) /\ Len(out) <= OutCap
  BY DEF Init
<1>2. cancelled \in BOOLEAN
  BY DEF Init
<1>3. pc \in [Restores -> PCs] /\ \A r \in Restores : pc[r] = "fetch"
  BY DEF Init, PCs
<1>4. /\ fixed \in [Restores -> FixedMessages]
      /\ variable \in [Restores -> VariableMessages]
      /\ signed \in [Restores -> Signatures]
  BY DEF Init, FixedMessages, VariableMessages, Signatures
<1>5. /\ request \in [Restores -> Asked]
      /\ answer \in [Restores -> Packages \cup Responses \cup {NoData}]
      /\ decrypted \in [Restores -> SUBSET Parts]
  BY DEF Init
<1> QED BY <1>1, <1>2, <1>3, <1>4, <1>5 DEF TypeOK

(* What the steps of one restore leave in the types.                        *)
LEMMA TypeProcess ==
    ASSUME TypeOK, NEW r \in Restores, Process(r)
    PROVE  TypeOK'
<1> USE DEF TypeOK, PCs
<1>1. CASE Fails(r)
  BY <1>1 DEF Fails
<1>2. CASE FetchPackage(r)
  BY <1>2 DEF FetchPackage, Provider
<1>3. CASE CheckPackage(r)
  <2>1. answer[r].blob \in BackupIds
    BY <1>3 DEF CheckPackage, Provider, Packages
  <2>2. [metadata |-> answer[r].blob] \in FixedMessages
    BY <2>1 DEF FixedMessages
  <2>3. fixed' \in [Restores -> FixedMessages]
    BY <1>3, <2>2 DEF CheckPackage
  <2>4. /\ pc' \in [Restores -> PCs]
        /\ \A j \in Direct : pc'[j] \notin {"identify", "decrypt"}
        /\ \A j \in Restores : pc'[j] \notin {"fetch", "failed"} =>
              answer'[j] \in IF j \in Direct THEN Responses ELSE Packages
    BY <1>3 DEF CheckPackage, Provider
  <2>5. UNCHANGED <<request, answer, decrypted, variable, signed, out, cancelled>>
    BY <1>3 DEF CheckPackage
  <2> QED BY <2>3, <2>4, <2>5
<1>4. CASE FetchEnvelope(r)
  <2>1. PICK a \in Responses : answer' = [answer EXCEPT ![r] = a]
    BY <1>4 DEF FetchEnvelope
  <2>2. pc' = [pc EXCEPT ![r] = "check"] /\ r \in Direct
    BY <1>4 DEF FetchEnvelope
  <2>3. UNCHANGED <<request, decrypted, fixed, variable, signed, out, cancelled>>
    BY <1>4 DEF FetchEnvelope
  <2>4. answer' \in [Restores -> Packages \cup Responses \cup {NoData}]
    BY <2>1
  <2>5. \A j \in Restores : pc'[j] \notin {"fetch", "failed"} =>
           answer'[j] \in IF j \in Direct THEN Responses ELSE Packages
    BY <2>1, <2>2
  <2> QED BY <2>2, <2>3, <2>4, <2>5
<1>5. CASE CheckEnvelope(r)
  <2>1. answer[r].data \in FixedMessages
    BY <1>5 DEF CheckEnvelope, Responses, FixedMessages
  <2> QED BY <1>5, <2>1 DEF CheckEnvelope
<1>6. CASE Identify(r)
  BY <1>6 DEF Identify
<1>7. ASSUME NEW p \in Parts, Decrypt(r, p) PROVE TypeOK'
  BY <1>7 DEF Decrypt
<1>8. CASE Encrypt(r)
  <2>1. answer[r] \in Packages
    BY <1>8 DEF Encrypt
  <2>2. [p \in answer[r].owned |-> answer[r].split[p]] \in KeySplits
    BY <2>1, SplitsType
  <2>3. [to |-> request[r].key, splits |-> [p \in answer[r].owned |-> answer[r].split[p]]]
           \in VariableMessages
    BY <2>2, Destination DEF VariableMessages
  <2> QED BY <1>8, <2>3 DEF Encrypt
<1>9. CASE Sign(r)
  <2>1. [tee |-> request[r].tees[1], fixed |-> fixed[r], variable |-> variable[r]]
           \in Signatures
    BY Destination DEF Signatures
  <2> QED BY <1>9, <2>1 DEF Sign
<1>10. CASE Emit(r)
  BY <1>10 DEF Emit
<1>11. CASE EmitCancelled(r)
  BY <1>11 DEF EmitCancelled
<1> QED BY <1>1, <1>2, <1>3, <1>4, <1>5, <1>6, <1>7, <1>8, <1>9, <1>10, <1>11 DEF Process

LEMMA TypeStep == TypeOK /\ [Next]_vars => TypeOK'
<1> SUFFICES ASSUME TypeOK, [Next]_vars PROVE TypeOK'
  OBVIOUS
<1>1. CASE SenderTakes
  BY <1>1 DEF SenderTakes, TypeOK
<1>2. CASE Cancel
  BY <1>2 DEF Cancel, TypeOK
<1>3. CASE UNCHANGED vars
  BY <1>3 DEF vars, TypeOK
<1> QED BY <1>1, <1>2, <1>3, TypeProcess DEF Next

\* Every field of every instance, and what each stage holds, has its type.
THEOREM Typing == Spec => []TypeOK
  BY TypeInit, TypeStep, PTL DEF Spec

----------------------------------------------------------------------------
(* One restore at a time.                                                   *)

Inv(r) ==
    /\ r \in Provider => PackageStages(r)
    /\ r \in Direct => EnvelopeStages(r)
    /\ SignedLast(r)

LEMMA InvIsBackupInv == BackupInv <=> \A r \in Restores : Inv(r)
  BY DEF BackupInv, Inv, Provider

(* What an action of another restore does to j: nothing.                    *)
Same(j) ==
    /\ request'[j] = request[j] /\ pc'[j] = pc[j] /\ answer'[j] = answer[j]
    /\ decrypted'[j] = decrypted[j] /\ fixed'[j] = fixed[j]
    /\ variable'[j] = variable[j] /\ signed'[j] = signed[j]

LEMMA Frame == ASSUME NEW j \in Restores, Inv(j), Same(j) PROVE Inv(j)'
<1>1. j \in Provider => PackageStages(j)'
  BY DEF Inv, Same, PackageStages, Splits
<1>2. j \in Direct => EnvelopeStages(j)'
  BY DEF Inv, Same, EnvelopeStages
<1>3. SignedLast(j)'
  BY DEF Inv, Same, SignedLast
<1> QED BY <1>1, <1>2, <1>3 DEF Inv, Provider

LEMMA Others ==
    ASSUME TypeOK, NEW r \in Restores, Process(r), NEW j \in Restores, j # r
    PROVE  Same(j)
<1> USE DEF TypeOK, Same
<1>1. Fails(r) => Same(j)
  BY DEF Fails
<1>2. FetchPackage(r) => Same(j)
  BY DEF FetchPackage
<1>3. CheckPackage(r) => Same(j)
  BY DEF CheckPackage
<1>4. FetchEnvelope(r) => Same(j)
  BY DEF FetchEnvelope
<1>5. CheckEnvelope(r) => Same(j)
  BY DEF CheckEnvelope
<1>6. Identify(r) => Same(j)
  BY DEF Identify
<1>7. ASSUME NEW p \in Parts, Decrypt(r, p) PROVE Same(j)
  BY <1>7 DEF Decrypt
<1>8. Encrypt(r) => Same(j)
  BY DEF Encrypt
<1>9. Sign(r) => Same(j)
  BY DEF Sign
<1>10. Emit(r) => Same(j)
  BY DEF Emit
<1>11. EmitCancelled(r) => Same(j)
  BY DEF EmitCancelled
<1> QED BY <1>1, <1>2, <1>3, <1>4, <1>5, <1>6, <1>7, <1>8, <1>9, <1>10, <1>11 DEF Process

----------------------------------------------------------------------------
(* The restore that moves.                                                  *)

LEMMA Own ==
    ASSUME TypeOK, NEW r \in Restores, Process(r), Inv(r)
    PROVE  Inv(r)'
<1> USE DEF TypeOK, Inv, Provider
<1>1. CASE Fails(r)
  BY <1>1 DEF Fails, PackageStages, EnvelopeStages, SignedLast
<1>2. CASE FetchPackage(r)
  BY <1>2 DEF FetchPackage, PackageStages, SignedLast
<1>3. CASE CheckPackage(r)
  BY <1>3 DEF CheckPackage, PackageStages, SignedLast
<1>4. CASE FetchEnvelope(r)
  BY <1>4 DEF FetchEnvelope, EnvelopeStages, SignedLast
<1>5. CASE CheckEnvelope(r)
  BY <1>5 DEF CheckEnvelope, EnvelopeStages, SignedLast
<1>6. CASE Identify(r)
  BY <1>6 DEF Identify, PackageStages, SignedLast
<1>7. ASSUME NEW p \in Parts, Decrypt(r, p) PROVE Inv(r)'
  BY <1>7 DEF Decrypt, PackageStages, SignedLast
<1>8. CASE Encrypt(r)
  BY <1>8 DEF Encrypt, PackageStages, SignedLast, Splits
<1>9. CASE Sign(r)
  <2>1. r \in Provider => PackageStages(r)'
    BY <1>9 DEF Sign, PackageStages, Splits
  <2>2. r \in Direct => EnvelopeStages(r)'
    BY <1>9 DEF Sign, EnvelopeStages
  <2>3. SignedLast(r)'
    BY <1>9 DEF Sign, SignedLast
  <2> QED BY <2>1, <2>2, <2>3
<1>10. CASE Emit(r)
  BY <1>10 DEF Emit, PackageStages, EnvelopeStages, SignedLast, Splits
<1>11. CASE EmitCancelled(r)
  BY <1>11 DEF EmitCancelled, PackageStages, EnvelopeStages, SignedLast
<1> QED BY <1>1, <1>2, <1>3, <1>4, <1>5, <1>6, <1>7, <1>8, <1>9, <1>10, <1>11 DEF Process

LEMMA InvInit == Init => BackupInv
  BY DEF Init, BackupInv, PackageStages, EnvelopeStages, SignedLast, Provider

LEMMA InvStep == TypeOK /\ BackupInv /\ [Next]_vars => BackupInv'
<1> SUFFICES ASSUME TypeOK, BackupInv, [Next]_vars, NEW j \in Restores
             PROVE  Inv(j)'
  BY DEF BackupInv, Inv, Provider
<1>1. Inv(j)
  BY InvIsBackupInv
<1>2. ASSUME NEW r \in Restores, Process(r) PROVE Inv(j)'
  BY <1>1, <1>2, Own, Others, Frame
<1>3. CASE SenderTakes \/ Cancel \/ UNCHANGED vars
  <2>1. Same(j)
    BY <1>3 DEF SenderTakes, Cancel, vars, Same
  <2> QED BY <1>1, <2>1, Frame
<1> QED BY <1>2, <1>3 DEF Next

\* The inductive invariant: what each stage of a restore has established.
THEOREM Invariance == Spec => []BackupInv
<1>1. TypeOK /\ BackupInv /\ [Next]_vars => BackupInv'
  BY InvStep
<1> QED BY Typing, InvInit, <1>1, PTL DEF Spec

----------------------------------------------------------------------------
\* What the instance holds when it is emitted, and ever after.
LEMMA InstanceAnswers ==
    ASSUME TypeOK, BackupInv, NEW r \in Restores, pc[r] \in {"emit", "emitted"}
    PROVE  /\ Len(request[r].tees) = 1
           /\ r \in Direct =>
                 /\ fixed[r] = [signer |-> request[r].source, id |-> request[r].id]
                 /\ variable[r] = NoData
           /\ r \in Provider =>
                 /\ answer[r].owned # {}
                 /\ fixed[r] = [metadata |-> request[r].id]
                 /\ variable[r] = [to |-> request[r].tees[1],
                                   splits |-> [p \in answer[r].owned |-> request[r].id]]
<1>1. CASE r \in Direct
  <2>1. EnvelopeStages(r)
    BY <1>1 DEF BackupInv
  <2>2. answer[r].data \in Envelopes
    BY <1>1 DEF TypeOK, Responses
  <2>3. answer[r].data = [signer |-> request[r].source, id |-> request[r].id]
    BY <2>1, <2>2 DEF EnvelopeStages, AcceptsEnvelope, Envelopes
  <2> QED BY <1>1, <2>1, <2>3 DEF EnvelopeStages, Provider
<1>2. CASE r \in Provider
  <2>1. PackageStages(r)
    BY <1>2 DEF BackupInv
  <2>2. AcceptsPackage(request[r], answer[r])
    BY <2>1 DEF PackageStages
  <2>3. Splits(r) = [p \in answer[r].owned |-> request[r].id]
    BY <2>1, <2>2 DEF PackageStages, Splits, AcceptsPackage, checkConsistency
  <2> QED BY <1>2, <2>1, <2>2, <2>3 DEF PackageStages, AcceptsPackage, checkConsistency, Provider
<1> QED BY <1>1, <1>2 DEF Provider

\* Whatever reaches the sender answers the request, however the host mixes
\* responses, blobs and splits of different backups.
THEOREM Forwarded == Spec => []ForwardedMatchesRequest
<1>1. TypeOK /\ BackupInv => ForwardedMatchesRequest
  BY InstanceAnswers DEF ForwardedMatchesRequest
<1> QED BY <1>1, Typing, Invariance, PTL

\* The instance is not changed between its signing and its emission.
THEOREM Covered == Spec => []SignatureCoversMessage
<1>1. BackupInv => SignatureCoversMessage
  BY DEF BackupInv, SignedLast, SignatureCoversMessage
<1> QED BY <1>1, Invariance, PTL

\* No key split leaves the relay unverified.
THEOREM Verified == Spec => []VerifiedBeforeSent
<1>1. BackupInv => VerifiedBeforeSent
  <2> SUFFICES ASSUME BackupInv, NEW r \in Provider, pc[r] = "emitted"
               PROVE  decrypted[r] = DOMAIN variable[r].splits
    BY DEF VerifiedBeforeSent
  <2>1. PackageStages(r)
    BY DEF BackupInv
  <2>2. variable[r].splits = Splits(r) /\ decrypted[r] = answer[r].owned
    BY <2>1 DEF PackageStages
  <2>3. DOMAIN Splits(r) = answer[r].owned
    BY DEF Splits
  <2> QED BY <2>2, <2>3
<1> QED BY <1>1, Invariance, PTL

----------------------------------------------------------------------------
(* Backup implements RestorePromise.                                       *)

\* Every goroutine begins with nothing handed over.
LEMMA ImplementsInit == Init => Promise!Init
  BY DEF Init, Promise!Init, statusOf, messageOf

\* A restore that does not move is not seen to move.
LEMMA SameMapped ==
    ASSUME NEW j \in Restores, Same(j)
    PROVE  statusOf(j)' = statusOf(j) /\ messageOf(j)' = messageOf(j)
  BY DEF Same, statusOf, messageOf

\* Only a restore that has not ended moves, and only Emit hands anything over.
LEMMA Moves ==
    ASSUME TypeOK, NEW r \in Restores, Process(r)
    PROVE  /\ statusOf(r) = "pending" /\ messageOf(r) = NoData
           /\ request' = request
           /\ pc'[r] = "emitted" => Emit(r)
<1>1. pc[r] \notin {"emitted", "nothing", "failed"} /\ request' = request
  BY DEF Process, Fails, FetchPackage, CheckPackage, FetchEnvelope, CheckEnvelope, Identify,
         Decrypt, Encrypt, Sign, Emit, EmitCancelled
<1>2. pc'[r] = "emitted" => Emit(r)
  BY <1>1 DEF TypeOK, Process, Fails, FetchPackage, CheckPackage, FetchEnvelope, CheckEnvelope,
         Identify, Decrypt, Encrypt, Sign, EmitCancelled
<1> QED BY <1>1, <1>2 DEF statusOf, messageOf

\* The maps of the restores change at the restore that moves and nowhere else.
LEMMA MappedChange ==
    ASSUME TypeOK, NEW r \in Restores, Process(r)
    PROVE  /\ [j \in Restores |-> statusOf(j)']
                 = [[j \in Restores |-> statusOf(j)] EXCEPT ![r] = statusOf(r)']
           /\ [j \in Restores |-> messageOf(j)']
                 = [[j \in Restores |-> messageOf(j)] EXCEPT ![r] = messageOf(r)']
<1>1. \A j \in Restores : j # r => statusOf(j)' = statusOf(j) /\ messageOf(j)' = messageOf(j)
  BY Others, SameMapped
<1> QED BY <1>1

\* Emission: the instance answers the request and was signed as it is.
LEMMA ImplementsSend ==
    ASSUME TypeOK, BackupInv, NEW r \in Restores, Emit(r)
    PROVE  Promise!Send(r)
<1>1. /\ pc[r] = "emit" /\ pc'[r] = "emitted"
      /\ UNCHANGED <<request, answer, fixed, variable, signed>>
  BY DEF Emit, TypeOK
<1>2. /\ Len(request[r].tees) = 1
      /\ fixed[r] = Promise!Fixed(r)
      /\ variable[r] \in Promise!Variables(r)
  <2>1. CASE r \in Direct
    BY <1>1, <2>1, InstanceAnswers DEF Promise!Fixed, Promise!Variables
  <2>2. CASE r \notin Direct
    <3>1. answer[r].owned \in (SUBSET Parts) \ {{}}
      BY <1>1, <2>2, InstanceAnswers DEF TypeOK, Packages, Provider
    <3> QED BY <1>1, <2>2, <3>1, InstanceAnswers DEF Promise!Fixed, Promise!Variables, Provider
  <2> QED BY <2>1, <2>2
<1>3. signed[r] = [tee |-> request[r].tees[1], fixed |-> fixed[r], variable |-> variable[r]]
  BY <1>1 DEF BackupInv, SignedLast
<1>4. messageOf(r)' = Promise!Signed(request[r].tees[1], Promise!Fixed(r), variable[r])
  BY <1>1, <1>2, <1>3 DEF messageOf, Promise!Signed
<1>5. statusOf(r)' = "sent" /\ statusOf(r) = "pending" /\ request' = request
  BY <1>1 DEF statusOf
<1>6. Process(r)
  BY DEF Process
<1> QED BY <1>2, <1>4, <1>5, <1>6, MappedChange DEF Promise!Send

\* The other steps of a restore: it ends, or stays pending.
LEMMA ImplementsOther ==
    ASSUME TypeOK, NEW r \in Restores, Process(r), ~Emit(r)
    PROVE  [Promise!Next]_(Promise!promise)
<1>1. /\ statusOf(r) = "pending" /\ messageOf(r) = NoData /\ request' = request
      /\ pc'[r] # "emitted"
  BY Moves
<1>2. messageOf(r)' = NoData /\ statusOf(r)' \in {"pending", "ended"}
  BY <1>1 DEF messageOf, statusOf
<1>3. [j \in Restores |-> messageOf(j)'] = [j \in Restores |-> messageOf(j)]
  BY <1>1, <1>2, MappedChange
<1>4. CASE statusOf(r)' = "ended"
  BY <1>1, <1>3, <1>4, MappedChange DEF Promise!End, Promise!Next
<1>5. CASE statusOf(r)' = "pending"
  BY <1>1, <1>3, <1>5, MappedChange DEF Promise!promise
<1> QED BY <1>2, <1>4, <1>5

LEMMA ImplementsStep == TypeOK /\ BackupInv /\ [Next]_vars => [Promise!Next]_(Promise!promise)
<1> SUFFICES ASSUME TypeOK, BackupInv, [Next]_vars
             PROVE  [Promise!Next]_(Promise!promise)
  OBVIOUS
<1>1. ASSUME NEW r \in Restores, Process(r) PROVE [Promise!Next]_(Promise!promise)
  BY <1>1, ImplementsSend, ImplementsOther DEF Promise!Next
<1>2. CASE SenderTakes \/ Cancel \/ UNCHANGED vars
  <2>1. \A j \in Restores : Same(j)
    BY <1>2 DEF SenderTakes, Cancel, vars, Same
  <2>2. request' = request
    BY <1>2 DEF SenderTakes, Cancel, vars
  <2> QED BY <2>1, <2>2, SameMapped DEF Promise!promise
<1> QED BY <1>1, <1>2 DEF Next

\* A restore hands over one message that answers its request, or none, and what
\* the sender reads of it later is the message that was handed over.
THEOREM Refinement == Spec => KeepsRestorePromise
<1>1. TypeOK /\ BackupInv /\ [Next]_vars => [Promise!Next]_(Promise!promise)
  BY ImplementsStep
<1> QED BY <1>1, ImplementsInit, Typing, Invariance, PTL
        DEF Spec, KeepsRestorePromise, Promise!Spec
=============================================================================
