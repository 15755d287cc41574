------------------------------- MODULE Config ------------------------------
(***************************************************************************)
(* From the configuration to a routing relay: loadConfig (cmd/main), the   *)
(* checks of pkg/config, setSigner (internal/client), NewFilterer, and the *)
(* two constructors that turn the verifier table into maps, NewFDCHandler  *)
(* and NewFDC; then the two lookups every FDC request takes, in Process    *)
(* and in Handle.                                                          *)
(*                                                                         *)
(* Go iterates over a map in an order of its own, and the table is read by *)
(* two loops, one for the map to servers and one for the map to queues: in *)
(* each an entry overwrites an earlier one with the same identifier.       *)
(*                                                                         *)
(* A string stands for the class of strings the code tells apart: "bad" is *)
(* a URL, header name, key or address that does not pass its parser.       *)
(***************************************************************************)
EXTENDS Integers, Functions

CONSTANTS Files,    \* decoded config files; an option is << >> or <<value>>
          Envs,     \* environments: manager and keys
          Zero,     \* the zero address
          HashOf,   \* convert.StringToCommonHash; TooLong where it fails
          TooLong,
          Requests  \* identifiers FDC requests carry

Credentials == [url : STRING, keyName : STRING, key : STRING]
VerifierEntries == [type : DOMAIN HashOf, source : DOMAIN HashOf, server : Credentials,
                    queue : STRING]
Queues == [maxAttempts : Int, timeOff : Int]
Options == {<< >>} \cup [1 .. 1 -> Int]

\* The types the decoder gives.  ParseError stands for a value of the environment
\* variable that ApplyFlareTeeManagerEnv does not accept.
ParseError == "error"
ASSUME ConfigAssumption ==
    /\ \A f \in Files :
          /\ f.verifiers \in [DOMAIN f.verifiers -> VerifierEntries]
          /\ f.queues \in [DOMAIN f.queues -> Queues]
          /\ f.chainId \in Nat
          /\ f.startInterval \in Options /\ f.port \in Options /\ f.maxIndexerLag \in Options
          /\ f.manager \notin {"unset", "bad", ParseError}
    /\ \A e \in Envs : e.manager # ParseError
    /\ Zero \notin {"unset", "bad", ParseError}

VARIABLES
    file, env,  \* what the process finds, fixed
    pc,         \* "load", "signer", "filterer", "handler", "queues", "running", "failed"
    manager,    \* cfg.FlareTeeManager
    todo,       \* entries the range loop has still to visit
    verifiers,  \* FDCHandler.verifiers: identifier -> the entry of its server
    idToQueueName, \* FDC.idToQueueName
    signerUp,   \* the remote signer answers, fixed
    queued,     \* history: requests put on a queue, <<identifier, queue>>
    served      \* history: requests sent to a verifier server

vars == <<file, env, pc, manager, todo, verifiers, idToQueueName, signerUp,
          queued, served>>
input == <<file, env, signerUp>>
tables == <<todo, verifiers, idToQueueName>>
history == <<queued, served>>

----------------------------------------------------------------------------
(* pkg/config.                                                             *)

Optional(x, default) == IF x = << >> THEN default ELSE x[1]
StartInterval(f) == Optional(f.startInterval, 100)
Port(f) == Optional(f.port, 8080)
MaxIndexerLag(f) == Optional(f.maxIndexerLag, 30)

\* Mutant of the next definition: the environment wins over the file.
FlareTeeManagerOverride(f, e) ==
    IF e.manager = "unset" THEN f.manager
    ELSE IF e.manager \in {"bad", Zero} THEN ParseError
    ELSE e.manager
\* The manager's address after ApplyFlareTeeManagerEnv, or ParseError.
FlareTeeManager(f, e) ==
    IF e.manager = "unset" THEN f.manager
    ELSE IF e.manager \in {"bad", Zero} \/ f.manager \notin {Zero, e.manager} THEN ParseError
    ELSE e.manager

CheckQueue(q) == q.maxAttempts >= 1 /\ (q.maxAttempts > 1 => q.timeOff > 0)
CheckQueues(f) == \A n \in DOMAIN f.queues : CheckQueue(f.queues[n])
MaxUint16 == 65535
CheckHealth(f) == f.disabled \/ (Port(f) \in 1 .. MaxUint16 /\ MaxIndexerLag(f) > 0)

\* Credentials.Check.
Check(c) ==
    /\ c.url \notin {"", "bad"}
    /\ c.key # "" => c.keyName # ""
    /\ c.keyName # "bad" /\ c.key # "bad"

\* PrivateKeyFromEnv.
PrivateKeyOk(f, e) ==
    LET name == IF f.keyVariable = "" THEN "PRIVATE_KEY" ELSE f.keyVariable
    IN name \in DOMAIN e.keys /\ e.keys[name] # "bad"

AttTypeAndSourceID(v) == <<HashOf[v.type], HashOf[v.source]>>
Identifiers == {HashOf[s] : s \in DOMAIN HashOf} \X {HashOf[s] : s \in DOMAIN HashOf}
Identifiable(v) == HashOf[v.type] # TooLong /\ HashOf[v.source] # TooLong

----------------------------------------------------------------------------
(* Mutants of the actions below; no action uses them.                      *)
AcceptsAll(v) == v.type # "" /\ v.source # "" /\ Identifiable(v) /\ Check(v.server)
SameNames(v) == \E n \in DOMAIN file.verifiers \ todo :
    file.verifiers[n].type = v.type /\ file.verifiers[n].source = v.source
AcceptsByName(v) == AcceptsAll(v) /\ ~SameNames(v)

----------------------------------------------------------------------------
(* Startup.                                                                *)

\* loadConfig: the environment, then the checks.
LoadConfig ==
    /\ pc = "load"
    /\ LET m == FlareTeeManager(file, env) IN
       /\ manager' = IF m = ParseError THEN file.manager ELSE m
       /\ pc' = IF /\ m \notin {ParseError, Zero}
                   /\ file.chainId # 0
                   /\ StartInterval(file) >= 0
                   /\ CheckQueues(file)
                   /\ CheckHealth(file)
                THEN "signer" ELSE "failed"
    /\ UNCHANGED <<input, tables, history>>

\* setSigner: the credentials of a local signer are not looked at.
SetSigner ==
    /\ pc = "signer"
    /\ pc' = IF IF file.local THEN PrivateKeyOk(file, env) ELSE Check(file.signer)
             THEN "filterer" ELSE "failed"
    /\ UNCHANGED <<input, manager, tables, history>>

\* NewFilterer: a cosigner asks the signer who it is.  Remote.Identify sets the
\* API key header in any case, and net/http sends no request whose header has
\* an empty name.
Identify == file.local \/ (signerUp /\ file.signer.keyName # "")
NewFilterer ==
    /\ pc = "filterer"
    /\ pc' = IF file.cosigner => Identify THEN "handler" ELSE "failed"
    /\ todo' = DOMAIN file.verifiers
    /\ UNCHANGED <<input, manager, verifiers, idToQueueName, history>>

\* NewFDCHandler's checks of an entry, the duplicate's among them.
Accepts(v) ==
    /\ v.type # "" /\ v.source # ""
    /\ Identifiable(v)
    /\ AttTypeAndSourceID(v) \notin DOMAIN verifiers
    /\ Check(v.server)

\* One round of NewFDCHandler's loop.
AddVerifier(n) ==
    /\ pc = "handler" /\ n \in todo
    /\ LET v == file.verifiers[n]
           id == AttTypeAndSourceID(v)
       IN IF Accepts(v)
          THEN /\ verifiers' = [i \in DOMAIN verifiers \cup {id} |->
                                   IF i = id THEN n ELSE verifiers[i]]
               /\ pc' = pc
          ELSE pc' = "failed" /\ UNCHANGED verifiers
    /\ todo' = todo \ {n}
    /\ UNCHANGED <<input, manager, idToQueueName, history>>

HandlerDone ==
    /\ pc = "handler" /\ todo = {}
    /\ pc' = "queues"
    /\ todo' = DOMAIN file.verifiers
    /\ UNCHANGED <<input, manager, verifiers, idToQueueName, history>>

\* One round of NewFDC's loop: an entry needs a configured queue.
AddQueueName(n) ==
    /\ pc = "queues" /\ n \in todo
    /\ LET v == file.verifiers[n]
           id == AttTypeAndSourceID(v)
       IN /\ idToQueueName' = [i \in DOMAIN idToQueueName \cup {id} |->
                                 IF i = id THEN v.queue ELSE idToQueueName[i]]
          /\ pc' = IF v.queue \in DOMAIN file.queues THEN pc ELSE "failed"
    /\ todo' = todo \ {n}
    /\ UNCHANGED <<input, manager, verifiers, history>>

\* The client is assembled; StartQueues starts a worker pool per queue.
Started ==
    /\ pc = "queues" /\ todo = {}
    /\ pc' = "running"
    /\ UNCHANGED <<input, manager, tables, history>>

----------------------------------------------------------------------------
(* Routing.                                                                *)

\* FDC.Process; a request without a queue is an error that is logged.
Process(id) ==
    /\ pc = "running"
    /\ id \in DOMAIN idToQueueName
    /\ queued' = queued \cup {<<id, idToQueueName[id]>>}
    /\ UNCHANGED <<input, pc, manager, tables, served>>

\* A worker of the queue handles the request: Handle looks its server up.
Handle(id, q) ==
    /\ pc = "running"
    /\ <<id, q>> \in queued
    /\ id \in DOMAIN verifiers
    /\ served' = served \cup
         {[id |-> id, queue |-> q, server |-> file.verifiers[verifiers[id]].server]}
    /\ UNCHANGED <<input, pc, manager, tables, queued>>

----------------------------------------------------------------------------
Init ==
    /\ file \in Files /\ env \in Envs /\ signerUp \in BOOLEAN
    /\ pc = "load"
    /\ manager = file.manager
    /\ todo = {}
    /\ verifiers = << >> /\ idToQueueName = << >>
    /\ queued = {} /\ served = {}

Load == LoadConfig \/ SetSigner \/ NewFilterer
Build == \/ \E n \in todo : AddVerifier(n) \/ AddQueueName(n)
         \/ HandlerDone \/ Started
Route == \E id \in Requests : \/ Process(id)
                              \/ \E q \in DOMAIN file.queues : Handle(id, q)
Next == Load \/ Build \/ Route

Spec == Init /\ [][Next]_vars

----------------------------------------------------------------------------
(* Properties.                                                             *)

Tables == /\ verifiers \in [DOMAIN verifiers -> DOMAIN file.verifiers]
          /\ DOMAIN verifiers \subseteq Identifiers
          /\ DOMAIN idToQueueName \subseteq Identifiers
TypeOK ==
    /\ file \in Files /\ env \in Envs /\ signerUp \in BOOLEAN
    /\ pc \in {"load", "signer", "filterer", "handler", "queues", "running", "failed"}
    /\ todo \subseteq DOMAIN file.verifiers
    /\ Tables
    /\ queued \subseteq Identifiers \X STRING
    /\ served \subseteq [id : Identifiers, queue : STRING, server : Credentials]

\* What README and CHANGELOG promise of a configuration that starts: an address
\* of the manager on which file and environment agree, sane parameters, a signer
\* with usable settings, and a table of verifiers in which no two entries serve
\* the same requests and each has a configured queue.
AddressAgreed(a) ==
    /\ a \notin {Zero, "bad", "unset"}
    /\ file.manager \in {Zero, a} /\ env.manager \in {"unset", a}
    /\ a \in {file.manager, env.manager}
QueuesSane == \A n \in DOMAIN file.queues :
    LET q == file.queues[n]
    IN q.maxAttempts = 1 \/ (q.maxAttempts > 1 /\ q.timeOff > 0)
HealthSane == file.disabled \/ (Port(file) \in 1 .. MaxUint16 /\ MaxIndexerLag(file) > 0)
SignerSane == IF file.local THEN PrivateKeyOk(file, env) ELSE Check(file.signer)
SettingsSane ==
    /\ file.chainId > 0 /\ StartInterval(file) \in Nat
    /\ QueuesSane /\ HealthSane /\ SignerSane
TableSane ==
    /\ \A n \in DOMAIN file.verifiers :
          LET v == file.verifiers[n]
          IN /\ v.type # "" /\ v.source # ""
             /\ Identifiable(v) /\ Check(v.server)
             /\ v.queue \in DOMAIN file.queues
    /\ \A n, o \in DOMAIN file.verifiers : n # o =>
          AttTypeAndSourceID(file.verifiers[n]) # AttTypeAndSourceID(file.verifiers[o])
Acceptable ==
    /\ AddressAgreed(file.manager) \/ AddressAgreed(env.manager)
    /\ SettingsSane /\ TableSane

\* The relay starts on an acceptable configuration and on no other, whatever the
\* order in which Go visits the table, and watches the agreed address; only the
\* signer's identification can stop an acceptable one.
StartsIffAcceptable ==
    /\ pc = "running" => Acceptable /\ AddressAgreed(manager)
    /\ pc = "failed" => ~Acceptable \/ (file.cosigner /\ ~Identify)

\* A request is queued only where a server will be found for it, and the queue
\* and the server it gets are those of one entry of the table that names its
\* type and source: the two maps cannot disagree.
RoutedAsConfigured ==
    /\ \A r \in queued : r[1] \in DOMAIN verifiers /\ r[2] \in DOMAIN file.queues
    /\ \A r \in served : \E n \in DOMAIN file.verifiers :
          LET v == file.verifiers[n]
          IN r = [id |-> AttTypeAndSourceID(v), queue |-> v.queue, server |-> v.server]

\* config.go:249 "An empty name is valid - no API key header is sent": so an
\* acceptable configuration starts when its signer answers.  Remote.Identify
\* sends the header even then, and fails.
AcceptableStarts == pc = "failed" /\ signerUp => ~Acceptable
=============================================================================
