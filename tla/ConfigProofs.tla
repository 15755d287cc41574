---------------------------- MODULE ConfigProofs ----------------------------
(***************************************************************************)
(* Proofs about Config, for every set of files and environments and every  *)
(* hash of names.  The invariant follows the two loops: what an entry that *)
(* was visited is known to satisfy, and that the map to servers leads from *)
(* its identifier back to it; so the second loop, which checks nothing of  *)
(* the kind, writes the queue of the very entry that serves.               *)
(***************************************************************************)
EXTENDS Config, TLAPS

Table == file.verifiers
Id(n) == AttTypeAndSourceID(Table[n])
Visited == DOMAIN Table \ todo

\* An entry NewFDCHandler has accepted, and one NewFDC has accepted too.
Added(n) == LET v == Table[n] IN
    /\ v.type # "" /\ v.source # "" /\ Identifiable(v) /\ Check(v.server)
    /\ Id(n) \in DOMAIN verifiers /\ verifiers[Id(n)] = n
Queued(n) == Table[n].queue \in DOMAIN file.queues

Inputs == file \in Files /\ env \in Envs /\ todo \subseteq DOMAIN Table
Loaded == pc \notin {"load", "failed"} => /\ AddressAgreed(manager)
                                          /\ manager \in {file.manager, env.manager}
                                          /\ file.chainId > 0 /\ StartInterval(file) \in Nat
                                          /\ CheckQueues(file) /\ CheckHealth(file)
SignerSet == pc \notin {"load", "signer", "failed"} => SignerSane
MapLeadsBack == \A id \in DOMAIN verifiers :
    verifiers[id] \in DOMAIN Table \ (IF pc = "handler" THEN todo ELSE {}) /\ Id(verifiers[id]) = id
Early == pc \in {"load", "signer", "filterer"} => verifiers = << >>
Handled == pc = "handler" => \A n \in Visited : Added(n)
AllAdded == pc \in {"queues", "running"} => \A n \in DOMAIN Table : Added(n)
QueuesNamed ==
    /\ pc = "queues" => \A n \in Visited : Queued(n)
    /\ pc = "running" => \A n \in DOMAIN Table : Queued(n)
    /\ pc \notin {"queues", "running", "failed"} => idToQueueName = << >>
    /\ pc # "failed" => \A id \in DOMAIN idToQueueName :
          id \in DOMAIN verifiers /\ idToQueueName[id] = Table[verifiers[id]].queue
NoTraffic == pc # "running" => queued = {} /\ served = {}
Traffic == \A r \in queued :
    r[1] \in DOMAIN verifiers /\ r[2] = Table[verifiers[r[1]]].queue /\ r[2] \in DOMAIN file.queues
Inv == /\ Inputs /\ Loaded /\ SignerSet /\ MapLeadsBack /\ Early /\ Handled /\ AllAdded
       /\ QueuesNamed /\ NoTraffic /\ Traffic /\ StartsIffAcceptable /\ RoutedAsConfigured

----------------------------------------------------------------------------
\* The options of a file have integer values, its queues integer parameters.
LEMMA FileTypes ==
    ASSUME NEW f \in Files
    PROVE  /\ StartInterval(f) \in Int /\ Port(f) \in Int /\ MaxIndexerLag(f) \in Int
           /\ f.chainId \in Nat
           /\ \A n \in DOMAIN f.queues : f.queues[n] \in Queues
<1>1. \A x \in Options, d \in Int : Optional(x, d) \in Int
  BY DEF Optional, Options
<1>2. /\ f.startInterval \in Options /\ f.port \in Options /\ f.maxIndexerLag \in Options
      /\ f.chainId \in Nat /\ f.queues \in [DOMAIN f.queues -> Queues]
  BY ConfigAssumption
<1>3. StartInterval(f) \in Int /\ Port(f) \in Int /\ MaxIndexerLag(f) \in Int
  BY <1>1, <1>2 DEF StartInterval, Port, MaxIndexerLag
<1>4. \A n \in DOMAIN f.queues : f.queues[n] \in Queues
  BY <1>2, Zenon
<1> QED BY <1>2, <1>3, <1>4

\* CheckQueues accepts exactly the queues the promise asks for.
LEMMA QueuesAreSane ==
    ASSUME file \in Files
    PROVE  CheckQueues(file) <=> QueuesSane
<1>1. \A q \in Queues : CheckQueue(q) <=> q.maxAttempts = 1 \/ (q.maxAttempts > 1 /\ q.timeOff > 0)
  BY DEF CheckQueue, Queues
<1>2. \A n \in DOMAIN file.queues : file.queues[n] \in Queues
  BY FileTypes
<1> QED BY <1>1, <1>2, Zenon DEF CheckQueues, QueuesSane

\* ApplyFlareTeeManagerEnv and CheckAddress let through exactly the agreed address.
LEMMA AddressIsAgreed ==
    ASSUME file \in Files, env \in Envs
    PROVE  LET m == FlareTeeManager(file, env) IN
           /\ m \notin {ParseError, Zero} => /\ m \in {file.manager, env.manager}
                                             /\ m = file.manager \/ m = env.manager
                                             /\ AddressAgreed(m)
           /\ m \in {ParseError, Zero} => ~AddressAgreed(file.manager) /\ ~AddressAgreed(env.manager)
<1>1. /\ file.manager \notin {"unset", "bad", ParseError} /\ env.manager # ParseError
      /\ Zero \notin {"unset", "bad", ParseError}
  BY ConfigAssumption
<1>2. CASE env.manager = "unset"
  BY <1>1, <1>2 DEF FlareTeeManager, AddressAgreed
<1>3. CASE env.manager # "unset"
  BY <1>1, <1>3 DEF FlareTeeManager, AddressAgreed
<1> QED BY <1>2, <1>3

----------------------------------------------------------------------------
LEMMA InitInv == Init => Inv
<1> SUFFICES ASSUME Init PROVE Inv
  OBVIOUS
<1>1. Inputs /\ Early /\ NoTraffic /\ Traffic /\ pc = "load"
  BY DEF Init, Inputs, Early, NoTraffic, Traffic
<1>2. /\ verifiers = << >> /\ idToQueueName = << >> /\ queued = {} /\ served = {}
  BY DEF Init
<1>3. Loaded /\ SignerSet /\ MapLeadsBack /\ Handled /\ AllAdded /\ QueuesNamed
  BY <1>1, <1>2 DEF Loaded, SignerSet, MapLeadsBack, Handled, AllAdded, QueuesNamed
<1>4. StartsIffAcceptable /\ RoutedAsConfigured
  BY <1>1, <1>2 DEF StartsIffAcceptable, RoutedAsConfigured
<1> QED BY <1>1, <1>3, <1>4 DEF Inv

\* What no step changes.
LEMMA Frame ==
    ASSUME Inv, UNCHANGED <<file, env, signerUp>>
    PROVE  /\ Table' = Table /\ \A n : Id(n)' = Id(n)
           /\ \A a : AddressAgreed(a)' = AddressAgreed(a)
           /\ Acceptable' = Acceptable /\ Identify' = Identify
           /\ \A n : Queued(n)' = Queued(n)
<1>1. Table' = Table
  BY DEF Table
<1>2. \A n : Id(n)' = Id(n)
  BY <1>1 DEF Id
<1>3. \A a : AddressAgreed(a)' = AddressAgreed(a)
  BY DEF AddressAgreed
<1>4. SettingsSane' = SettingsSane /\ TableSane' = TableSane
  BY DEF SettingsSane, QueuesSane, HealthSane, SignerSane, TableSane
<1>5. Acceptable' = Acceptable
  BY <1>4 DEF Acceptable, AddressAgreed
<1>6. Identify' = Identify
  BY DEF Identify
<1>7. \A n : Queued(n)' = Queued(n)
  BY <1>1 DEF Queued
<1> QED BY <1>1, <1>2, <1>3, <1>5, <1>6, <1>7

LEMMA LoadConfigInv == Inv /\ LoadConfig => Inv'
<1> SUFFICES ASSUME Inv, LoadConfig PROVE Inv'
  OBVIOUS
<1> DEFINE m == FlareTeeManager(file, env)
<1>1. /\ pc = "load" /\ file' = file /\ env' = env /\ signerUp' = signerUp
      /\ todo' = todo /\ verifiers' = verifiers /\ idToQueueName' = idToQueueName
      /\ queued' = queued /\ served' = served /\ file \in Files /\ env \in Envs
  BY DEF LoadConfig, input, tables, history, Inv, Inputs
<1>2. Inputs' /\ Early' /\ NoTraffic' /\ Traffic'
  BY <1>1 DEF Inv, Inputs, Early, NoTraffic, Traffic, Table, LoadConfig
<1>3. verifiers = << >> /\ idToQueueName = << >> /\ queued = {} /\ served = {}
  BY <1>1 DEF Inv, Early, QueuesNamed, NoTraffic
<1>4. pc' \in {"signer", "failed"}
  BY DEF LoadConfig
<1>5. SignerSet' /\ MapLeadsBack' /\ Handled' /\ AllAdded' /\ QueuesNamed' /\ RoutedAsConfigured'
  BY <1>1, <1>3, <1>4 DEF SignerSet, MapLeadsBack, Handled, AllAdded, QueuesNamed, RoutedAsConfigured
<1> DEFINE Ok == /\ m \notin {ParseError, Zero} /\ file.chainId # 0 /\ StartInterval(file) >= 0
                 /\ CheckQueues(file) /\ CheckHealth(file)
<1>6. /\ manager' = IF m = ParseError THEN file.manager ELSE m
      /\ pc' = IF Ok THEN "signer" ELSE "failed"
  BY DEF LoadConfig
<1>7. Loaded'
  <2> SUFFICES ASSUME Ok PROVE Loaded'
    BY <1>4, <1>6 DEF Loaded
  <2>1. AddressAgreed(m) /\ m \in {file.manager, env.manager} /\ manager' = m
    BY <1>1, <1>6, AddressIsAgreed
  <2>2. file.chainId > 0 /\ StartInterval(file) \in Nat
    BY <1>1, FileTypes
  <2>3. AddressAgreed(m)'
    BY <1>1, <2>1 DEF AddressAgreed, FlareTeeManager
  <2> QED BY <1>1, <2>1, <2>2, <2>3 DEF Loaded
<1>8. StartsIffAcceptable'
  <2> SUFFICES ASSUME ~Ok PROVE ~Acceptable'
    BY <1>4, <1>6 DEF StartsIffAcceptable
  <2>1. m \in {ParseError, Zero} => ~AddressAgreed(file.manager) /\ ~AddressAgreed(env.manager)
    BY <1>1, AddressIsAgreed
  <2>2. file.chainId > 0 => file.chainId # 0
    BY <1>1, FileTypes
  <2>3. StartInterval(file) \in Nat => StartInterval(file) >= 0
    OBVIOUS
  <2>4. SettingsSane => CheckQueues(file) /\ CheckHealth(file) /\ file.chainId # 0 /\ StartInterval(file) >= 0
    <3>1. QueuesSane => CheckQueues(file)
      BY <1>1, QueuesAreSane
    <3>2. HealthSane => CheckHealth(file)
      BY DEF HealthSane, CheckHealth
    <3> QED BY <2>2, <2>3, <3>1, <3>2 DEF SettingsSane
  <2>5. ~Acceptable
    BY <2>1, <2>4 DEF Acceptable
  <2> QED BY <1>1, <2>5, Frame
<1> QED BY <1>2, <1>5, <1>7, <1>8 DEF Inv

LEMMA SetSignerInv == Inv /\ SetSigner => Inv'
<1> SUFFICES ASSUME Inv, SetSigner PROVE Inv'
  OBVIOUS
<1>1. /\ pc = "signer" /\ file' = file /\ env' = env /\ signerUp' = signerUp
      /\ todo' = todo /\ verifiers' = verifiers /\ idToQueueName' = idToQueueName
      /\ queued' = queued /\ served' = served /\ manager' = manager /\ pc' \in {"filterer", "failed"}
  BY DEF SetSigner, input, tables, history
<1>2. verifiers = << >> /\ idToQueueName = << >> /\ queued = {} /\ served = {}
  BY <1>1 DEF Inv, Early, QueuesNamed, NoTraffic
<1>3. Inputs' /\ Early' /\ NoTraffic' /\ Traffic'
  BY <1>1, <1>2 DEF Inv, Inputs, Early, NoTraffic, Traffic, Table
<1>4. MapLeadsBack' /\ Handled' /\ AllAdded' /\ QueuesNamed' /\ RoutedAsConfigured'
  BY <1>1, <1>2 DEF MapLeadsBack, Handled, AllAdded, QueuesNamed, RoutedAsConfigured
<1>5. Loaded'
  BY <1>1, Frame DEF Inv, Loaded
<1>6. pc' = IF SignerSane THEN "filterer" ELSE "failed"
  BY DEF SetSigner, SignerSane
<1>7. SignerSet'
  BY <1>1, <1>6 DEF SignerSet, SignerSane
<1>8. StartsIffAcceptable'
  <2>1. ~SignerSane => ~Acceptable
    BY DEF Acceptable, SettingsSane
  <2> QED BY <1>1, <1>6, <2>1, Frame DEF StartsIffAcceptable
<1> QED BY <1>3, <1>4, <1>5, <1>7, <1>8 DEF Inv

LEMMA NewFiltererInv == Inv /\ NewFilterer => Inv'
<1> SUFFICES ASSUME Inv, NewFilterer PROVE Inv'
  OBVIOUS
<1>1. /\ pc = "filterer" /\ file' = file /\ env' = env /\ signerUp' = signerUp
      /\ todo' = DOMAIN Table /\ verifiers' = verifiers /\ idToQueueName' = idToQueueName
      /\ queued' = queued /\ served' = served /\ manager' = manager
      /\ pc' = IF file.cosigner => Identify THEN "handler" ELSE "failed"
  BY DEF NewFilterer, input, history, Table
<1>2. verifiers = << >> /\ idToQueueName = << >> /\ queued = {} /\ served = {}
  BY <1>1 DEF Inv, Early, QueuesNamed, NoTraffic
<1>3. Inputs' /\ Early' /\ NoTraffic' /\ Traffic'
  BY <1>1, <1>2 DEF Inv, Inputs, Early, NoTraffic, Traffic, Table
<1>4. MapLeadsBack' /\ Handled' /\ AllAdded' /\ QueuesNamed' /\ RoutedAsConfigured'
  BY <1>1, <1>2 DEF MapLeadsBack, Handled, AllAdded, QueuesNamed, RoutedAsConfigured, Visited, Table
<1>5. Loaded' /\ SignerSet'
  BY <1>1, Frame DEF Inv, Loaded, SignerSet, SignerSane
<1>6. StartsIffAcceptable'
  BY <1>1, Frame DEF StartsIffAcceptable
<1> QED BY <1>3, <1>4, <1>5, <1>6 DEF Inv

\* A round of the first loop: an entry that is added is led back to; one that is
\* refused breaks the promise, a duplicate together with the entry it repeats.
LEMMA AddVerifierInv == \A n \in todo : Inv /\ AddVerifier(n) => Inv'
<1> SUFFICES ASSUME NEW n \in todo, Inv, AddVerifier(n) PROVE Inv'
  OBVIOUS
<1>1. /\ pc = "handler" /\ file' = file /\ env' = env /\ signerUp' = signerUp
      /\ todo' = todo \ {n} /\ idToQueueName' = idToQueueName /\ n \in DOMAIN Table
      /\ queued' = queued /\ served' = served /\ manager' = manager
  BY DEF AddVerifier, input, history, Inv, Inputs
<1>2. idToQueueName = << >> /\ queued = {} /\ served = {}
  BY <1>1 DEF Inv, QueuesNamed, NoTraffic
<1>3. \/ Accepts(Table[n]) /\ pc' = "handler"
         /\ verifiers' = [i \in DOMAIN verifiers \cup {Id(n)} |-> IF i = Id(n) THEN n ELSE verifiers[i]]
      \/ ~Accepts(Table[n]) /\ pc' = "failed" /\ verifiers' = verifiers
  BY <1>1 DEF AddVerifier, Table, Id
<1>4. Table' = Table /\ Id(n)' = Id(n) /\ \A o : Id(o)' = Id(o)
  BY <1>1, Frame
<1>5. Inputs' /\ Early' /\ NoTraffic' /\ Traffic'
  BY <1>1, <1>2, <1>3, <1>4 DEF Inv, Inputs, Early, NoTraffic, Traffic
<1>6. Loaded' /\ SignerSet' /\ RoutedAsConfigured'
  BY <1>1, <1>2, <1>3, Frame DEF Inv, Loaded, SignerSet, SignerSane, RoutedAsConfigured
<1>7. AllAdded' /\ QueuesNamed'
  BY <1>1, <1>2, <1>3 DEF AllAdded, QueuesNamed
<1>8. CASE ~Accepts(Table[n])
  <2>1. MapLeadsBack' /\ Handled'
    BY <1>1, <1>3, <1>4, <1>8 DEF Inv, MapLeadsBack, Handled
  <2>2. ~TableSane
    <3>1. CASE Id(n) \in DOMAIN verifiers
      <4>1. verifiers[Id(n)] \in DOMAIN Table \ todo /\ Id(verifiers[Id(n)]) = Id(n)
        BY <1>1, <3>1 DEF Inv, MapLeadsBack
      <4> QED BY <1>1, <4>1 DEF TableSane, Id, Table
    <3>2. CASE Id(n) \notin DOMAIN verifiers
      BY <1>1, <1>8, <3>2 DEF TableSane, Accepts, Id, Table
    <3> QED BY <3>1, <3>2
  <2>3. StartsIffAcceptable'
    BY <1>1, <1>3, <1>8, <2>2, Frame DEF StartsIffAcceptable, Acceptable
  <2> QED BY <1>5, <1>6, <1>7, <2>1, <2>3 DEF Inv
<1>9. CASE Accepts(Table[n])
  <2>1. Id(n) \notin DOMAIN verifiers /\ pc' = "handler"
    BY <1>3, <1>9 DEF Accepts, Id
  <2>2. /\ DOMAIN verifiers' = DOMAIN verifiers \cup {Id(n)} /\ verifiers'[Id(n)] = n
        /\ \A i \in DOMAIN verifiers : verifiers'[i] = verifiers[i]
    BY <1>3, <1>9, <2>1
  <2>3. MapLeadsBack'
    BY <1>1, <1>4, <2>1, <2>2 DEF Inv, MapLeadsBack
  <2>4. Handled'
    <3> SUFFICES ASSUME NEW o \in DOMAIN Table \ (todo \ {n}) PROVE Added(o)'
      BY <1>1, <1>4, <2>1 DEF Handled, Visited
    <3>1. CASE o = n
      BY <1>4, <1>9, <2>2, <3>1 DEF Added, Accepts
    <3>2. CASE o # n
      <4>1. Added(o)
        BY <1>1, <3>2 DEF Inv, Handled, Visited
      <4> QED BY <1>4, <2>2, <4>1 DEF Added
    <3> QED BY <3>1, <3>2
  <2>5. StartsIffAcceptable'
    BY <2>1 DEF StartsIffAcceptable
  <2> QED BY <1>5, <1>6, <1>7, <2>3, <2>4, <2>5 DEF Inv
<1> QED BY <1>8, <1>9

LEMMA HandlerDoneInv == Inv /\ HandlerDone => Inv'
<1> SUFFICES ASSUME Inv, HandlerDone PROVE Inv'
  OBVIOUS
<1>1. /\ pc = "handler" /\ pc' = "queues" /\ file' = file /\ env' = env /\ signerUp' = signerUp
      /\ todo = {} /\ todo' = DOMAIN Table /\ verifiers' = verifiers /\ idToQueueName' = idToQueueName
      /\ queued' = queued /\ served' = served /\ manager' = manager
  BY DEF HandlerDone, input, history, Table
<1>2. idToQueueName = << >> /\ queued = {} /\ served = {}
  BY <1>1 DEF Inv, QueuesNamed, NoTraffic
<1>3. Table' = Table /\ \A o : Id(o)' = Id(o)
  BY <1>1, Frame
<1>4. Inputs' /\ Early' /\ NoTraffic' /\ Traffic' /\ Handled'
  BY <1>1, <1>2, <1>3 DEF Inv, Inputs, Early, NoTraffic, Traffic, Handled
<1>5. Loaded' /\ SignerSet' /\ RoutedAsConfigured' /\ StartsIffAcceptable'
  BY <1>1, <1>2, Frame DEF Inv, Loaded, SignerSet, SignerSane, RoutedAsConfigured, StartsIffAcceptable
<1>6. MapLeadsBack' /\ QueuesNamed'
  BY <1>1, <1>2, <1>3 DEF Inv, MapLeadsBack, QueuesNamed, Visited
<1>7. AllAdded'
  <2>1. \A n \in DOMAIN Table : Added(n)
    BY <1>1 DEF Inv, Handled, Visited
  <2>2. \A n \in DOMAIN Table : Added(n)'
    BY <1>1, <1>3, <2>1 DEF Added
  <2> QED BY <1>3, <2>2 DEF AllAdded
<1> QED BY <1>4, <1>5, <1>6, <1>7 DEF Inv

\* A round of the second loop: the queue it writes is that of the entry the
\* first loop has written.
LEMMA AddQueueNameInv == \A n \in todo : Inv /\ AddQueueName(n) => Inv'
<1> SUFFICES ASSUME NEW n \in todo, Inv, AddQueueName(n) PROVE Inv'
  OBVIOUS
<1>1. /\ pc = "queues" /\ file' = file /\ env' = env /\ signerUp' = signerUp
      /\ todo' = todo \ {n} /\ verifiers' = verifiers /\ n \in DOMAIN Table
      /\ queued' = queued /\ served' = served /\ manager' = manager
      /\ idToQueueName' = [i \in DOMAIN idToQueueName \cup {Id(n)} |->
                             IF i = Id(n) THEN Table[n].queue ELSE idToQueueName[i]]
      /\ pc' = IF Queued(n) THEN "queues" ELSE "failed"
  BY DEF AddQueueName, input, history, Inv, Inputs, Table, Id, Queued
<1>2. queued = {} /\ served = {}
  BY <1>1 DEF Inv, NoTraffic
<1>3. Table' = Table /\ \A o : Id(o)' = Id(o) /\ Queued(o)' = Queued(o)
  BY <1>1, Frame
<1>4. Inputs' /\ Early' /\ NoTraffic' /\ Traffic' /\ Handled'
  BY <1>1, <1>2, <1>3 DEF Inv, Inputs, Early, NoTraffic, Traffic, Handled
<1>5. Loaded' /\ SignerSet' /\ RoutedAsConfigured'
  BY <1>1, <1>2, Frame DEF Inv, Loaded, SignerSet, SignerSane, RoutedAsConfigured
<1>6. MapLeadsBack'
  BY <1>1, <1>3 DEF Inv, MapLeadsBack
<1>7. AllAdded'
  <2>1. \A o \in DOMAIN Table : Added(o)
    BY <1>1 DEF Inv, AllAdded
  <2>2. \A o \in DOMAIN Table : Added(o)'
    BY <1>1, <1>3, <2>1 DEF Added
  <2> QED BY <1>3, <2>2 DEF AllAdded
<1>8. QueuesNamed'
  <2>1. Id(n) \in DOMAIN verifiers /\ verifiers[Id(n)] = n
    BY <1>1 DEF Inv, AllAdded, Added
  <2>2. \A id \in DOMAIN idToQueueName' :
           id \in DOMAIN verifiers' /\ idToQueueName'[id] = Table'[verifiers'[id]].queue
    BY <1>1, <1>3, <2>1 DEF Inv, QueuesNamed
  <2>3. pc' = "queues" => \A o \in Visited' : Queued(o)'
    BY <1>1, <1>3 DEF Inv, QueuesNamed, Visited
  <2> QED BY <1>1, <2>2, <2>3 DEF QueuesNamed
<1>9. StartsIffAcceptable'
  <2>1. ~Queued(n) => ~Acceptable
    BY <1>1 DEF Queued, Acceptable, TableSane, Table
  <2> QED BY <1>1, <2>1, Frame DEF StartsIffAcceptable
<1> QED BY <1>4, <1>5, <1>6, <1>7, <1>8, <1>9 DEF Inv

\* All checks have passed, so the promise holds.
LEMMA StartedInv == Inv /\ Started => Inv'
<1> SUFFICES ASSUME Inv, Started PROVE Inv'
  OBVIOUS
<1>1. /\ pc = "queues" /\ pc' = "running" /\ file' = file /\ env' = env /\ signerUp' = signerUp
      /\ todo = {} /\ todo' = todo /\ verifiers' = verifiers /\ idToQueueName' = idToQueueName
      /\ queued' = queued /\ served' = served /\ manager' = manager
  BY DEF Started, input, history, tables
<1>2. queued = {} /\ served = {}
  BY <1>1 DEF Inv, NoTraffic
<1>3. Table' = Table /\ \A o : Id(o)' = Id(o) /\ Queued(o)' = Queued(o)
  BY <1>1, Frame
<1>4. Inputs' /\ Early' /\ NoTraffic' /\ Traffic' /\ Handled'
  BY <1>1, <1>2, <1>3 DEF Inv, Inputs, Early, NoTraffic, Traffic, Handled
<1>5. Loaded' /\ SignerSet' /\ RoutedAsConfigured'
  BY <1>1, <1>2, Frame DEF Inv, Loaded, SignerSet, SignerSane, RoutedAsConfigured
<1>6. MapLeadsBack'
  BY <1>1, <1>3 DEF Inv, MapLeadsBack
<1>7. \A o \in DOMAIN Table : Added(o) /\ Queued(o)
  BY <1>1 DEF Inv, AllAdded, QueuesNamed, Visited
<1>8. AllAdded'
  BY <1>1, <1>3, <1>7 DEF AllAdded, Added
<1>9. QueuesNamed'
  BY <1>1, <1>3, <1>7 DEF Inv, QueuesNamed
<1>10. StartsIffAcceptable'
  <2>1. SettingsSane /\ AddressAgreed(manager) /\ manager \in {file.manager, env.manager}
    BY <1>1, QueuesAreSane DEF Inv, Inputs, Loaded, SignerSet, SettingsSane, CheckHealth, HealthSane
  <2>2. TableSane
    BY <1>7 DEF TableSane, Added, Queued, Id, Table
  <2>3. Acceptable
    BY <2>1, <2>2 DEF Acceptable
  <2> QED BY <1>1, <2>1, <2>3, Frame DEF StartsIffAcceptable
<1> QED BY <1>4, <1>5, <1>6, <1>8, <1>9, <1>10 DEF Inv

----------------------------------------------------------------------------
\* Requests on their way: nothing that decides about them changes any more.
LEMMA RouteInv ==
    ASSUME Inv, NEW id, NEW q, Process(id) \/ Handle(id, q)
    PROVE  Inv'
<1>1. /\ pc = "running" /\ pc' = pc /\ file' = file /\ env' = env /\ signerUp' = signerUp
      /\ todo' = todo /\ verifiers' = verifiers /\ idToQueueName' = idToQueueName /\ manager' = manager
  BY DEF Process, Handle, input, tables
<1>2. Table' = Table /\ \A o : Id(o)' = Id(o) /\ Queued(o)' = Queued(o)
  BY <1>1, Frame
<1>3. Inputs' /\ Early' /\ NoTraffic' /\ Handled' /\ MapLeadsBack'
  BY <1>1, <1>2 DEF Inv, Inputs, Early, NoTraffic, Handled, MapLeadsBack
<1>4. Loaded' /\ SignerSet' /\ StartsIffAcceptable'
  BY <1>1, Frame DEF Inv, Loaded, SignerSet, SignerSane, StartsIffAcceptable
<1>5. AllAdded' /\ QueuesNamed'
  BY <1>1, <1>2 DEF Inv, AllAdded, QueuesNamed, Added
<1>6. Traffic' /\ RoutedAsConfigured'
  <2>1. CASE Process(id)
    <3>1. /\ queued' = queued \cup {<<id, idToQueueName[id]>>} /\ served' = served
          /\ id \in DOMAIN idToQueueName
      BY <2>1 DEF Process
    <3>2. id \in DOMAIN verifiers /\ idToQueueName[id] = Table[verifiers[id]].queue
      BY <1>1, <3>1 DEF Inv, QueuesNamed
    <3>3. Table[verifiers[id]].queue \in DOMAIN file.queues
      BY <1>1, <3>2 DEF Inv, QueuesNamed, MapLeadsBack, Queued
    <3>4. Traffic'
      BY <1>1, <1>2, <3>1, <3>2, <3>3 DEF Inv, Traffic
    <3> QED BY <1>1, <3>1, <3>2, <3>3, <3>4 DEF Inv, RoutedAsConfigured, Traffic, Table
  <2>2. CASE Handle(id, q)
    <3>1. /\ <<id, q>> \in queued /\ queued' = queued /\ id \in DOMAIN verifiers
          /\ served' = served \cup {[id |-> id, queue |-> q, server |-> Table[verifiers[id]].server]}
      BY <2>2 DEF Handle, Table
    <3>2. q = Table[verifiers[id]].queue
      BY <3>1 DEF Inv, Traffic
    <3>3. verifiers[id] \in DOMAIN Table /\ Id(verifiers[id]) = id
      BY <3>1 DEF Inv, MapLeadsBack
    <3>4. \E n \in DOMAIN file.verifiers : LET v == file.verifiers[n] IN
            [id |-> id, queue |-> q, server |-> Table[verifiers[id]].server]
              = [id |-> AttTypeAndSourceID(v), queue |-> v.queue, server |-> v.server]
      BY <3>2, <3>3 DEF Id, Table
    <3>5. Traffic'
      BY <1>1, <1>2, <3>1 DEF Inv, Traffic
    <3> QED BY <1>1, <3>1, <3>4, <3>5 DEF Inv, RoutedAsConfigured
  <2> QED BY <2>1, <2>2
<1> QED BY <1>3, <1>4, <1>5, <1>6 DEF Inv

LEMMA StutterInv == Inv /\ UNCHANGED vars => Inv'
<1> SUFFICES ASSUME Inv, UNCHANGED vars PROVE Inv'
  OBVIOUS
<1>1. /\ pc' = pc /\ file' = file /\ env' = env /\ signerUp' = signerUp /\ queued' = queued
      /\ todo' = todo /\ verifiers' = verifiers /\ idToQueueName' = idToQueueName
      /\ manager' = manager /\ served' = served
  BY DEF vars
<1>2. Table' = Table /\ \A o : Id(o)' = Id(o) /\ Queued(o)' = Queued(o)
  BY <1>1, Frame
<1>3. Inputs' /\ Early' /\ NoTraffic' /\ MapLeadsBack' /\ Traffic' /\ RoutedAsConfigured'
  BY <1>1, <1>2 DEF Inv, Inputs, Early, NoTraffic, MapLeadsBack, Traffic, RoutedAsConfigured
<1>4. Loaded' /\ SignerSet' /\ StartsIffAcceptable'
  BY <1>1, Frame DEF Inv, Loaded, SignerSet, SignerSane, StartsIffAcceptable
<1>5. Handled' /\ AllAdded' /\ QueuesNamed'
  BY <1>1, <1>2 DEF Inv, Handled, AllAdded, QueuesNamed, Added, Visited
<1> QED BY <1>3, <1>4, <1>5 DEF Inv

LEMMA NextInv == Inv /\ [Next]_vars => Inv'
<1> QED BY LoadConfigInv, SetSignerInv, NewFiltererInv, AddVerifierInv, HandlerDoneInv,
          AddQueueNameInv, StartedInv, RouteInv, StutterInv DEF Next, Load, Build, Route

\* The strengthening holds in every reachable state.
THEOREM SpecInv == Spec => []Inv
<1> QED BY InitInv, NextInv, PTL DEF Spec

\* For all files and environments the relay starts exactly on an acceptable
\* configuration, in whatever order the two loops visit the table.
THEOREM StartsExactlyIfAcceptable == Spec => []StartsIffAcceptable
<1>1. Inv => StartsIffAcceptable
  BY DEF Inv
<1> QED BY <1>1, SpecInv, PTL

\* For every table the queue and the server of a request come from one entry:
\* the duplicate check of NewFDCHandler is enough for NewFDC's loop as well.
THEOREM RoutesAsConfigured == Spec => []RoutedAsConfigured
<1>1. Inv => RoutedAsConfigured
  BY DEF Inv
<1> QED BY <1>1, SpecInv, PTL
=============================================================================
