# A specification of tee-relay-client

The relay reads `TeeInstructionsSent` events from the database of a C-chain indexer, completes and signs each
instruction, and posts it to the TEE machines the event names. Nothing is persisted: the queue of pending work, the
cursor into the chain and the state of every instruction live in memory, in goroutines joined by two channels. This
directory models that program in TLA+, checks the models on small instances with TLC, and proves the most important
properties for every value of the constants with TLAPS.

Contents: 1 the system, 2 the modules, 3 the runs, 4 the theorems, 5 what is left out, and the plan.

## 1. The system

| part | source | state it keeps | operations |
| --- | --- | --- | --- |
| collector | `internal/collector/collector.go` | the cursor `params.From`, the window start, a batch waiting for the channel | wait for sync, initial state, one round every 2 s, send |
| damper | `internal/collector/damper.go` | failures since the last success, time of the last error line | `fail`, `ok` |
| router | `internal/router/router.go`, `filterer.go` | the batch it is in | `Run`, `Handle`, `Route`, one goroutine per instruction |
| instruction instance | `internal/router/instructions/instructions.go` | event, deduplicated machines, general data, signatures | `ParseInstruction`, `EventToData`, `Sign` |
| base processor | `internal/router/processors/processor.go` | none | sign, emit |
| FDC processor, queue, handler, verifier | `internal/router/processors/fdc*.go` | one priority queue per configured name, its workers, timers and `Errors`; the instance, which outlives a failed attempt | `Process`, `ProcessOut`, `Handle`, `Response` |
| backup processor | `internal/router/processors/backup.go` | the instance while it is filled | data provider restore, direct restore |
| sender | `internal/sender/sender.go` | a goroutine per machine of an instruction | `Run`, `PrepareInstruction`, `SendToTEE` |
| post | `internal/post/post.go` | attempts and first error of one call | `WithRetry` |
| signer | `pkg/signer` | key or credentials | `Identify`, `Sign`, `Decrypt` |
| health | `internal/health` | started flag, last block and its timestamp; the listener | `SetStarted`, `SetIndexer`, probes, `Listen`, `Close` |
| client, main | `internal/client`, `cmd/main` | wait group, context, signal channel | start, wait for a signal, shut down |
| configuration | `pkg/config` | none after the start | defaults, overrides, checks |

Interactions: collector -> router by a channel of batches (50), router -> processors by goroutines, FDC processor ->
worker by the priority queue, processors -> sender by a channel of instance POINTERS (50), sender -> machines by HTTP
with retries. The collector reports to the health status, which the probes read under a mutex. One context cancels all;
one wait group waits for the loops but not for the goroutines of instructions.

What is hard about it:

- *Ordering of two reads.* The indexer's state and its logs are two queries, and the indexer writes between them.
- *Loss.* The cursor advances before a batch is sent and is lost with the process; a restart begins a window of
  `start_interval` blocks below the head.
- *A shared, partly filled instance.* A failed FDC attempt re-queues the same object it has been writing to; the sender
  and its goroutines read the object after the handler has let go of it.
- *Positions.* Machines, hashes and signatures are joined by index after duplicates were removed, and the signer is a
  remote service.
- *Untrusted answers.* A verifier may answer twice differently; a backup host may mix the parts of different backups.
- *Blocking.* A full channel, a worker limit, a signal during a long start, and shutdown of loops that wait on each other.

The properties that make each part correct: the collector collects every event of its window exactly once and loses only
what is below the restart window; an FDC instruction ends once, with the one body that was verified and signatures over
that body; a restore forwards only what was requested; each machine gets the instruction meant for it with its own
signature; no instruction blocks another; a retry budget covers its worst schedule, and what is reported of a retry loop
is what happened; the relay starts on the configurations its documents accept and on no other, and routes a request to
one entry of its table; no outage is silent; the probes tell the truth; the process stops when told. End to end: what
crashes and shutdowns lose is only what is below the window of the next life.

`PROJECT.json` lists the components with their status and the hazards at their lines.

## 2. Modules

| module | models | notes |
| --- | --- | --- |
| `Collector` | collector, and the indexer it reads from; crash and restart | one action per query result and per select branch |
| `Damper` | the two dampers, driven by the rounds of the collector | real time, in units |
| `Pipeline` | router, filterers, base processor, `Base.Sign`, sender, `SendToTEE` | FDC and backup appear as one step that completes the data |
| `FdcQueue` | one FDC queue, its workers and `FDCHandler.Handle` | one action per call in `Handle` that can fail |
| `Backup` | `backup.go`, a goroutine per restore | the host's answers are any package or response |
| `Retry` | one remote call with retries: `post.WithRetry`, and the loops of signer and sender | time in half seconds |
| `Lifecycle` | main, client, status, health server, and the control of the loops | a probe is an operator on the state |
| `Config` | `loadConfig`, the checks, `setSigner`, `NewFilterer`, `NewFDCHandler`, `NewFDC`, and the lookups of a request | one action per round of a range loop over a map |
| `FdcPromise` | nothing in the code: what the FDC path owes the relay, per instruction | abstract specification |
| `Delivery` | nothing in the code: what router, processors and sender owe an event, per event and machine | abstract specification |
| `Collection` | nothing in the code: what the listener owes the channel, whatever it queries and when it stops | abstract specification |
| `RestorePromise` | nothing in the code: what a restore owes the machine it is for | abstract specification |
| `FdcRefinement`, `PipelineRefinement`, `CollectionRefinement`, `BackupRefinement` | the mappings under which `FdcQueue` implements `FdcPromise`, `Pipeline` implements `Delivery`, `Collector` implements `Collection` and `Backup` implements `RestorePromise` | |
| `Relay` | `Collector` composed with `Delivery` over the channel `cToR`, over several lives of the process | composition |
| `RelayProofs` (with those of `Collector`), `FdcQueueProofs`, `PipelineProofs`, `BackupProofs`, `LifecycleProofs`, `RetryProofs`, `ConfigProofs`, `DamperProofs` | | theorems |
| `MCCollector`, `MCFdcQueue`, `MCPipeline`, `MCBackup`, `MCConfig`, `MCRelay` | | constant values for TLC |

The layers fit together as follows. `FdcQueue`, `Backup` and `Retry` are the detail of single steps of `Pipeline`
(`Complete`, and an attempt to sign or post). `Pipeline` is shown to implement `Delivery`, for any batches the collector
sends without repetition. `Relay` puts `Delivery` in the place of `Pipeline` behind the detailed `Collector`, which is
shown to send without repetition, and asks the questions that concern the whole way of an event. Each abstract
specification says in a few lines what its component promises: `Collection` has no queries, rounds, errors or ticker,
only a head, the part of the chain below it that this life begins with, and what has been sent; `RestorePromise` has no
host, no checks and no splits, only a restore that is forwarded once with a message for its own request, or not at all.

How the state corresponds to the code:

- **Collector.** `pc` is the place in `Run` or `instructionsListener`; `from` and `to` are `params.From` and `params.To`,
  `batch` the `logs` being sent, `chan` the channel `cToR`. `FetchState` sets `to` and reports; `FetchLogs` reads the
  rows in `(from, to]` and advances `from`, both in the code's order. `index` and `stored` are the indexer: a row of the
  logs table (`IndexerStore`) is written before the state row passes its block (`IndexerAdvance`). `sends`, `accepted`,
  `start` and `startIndex` are history. `Start`, `Crash`, `Cancel`, `Exit` are the process.
- **FdcQueue.** `intake`, `heap`, `timers` and `step` say who holds the instance; `afm`, `avm`, `sigs` are its
  `AdditionalFixedMessage`, the body its FDC signature covers, and what the machine signatures cover. `StartHandle`
  decides by `len(AdditionalFixedMessage) == 0` whether the verifier is asked; every error return is `HandleFails` at the
  place it can happen, and leaves the fields as that attempt has set them. A verified body that `fdc.HashMessage` cannot
  hash (`Unhashable`) stays in the instance, so every further attempt fails at the same place.
- **Backup.** `pc` is the stage of the handler, `answer` the decoded response, `fixed` and `variable` the two message
  fields. The fixed message is set where the code sets it: before `Identify` (backup.go:144), and for a direct restore
  before the envelope is unmarshalled (backup.go:400). A backup id stands for all its fields; the field by field
  comparisons are one equality. `Fails` is any error that does not depend on the modelled data.
- **Pipeline.** `todo` is the rest of the batch the router loop is in, `phase` the goroutine of an instruction, `post`
  the sender's goroutine for an instruction and an index of `Tees`. A signature is the record of what was hashed, so
  the properties can compare what a machine receives with what was signed. `posts` counts the attempts `SendToTEE` has
  begun. What they post is the network's: `PostArrives` may happen at any time after the first one has begun, while the
  goroutine waits, between two attempts, or after it is done. `PostDelivered` is a receipt, `PostFails` an attempt that
  fails or is abandoned at the end of `ctx` or of the budget, as `Abandon` and `LooseEnds` of `Retry` are for the
  verifier's call; the relay does not know then whether the request has reached the machine or still will.
- **Lifecycle.** `main` is the place in `main`; `pending` is the one slot of `signalChan`; `router`, `sender`, `queues`,
  `collector` are the loops the wait group counts. `seen` is `Status.blockTime`; `fetched` is history.
- **Relay.** The variables of `Collector`, and `stage`, `open`, `asked` of `Delivery` for this life. `Couple` clears them
  when the process ends, as `Client.Wait` waits for the loops and not for the goroutines of instructions. `Hand` is the
  receive in `Router.Run`. Arrivals are not followed here: a request of an earlier life may still be under way in a later
  one, and a life answers for what it asks, not for what the machines hear while it lasts.
- **Retry.** `client` is the caller, `P` the parameters it passes to `retry.Execute`; `k` is the attempt, `elapsed` the
  time since the loop began. `attempts` and `firstErr` are the counters `WithRetry` shares with its attempts under a mutex;
  `loose` is an attempt that Execute has abandoned and whose goroutine still runs, before or after `Return` reads the
  counters. `Stall` says that an attempt does not keep to its timeout. `answers` is history.
- **Config.** `pc` is the stage of the start. `todo` are the entries a `range` loop has still to visit: Go picks any
  order, so `AddVerifier` and `AddQueueName` pick any member. `verifiers` and `idToQueueName` are the two maps, and an
  entry overwrites an earlier one with the same identifier, as an assignment to a Go map does. A string stands for the
  class of strings the code tells apart.
- **Damper.** `failures` and `lastErr` are the fields of `damper`; the clock may move between a line and its stamp.
  `written`, `began` and `lines` are history.

Operators named `...AnyBlob`, `...Unbounded`, `...OneMore` and the like, under a comment that begins with "Mutant", are
faulty variants of a definition. No action uses them; each shows that some property fails when the code has that slip.

## 3. Runs

| run | module, configuration | instance | question |
| --- | --- | --- | --- |
| `collector` | `MCCollector`, `Collector.cfg` | 3 events, two in one block, 4 blocks, interval 2, 3 lives, channel of 1, fair | is every event of the window collected once and in the end, is only what is below the restart window lost, does the loop stop, and is `Collection` implemented? |
| `relay` | `MCRelay`, `Relay.cfg` | the same, with machines and one event that may hang for ever, fair | the same end to end: is an event taken twice, what do crashes at any stage lose, is a machine ever asked about an event outside the window, is each event settled? |
| `fdc_safety` | `MCFdcQueue`, `FdcQueue.cfg` | 2 instructions, 4 bodies, 2 attempts, 2 workers, channels of 1 | does what is emitted belong together, has an instance one holder, are retries bounded, and is `FdcPromise` implemented? |
| `fdc_liveness` | `MCFdcQueue`, `FdcQueueLive.cfg` | 2 instructions, 2 bodies, 2 attempts, 1 worker, fair | does every instruction end, and do the goroutines stop? |
| `backup` | `MCBackup`, `Backup.cfg` | a provider and a direct restore, 2 backups, 2 machines, every answer, fair | does only what was asked for reach the sender, verified before it is sent, does every restore end, and is `RestorePromise` implemented? |
| `pipeline` | `MCPipeline`, `Pipeline.cfg` | 5 instructions in 2 batches as a cosigner with a remote signer: duplicate machines, shared ids, a bad op, a log that does not parse, another cosigner's; the first of all may hang for ever; two attempts to post; fair | does each machine get its own signature, once, does no goroutine panic, is nothing sent that should be filtered, does the one that hangs hold up the logs after it, in its batch and in the next, do the loops stop, and is `Delivery` implemented? |
| `lifecycle` | `Lifecycle`, `Lifecycle.cfg` | clock to 4, lag 1, skew 1, 2 batches, 2 signals, fair | do the probes tell the truth, does main outlive its loops, does a signal at any stage end the process? |
| `lifecycle_routing` | `Lifecycle`, `LifecycleRouting.cfg` | expected violation | is nothing routed once the probes are refused? |
| `retry` | `Retry`, `Retry.cfg` | four callers, statuses 0, 404, 429, 599, 600 and 200, every step up to half a second late, fair | does the budget cover the worst schedule, is only the transient repeated, is the reported history true, and does the caller get an answer? |
| `config` | `MCConfig`, `Config.cfg` | tables of two verifiers, addresses, options and signers of every kind, four environments of the address, three of the keys | does the relay start exactly on acceptable configurations, and do queue and server of a request belong to one entry? |
| `config_identify` | `MCConfig`, `ConfigIdentify.cfg` | expected violation: signers with and without an API key | does every acceptable configuration start when its signer answers? |
| `damper` | `Damper`, `Damper.cfg` | clock to 12, rounds 1 to 4 apart, summaries every 3, stamps up to 1 late | is no outage silent, and are its Error lines rationed? |

**Bounds.** Two instructions or restores are enough for every conflict over a worker, a channel slot or a shared
goroutine; two attempts are the smallest number with a retry; channels of one are full as soon as anything waits. Three
events with two in one block and an interval shorter than the chain give windows that cut between events, between
blocks, and at the clamp; three lives give a restart after a restart, and with an interval of 2 below a chain of 4 an
event really falls below the window of a later life. The schedules of `Retry` are the code's own numbers and no bound;
`Slack` is how late a timer may fire, and `Statuses` has one member of each class that `retryable` tells apart and both
sides of its boundary at 600. A file of `MCConfig` varies in one section, as the checks of the sections do not depend on each
other; two entries are enough for the two maps to disagree. Rounds up to 4 apart with summaries every 3 make several
rounds, one round, or none fall between two summaries. `MaxBlock`, `MaxLives`, `MaxPosts`, `Tries`, `MaxTries`, `MaxTime`,
`MaxBatches`, `MaxSignals`, `MaxClock` and `MaxGap` bound counters or the clock and occur in guards only.
Two attempts to post (`MaxPosts`) give a retry, and a request of the first that arrives during the second or later; `Relay`,
which asks about events and not about retries, is run with one (`Tries`).
`CHECK_DEADLOCK FALSE` is given everywhere because every model has final states: the process has ended, the call has
returned, or no work is left.

**Fairness.** A goroutine that can run is scheduled (WF). Strong fairness is used for `select` branches that can be
passed over but not for ever: Go's select picks at random among the ready ones, so `ctx.Done` is eventually seen
although the other branch is ready again and again. In `Collector` the two queries eventually succeed (SF), which the
README of the repository presupposes when it says that failing queries are retried; nothing is assumed about how often
they fail. Workers, restores and posts return because every call they make has a timeout and a bounded number of
attempts: `CallerNeverHangs` of `Retry` is that assumption, checked where timers fire but nothing ends a stalled attempt.
Nothing is assumed about when a request that was posted reaches its machine, or whether it does. Nothing is assumed
about verifier, signer, hosts or machines, except that in `Pipeline` those of the instructions
outside `Stuck` return; the others may hang for ever. `Relay` takes over `Collector`'s fairness, that the router takes
batches, and that each event outside `Stuck` has its goroutines end, one by one, which is what
`NoHeadOfLineBlocking` of `Pipeline` says of the detail. The sender is only assumed to receive until cancellation, so
liveness at shutdown must come from each loop's own `ctx.Done`. A signal, a crash or a cancellation is never forced.

**First finding** (`lifecycle_routing`). `cmd/main/main.go:136` says of the shutdown: "Probes are refused while the pipeline
drains — accurate, and nothing is being routed." The router looks at its context only between batches, so it finishes
the batch it is in, and its `select` may even take another one while the context is done. The trace shows it: a batch
of two logs, a signal, the closing of the health server, and then `Handle`. Nothing is lost or wrong by it; the
goroutines it starts see a cancelled context. Only the comment says more than holds.

**Second finding** (`config_identify`). `pkg/config/config.go:249-250` says of the name of the API key header "An empty
name is valid — no API key header is sent.", `config.toml.example:59` shows a signer with an empty `key_name`, and
`Credentials.Check` accepts it. `Remote.Identify` nevertheless sets the header `r.KeyName` (`remote.go:129`), and
`net/http` refuses a request with an empty header name, so every attempt fails. Only a cosigner identifies itself: as
a cosigner with a remote signer that needs no key, the relay does not start. The trace is that configuration, a signer
that would answer, and the failed start.

Two things observed on the way that contradict no document: an FDC body that was VERIFIED but cannot be hashed is kept
for all further attempts, so they all fail although the verifier might have answered better; and a signal that arrives
while the relay connects or waits for the indexer is acted on only after the pipeline has started or the start has
failed (`SignalEndsProcess` holds, but not soon).

## 4. Theorems

All theorems hold for every value of the constants the modules' `ASSUME`s allow.

| module | theorem | statement |
| --- | --- | --- |
| `RelayProofs` | `ExactlyOncePerLife`, `LossBounded`, `CursorReported`, `CollectionKept`, `CursorInvariant`, `Typing` | of the collector, for any chain, interval, channel capacity and number of lives |
| `RelayProofs` | `TakenOnce`, `EndToEndLoss`, `WindowAsked`, `CollectionKeptInRelay`, `Accounting` | of the composition, for any machines as well |
| `PipelineProofs` | `SignedForReceiver`, `NoPanic`, `ServedOnce`, `Refinement`, `Closure`, `Typing`, `SpecInv` | for any logs, machines, batches, capacities and number of attempts, both roles and both signers |
| `FdcQueueProofs` | `Consistency`, `Ownership`, `Bounded`, `Finality`, `Refinement`, `Ending`, `Progress`, `Invariance`, `Typing` | for any finite set of instructions, any bodies, attempts, workers and capacities |
| `BackupProofs` | `Forwarded`, `Covered`, `Verified`, `Refinement`, `Invariance`, `Typing` | for any set of restores, machines and backups |
| `RetryProofs` | `BudgetSuffices`, `LastAttemptDecides`, `HistoryHonest`, `TypeCorrect`, `SpecInv` | for any set of statuses, the code's schedules |
| `ConfigProofs` | `StartsExactlyIfAcceptable`, `RoutesAsConfigured`, `SpecInv` | for any set of files, of any size of table, and of environments |
| `LifecycleProofs` | `StartupSound`, `ReadySound`, `ExitSound`, `Invariance`, `Typing` | for any lag, skew, capacity and batch size |
| `DamperProofs` | `Rationing`, `NeverSilent`, `Invariance`, `Typing` | for any summary interval, delay of a stamp, distance of rounds and length of the run |

**Collector.** `ExactlyOnce` is not inductive. The strengthening `CursorInv` adds that everything up to the indexer's
head is stored (so that the rows of `(from, to]` are complete when they are read), that cursor, `to` and report are
ordered, that the window is the one computed from the head at the start, and that whatever was sent is with the router
or in the channel. The step that matters is `FetchLogs`: it adds the events of `(from, to]` to the batch and moves
`from` to `to`, so exactly the events that enter the window enter the batch. `LossOnlyBelowWindow` follows: what is at
or below the cursor is in the window and hence sent and held, or at or below the window's start.

`CollectionKept` is the refinement of `Collection`. The base is the window's start while the listener runs, the head is
the indexer's, and what is sent is read off `sends`. The start of a life is `Begin`: its window is one of those
`Collection` allows because `windowStart` clamps the difference at zero. `Send` is `Ship`: by `CursorInv` the events sent
are exactly those of the window up to the cursor. Queries, errors, ticker, full channel and the choice of `ctx.Done` are
stutters.

**Relay.** Every step of the composition is a step of `Collector` or leaves it alone, so `CursorInv` is taken over and
not proved again. `HandInv` adds the accounting of the router's side: what this life has sent is in one batch of the
channel or in the router's hands, never in both and never in two batches. `Send` keeps it because `ExactlyOnce` says
that nothing in the batch has been sent before. `EndToEndLoss` follows: an event at or below the cursor that is in
nobody's hands was not sent in this life, so by `ExactlyOnce` it is at or below the window's start. `WindowAsked` needs
that offers and requests exist for dispatched events only (`OffersInv`), that a dispatched event was taken in this life and hence sent
in it, and that what was sent lies above the window's start. `CollectionKeptInRelay` carries the refinement of the
collector over to the composition: a crash clears both sides, and every other step is one of the collector or a stutter.

**Pipeline.** First what `removeDuplicates` returns: every entry of the list, once. The module says it by the positions
that are kept and not by a fold, since the positions have ranks, and the ranks of a finite set are a bijection onto
`1 .. Cardinality`, which the library's theorems give. The invariant has one part per log (what its goroutine has
established; it is taken but not left in the batch; signatures are those of the hashes, in order) and one per slot, a
position of the deduplicated list (its goroutine exists exactly when the sender has taken the instance; what it posts is
what `PrepareInstruction` makes of that position). A step changes the part of one log or slot, and frame lemmas carry
over the others. `ServedOnce` counts: slots in use and machines of the event are in bijection. The refinement maps a
log to the stage it has reached, the busy slots to open offers, and the attempts of a slot to the requests made for its
offer; it needs that slots that differ offer to machines that differ, so that closing one offer closes no other, and
that an attempt is a request not made before. `PostArrives` maps to an arrival, which `Delivery` allows whether the offer
is open or not. `BatchesAssumption`, that the collector sends no log twice, is what `ExactlyOncePerLife` proves of the
collector. `Closure` is a consequence of the refinement and is proved from the steps of `Delivery` alone: no step opens
an offer of a dispatched event again, only open offers are asked, and only what was asked arrives. So a machine may hear
late of an event the relay has given up, but from a request made while its goroutine was there.

**FdcQueue.** `FdcInv` says what a worker may rely on at each step of `Handle` (`StepKnows`), and that an instance has
exactly one holder. It is stated for one instruction at a time, and every action is about one instruction; the frame
lemma carries it over for all others. Consistency of what is emitted is the last `StepKnows` at the moment of emission,
and stays because an emitted instance has no other holder. The refinement maps every place in the queue to "accepted".
`Ending` follows from the steps of `FdcPromise`: none of them leaves a final status. `Progress` is the safety part of why
`Settles` holds. An instruction has a rank, eleven for each attempt it has left and what lies ahead of it on the way
through intake, timer, heap and worker (`Left`); every action about it lowers the rank, and the others leave it alone. A
failed attempt sends it from the worker back to the timer, which raises the second summand by less than eleven and costs
an attempt. What remains to be assumed for `Settles` is fairness only.

**Backup.** `BackupInv` says what each stage has established about answer and instance; it is again per restore, with a
frame lemma. It is needed because the fixed message is set long before the checks that could still fail. The refinement of
`RestorePromise` maps every stage before the channel to "pending"; the step into the channel is `Send`, and the invariant
supplies, at that moment, that fixed and variable message are those of the request and that the signature is over both.
What is in the channel afterwards must not change although the handler's instance is a pointer: no later stage of the
handler writes to it. `Covered`, that the signature covers what is sent, is a consequence kept as a theorem of its own.

**Retry.** `elapsed` alone is not bounded by the budget in a useful way: the invariant bounds it, for each caller, by the
worst time that the calls and delays before the present place can have taken, unless an attempt has stalled or the
relay is shutting down. That the last of these bounds is below the budget is arithmetic on the four schedules: with
every step half a second late, those of signing and identifying have 2.5 seconds to spare, the verifier's 8 seconds, the
sender's more. The history part says which attempts have been counted at each place, with the abandoned one apart.

**Config.** The invariant says what the stages passed have checked, and that each of the two maps holds exactly the
entries visited so far, under their own identifiers. No order of iteration matters because the duplicate check of the
first loop leaves one entry per identifier, so that the second loop never overwrites. The faulty variant `AcceptsByName`,
which compares spellings and not identifiers, shows queue and server of different entries.

**Lifecycle.** `LifecycleInv` relates main's place to the loops that exist, and bounds the timestamps in the status by
the clock.

**Damper.** Neither property is inductive: both compare the clock with a line, and the code remembers only a stamp taken
after it. `DamperInv` has the stamp at most `Delay` behind the line it belongs to, and says of `ErrorsRationed` without
division that the outage began at least `SummaryInterval` before the stamp for every line but the first. A further line
is written only `SummaryInterval` after the stamp, which keeps this; a lemma on quotients then gives the number of
lines. `NeverSilent` is a property of steps: a failing round either writes, or has found the stamp too young.

**Assumptions taken from outside src/.** The indexer writes an event's row before its state row passes the block, never
removes rows and never goes back, and the first block has no events. The priority queue keeps an item's weight on retry,
frees the worker while `time_off` passes, and reports an item's last failure on `Errors`. `retry.Execute` returns when
its budget or context ends, without waiting for the attempt in flight, and draws a delay between `(1 - Jitter)` and
`(1 + Jitter)` times its nominal value. `WaitCIndexerToSync` tries a bounded number of times. Blocks are stamped at most
`Skew` ahead of the relay's clock. `net/http` sends no request with an empty header name.

**Proved, and in no run:** the inductive invariants; the types of `Collector`, `Pipeline`,
`Backup`, `Lifecycle`, `Retry` and `Damper`; `NothingForNothing` and
`EndsForGood` of the queue; `NoRequestAfterClose` of the pipeline; `SignatureCoversMessage`, which `KeepsRestorePromise`
contains; and the refinement of `Collection` by the composition. TLC confirmed them while they were being found.

**Every safety property a passing run checks is a theorem**, invariant, action property or refinement.

**Only model-checked:** all liveness, which needs fairness and ENABLED and is out of the provers' reach: `EventuallySent`,
`ListenerStops`, `EventuallySettled`, `Settles`, `QueueStops`, `RestoresSettle`, `NoHeadOfLineBlocking`, `PipelineStops`,
`SignalEndsProcess` and `CallerNeverHangs`; and that the finite
instances reach the cases they are meant for, which the faulty variants of the definitions show.

## 5. What is left out, and the plan

Not modelled, because it has no state or is none of the properties' concern: the wording and levels of log lines (the
dampers' Error lines excepted), the caps on the length of reported error texts, metrics of time in calls, HTTP details,
ABI and JSON coding, hashing and cryptography (a hash or signature is what it covers), URL parsing (a class of strings),
`pkg/client` (a re-export), and the test utilities.

Order in which the modules were written: `Collector`; `FdcQueue`, `FdcPromise`, `FdcRefinement`; `Pipeline`; `Backup`
and `Lifecycle`; then `Retry`, `Config`, `Damper`; `Delivery` with `PipelineRefinement`; `Relay`; each with its proofs;
then the abstract specifications `Collection` and `RestorePromise` with their refinements.

What could follow:

1. An instance of `Pipeline` whose step `Complete` is `FdcPromise` or `RestorePromise`, with the proof that what those
   promise is what `Pipeline` relies on.
2. Ranking arguments like `Progress` for the retry loop, the restores and the goroutines of the pipeline.
3. Several FDC queues in one instance, with the weight order of the priority queue as a property of its own: how often
   an instruction can be overtaken while it waits.
