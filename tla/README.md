# Postie in TLA+

Postie captures committed events of append-only PostgreSQL tables through
Debezium and Kafka and delivers them, in order per partition and at least once,
to HTTP endpoints. This directory models the parts of it whose correctness
depends on the order of steps or on the edges of values: the delivery of a
partition by the members of a consumer group, the control loop of the workers,
the provisioning and inspection of a source, and what happens to a record's
content on its way, with the activity log that reports it. TLC checks small
instances; TLAPS proves the safety results for every number of clients, workers,
provisioning runs, records and faults.

`PROJECT.json` lists the components, the runs with the properties they check,
the lines of code behind every definition, the hazards, the findings and the
theorems. Source paths below are relative to `src/internal/` unless they start
with `docs/`.

## The system

| Component | State | Operations | Talks to |
|---|---|---|---|
| Consumer and partition workers, `adapters/kafka/consumer.go` | the group client, one `partitionWorker` per assigned partition (owned, initialized, horizon, batch) | `Run`, `onAssigned`, `onRevoked`, `onLost`, `initialize`, `commit`, `Stop` | Kafka, control store, `Service.Allowed`/`Block`/`Signal` |
| Delivery worker and processor, `delivery/` | none between records | `Worker.Process`, `completeRecord`, `Processor.Process`, `Retry` | decoder, skip store, HTTP client, `commit` |
| HTTP client, `adapters/httpdelivery/client.go` | none | `Send`, `LeaseTransport.RoundTrip` | destination, `Service.LeaseDeadline` |
| Control service, `control/` | status, lease deadline, cached registrations, source states, subscriptions with their consumers | `New`, `Start`, `reconcile` and its steps, `Block`, `Change`, `Allowed` | control store, Kafka, source monitor, consumers |
| Control store, `adapters/controlpg/` | leases, desired states, observations, registrations with block reasons, started partitions, skips | one transaction per call | PostgreSQL |
| Provisioning, `provision/`, with `adapters/kafka/admin.go`, `adapters/debezium/connector.go`, `adapters/sourcepg/` | none of its own: topic, connector, slot and registration are elsewhere | `ProvisionSource` (`establish`, `confirmEstablished`), `InspectSource` | source database, Kafka Connect, Kafka, control store |
| Activity log, `activity/log.go` | ring buffer of 1000 entries | `Add`, `Read` with cursors | operator API |
| Protocol, stream types, decoding, `protocol/`, `stream/`, `adapters/debezium/` | none | pure functions | - |
| Operator API, configuration, wiring, `adapters/operator/`, `config/`, `app/` | none that changes | HTTP handlers, file parsing, construction | control service |

The parts interact through four shared things: the group's committed offset and
membership in Kafka, the tables of the control store, the `mu`-guarded state of
the control service (read by every commit and every HTTP attempt through
`Allowed` and `LeaseDeadline`), and the contexts that `Cancel`, `stopWorkers`
and the process's shutdown end.

What is hard in it:

- a client that the coordinator has dropped does not know it and goes on
  fetching, sending, storing skips and asking for commits beside the new owner;
- a commit times out for its caller and is applied, at once or later;
- a crash between the skip and the commit, or between the baseline commit and
  the started mark;
- `initialize` reads Kafka and the store in separate calls, while other clients
  write;
- records or group offsets disappear, and must stop the source rather than be
  passed over;
- workers join, leave, crash and lose their lease while an operator pauses;
- a source is blocked while inspection works with a registration read before;
- everything is retried without a limit, so the system must not get stuck;
- several runs of `postie provision` create the topic, configure the connector
  and register the stream at once, and any of them may die in between;
- a temporary failure must not block a stream for good, and a lost one must;
- a log of fixed size is read by cursors that may be stale or of another process.

## Modules

| Module | What it is |
|---|---|
| `OrderedDelivery` | the abstract promise for one partition and one destination |
| `PartitionDelivery` | the consumer group, its workers, Kafka and the store tables they use |
| `PartitionDeliveryProofs` | the inductive invariant, the theorems and the refinement proof |
| `OutageProofs` | its theorems about behaviours in which no live member is dropped |
| `MCPartitionDelivery` | fault budgets for TLC |
| `Control` | the control loop of several workers, one subscription and its source |
| `ControlProofs` | the inductive invariant and theorems of `Control` |
| `MCControl` | event budgets for TLC |
| `StreamRegistry` | the abstract promise of a registration: the first one stays, a block too |
| `Provision` | runs of `postie provision`, inspecting workers, and the outside systems they meet |
| `ProvisionProofs` | its invariants, theorems and the refinement of `StreamRegistry` |
| `ContractProofs` | its theorems about when a source is blocked |
| `MCProvision` | tables, configurations and fault budgets for TLC |
| `ActivityLog`, `ActivityLogProofs` | the ring buffer and its cursors; its theorems |
| `Payload` | pure functions: decoding, conversion, filter, acknowledgement, backoff |
| `RecordDelivery` | workers that take records through `Payload` and write to `ActivityLog` |
| `RecordDeliveryProofs` | that it implements `ActivityLog`; its other theorems, and those about decimals |
| `MCRecordDelivery` | records, answers and scenarios for TLC |

### PartitionDelivery

One partition, one destination, any number of clients. The worker goroutine is
a program counter: `fetch`, `list`, `decide`, `baseline`, `mark` are the calls
of `initialize`; `idle` waits for a batch; `skipped`, `send`, `wait`, `audit`,
`commit`, `committing` are the calls of `completeRecord`; `resume` is the end of a
batch, where fetching is resumed. A step is one call to
Kafka, the store or the destination with the memory updates up to the next one.
`nxt` and `top` delimit what is left of the routed batch. `paused` is the client's
own flag, set when a batch is routed and lifted in `resume` and in `onAssigned`
only, so it may outlive a worker. `owned` and `cancelled` are `w.owned` and the
worker's context. `stopping` is the running call of `stopWorkers` with its
caller, which decides what happens when it returns: a revocation lets the
rebalance go on, a loss only cleans up, and the end of `Run` closes the client.

Modelled with their failures: every call of `initialize` may fail; the started
mark and the skip may be stored although the call fails; a commit may be refused,
applied and reported, applied and not reported, or left behind in the network
(`late`) and applied at any time until the coordinator releases the ownership or
handles a later request of the same client.

Assumed of the environment:

- offsets are contiguous from 0, one record per offset;
- the coordinator refuses commits of a client it does not count as a member, and
  requests of an ended generation, and it handles the requests of one client in
  the order they were sent (`Accept`), as it does on one connection; a request
  overtaken by a later one on a second connection is left out;
- history lost from the end of a partition shows up as `ErrDataLoss` at the next
  poll, history lost from the start as `OffsetOutOfRange`;
- the offsets of a group are lost only while the group is empty;
- a block is durable, and other processes learn of it (`Control` shows how).

`TruncateAnyTime = FALSE` restricts deletion from the start of the partition to
times at which the group has a commit or no worker runs. The run
`early_truncation` shows what happens without the restriction.

### Control

A worker is one `Service`; a process that restarts is another worker, because
its ID is new. The reconcile loop is a program counter with one step per call to
the store, Kafka or the monitor, and per critical section that others can see
between calls; steps that touch only the worker's own memory are merged. The
consumer, calls of `Block` and one operator request per worker run beside the
loop. Every call may fail, with or without effect, within the budget `call`.

There is one subscription with one source. `reconcile` handles the entries of
other subscriptions and sources in loops over disjoint entries; only
`stopAll` and the status join them.

Time is left out: a stored lease runs out at any moment (`LeaseExpires`), and
the worker's own deadline, which is computed after `RenewLease` has returned,
runs out after it (`FenceExpires`). `Ready` is taken as the code has it: it does
not look at `Finished`, so a consumer that finishes in between may be reported
as running for one pass.

### Provision

One source. Every process, a run of provision or an inspecting worker, has a
record `run` with its program counter and what it has read; a step is one call
to an outside system and the memory updates up to the next one. `InspectTable`
applies the contract to the table, `GetStream` chooses between `establish`
(`find`, `create`, `poll`, `connect`, `await`, `await slot`, `register`) and
`confirmEstablished` (`validate topic`, `validate slot`, `validate connector`,
`block`). Workers go through `inspect table`, `inspect topic`, `inspect slot`,
`inspect connector`. A failed call, a timeout and the death of a process are one
action, `End`, which leaves what the call may have done: a run that only ended
before its caller knew is an `End` after the step.

The outside systems act on their own: a topic is created before it is listed,
Connect restarts a connector with the configuration it was last given and
recreates slot and topic where there is none, and table, topic, slot and
connector are altered, deleted, grown or stopped. A topic is its ID, its partitions
and two verdicts, whether its replicas and its settings are the wanted ones.

Assumed or left out:

- `InspectTable`'s three catalog queries are one read, and so are the two calls of
  `existingTopic` (`admin.go:124` and `148`): a topic whose settings change between
  them counts as one that was good or bad at that moment;
- the names derived from scope and source ID are constant; only the publication
  may differ between two configurations;
- a topic that was created is listed by the time the capture is up;
- the row read by `GetStream` is read again where it is used, since only its
  block changes;
- a topic short of replicas is reported before its ID is looked at, so it hides
  every other loss until its replicas are right: `LossIsBlocked` is about
  behaviours in which they are right in the end.

`LossIsBlocked` distinguishes what the registration can tell from its loss. The
topic has an ID, so that one that was deleted, replaced or given other partitions
is blocked even if another of its name is there by the next inspection; a slot
that lost history stays so. A table, slot or connector that is put back before a
worker looks cannot be told from one that was never gone; the property asks for a
block where they stay gone. That a slot which came back is not blocked either
contradicts the documentation: finding 6.

A contract error of `IdentityFrom` ends `ProvisionSource` without a block also for a
registered stream; the worker's inspection blocks it. `VerdictsAgree` is
therefore about tables that meet the contract.

### ActivityLog, Payload and RecordDelivery

`ActivityLog` is `activity/log.go`: `Add` and `Read` hold the mutex and are a step
each, and a cursor is a process number and a sequence number. A malformed cursor
is an error without effect and is left out.

`Payload` has the functions as operators. A JSON value is its kind with the
digits of a number before and after the point and its exponent, or the text of a
string; `placePoint`, `trimLeadingZeros` and `parseDecimal` work on sequences of
digits. `WellFormed` is what a JSON parser accepts as a number. A duration has `DurationBits` bits and wraps; an integer column has
`IntBits`. Left out: booleans, JSON text, bytes and timestamps, the range check of
`ParseFloat`, the check that a key has one field, and the checks of the event ID.

`RecordDelivery` composes both: each worker has one record and takes it through
`Decode`, `HasSkip`, the filter, attempts with their waits, `SaveSkip` and the
commit, and logs each step; the process may end and start again with an empty
log; a client reads the log. Offsets, ownership and leases are in
`PartitionDelivery`. A record whose skip was stored before a restart is below
the horizon of the next worker, so `Lookup` finds it.

## Runs

| Run | Instance | Shows |
|---|---|---|
| `eviction` | 2 clients, 2 records, one live client dropped | types, nothing lost, order, commits by one, fetching paused exactly while a batch is worked on, refinement of `OrderedDelivery` |
| `outage` | 2 clients, 3 records (0 filtered, 2 malformed); a crash, a stop, a rebalance and a closed gate, or a crash and two losses | nothing lost, no block without a cause, no skipped record sent again, only the owner's commits count, a group with progress is never given a new baseline |
| `progress` | 2 clients, 1 record; an eviction, or a stop, a closed gate and a loss; fair | every record is committed past, or the source is blocked |
| `loop` | 1 worker with 2 requests and a failing consumer; 1 worker with a request and a lease that runs out; 1 worker with a request, a failing call, a block and a shutdown; 2 workers with a block and a crash; 2 workers with a request; fair | leases cover consumers, a reported pause holds, a block stays, is written, stops every consumer for good and ends every `ready` status, the desired state is followed |
| `provision` | 2 runs and 1 worker, one configuration; an `End` and one fault of table, slot or connector, or two of the topic; fair | see below |
| `records` | 2 workers, a log of 3 entries, 1 reader; scenarios below | values, answers, waits and the log |
| `spurious_block`, `skip_resent`, `early_truncation`, `superseded`, `conflict`, `slot_recreated` | as small as shows it | the findings below |

`provision` checks that the first registration stays whatever the others do
(`RegistrationFrozen`, a refinement), that success means registered and
registered means captured at least once, that nothing temporary blocks
(`BlockedForCause`), that the two implementations of the contract agree
(`VerdictsAgree`), that repeated runs get there whatever earlier ones left
(`Established`), and that a loss is blocked (`LossIsBlocked`, see above). Two
faults of the topic let a topic be replaced or grown and short of replicas at once.

`records` has four scenarios: numbers with up to two digits on either side of
the point, zeros at either end, and every exponent up to one beyond the limit; each modelled reason to reject a
record with every filter and every shape of answer; a destination that fails
eight times, two attempts past the last ceiling; two workers that log, one of
them filtered, with a reader and a restart. `maxExpandedDigits` is 3, an integer
has 4 bits and a second is 2 units, so that all edges lie within the instance.

Bounds. Every bound is a constant: `MaxOffset` caps the log, and `Budgets` is a
set of alternatives, each with the number of faults or requests of every kind; a
behaviour has one of them. Two clients suffice for the interesting cases, a stale
owner beside a current one; two records are the least with an order between
them, and three let a loss fall in the middle. Two runs of provision give every
race; a third would repeat one of the two. Retries, failed calls of the delivery
path, polls and replies are not bounded, except the attempts of `records`.
Clients and workers are symmetric; symmetry is not used where liveness is
checked.

`CHECK_DEADLOCK FALSE` stands where the bounded system may stop: every record
committed and no fault left, or the only worker gone. The runs of `Provision` check
for deadlock.

### Fairness

- Goroutines of a live client proceed, and calls return; a call to Kafka, the
  store or the destination fails any number of times, but not forever
  (`CallFails`). The code retries without a limit, so anything less leaves the
  partition waiting by design.
- The control service keeps a consumer running for a source that is not
  blocked (`Join`, `GateUp`): its ticker fires every five seconds whatever happened
  in the last pass.
- The coordinator assigns the partition to some member and drops dead ones:
  session timeouts.
- In `Control` the loop, a started `Block` and a started consumer proceed, and
  leases of dead workers run out. Faults are bounded by the budget, so there
  is no assumption that calls succeed.

- In `Provision` calls return, workers go on inspecting, Kafka lists a topic that
  exists and Connect starts a connector that it can start, a failed or paused one
  included, which is an assumption on Connect and its operators. Nobody has to run
  `postie provision`: `Established` is about behaviours in which somebody does
  again and again.

Nothing is assumed of operators, evictions, crashes or the monitor's verdict.

## Findings

1. `spurious_block`, `adapters/kafka/consumer.go:285`. `initialize` reads the
   committed offset first and the started mark last. A dropped client that
   does not know it reads "no commit", the new owner commits the baseline and marks the
   partition, and the dropped client then finds the mark and blocks a healthy
   source, durably.
2. `skip_resent`, `delivery/worker.go:46`. The skip table is asked only for
   records below the horizon read at assignment. A dropped owner can store a
   skip above it after that; the new owner sends the record again.
3. `early_truncation`, `adapters/kafka/consumer.go:119`. The start offset is
   checked once, and the client resolves its own start later. Records deleted
   in between are passed over and committed past.
4. `superseded`, `control/service.go:266`. A pause that is resumed and asked for
   again is reported as done from the first pause's observations, while a
   worker delivers for the resume.
5. `conflict`, `provision/service.go:94`. `EnsureConnector` replaces the
   configuration that another run has set, and `awaitCapture` asks only whether
   some capture is up. With two runs that have different configurations of a
   source, one registers its own identity after the other's capture came up,
   although nothing was ever captured with it.
6. `slot_recreated`, `provision/inspect.go:138`. `inspectSlot` looks at the slot as it
   is at that moment. A slot that was dropped and that Debezium creates again
   before the next inspection passes, since the registration has nothing by which to
   tell the two apart; the changes between them are passed over. `docs/specification.md`
   says that a missing slot blocks the source and that Postie "does not silently
   skip these conditions".

Two more points show in the models without contradicting a line of the
repository. A worker stuck in `Stop` past its lease is not waited for by
`Change` and holds a consumer for a pass after it renews: `PauseHonoured`
excepts such workers (`lapsed`). `Status` stays `ready` after `Block` until
the next pass, and no longer (`BlockSpreads`).

## Proofs

`PartitionDeliveryProofs` proves, for all constants that satisfy the named
assumptions (`ClientsAssumption`, `OffsetsAssumption`, `BudgetAssumption`,
`TruncateAssumption`):

| Theorem | Statement |
|---|---|
| `TypeCorrect` | `Spec => []TypeOK` |
| `NothingLost` | `Spec => []CommittedIsSettled` |
| `InOrder` | `Spec => []DeliveredInOrder` |
| `CommitsMoveByOne` | `Spec => CommitMovesByOne` |
| `LostOwnerNeverCommits` | `Spec => OnlyOwnerCommits` |
| `ProgressNeverReset` | `Spec => NeverRebaselined` |
| `FetchedWhenIdle` | `Spec => []PausedWhileBusy` |
| `Refinement` | `Spec => ImplementsOrderedDelivery` |

All but `TypeCorrect` and `FetchedWhenIdle` assume `TruncateAnyTime = FALSE`; the run
`early_truncation` refutes `NothingLost` without it.

None of these is inductive. Several workers may hold a position at once, and
each may be stale, so the argument is about where a stale one can still be.
`IndInv` has these parts:

- `Membership`: the owner is a member, a member with a worker is the owner, and a
  commit that outlived its caller is the owner's.
- `Frontier`: everything below the highest commit is finished and decodable, and
  nothing was sent beyond that commit.
- `Workers`: every worker, stale or not, processes a record at or below the
  highest commit, was accepted by the decoder, and commits only a record that
  is finished.
- `Baseline`: a client that resolved its position while the group had no commit
  stands beyond the frontier only if the start of the partition was deleted, and
  then it never gets past `initialize`; a baseline is 0.
- `Positions`: the owner's position is the group's commit, or one behind it when
  a commit was applied and not reported; a commit left in the network repeats
  the group's commit or is the one the owner is asking for. This is what makes
  commits move by one.
- `Started`: a group with progress has its partition marked as started, which is
  what turns a lost commit into a block.
- `Bounds`: no offset exceeds `MaxOffset`, as the refinement needs.

`IndInvStep` has one case per action. The action properties follow from
`WhoCommits` (which steps change the committed offset) and the invariant.
`FetchedWhenIdle` has an invariant of its own, `Batches`: a worker that processes a
record has not reached the end of its batch, one in `resume` has, and one that has
just started has none. The
refinement maps `settled` to the acknowledged and skipped offsets and
`frontier` to the highest commit; `StepRefines` maps sends to `Attempt`,
replies and stored skips to `Settle`, and an advancing commit to `Advance`.

`OutageProofs` goes on from there, under `NoEvictions`: the coordinator drops
members that are dead, revoked or gone, and no others. Crashes, stops,
rebalances, closed gates, late commits and losses remain, and records may be
deleted from the start at any time.

| Theorem | Statement |
|---|---|
| `SkippedStaysSkipped` | `NoEvictions` implies `Spec => SkippedNotResent` |
| `BlockedOnlyForCause` | `NoEvictions` implies `Spec => []BlockedForCause` |

The runs `skip_resent` and `spurious_block` refute both with one eviction, so the
hypothesis says exactly where the code stops keeping the promise. The first one
rests on `SkipInv`: every worker is the owner's (`WorkersOwn`), offsets that are
read, asked for or committed lie within the log (`WithinLog`), and a worker that
has listed the offsets knows every skip as history or has passed it, but for the
one it is storing itself (`SkipsKnown`). The second one rests on `CauseInv`, which
speaks of a log whose start is intact, as a missing start is a cause: there
`IndInv` holds, and what the calls of `initialize` have read one after the other
is still so when it is used (`ReadsHold`). That a log with a missing start never
gets it back (`FirstNeverFalls`) makes the implication inductive, and is why
neither theorem needs `TruncateAnyTime = FALSE`; `IndInvStep` only needs that this
step deletes nothing.

`ControlProofs` proves, from `BudgetAssumption` alone:

| Theorem | Statement |
|---|---|
| `TypeCorrect` | `Spec => []TypeOK` |
| `Counted` | `Spec => []CountedWhileConsuming` |
| `PauseHolds` | `Spec => []PauseHonoured` |
| `BlockLatches` | `Spec => BlockStays` |

The argument for a pause: a worker that `SubscriptionObserved` sees has reported
a pause of this revision or a later one, and a worker it does not see has no
lease. The parts of `IndInv` make both mean that it does not consume:

- `Begun`: the row is there before any worker runs.
- `Leased`: a worker in a pass that has read the desired state, or with a
  consumer, has a lease (or let one run out); this rests on `RenewLease` coming
  before `Subscriptions`, and on `stopAll` coming before `releaseLease`.
- `Blocking`: the loop waits for the `Block` it has called.
- `Snapshots`: a pass works on the row as it is or was, and nothing the worker
  has applied or reported is newer than what its pass has read.
- `Resting`: a worker that shows a pause has no consumer, and a reported pause of
  the current revision means that it will not start one.
- `Requests`: a request waits for a revision that had its state.
- `Confirmed`: after a confirmed pause of the current revision nobody with a
  lease consumes or is in a pass that read something older.

`BlockStays` needs the types only: each of the steps that write the cached
registration or the source state keeps a block.

`ProvisionProofs` proves, from `BudgetAssumption`, `SettingsAssumption` and
`ProcessAssumption`:

| Theorem | Statement |
|---|---|
| `ProvisionTypeCorrect` | `Spec => []TypeOK` |
| `SuccessRegistered` | `Spec => []SuccessIsRegistered` |
| `RegistryImplemented` | `Spec => RegistrationFrozen` |
| `RegisteredWorked` | `Spec => []RegisteredCaptureWorked`, where all processes have the same configuration (`OneConfiguration`) |

The first three rest on `Inv`, the types with `Sound` of every run: one that goes
on after `EnsureTopic` has the ID of a topic that was created, one that validates
the stream has found it, and one past the comparison, or done, has the identity
that is registered. `RegisteredWorked` needs `WorkedInv`: a connector that is up,
and a run that has seen one up, mean that the capture of some configuration has
worked; with one configuration that is the one the run registers. The run
`conflict` refutes it without `OneConfiguration`.

`ContractProofs` adds two:

| Theorem | Statement |
|---|---|
| `SameVerdicts` | `Spec => []VerdictsAgree` |
| `NeverBlockedWithoutCause` | `Spec => []BlockedForCause`, under `OneConfiguration` |

`SameVerdicts` compares the two contracts finding by finding, for any number of
configurations. `NeverBlockedWithoutCause` needs `CauseInv`: as long as nobody has
changed table, topic, slot or connector (`~broken`), a registration is matched by
what it describes (`Matched`), the outside systems were set up in order
(`Ordered`), and every process, at every step it may be delayed or overtaken at,
has read what is still so and found nothing to block for (`Intact`). There is one
lemma for each step that could disturb this; `BrokenStays` covers the rest. With
two configurations the hypothesis is needed: a run whose configuration asks for
another identity than the registered one blocks the stream by design
(`ConfirmEstablished`), although nothing outside was changed.

`ActivityLogProofs` proves `LogTypeCorrect` and `LogFollows`
(`LogSpec => FollowsLog`) for every capacity, from `LogInv`: slot `n % Capacity` has
entry `n` for the last `Capacity` numbers `n` (`RingHoldsLast`), which is a fact
about two numbers less than a capacity apart.

`RecordDeliveryProofs` proves, from `PayloadAssumption`, `CapacityAssumption`,
`EntriesAssumption` and `ScenarioAssumption`:

| Theorem | Statement |
|---|---|
| `ImplementsLog` | `Spec => LogSpec`: every step of a worker is an `Add`, a `New`, a `Read` or none |
| `DeliveryLogFollows` | `Spec => FollowsLog`, from `ImplementsLog` and `LogFollows` |
| `DeliveryTypeCorrect` | `Spec => []TypeOK` |
| `DeliveryAnswered` | `Spec => []CommittedIsAnswered` |
| `DeliveryWaits` | `Spec => []WaitsAsDocumented` |
| `DeliveryFaithful` | `Spec => []ReceivedIsCaptured` |
| `ExpansionBounded` | an expansion adds at most `maxExpandedDigits` zeros and the one before the point |

`WorkerInv` says of every worker that what it works on was accepted by the
decoder (`PassedDecodes`), that a record with an outcome, stored or not, has a
reason for it (`Reasoned`), and that a record whose skip is stored is not on its
way to the destination (`GivenUp`), so that no later answer replaces the one the
skip rests on, also after a restart. The waits rest on lemmas about `backoff`: its
seven ceilings fit the width of a duration.

`DeliveryFaithful` rests on `Sent`: a destination has got nothing, or the decoded row
of a record that decodes, which a restart does not change. The rest is about
`Payload`. `ReceivedIsCaptured` compares two numbers by their digit at every power
of ten, so `expandDecimal` has to keep each digit's distance from the point:
`PlacePointKeeps` shows it for the three places the point may have, `TrimKeeps` for
the cut in front, and `ConvertDenotes` puts them together for every column type.
That there is a first digit that is not zero, or a last one, takes induction. The
library states it with an operator as parameter, which the provers cannot
instantiate; `LeastNatural` gets it from the theorem that proper inclusion of
finite sets is well-founded, which has none. `ScenarioAssumption` asks that numbers
are `WellFormed`, as in every JSON text.

TLC checked the invariants that carry the conditional and the content theorems
before they were proved: `SkipInv` and `CauseInv` of `OutageProofs` on the instance
of `outage` with `TruncateAnyTime = TRUE`, `CauseInv` of `ContractProofs` on that of
`provision`, `Sent` on that of `records`.

Only model-checked: the liveness properties (`EventuallyCommitted`,
`LatchReachesStore`, `ConvergesOnDesired`, `BlockSpreads`, `Established`,
`LossIsBlocked`), which need fairness. Not covered by any theorem is what a fold
computes, so `Fits` stays the definition of an integer that fits its column. All
invariants and action properties of the passing runs are proved.

## Not modelled

The operator API, which is stateless handlers; configuration, which is parsed and
validated before anything runs; the wiring, which constructs the parts. Of the
adapters, the catalog queries and the literal settings of connector and topic.
Of the protocol, the encodings of booleans, JSON, bytes and timestamps, which are
string formatting. Of provisioning, the hash that makes the resource names.
Delays other than the backoff (tickers, timeouts) are replaced by "at any time".

## Plan

Delivery and control came first because they carry the guarantees; provisioning,
the activity log and the content of a record followed. What is left, in this
order:

1. Composition of `Control` and `PartitionDelivery`: the gate and the block of
   the delivery model driven by the control loop, and two sources whose blocks
   must not affect each other.
2. The remaining column types of `ConvertValue`.
3. The safety half of the liveness properties as theorems: what a block that was
   raised, or a loss that was found, may never turn back into.
