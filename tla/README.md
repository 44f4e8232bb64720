# Verification of the Eclipse Dataspace Connector

## 1. The system and its parts

The connector lets two organisations negotiate a contract for an asset and then
transfer the asset's data.  Both activities are state machines: an entity
(`ContractNegotiation`, `TransferProcess`) is kept in a store, a manager moves it
from state to state, and everything slow (messages to the other connector,
provisioning of cloud resources) is asynchronous.  Several connector runtimes may share
a persistent store, which leases entities to them, and clients drive the connector
through the data management API.

| Component | State it keeps | Operations | Interacts with | What is hard |
|---|---|---|---|---|
| `TransferProcess`, `StatefulEntity` | state, state count, manifest, provisioned and deprovisioned resources | `transitionXxx`, `addProvisionedResource`, ... | stored and copied by the stores | transitions are checked on a copy |
| `TransferProcessManagerImpl` | none of its own: store, command queue, futures in flight | eight processors, command processing, callbacks of futures, `initiateRequest` | store, `ProvisionManager`, `DataFlowManager`, dispatcher, command queue | three kinds of threads save copies of one entity |
| `ContractNegotiation` | state, state count, agreement, offers | `transitionXxx` | stores | consumer and provider tables differ |
| Consumer and provider negotiation managers | store, futures in flight | processors, callbacks, messages of the other side | each other, over the dispatcher and the IDS endpoint | lost answers, retries, concurrent messages |
| Command queue (`BoundedCommandQueue`, `CommandProcessor`, `CommandRunner`) | bounded queue, error counts | enqueue, drain, run, enqueue again | API threads and the state-machine thread | full queue |
| `StateMachineManager`, `StateProcessorImpl`, `EntitySendRetryManager` | active flag | loop, back-off | managers | an exception aborts an iteration |
| In-memory stores | entities, lease flag | find, upsert, nextForState | managers | `upsert` does not take the lock of `nextForState` |
| Cosmos stores, stored procedures `nextForState.js` and `lease.js`, `CosmosLeaseContext` | documents, each with a lease: holder, time, duration | create, find, update (acquire, save, break), nextForState | several runtimes | expiry, crashed and late holders, lost answers, a save that does not look at the lease |
| SQL stores, `SqlLeaseContext` | rows, lease rows with holder and expiry | create, update, nextForState, lease | several runtimes | as above, in transactions |
| Data management API: controllers and services, documented in `swagger-spec.js` | none of its own | 27 operations on assets, policies, contract definitions, negotiations, agreements, transfers | stores, managers, command queues | check-then-act over several store accesses, full queues |
| Data plane (`DataPlaneManagerImpl`) | queue, in-memory store | initiateTransfer, worker loop | control plane | stop while working, completion order |
| Federated catalog cache | work queue, crawler threads, result queue | crawl, load, re-queue | providers' catalogs | partial failure of crawlers |
| Local transactions (`LocalTransactionContext`) | thread-local transaction | execute, commit, roll back | SQL stores | several data sources |
| Policy engine, IDS serialisation, DAPS, vaults, cloud provisioners | stateless or external | pure functions and I/O | | |

What makes each of them correct:

* **Transfer processes.** A process does its work in order: it is past provisioning
  only with every resource of its manifest, past deprovisioning only with none left;
  sends are retried a bounded number of times; one operation is in flight per process;
  every process ends in a state where nothing is left to do; a cancelled process stays
  cancelled; a request creates one process.
* **Negotiations.** Confirmed means agreed, on one side and on both; a decline leaves no
  agreement; sending ends.
* **Command queue.** An accepted command runs, and fails at most its number of retries.
* **Leases.** A runtime that works on an entity within the time of its lease is alone and
  its copy is current; a save is made under the saver's own lease; a crashed runtime, or a
  lost answer, does not keep an entity from being handed out for ever.
* **API.** Every answer has a reason that was true during the call; nothing is deleted
  that was found referenced.
* **Data plane.** Every accepted request is reported completed or failed, once.
* **Catalog.** Every work item is crawled or given to the error handler, and every
  result is loaded.
* **Transactions.** All resources commit or none does.

## 2. Modules

### TransferProcess

The entity.  A process is a record; `Transition(tp, end)` is the method
`transitionXxx` and `Throws(tp, end)` says when the method throws.  The two
peculiarities of `transition()` are kept: a transition to a smaller code is silently
ignored, and `ERROR`, whose code is -1, is left by no transition.

### TransferProcessManager

The manager over the in-memory store.  Each step contains at most one access to the
store; a handler that finds a process and updates it later takes two steps, and the
copy it will write lives in `tasks` between them.

| Variable | Code |
|---|---|
| `store`, `leased` | `InMemoryStatefulEntityStore.entitiesById`, `Item.leased` |
| `selected` | the `Item`s `nextForState` has picked and not marked yet |
| `creating` | a request thread between `processIdForTransferId` and `create` |
| `phase`, `pc`, `batch`, `commands` | the state-machine thread: the processor it runs and the copies or commands it still has to process |
| `queue` | `BoundedCommandQueue` |
| `tasks` | futures in flight with the copy their callback captured, and pending updates |
| `issued`, `transient` | bounds on the environment |

One action per processor (`ProcessInitial` ... `ProcessDeprovisioned`), per callback
(`ProvisionReturns`, `DeprovisionReturns`, `OperationThrows`, `SendSucceeds`,
`SendFails`, `SendFailsFinally`), per outcome of a command (`RunCommand`,
`CommandFails`) and per half of `initiateRequest`.

Provisioned resources have ids of their own, as in the code: several resources may be made
from one definition (`DefinitionOf`), because the webhook of the HTTP provisioner gives
every result it receives a new id (`HttpProvisionerWebhookApiController`, line 52).  What
is left to provision is computed by definition, what is left to deprovision by resource
id.  A failure of the vault, which stores the secret of a resource, ends in `ERROR`, for a
callback as for the command `AddProvisionedResource`.

Abstractions: addresses, secrets and policies are choices (`fatal`, `done`); timestamps are left out, so that
`nextForState` may return any `BatchSize` of the candidates and `shouldDelay` may
delay any retry; the check and the enqueue of the API service are one step.  Copies
are values, as they are with the SQL stores; the in-memory store's `copy()` shares
the resource collections between copies, which only makes results visible earlier.
External provisioners report only resources they were asked for.

### ContractNegotiation

The entity, of either type.  `Starts(n, end)` is the list of states the entity's
`transitionXxx` method accepts, empty where the method rejects the type; `Transition`
and `Throws` as above, but without a "back" check, which this entity does not have.

### ContractNegotiationManagers

Two connectors that negotiate over the IDS multipart protocol.  Every connector runs
both managers, each with a thread of its own, on one store and one command queue
(`ContractServiceExtension`), and neither `nextForState` nor the query of a processor
looks at the type of a negotiation: a "loop" is therefore a pair of a manager and the
connector (`side`) it runs on, and the provider manager's loop of the consumer's
connector competes for negotiations in `DECLINING`.

| Variable | Code |
|---|---|
| `store`, `leased` | the `InMemoryContractNegotiationStore`s of the two connectors |
| `fetched` | copies a loop has leased and not processed |
| `calls` | one record per message sent: the future of the sender with what its callback is about to save (`result`), and the handler of the receiver with what it is about to save (`received`) |
| `updates` | saves about to be made by an API thread or a command |
| `agreements`, `interventions`, `delays` | agreements created; bounds on the environment |

| Action | Code |
|---|---|
| `NextForState`, `ProcessInitial`, `Delayed`, `Send`, `SendThrows` | the processors of both managers: lease, `processInitial`, `shouldDelay` with `breakLease`, `processRequesting`/`processConfirming`/`processDeclining`, and the exception of the `ContractRejection` builder |
| `Requested`, `Confirmed`, `DeclinedById`, `DeclinedByCorrelationId`, `DeclinedUnknown`, `ReceiverSaves` | `requested`, `confirmed`, `declined`, called by the IDS handlers |
| `SendSucceeds`, `SendFails`, `SenderSaves` | `AsyncSendResultHandler` |
| `Lost` | a message whose sender gave up and that is never delivered |
| `Initiate`, `Cancel`, `Decline`, `Update` | `initiate`, `CancelNegotiationCommandHandler`, the API's decline |

A message is handled at most once, at any time after it was sent, also after its sender
timed out; its answer may be lost.  Retries make the same content arrive twice.

Abstractions: offers and validation are choices; enqueueing and running a cancel
command are one step (its find; the save is `Update`); the race of `nextForState` with
`upsert` is left to `TransferProcessManager`; a message of a sender that is still
waiting is not dropped, it stays in transit until the sender fails.  Counter offers
(`CONSUMER_OFFERING`, `CONSUMER_APPROVING`, `PROVIDER_OFFERING`, `offerReceived`,
`consumerApproved`) are left out: no message of the IDS endpoint leads to them.  The
return of `processConfirming` for an offer id that cannot be parsed
(`ProviderContractNegotiationManagerImpl`, lines 345-348) is left out too: it would leave a
negotiation leased in `CONFIRMING`, but an offer is validated, by the parts of its id,
before a negotiation gets there.  Only `SendingEnds` depends on it.

### Lease

What `StateEntityStore` and `LeaseContext` promise, as an abstract specification.  A
holder is a name, and several users (the threads of a runtime) work in one name.  A user
is granted the lease of items that are free, expired or its holder's own (`Grant`), gives
one back (`Release`), stops working (`GiveUp`), or the lease runs out (`Expire`), after
which nobody may rely on it.  `working` holds the pairs of a user and an item it works on
in reliance on the lease.  What one user gives back is lost to the others of its holder,
who do not notice: they are `misled`, and may take the lease from its next holder when
they save (`Trample`).

### CosmosStore

The Cosmos stores of transfer processes and negotiations under several runtimes, each
with any number of loops and callback threads that share its lease holder name.  The
two stored procedures run atomically in the database; `update` is three database calls
(`acquireLease`, `saveItem`, `breakLease`), each a step, each of which may fail before or
after it took effect; the retry policy may repeat a save that was already applied
(`SaveRepeats`); a runtime may crash between any two of them and start again under
its name.

| Variable | Code |
|---|---|
| `docs` | the container: is the entity in the state a loop asks for, `leasedBy`, and the age of the lease instead of `leasedAt` |
| `older` | the order of `stateTimestamp`, by which a batch is chosen |
| `pc`, `hand`, `current` | where a loop or callback thread is, the entities it has read and not yet saved, the one `update` is saving |
| `held`, `fresh` | how long a loop has had an entity, and whether anybody has saved it since (auxiliary) |
| `unguarded` | the entities a thread has in hand whose lease was given back under it: by a thread of the same runtime, by a first attempt of its own save, or by a save that had lost its own lease in this way (auxiliary) |
| `faults`, `callbacks` | bounds |

Two peculiarities of the code are kept: `lease.js` does not look at the expiry of a lease
when it is acquired, and its branch that clears the lease changes a copy that is never
written back; the lease is in fact cleared by `saveItem`, which replaces the document by
one without a lease.

Abstractions: the states of an entity are reduced to "the loop asks for it" or not, so
all loops ask for one state; retries of the other database calls are hidden in the outcome
of a call; a call under way when its runtime crashes is not applied after the crash; the
clocks are one clock.  `Overrun` lets a loop outlast its lease; what is never outlasted
is the pair of an `acquireLease` and the `saveItem` right after it (60 s apart), counted
from the latest renewal of that lease.

### DataManagementApi

The stores as the API sees them, what a successful call does to them, and for each of
the 27 operations the set of codes it may answer, each for a reason about the stores
(`Answers`).  For 25 operations the reasons are those of `swagger-spec.js` (`Documented`),
with two codes it does not list (`Unlisted`): 409 for a command that the state of the
transfer does not accept, and 503 for a full command queue.  For the other two the
services contradict the document (`Contradicted`; section 4), and the reasons are taken
from the services: the runs say nothing of the document there.

### DataManagementServices

The controllers and services.  The transaction context of the default runtime does
nothing, so every access to a store is a step, and calls of several clients interleave
with each other and with the managers (`Background`).  `call` is the thread of a client;
`could` and `free` remember, for every call under way, which answers were right and of
which references the id was free at some moment (auxiliary).  `declined` looks for the
id and then, in a second access, for a negotiation with that correlation id, and saves the
one it found; `findForCorrelationId` of the in-memory store hands out the stored object, so
that the transition is in the store before the save.  A query, which traverses a
concurrent map, is one access.  An agreement is named by its negotiation; of a
negotiation and a transfer the model keeps what the API asks for (can it be declined,
what is its correlation id, which commands does it accept, for which request was it
created).  A save by the managers may be of a copy that is older than the stored one.

## 3. Runs

| Run | Checks | Shows |
|---|---|---|
| `transfer_records` | `TypeOK`, `ProvisionedIsComplete`, `RetriesBounded`, `IndInv` | stale copies never let a process skip provisioning |
| `transfer_leases` | `OneOperationInFlight`, `DeprovisionedIsComplete`, `TransferNeverRepeated`, `ExclusionInv` | leases exclude a second operation, no part of a transfer is done twice, and no resource is left when a process is deprovisioned |
| `transfer_settles` | `EventuallySettles` | no lease is lost on a process with work to do |
| `transfer_cancel_lost` | `CancelledIsFinal` (violated) | a provisioning callback undoes a cancel |
| `transfer_back` | `NeverBack` (violated) | a repeated deprovision request takes a deprovisioned process back |
| `negotiation_records` | `TypeOK`, `AgreementMeansConfirmed`, `AttemptsBounded`, `ConfirmedOnBothSides`, `NeverRequestedAgain`, `IndInv`, `AnswerInv` | late, lost and repeated messages never separate a confirmation from its agreement, nor the provider's from the consumer's answer |
| `negotiation_sending_ends` | `SendingEnds` | with delayed retries, requests and agreements are not sent for ever, nor forgotten |
| `negotiation_agreements_differ` | `SameAgreement` (violated) | both sides CONFIRMED, with different agreements |
| `cosmos_leases` | `TypeOK`, `SaveUnderOwnLease`, `ExclusiveUntilExpiry`, `StaleOnlyAfterExpiry`, `ImplementsLease`, `HandedOut` | crashes, lost answers, late and repeated saves break no running lease of another runtime, and no entity is forgotten |
| `cosmos_one_instance` | `OneInstanceAtATime` (violated) | two runtimes work on one entity within the time of their leases |
| `api_answers` | `TypeOK`, `AnswerWasTrue`, `DeletedUnreferenced` | every answer and every deletion had its reason during the call |
| `api_policy_in_use` | `PolicyDeletedUnreferenced` (violated) | a policy referenced at every moment of the call is deleted |

`MCTransferProcessManager`, `MCCosmosStore` and `MCDataManagementServices` name the sets
the runs use; the negotiation runs need none and use their module directly.

**Bounds.**  The races are between threads that hold copies of one entity, so one process
with two callback threads and up to three commands, or one negotiation on each side,
exhibits them; `transfer_settles` needs two processes in one batch.  `transfer_records`
issues two commands of every kind, and one definition may be reported twice, under two
resource ids.  Two commands are needed where the second meets what the first started: with
one, `NeverBack` holds.  `transfer_leases` issues up to three, of every kind but
`AddProvisionedResource` (section 4 says why), with two resource ids per definition.  Two
resource definitions make partial provisioning possible.  `RetryLimit = 1` gives a first attempt, a
retry, and the attempt that exhausts the limit; `MaxAgreements = 2` one agreement per
attempt.  `MaxDelays`, `MaxTransient`, `MaxCommands` and `MaxInterventions` bound choices
of the environment.  With one provider id the second of two repeated requests stays
undelivered; the theorems hold for any number.  A queue of capacity 1 makes the
re-enqueueing of a failed command meet a full queue.  Callback threads are
interchangeable in `transfer_records`, and so are definitions in `transfer_leases`, where
each has two resources; both are treated as symmetric there (no liveness is checked).  The
negotiation runs disable the deadlock check: two settled negotiations have nothing left to
do.

The Cosmos runs have two runtimes with a loop each, a callback at the first, which shares
that runtime's name with its loop, and two documents that fit in one batch, so that one
document can be saved while the other waits with its lease running.  A lease lasts one
tick, which separates "has not run out", "runs out now" and "has run out".
`MaxFaults = 1` admits one crash, lost call, repeated save or overrun at any place;
`cosmos_one_instance` needs none.  The theorems admit any number of faults and any
assignment of threads to runtimes.

The API runs have two clients.  Operations that share no store cannot disturb each other,
so each behaviour draws its calls from one of four groups (`Workloads`); in the theorems
the groups are arbitrary sets of operations, all of them together included.  A queue of
capacity 1 is full after one command.  Two negotiation ids let one negotiation have the
other id as its correlation id; clients and negotiations are symmetric.
`api_policy_in_use` needs two contract definitions that exchange their references.

**Fairness.**  The executor of `StateMachineManager` runs the loop again after every
iteration, also after an exception, so each loop is weakly fair; every future completes,
with an answer, an exception or the timeout of the HTTP client, so callbacks are; and a
thread that found an entity goes on to save it.  Nothing is assumed of the network (a
message may never be delivered), of request threads or of the API.  For the Cosmos store
the same holds of the loops' `nextForState` and of an `update` under way, and time passes;
nobody has to restart a runtime that crashed, so `HandedOut` rests on the other runtimes
and the expiry of leases.

## 4. What the violated properties show

* `CancelledIsFinal`: `handleProvisionResult` finds the process and updates it in two
  steps, on the thread of a future.  It finds it `PROVISIONING`, the cancel command saves
  `CANCELLED`, and the callback saves `PROVISIONED` (`TransferProcessManagerImpl`, line
  478).  `sendConsumerRequestSuccess` and `sendCustomerRequestFailure` (line 634) do the
  same with the copy fetched before the send.
* `NeverBack`: `transition()` refuses to go "back" on the copy it is called on, but the
  handler of a deprovision request finds the process and updates it in two steps.  If the
  result of deprovisioning is saved between them, a `DEPROVISIONED` process is
  `DEPROVISIONING` again and is deprovisioned a second time.
* `SameAgreement`: `processConfirming` creates a new agreement at every attempt and keeps
  it only when the answer arrives.  After a lost answer the two sides hold different
  ones.
* `OneInstanceAtATime`: a lease names the runtime, and a save replaces the document by one
  without a lease.  A callback at the runtime whose loop works on an entity passes the
  check of `lease.js` and saves; the entity is free, and the loop of another runtime is
  handed it while the first still works, well within its lease.
  `docs/developer/state-machine.md` promises that an entity "is processed by only one EDC
  instance at a time".  What does hold is in `cosmos_leases` and the theorems: nobody but a
  thread of the same runtime, or a save that lost its lease to one (`unguarded`), takes a
  lease away before it has run out.
* `PolicyDeletedUnreferenced`: `PolicyDefinitionServiceImpl.deleteById` asks for
  references as contract policy and as access policy in two queries.  Between them one
  definition may be added and another deleted, so that the policy was referenced all the
  time and is deleted.

Seen while modelling, without a run of its own:

* When the asset is not found, `processInitial` of the transfer manager does not return
  after `transitionToError`; the exception ends the iteration and the rest of the batch
  stays leased in memory, for ever.
* `initiateRequest` means to be idempotent ("make the request idempotent: if the process
  exists, return"), but looks up and creates in two store accesses: two concurrent
  requests create two processes.  So it is with `create` of assets, policies and contract
  definitions: the second of two concurrent calls overwrites the first and both are
  answered 200.
* `swagger-spec.js` promises 404 when a negotiation to be declined does not exist (line
  806); `decline` answers 409.  Worse, `findContractNegotiationById` falls back to the
  correlation id: `declineNegotiation` with the id of a counter-party's negotiation is
  answered 200 and declines the local negotiation correlated with it.
* `swagger-spec.js` promises "the contract agreement that is attached to the negotiation,
  or null" (line 677) for a negotiation that exists; the controller answers 404 when there
  is no agreement.
* A consumer negotiation in `DECLINING` that the provider manager's loop fetches has no
  correlation id; the builder of the rejection throws and the lease is never broken.
* The consumer answers an agreement before it rejects it; the rejection may be handled
  between find and save of the provider's callback, which then confirms again.
* Declining through the API saves the negotiation as it was read, and can erase an
  agreement confirmed meanwhile.
* `OneOperationInFlight` and `TransferNeverRepeated` fail once external provisioners
  report results late, by the command `AddProvisionedResource`: its handler saves the
  process, which breaks the lease under which a provision operation is in flight, and the
  callback of that operation and the handler save copies of different age.  Both
  properties are therefore stated for deployments without that command
  (`NoLateProvisioning`).
* `DeprovisionedIsComplete` fails in the same deployments: a result that is reported again,
  or late, after the process was deprovisioned is added under a new id, and nobody
  deprovisions that resource.
* A repeated deprovision request breaks the lease in the same way, so that two
  deprovision operations may overlap; `OneOperationInFlight` allows it.
* The Javadoc of `CancelTransferCommandHandler` (line 25) says a cancelled process goes to
  `ERROR`, the code takes it to `CANCELLED`.
* `ProviderContractNegotiationManager` says "All operations are idempotent.", yet a
  repeated request creates a second negotiation.
* A cancel of a negotiation can be lost like that of a transfer, as two managers share
  queue and store; declining a `CONFIRMED` provider negotiation through the API keeps its
  agreement, declining it by message drops it.

## 5. Proofs

The modules `...Proofs` prove, for every value of the constants that satisfies the
assumptions stated with them (disjoint ids, natural bounds, positive batch sizes, lease
durations and queue capacities, a null that is nothing else):

| Module | Theorem | Property |
|---|---|---|
| `TransferProcessManagerProofs` | `IndInvHolds` | `IndInv` |
| | `TypeCorrect` | `TypeOK` |
| | `ProvisioningCorrect` | `ProvisionedIsComplete` |
| | `RetriesCorrect` | `RetriesBounded` |
| `TransferExclusionProofs` | `ExclusionHolds` | `ExclusionInv` |
| | `OneOperationAtATime` | `OneOperationInFlight` |
| | `DeprovisioningCorrect` | `DeprovisionedIsComplete` |
| | `TransferNotRepeated` | `TransferNeverRepeated` |
| `ContractNegotiationManagersProofs` | `IndInvHolds` | `IndInv` |
| | `TypeCorrect` | `TypeOK` |
| | `AgreementsCorrect` | `AgreementMeansConfirmed` |
| | `AttemptsCorrect` | `AttemptsBounded` |
| `ContractNegotiationAnswersProofs` | `AnswersHold` | `AnswerInv` |
| | `ConfirmedOnBoth` | `ConfirmedOnBothSides` |
| | `RequestedOnce` | `NeverRequestedAgain` |
| `LeaseProofs` | `LeaseExcludes` | `WorkUnderLease`, of the abstract lease |
| `CosmosStoreProofs` | `TypeCorrect` | `TypeOK` |
| | `SavesAreCovered` | `SaveUnderOwnLease` |
| | `Exclusive` | `ExclusiveUntilExpiry` |
| | `NeverStale` | `StaleOnlyAfterExpiry` |
| | `LeasesRefine` | `ImplementsLease` |
| `DataManagementServicesProofs` | `TypeCorrect` | `TypeOK` |
| | `AnswersAreTrue` | `AnswerWasTrue` |
| | `DeletionsAreChecked` | `DeletedUnreferenced` |

**Transfers and negotiations.**  The argument is the same in both.  Any thread may
overwrite the store with an old copy, so nothing can be said of the store alone: the
invariant says of EVERY copy in the hands of a thread that it is `Sound` by itself.  For
transfer processes that is not enough, because a provisioning result is added to the
stored process, or to one of its copies, and compared with the manifest: `Held` adds that
a copy agrees with the store on the manifest, which is set once, `TaskInv` in which state
a process was when its operation started, and `CommandInv` that queued results are about
resources of the manifest.  For negotiations `Sound` adds which states a type can be in
(only consumers request), `RecordOK` that a copy's links lead to stored negotiations, and
`CallOK` that a message names stored negotiations, the consumer's unless it is a
rejection, and carries its agreement.  One lemma per action shows that it preserves the
invariant; the lemmas before them say what the entity's transitions, the callbacks and the
handlers make of a sound record.

**One thread at a time.**  `OneOperationInFlight` and `TransferNeverRepeated` need to know
who may still save a process.  The lease alone does not say it: a cancel command saves the
process and so breaks the lease under an operation in flight, and from `DEPROVISIONING` on
commands, loop and callbacks do overlap.  `ExclusionInv` therefore gives each process one
of two modes.  `Over`: the stored process and every copy of it are outside the transfer
proper, and no step leads back.  `Exclusive`: the stored process is in the transfer
proper, cancelled or failed, and at most one of the loop and the callbacks has it, the loop
with a copy equal to the stored process (`LoopAlone`), a callback under the lease or after a
cancel (`CallbackAlone`); beside them the command handler, which is the loop's own thread,
can only be about to cancel, or to begin the deprovisioning of a completed process
(`CommandAlone`).  Between the selection and the marking of `nextForState` the ids in
`selected` count as leased.  The invariant also says that a thread has one task and that
queued deprovisioning results are about transfers that are over (`ReleaseOnly`).  For every
process a step either adds nothing about it (`Elsewhere`) or is the step of the thread that
has it; both properties follow.  `DeprovisionedIsComplete` needs the same premise, since
only a late result adds a resource to a process that is past deprovisioning.  The theorems
of this module assume `NoLateProvisioning`; section 4 shows that they must.

**Requests and answers.**  `ConfirmedOnBothSides` relates the stores of two connectors
through messages that may be late.  `AnswerInv` splits consumers in the same way:
`StillRequests`, where one thread at a time has the negotiation, and `HasRequested`, after
the first answer, where every copy that somebody can still save is itself an answer.  An
agreement answered with "ok" was handled by a consumer in the second mode (`Answered`),
which is never left, so the provider's callback may rely on it at any later time.  That
`StillRequests` is not entered again is `NeverRequestedAgain`.  The theorems need no
assumption beyond those of the constants.

**Leases.**  `SaveUnderOwnLease` and the like are not inductive: that a runtime still
holds a lease depends on what the others may do to the document.  `ControlInv` says which
entities a thread has at which point of its program.  Every step then has one of four
forms: it leaves the leases alone (`QuietForm`), leases documents to one thread that may
lease them (`LeaseForm`), saves a document and so removes its lease (`SaveForm`), or lets
time pass.  `CoverInv` says that a thread that counts on a lease which was not given back
under it has the lease, unexpired, and that a loop's lease is no older than the time the
loop has had the entity.  A save under the saver's own lease leaves the threads of other
runtimes covered, since the lease was not theirs, and those of its own runtime become
`unguarded`; a save that has lost its own lease makes everybody so.  `FreshInv` says that a
copy is never both unguarded and the stored one.  Nothing is assumed of which thread is at
which runtime.  The refinement follows form by form: `Grant` for a lease, `Release` or
`Trample` for a save, `Expire` for the clock, `GiveUp` for the rest.  `LeaseExcludes` says
what the abstract lease is good for.

**API.**  `CallInv` says of every call under way which operation can be at which step
(`ControlOf`), that what is right now is remembered, and that what an earlier step of the
call has found out is among it (`HistoryOf`): a call that waits to save, to enqueue or to
decline was once right to answer 200, one that goes on to look for a correlation id was
once right to answer 409, one that waits to delete was once free of references.

Only model-checked: the liveness properties `EventuallySettles`, `SendingEnds` and
`HandedOut`, which need fairness and so are out of the prover's reach.

## 6. Not modelled

* SQL stores, data plane, federated catalog, local transactions: not yet.
* Of the API document: schemas, and the operations of other extensions (catalogs, data
  plane instances and transfers, health checks, tokens, identity hub; the callbacks of the
  HTTP provisioner are commands of `TransferProcessManager`).
* The Swagger UI, a vendored browser application.
* `delete` of the Cosmos stores, which nothing calls, and their queries.
* Start and stop of the state machines, wait strategies, timestamps: delays are choices.
* Listeners, events, telemetry: they observe.
* Policy evaluation, validation of offers, address resolution: choices of the model.
* Serialisation, tokens, vaults, cloud provisioners, HTTP: I/O, reduced to its outcomes.
* Extension loading: sequential start-up without shared state.

## 7. Plan

1. *SQL leases.* `SqlLeaseContext` and the SQL `nextForState` as a second implementation
   of `Lease`.  To look at there: `acquireLease` deletes by entity id, `breakLease` by
   lease id.
2. *Refinement of the managers.* The lifecycle of a transfer process and of a pair of
   negotiations as seen from outside, and the refinement by the managers where it holds.
3. *Command queue.* `BoundedCommandQueue`, `CommandProcessor`, `CommandRunner` as a module
   of their own: an accepted command is run, counted failures, a full queue.
4. *Data plane.* `DataPlaneManagerImpl`: request threads, workers, the store, stop; the
   order of enqueue and `received`.
5. *Local transactions.* Commit and rollback over several resources, and the API services
   under them.
6. *Catalog.* Crawlers, work queue, loader.
7. *Larger negotiations.* Two provider negotiations per request.
