------------------------ MODULE TransferProcessManager ------------------------
(***************************************************************************)
(* TransferProcessManagerImpl over the in-memory TransferProcessStore.     *)
(*                                                                         *)
(* Three kinds of threads share the store:                                 *)
(*   - request threads, which create processes and enqueue commands;       *)
(*   - the single state-machine thread, which runs the processors of       *)
(*     start() in order, each on a batch of leased copies, and then the    *)
(*     commands drained from the command queue;                            *)
(*   - callback threads, which complete the futures of provision(),        *)
(*     deprovision() and send().                                           *)
(* Every step below contains at most one access to the store: a handler    *)
(* that finds a process and later updates it takes two steps, and what it  *)
(* will write is kept in "tasks" in between.                               *)
(***************************************************************************)
EXTENDS TransferProcess, Sequences, FiniteSetsExt

CONSTANTS
  Clients,        \* request threads calling initiateRequest
  Callbacks,      \* threads that complete futures: operations in flight
  SM,             \* the state-machine thread
  CommandKinds,   \* the commands issued in this deployment
  BatchSize,      \* entities leased by one nextForState
  RetryLimit,     \* send attempts that may fail and be retried
  QueueCapacity,  \* bound of the command queue
  DequeueSize,    \* commands drained per iteration
  MaxRetry,       \* Command.getMaxRetry()
  AssetsResolve,  \* whether DataAddressResolver finds every asset
  MaxCommands,    \* bound: commands issued in a behaviour
  MaxTransient    \* bound: answers that ask the manager to try again

AllCommandKinds ==
  {"CancelTransfer", "DeprovisionRequest", "AddProvisionedResource",
   "DeprovisionComplete"}

ASSUME ManagerAssumption ==
  /\ CommandKinds \subseteq AllCommandKinds
  /\ SM \notin Callbacks
  /\ {BatchSize, QueueCapacity, DequeueSize, MaxRetry} \subseteq Nat \ {0}
  /\ {RetryLimit, MaxCommands, MaxTransient} \subseteq Nat
  /\ AssetsResolve \in BOOLEAN

VARIABLES
  store,      \* entitiesById: the stored processes
  leased,     \* ids whose stored Item is leased
  creating,   \* requests found to be new, not created yet, per client
  phase,      \* the processor the state-machine thread is at
  pc,         \* where it is in that processor
  batch,      \* copies fetched and not processed yet
  selected,   \* ids picked by nextForState whose Item is not marked yet
  queue,      \* the command queue
  commands,   \* commands drained and not run yet
  tasks,      \* operations in flight and updates about to be made
  issued,     \* number of commands issued
  transient   \* number of transient answers given

storeVars == <<store, leased, selected>>
loopVars == <<phase, pc, batch, commands>>
vars == <<store, leased, creating, phase, pc, batch, selected, queue,
          commands, tasks, issued, transient>>

CommandType ==
  [kind : AllCommandKinds, id : Processes, resource : Resources \cup {Null},
   errorCount : Nat]

Operations == {"provision", "deprovision", "send"}

TaskType ==
  [thread : Callbacks \cup {SM}, kind : Operations \cup {"update"},
   tp : TransferProcessType]

-----------------------------------------------------------------------------
(* The store *)

Find(id) == store[id]

(* A new, unleased Item replaces the stored one. *)
Upsert(tp) ==
  /\ store' = [id \in DOMAIN store \cup {tp.id} |->
                 IF id = tp.id THEN tp ELSE store[id]]
  /\ leased' = leased \ {tp.id}
  /\ selected' = selected \ {tp.id}

ProcessIdForTransferId(transfer) ==
  {id \in DOMAIN store : store[id].req.transfer = transfer}

(* Mutant: the lease filter is missing. *)
CandidatesIgnoringLease(state) == {id \in DOMAIN store : store[id].state = state}

Candidates(state) ==
  {id \in DOMAIN store : store[id].state = state /\ id \notin leased}

-----------------------------------------------------------------------------
(* initiateConsumerRequest / initiateProviderRequest: look up, then create *)

InitiateRequestLookup(c, req) ==
  /\ c \notin DOMAIN creating
  /\ ProcessIdForTransferId(req.transfer) = {}
  /\ creating' = [k \in DOMAIN creating \cup {c} |->
                    IF k = c THEN req ELSE creating[k]]
  /\ UNCHANGED <<storeVars, loopVars, queue, tasks, issued, transient>>

InitiateRequestCreate(c, id) ==
  /\ c \in DOMAIN creating
  /\ id \notin DOMAIN store
  /\ Upsert(NewTransferProcess(id, creating[c]))
  /\ creating' = [k \in DOMAIN creating \ {c} |-> creating[k]]
  /\ UNCHANGED <<loopVars, queue, tasks, issued, transient>>

-----------------------------------------------------------------------------
(* Commands are issued by the API and by external provisioners *)

NewCommand(kind, id, resource) ==
  [kind |-> kind, id |-> id, resource |-> resource, errorCount |-> 0]

(* TransferProcessServiceImpl.cancelImpl and deprovisionImpl try the       *)
(* transition on a copy before they enqueue; a provisioner reports, under  *)
(* an id of its choice and as often as it likes, a resource made from a    *)
(* definition of the manifest, and the release of a resource it provided.  *)
Acceptable(cmd) ==
  LET tp == Find(cmd.id) IN
  CASE cmd.kind = "CancelTransfer" ->
         cmd.resource = Null /\ ~Throws(tp, CANCELLED)
    [] cmd.kind = "DeprovisionRequest" ->
         cmd.resource = Null /\ ~Throws(tp, DEPROVISIONING)
    [] cmd.kind = "AddProvisionedResource" ->
         /\ tp.manifest # Null /\ cmd.resource \in Resources
         /\ DefinitionOf[cmd.resource] \in tp.manifest
    [] cmd.kind = "DeprovisionComplete" ->
         tp.state \in {DEPROVISIONING, DEPROVISIONED, ENDED}
           /\ cmd.resource \in tp.provisioned

(* BoundedCommandQueue.enqueue: add() throws when the queue is full. *)
Enqueue(cmd) ==
  /\ Len(queue) < QueueCapacity
  /\ queue' = Append(queue, cmd)

IssueCommand(kind, id, resource) ==
  /\ issued < MaxCommands
  /\ id \in DOMAIN store
  /\ Acceptable(NewCommand(kind, id, resource))
  /\ Enqueue(NewCommand(kind, id, resource))
  /\ issued' = issued + 1
  /\ UNCHANGED <<storeVars, loopVars, creating, tasks, transient>>

-----------------------------------------------------------------------------
(* The loop of the state-machine thread *)

(* The states of the processors of start(), in order; commands come last. *)
Processors ==
  <<INITIAL, PROVISIONING, PROVISIONED, REQUESTING, REQUESTED, IN_PROGRESS,
    DEPROVISIONING, DEPROVISIONED>>

CommandPhase == 9

(* Mutant: the loop does not start over. *)
NextPhaseNoWrap == phase + 1

NextPhase == IF phase = CommandPhase THEN 1 ELSE phase + 1

Idle(thread) == \A t \in tasks : t.thread # thread

(* nextForState picks the entities under the store's lock, but upsert()    *)
(* does not take the lock: the Items are marked as leased in a later step. *)
NextForState ==
  /\ pc = "select" /\ phase # CommandPhase
  /\ Idle(SM)
  /\ LET candidates == Candidates(Processors[phase]) IN
     \E ids \in SUBSET candidates :
       /\ Cardinality(ids) = Min({BatchSize, Cardinality(candidates)})
       /\ batch' = {store[id] : id \in ids}
       /\ selected' = ids
       /\ IF ids = {} THEN phase' = NextPhase /\ pc' = "select"
                      ELSE phase' = phase /\ pc' = "lease"
  /\ UNCHANGED <<store, leased, creating, queue, commands, tasks, issued,
                 transient>>

(* Mutant: the fetched entities are not leased. *)
LeaseForgotten ==
  /\ pc = "lease"
  /\ selected' = {}
  /\ pc' = "process"
  /\ UNCHANGED <<store, leased, creating, phase, batch, queue, commands, tasks,
                 issued, transient>>

Lease ==
  /\ pc = "lease"
  /\ leased' = leased \cup selected
  /\ selected' = {}
  /\ pc' = "process"
  /\ UNCHANGED <<store, creating, phase, batch, queue, commands, tasks,
                 issued, transient>>

(* Process the fetched copy tp of an entity that was in the given state. *)
Processing(tp, state) ==
  /\ pc = "process" /\ phase # CommandPhase
  /\ Processors[phase] = state
  /\ tp \in batch

(* tp is done: go on with the batch, or with the next processor. *)
Processed(tp) ==
  /\ batch' = batch \ {tp}
  /\ IF batch' = {} THEN phase' = NextPhase /\ pc' = "select"
                    ELSE phase' = phase /\ pc' = "process"
  /\ UNCHANGED <<creating, queue, commands, issued>>

(* performLogic catches the exception: the rest of the batch and of the    *)
(* iteration is skipped, and the entities of the batch stay leased.        *)
Aborted ==
  /\ batch' = {} /\ commands' = <<>>
  /\ phase' = 1 /\ pc' = "select"
  /\ UNCHANGED <<creating, queue, issued>>

(* Start an asynchronous operation; its callback gets the fetched copy. *)
Start(kind, tp) ==
  \E c \in Callbacks :
    /\ Idle(c)
    /\ tasks' = tasks \cup {[thread |-> c, kind |-> kind, tp |-> tp]}

(* An answer that makes no progress; MaxTransient of them in a behaviour. *)
TransientAnswer ==
  /\ transient < MaxTransient
  /\ transient' = transient + 1

-----------------------------------------------------------------------------
(* The processors *)

(* Policy evaluation yields a manifest; on a consumer it may fail. *)
ProcessInitial(tp) ==
  /\ Processing(tp, INITIAL)
  /\ \/ \E manifest \in SUBSET Definitions :
          Upsert(TransitionProvisioning(tp, manifest))
     \/ ~IsProvider(tp) /\ Upsert(TransitionError(tp))
  /\ Processed(tp)
  /\ UNCHANGED <<tasks, transient>>

(* No address for the asset: the process is saved in ERROR, and then the   *)
(* transition to PROVISIONING of the same object throws.                   *)
ProcessInitialAssetNotFound(tp) ==
  /\ Processing(tp, INITIAL)
  /\ ~AssetsResolve /\ IsProvider(tp)
  /\ Upsert(TransitionError(tp))
  /\ Throws(TransitionError(tp), PROVISIONING)
  /\ Aborted
  /\ UNCHANGED <<tasks, transient>>

ProcessProvisioning(tp) ==
  /\ Processing(tp, PROVISIONING)
  /\ Start("provision", tp)
  /\ Processed(tp)
  /\ UNCHANGED <<storeVars, transient>>

ProcessProvisionedConsumer(tp) ==
  /\ Processing(tp, PROVISIONED)
  /\ ~IsProvider(tp)
  /\ Upsert(Transition(tp, REQUESTING))
  /\ Processed(tp)
  /\ UNCHANGED <<tasks, transient>>

(* processProviderRequest: the data flow starts, must be retried or fails. *)
ProcessProviderRequest(tp) ==
  /\ Processing(tp, PROVISIONED)
  /\ IsProvider(tp)
  /\ \/ Upsert(TransitionInProgressOrStreaming(tp)) /\ UNCHANGED transient
     \/ Upsert(Transition(tp, PROVISIONED)) /\ TransientAnswer
     \/ Upsert(TransitionError(tp)) /\ UNCHANGED transient
  /\ Processed(tp)
  /\ UNCHANGED tasks

(* shouldDelay: only after a failed attempt, until its back-off is over. *)
ProcessRequestingDelayed(tp) ==
  /\ Processing(tp, REQUESTING)
  /\ tp.stateCount > 1
  /\ Upsert(tp)
  /\ TransientAnswer
  /\ Processed(tp)
  /\ UNCHANGED tasks

SendConsumerRequest(tp) ==
  /\ Processing(tp, REQUESTING)
  /\ Start("send", tp)
  /\ Processed(tp)
  /\ UNCHANGED <<storeVars, transient>>

(* Managed resources that were not provisioned leave the entity leased. *)
ProcessRequested(tp) ==
  /\ Processing(tp, REQUESTED)
  /\ IF ~tp.req.managed \/ tp.provisioned # {}
     THEN Upsert(TransitionInProgressOrStreaming(tp))
     ELSE UNCHANGED storeVars
  /\ Processed(tp)
  /\ UNCHANGED <<tasks, transient>>

(* A provider, or a consumer without a checker for its managed resources,  *)
(* is left leased.                                                         *)
ProcessInProgressIgnored(tp) ==
  /\ Processing(tp, IN_PROGRESS)
  /\ IsProvider(tp) \/ (~tp.req.checked /\ tp.req.managed)
  /\ Processed(tp)
  /\ UNCHANGED <<storeVars, tasks, transient>>

(* No checker and no managed resources, or a checker that says complete. *)
ProcessInProgressCompleted(tp) ==
  /\ Processing(tp, IN_PROGRESS)
  /\ ~IsProvider(tp) /\ (tp.req.checked \/ ~tp.req.managed)
  /\ Upsert(Transition(tp, COMPLETED))
  /\ Processed(tp)
  /\ UNCHANGED <<tasks, transient>>

(* Mutant: the lease is not broken when the checker says not complete. *)
ProcessInProgressStillLeased(tp) ==
  /\ Processing(tp, IN_PROGRESS)
  /\ ~IsProvider(tp) /\ tp.req.checked
  /\ TransientAnswer
  /\ Processed(tp)
  /\ UNCHANGED <<storeVars, tasks>>

ProcessInProgressNotCompleted(tp) ==
  /\ Processing(tp, IN_PROGRESS)
  /\ ~IsProvider(tp) /\ tp.req.checked
  /\ Upsert(tp)
  /\ TransientAnswer
  /\ Processed(tp)
  /\ UNCHANGED tasks

ProcessDeprovisioning(tp) ==
  /\ Processing(tp, DEPROVISIONING)
  /\ Start("deprovision", tp)
  /\ Processed(tp)
  /\ UNCHANGED <<storeVars, transient>>

ProcessDeprovisioned(tp) ==
  /\ Processing(tp, DEPROVISIONED)
  /\ Upsert(Transition(tp, ENDED))
  /\ Processed(tp)
  /\ UNCHANGED <<tasks, transient>>

-----------------------------------------------------------------------------
(* Results of operations *)

(* Mutant: one answer is enough to be provisioned. *)
ProvisionResultPartial(tp, done, fatal) ==
  LET updated == AddProvisionedResources(tp, done) IN
  IF fatal THEN TransitionError(updated)
  ELSE IF done # {} THEN Transition(updated, PROVISIONED)
  ELSE updated

(* handleProvisionResult: done are the resources provisioned; fatal, that  *)
(* a provisioner or the vault reported a fatal error.                      *)
ProvisionResult(tp, done, fatal) ==
  LET updated == AddProvisionedResources(tp, done) IN
  IF fatal THEN TransitionError(updated)
  ELSE IF ProvisioningComplete(updated) THEN Transition(updated, PROVISIONED)
  ELSE updated

(* Mutant: resources still in process do not keep the process waiting. *)
DeprovisionResultPartial(tp, done, fatal) ==
  LET updated == AddDeprovisionedResources(tp, done) IN
  IF fatal THEN TransitionError(updated) ELSE Transition(updated, DEPROVISIONED)

(* handleDeprovisionResult, and when its transition throws *)
DeprovisionResult(tp, done, fatal) ==
  LET updated == AddDeprovisionedResources(tp, done) IN
  IF fatal THEN TransitionError(updated)
  ELSE IF DeprovisionComplete(updated) THEN Transition(updated, DEPROVISIONED)
  ELSE updated

DeprovisionResultThrows(tp, done) ==
  LET updated == AddDeprovisionedResources(tp, done) IN
  DeprovisionComplete(updated) /\ Throws(updated, DEPROVISIONED)

(* Task t goes on to update tp. *)
GoesOnToUpdate(t, tp) ==
  tasks' = (tasks \ {t}) \cup {[thread |-> t.thread, kind |-> "update", tp |-> tp]}

(* What came of the items an operation had to do: some are done, the       *)
(* others failed (fatally or not) or are still in process; a fatal error   *)
(* may also come from the vault, with every item done.                     *)
Answer(todo, done, fatal) ==
  /\ done \subseteq todo
  /\ fatal => todo # {}
  /\ IF ~fatal /\ done # todo THEN TransientAnswer ELSE UNCHANGED transient

(* A provisioner answers a definition with one resource. *)
OnePerDefinition(rs) ==
  \A r1, r2 \in rs : DefinitionOf[r1] = DefinitionOf[r2] => r1 = r2

ProvisionReturns(t) ==
  /\ t.kind = "provision"
  /\ LET found == Find(t.tp.id)
         todo == GetResourcesToProvision(t.tp) IN
     \E done \in SUBSET Resources, fatal \in BOOLEAN :
       /\ OnePerDefinition(done)
       /\ Answer(todo, {DefinitionOf[r] : r \in done}, fatal)
       /\ IF found.state = ERROR
          THEN tasks' = tasks \ {t}
          ELSE GoesOnToUpdate(t, ProvisionResult(found, done, fatal))
  /\ UNCHANGED <<storeVars, loopVars, creating, queue, issued>>

DeprovisionReturns(t) ==
  /\ t.kind = "deprovision"
  /\ LET found == Find(t.tp.id)
         todo == GetResourcesToDeprovision(t.tp) IN
     \E done \in SUBSET todo, fatal \in BOOLEAN :
       /\ Answer(todo, done, fatal)
       /\ IF \/ found.state = ERROR
             \/ ~fatal /\ DeprovisionResultThrows(found, done)
          THEN tasks' = tasks \ {t}
          ELSE GoesOnToUpdate(t, DeprovisionResult(found, done, fatal))
  /\ UNCHANGED <<storeVars, loopVars, creating, queue, issued>>

(* A future that completes exceptionally: transitionToError(id, ...). *)
OperationThrows(t) ==
  /\ \/ t.kind = "provision" /\ GetResourcesToProvision(t.tp) # {}
     \/ t.kind = "deprovision" /\ GetResourcesToDeprovision(t.tp) # {}
  /\ GoesOnToUpdate(t, TransitionError(Find(t.tp.id)))
  /\ UNCHANGED <<storeVars, loopVars, creating, queue, issued, transient>>

(* sendConsumerRequestSuccess updates the copy fetched before the request. *)
SendSucceeds(t) ==
  /\ t.kind = "send"
  /\ Upsert(Transition(t.tp, REQUESTED))
  /\ tasks' = tasks \ {t}
  /\ UNCHANGED <<loopVars, creating, queue, issued, transient>>

(* Mutant: one retry too many. *)
RetriesExhaustedLate(tp) == tp.stateCount > RetryLimit + 1

RetriesExhausted(tp) == tp.stateCount > RetryLimit

(* sendCustomerRequestFailure *)
SendFails(t) ==
  /\ t.kind = "send" /\ ~RetriesExhausted(t.tp)
  /\ Upsert(Transition(t.tp, REQUESTING))
  /\ tasks' = tasks \ {t}
  /\ UNCHANGED <<loopVars, creating, queue, issued, transient>>

SendFailsFinally(t) ==
  /\ t.kind = "send" /\ RetriesExhausted(t.tp)
  /\ GoesOnToUpdate(t, TransitionError(Find(t.tp.id)))
  /\ UNCHANGED <<storeVars, loopVars, creating, queue, issued, transient>>

(* store.update of a process that was found in an earlier step *)
Update(t) ==
  /\ t.kind = "update"
  /\ Upsert(t.tp)
  /\ tasks' = tasks \ {t}
  /\ UNCHANGED <<loopVars, creating, queue, issued, transient>>

-----------------------------------------------------------------------------
(* Command processing, the last processor of the loop *)

(* drainTo: at most DequeueSize commands *)
Dequeue ==
  /\ pc = "select" /\ phase = CommandPhase
  /\ Idle(SM)
  /\ \E n \in 0 .. Len(queue) :
     /\ n = Min({DequeueSize, Len(queue)})
     /\ commands' = SubSeq(queue, 1, n)
     /\ queue' = SubSeq(queue, n + 1, Len(queue))
     /\ IF n = 0 THEN phase' = NextPhase /\ pc' = "select"
                 ELSE phase' = phase /\ pc' = "process"
  /\ UNCHANGED <<storeVars, creating, batch, tasks, issued, transient>>

Running(cmd) ==
  /\ pc = "process" /\ phase = CommandPhase
  /\ Idle(SM)

CommandDone ==
  /\ commands' = Tail(commands)
  /\ IF commands' = <<>> THEN phase' = NextPhase /\ pc' = "select"
                         ELSE phase' = phase /\ pc' = "process"

(* What the handler of cmd does to the process it finds: *)
(* throws, leaves it alone, or changes it.               *)
HandlerThrows(cmd, tp) ==
  \/ cmd.kind = "DeprovisionRequest" /\ Throws(tp, DEPROVISIONING)
  \/ /\ cmd.kind = "DeprovisionComplete" /\ tp.state # ERROR
     /\ DeprovisionResultThrows(tp, {cmd.resource})

HandlerIgnores(cmd, tp) ==
  IF cmd.kind = "CancelTransfer"
  THEN tp.state \in {COMPLETED, ERROR, CANCELLED, ENDED}
  ELSE cmd.kind # "DeprovisionRequest" /\ tp.state = ERROR

(* Only the vault, storing the secret of a provisioned resource, can fail. *)
Modified(cmd, tp, fatal) ==
  CASE cmd.kind = "CancelTransfer" -> Transition(tp, CANCELLED)
    [] cmd.kind = "DeprovisionRequest" -> Transition(tp, DEPROVISIONING)
    [] cmd.kind = "AddProvisionedResource" ->
         ProvisionResult(tp, {cmd.resource}, fatal)
    [] cmd.kind = "DeprovisionComplete" ->
         DeprovisionResult(tp, {cmd.resource}, FALSE)

(* The handler succeeds; if it changed the process, the update follows     *)
(* before the next command runs.                                           *)
RunCommand(cmd) ==
  /\ Running(cmd)
  /\ LET found == Find(cmd.id) IN
     /\ ~HandlerThrows(cmd, found)
     /\ IF HandlerIgnores(cmd, found)
        THEN UNCHANGED tasks
        ELSE \E fatal \in BOOLEAN :
               /\ fatal => cmd.kind = "AddProvisionedResource"
               /\ tasks' = tasks \cup {[thread |-> SM, kind |-> "update",
                                        tp |-> Modified(cmd, found, fatal)]}
  /\ CommandDone
  /\ UNCHANGED <<storeVars, creating, batch, queue, issued, transient>>

Failed(cmd) == [cmd EXCEPT !.errorCount = @ + 1]

CanRetry(cmd) == cmd.errorCount < MaxRetry

(* The handler throws: the command is enqueued again while it may be       *)
(* retried; if the queue is full, enqueue throws out of the processor.     *)
CommandFails(cmd) ==
  /\ Running(cmd)
  /\ HandlerThrows(cmd, Find(cmd.id))
  /\ \/ CanRetry(Failed(cmd)) /\ Enqueue(Failed(cmd)) /\ CommandDone
        /\ UNCHANGED <<creating, batch, issued>>
     \/ ~CanRetry(Failed(cmd)) /\ CommandDone
        /\ UNCHANGED <<creating, batch, queue, issued>>
     \/ CanRetry(Failed(cmd)) /\ Len(queue) >= QueueCapacity /\ Aborted
  /\ UNCHANGED <<storeVars, tasks, transient>>

-----------------------------------------------------------------------------
Init ==
  /\ store = [id \in {} |-> id] /\ leased = {} /\ selected = {}
  /\ creating = [c \in {} |-> c]
  /\ phase = 1 /\ pc = "select" /\ batch = {}
  /\ queue = <<>> /\ commands = <<>>
  /\ tasks = {}
  /\ issued = 0 /\ transient = 0

Process(tp) ==
  \/ ProcessInitial(tp)
  \/ ProcessInitialAssetNotFound(tp)
  \/ ProcessProvisioning(tp)
  \/ ProcessProvisionedConsumer(tp)
  \/ ProcessProviderRequest(tp)
  \/ ProcessRequestingDelayed(tp)
  \/ SendConsumerRequest(tp)
  \/ ProcessRequested(tp)
  \/ ProcessInProgressIgnored(tp)
  \/ ProcessInProgressCompleted(tp)
  \/ ProcessInProgressNotCompleted(tp)
  \/ ProcessDeprovisioning(tp)
  \/ ProcessDeprovisioned(tp)

Loop ==
  \/ NextForState
  \/ Lease
  \/ \E tp \in batch : Process(tp)
  \/ Dequeue
  \/ commands # <<>> /\ RunCommand(Head(commands))
  \/ commands # <<>> /\ CommandFails(Head(commands))

Callback(t) ==
  \/ ProvisionReturns(t)
  \/ DeprovisionReturns(t)
  \/ OperationThrows(t)
  \/ SendSucceeds(t)
  \/ SendFails(t)
  \/ SendFailsFinally(t)
  \/ Update(t)

Request ==
  \/ \E c \in Clients, req \in Requests : InitiateRequestLookup(c, req)
  \/ \E c \in Clients, id \in Processes : InitiateRequestCreate(c, id)
  \/ \E kind \in CommandKinds, id \in Processes,
        resource \in Resources \cup {Null} :
       IssueCommand(kind, id, resource)

Next == Request \/ Loop \/ \E t \in tasks : Callback(t)

Spec == Init /\ [][Next]_vars

(***************************************************************************)
(* Fairness.  The executor of StateMachineManager reschedules the loop     *)
(* after every iteration, and every future is completed: provisioners and  *)
(* the message dispatcher answer, with a result or an exception.           *)
(***************************************************************************)
Fairness ==
  /\ WF_vars(Loop)
  /\ \A c \in Callbacks \cup {SM} :
       WF_vars(\E t \in tasks : t.thread = c /\ Callback(t))

FairSpec == Spec /\ Fairness

-----------------------------------------------------------------------------
(* Properties *)

(* Type correctness of every variable. *)
TypeOK ==
  /\ DOMAIN store \subseteq Processes
  /\ \A id \in DOMAIN store : store[id] \in TransferProcessType /\ store[id].id = id
  /\ leased \subseteq DOMAIN store /\ selected \subseteq DOMAIN store
  /\ DOMAIN creating \subseteq Clients
  /\ \A c \in DOMAIN creating : creating[c] \in Requests
  /\ phase \in 1 .. CommandPhase /\ pc \in {"select", "lease", "process"}
  /\ batch \subseteq TransferProcessType
  /\ \A tp \in batch : tp.id \in DOMAIN store
  /\ queue \in Seq(CommandType) /\ commands \in Seq(CommandType)
  /\ tasks \subseteq TaskType
  /\ \A t \in tasks : t.tp.id \in DOMAIN store
  /\ issued \in 0 .. MaxCommands /\ transient \in 0 .. MaxTransient

(* Every record of a process that some thread can still write. *)
Records == {store[id] : id \in DOMAIN store} \cup batch \cup {t.tp : t \in tasks}

(* A process past provisioning has a resource for every definition of its   *)
(* manifest: partial answers, in-process resources and repeated results     *)
(* never let handleProvisionResult or a stale copy slip past                *)
(* provisioningComplete().                                                  *)
ProvisionedIsComplete ==
  \A tp \in Records :
    tp.state \in PROVISIONED .. ENDED =>
      tp.manifest # Null /\ GetResourcesToProvision(tp) = {}

(* Where no provisioner reports its results later by a command, a process   *)
(* that left DEPROVISIONING has no resource left to deprovision, whichever  *)
(* of its stale copies is written last (handleDeprovisionResult,            *)
(* deprovisionComplete()).  A late report of a provisioner adds a resource  *)
(* to a process in any state, and it then stays provisioned.                *)
DeprovisionedIsComplete ==
  \A tp \in Records :
    tp.state \in DEPROVISIONED .. ENDED => GetResourcesToDeprovision(tp) = {}

(* However many callbacks and commands save copies of it, a process never   *)
(* counts more than RetryLimit + 1 attempts in REQUESTING                   *)
(* (sendCustomerRequestFailure, retriesExhausted).                          *)
RetriesBounded ==
  \A tp \in Records :
    tp.state = REQUESTING => tp.stateCount <= RetryLimit + 1

(* The comment of transition(): "we cannot transition back".  The stored    *)
(* state of a process never decreases, except to ERROR.                     *)
NeverBack ==
  [][\A id \in DOMAIN store :
       store'[id].state = ERROR \/ store'[id].state >= store[id].state]_vars

(* A cancelled process stays cancelled: the result of an operation that was *)
(* in flight when the cancel command ran does not bring it back to life.    *)
CancelledIsFinal ==
  [][\A id \in DOMAIN store :
       store[id].state = CANCELLED => store'[id].state \in {CANCELLED, ERROR}]_vars

(* The states of the transfer proper, before its resources are released. *)
Transferring == INITIAL .. COMPLETED

(* The lease keeps a process out of nextForState while an operation is in   *)
(* flight for it: resources are not provisioned, and the request is not     *)
(* sent, a second time meanwhile.  Only deprovisioning may overlap itself,  *)
(* as a repeated deprovision request saves the process and so breaks the    *)
(* lease.                                                                   *)
OneOperationInFlight ==
  \A t1, t2 \in {t \in tasks : t.kind \in Operations} :
    t1.tp.id = t2.tp.id =>
      t1 = t2 \/ (t1.kind = "deprovision" /\ t2.kind = "deprovision")

(* No part of a transfer is done twice: a process is only saved in a state  *)
(* of the transfer proper if it has not been past that state, nor failed,   *)
(* nor been deprovisioned.  What a cancel command interrupted may go on     *)
(* (CancelledIsFinal does not hold).                                        *)
TransferNeverRepeated ==
  [][\A id \in DOMAIN store :
       store'[id].state \in Transferring =>
         store[id].state \in {CANCELLED} \cup INITIAL .. store'[id].state]_vars

(* States in which the manager has nothing to do until a command arrives. *)
Settled(tp) ==
  \/ tp.state \in {STREAMING, COMPLETED, ENDED, CANCELLED, ERROR}
  \/ tp.state = IN_PROGRESS /\ (IsProvider(tp) \/ (tp.req.managed /\ ~tp.req.checked))
  \/ tp.state = REQUESTED /\ tp.req.managed /\ tp.provisioned = {}

(* Once provisioners, checkers and the back-off stop asking for another    *)
(* try, the loop and the callbacks bring every process to a settled state: *)
(* no lease is left held by a process that still has work to do.           *)
EventuallySettles ==
  \A id \in Processes :
    id \in DOMAIN store ~> id \in DOMAIN store /\ Settled(store[id])

-----------------------------------------------------------------------------
(***************************************************************************)
(* The inductive invariant behind ProvisionedIsComplete and                *)
(* RetriesBounded.                                                         *)
(***************************************************************************)

(* What holds of every copy of a process, wherever it is. *)
Sound(tp) ==
  /\ tp \in TransferProcessType
  /\ tp.state = INITIAL => tp.manifest = Null
  /\ tp.state \in PROVISIONING .. ENDED => tp.manifest # Null
  /\ tp.state \in PROVISIONED .. ENDED => GetResourcesToProvision(tp) = {}
  /\ tp.state = REQUESTING => tp.stateCount <= RetryLimit + 1

(* A copy may be older than the stored process, but has its manifest. *)
Held(tp) ==
  /\ Sound(tp)
  /\ tp.id \in DOMAIN store
  /\ tp.manifest = store[tp.id].manifest

StoreInv ==
  \A id \in DOMAIN store :
    id \in Processes /\ store[id].id = id /\ Sound(store[id])

BatchInv ==
  /\ \A tp \in batch :
       /\ Held(tp)
       /\ phase # CommandPhase /\ pc # "select"
       /\ tp.state = Processors[phase]
  /\ \A tp1, tp2 \in batch : tp1.id = tp2.id => tp1 = tp2

(* The state a process was fetched in when the operation was started *)
OperationState(kind) ==
  CASE kind = "provision" -> PROVISIONING
    [] kind = "deprovision" -> DEPROVISIONING
    [] kind = "send" -> REQUESTING

TaskInv ==
  \A t \in tasks :
    /\ t \in TaskType /\ Held(t.tp)
    /\ t.kind \in Operations =>
         t.thread \in Callbacks /\ t.tp.state = OperationState(t.kind)
    /\ t.thread \in Callbacks => t.tp.manifest # Null
    /\ t.thread = SM => pc = "select" \/ phase = CommandPhase

(* A provisioner only reports resources of the manifest. *)
CommandOK(cmd) ==
  /\ cmd \in CommandType
  /\ cmd.id \in DOMAIN store
  /\ cmd.kind = "AddProvisionedResource" =>
       /\ store[cmd.id].manifest # Null
       /\ cmd.resource \in Resources
       /\ DefinitionOf[cmd.resource] \in store[cmd.id].manifest
  /\ cmd.kind = "DeprovisionComplete" => cmd.resource \in Resources

CommandInv ==
  /\ queue \in Seq(CommandType) /\ commands \in Seq(CommandType)
  /\ \A i \in 1 .. Len(queue) : CommandOK(queue[i])
  /\ \A i \in 1 .. Len(commands) : CommandOK(commands[i])

(* The inductive invariant: every copy of a process that a thread may still *)
(* write is internally sound and agrees with the store on the manifest, and *)
(* provisioning results still queued as commands are about that manifest.   *)
IndInv == StoreInv /\ BatchInv /\ TaskInv /\ CommandInv /\ TypeOK

-----------------------------------------------------------------------------
(***************************************************************************)
(* The inductive invariant behind OneOperationInFlight,                    *)
(* TransferNeverRepeated and DeprovisionedIsComplete, where no provisioner *)
(* reports its results later by a command.                                 *)
(***************************************************************************)
NoLateProvisioning == "AddProvisionedResource" \notin CommandKinds

(* No thread can bring process id back into the transfer proper. *)
Over(id) ==
  /\ store[id].state \notin Transferring
  /\ \A tp \in batch : tp.id = id => tp.state \notin Transferring
  /\ \A t \in tasks : t.tp.id = id => t.tp.state \notin Transferring

(* The loop works on the stored process itself, protected by the lease or   *)
(* about to be, and nobody else does.                                       *)
LoopAlone(tp) ==
  /\ store[tp.id] = tp
  /\ tp.id \in leased \cup selected
  /\ \A t \in tasks : t.tp.id # tp.id

(* The callback of a provision or send operation is alone with a leased     *)
(* process, unless a cancel command came in between.                        *)
CallbackAlone(t) ==
  /\ \/ store[t.tp.id].state = CANCELLED
     \/ /\ t.tp.id \in leased
        /\ store[t.tp.id].state \in {PROVISIONING, REQUESTING}
        /\ t.tp.state \in Transferring => store[t.tp.id].state <= t.tp.state
  /\ t.tp.state \in {PROVISIONING, PROVISIONED, REQUESTING, CANCELLED, ERROR}
  /\ t.tp.state = REQUESTING => t.kind = "send"
  /\ \A u \in tasks : u.thread \in Callbacks /\ u.tp.id = t.tp.id => u = t

(* A command cancels the process or starts to deprovision a completed one. *)
CommandAlone(t) ==
  \/ t.tp.state = CANCELLED
  \/ t.tp.state = DEPROVISIONING /\ store[t.tp.id].state = COMPLETED

(* At most one thread works on process id, and its transfer is under way. *)
Exclusive(id) ==
  /\ store[id].state \in Transferring \cup {CANCELLED, ERROR}
  /\ \A tp \in batch : tp.id = id => LoopAlone(tp)
  /\ \A t \in tasks : t.tp.id = id =>
       IF t.thread = SM THEN CommandAlone(t) ELSE CallbackAlone(t)

ReleaseOnly(cmd) ==
  /\ cmd.kind # "AddProvisionedResource"
  /\ cmd.kind = "DeprovisionComplete" => Over(cmd.id)

(* Of every process, either the transfer is over, or one thread at a time   *)
(* works on it; a thread does one thing at a time, and results of           *)
(* deprovisioning are about transfers that are over.                        *)
ExclusionInv ==
  /\ \A id \in DOMAIN store : Over(id) \/ Exclusive(id)
  /\ \A t, u \in tasks : t.thread = u.thread => t = u
  /\ pc # "lease" => selected = {}
  /\ \A i \in 1 .. Len(queue) : ReleaseOnly(queue[i])
  /\ \A i \in 1 .. Len(commands) : ReleaseOnly(commands[i])
=============================================================================
