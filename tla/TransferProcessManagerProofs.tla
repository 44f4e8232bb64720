--------------------- MODULE TransferProcessManagerProofs ---------------------
(***************************************************************************)
(* Proofs, for every number of processes, resources, threads and commands, *)
(* that the copies of a transfer process handed around by the manager stay *)
(* sound.  First the lemmas about the entity, then one lemma per group of  *)
(* actions, then the theorems.                                             *)
(***************************************************************************)
EXTENDS TransferProcessManager, SequenceTheorems, TLAPS

-----------------------------------------------------------------------------
(* The entity *)

(* transition() changes the state and its count only. *)
LEMMA TransitionFrame ==
  ASSUME NEW tp \in TransferProcessType, NEW end \in TransferProcessStates
  PROVE  /\ Transition(tp, end) \in TransferProcessType
         /\ Transition(tp, end).id = tp.id
         /\ Transition(tp, end).manifest = tp.manifest
         /\ Transition(tp, end).provisioned = tp.provisioned
         /\ Transition(tp, end).deprovisioned = tp.deprovisioned
         /\ Transition(tp, end).state = IF end < tp.state THEN tp.state ELSE end
         /\ Transition(tp, end).stateCount =
              IF end < tp.state THEN tp.stateCount
              ELSE IF tp.state = end THEN tp.stateCount + 1 ELSE 1
<1>1. CASE end < tp.state
  BY <1>1 DEF Transition
<1>2. CASE ~(end < tp.state)
  <2> DEFINE n == IF tp.state = end THEN tp.stateCount + 1 ELSE 1
  <2>1. n \in Nat
    BY DEF TransferProcessType
  <2>2. Transition(tp, end) = [tp EXCEPT !.state = end, !.stateCount = n]
    BY <1>2 DEF Transition, TransitionTo
  <2> HIDE DEF n
  <2>3. /\ Transition(tp, end) \in TransferProcessType
        /\ Transition(tp, end).id = tp.id
        /\ Transition(tp, end).manifest = tp.manifest
        /\ Transition(tp, end).provisioned = tp.provisioned
        /\ Transition(tp, end).deprovisioned = tp.deprovisioned
        /\ Transition(tp, end).state = end
        /\ Transition(tp, end).stateCount = n
    BY <2>1, <2>2 DEF TransferProcessType
  <2> QED BY <1>2, <2>3 DEF n
<1> QED BY <1>1, <1>2

(* What is left to provision only depends on the manifest and the resources. *)
LEMMA ToProvisionFrame ==
  ASSUME NEW tp, NEW new, new.manifest = tp.manifest,
         new.provisioned = tp.provisioned
  PROVE  GetResourcesToProvision(new) = GetResourcesToProvision(tp)
  BY DEF GetResourcesToProvision

(* A process in ERROR is sound, whatever it was before. *)
LEMMA ErrorSound ==
  ASSUME NEW tp, Sound(tp)
  PROVE  /\ Sound(TransitionError(tp))
         /\ TransitionError(tp).id = tp.id
         /\ TransitionError(tp).manifest = tp.manifest
<1>1. ERROR \in TransferProcessStates
  BY DEF TransferProcessStates
<1>2. /\ TransitionError(tp) \in TransferProcessType
      /\ TransitionError(tp).id = tp.id
      /\ TransitionError(tp).manifest = tp.manifest
      /\ TransitionError(tp).state = ERROR
  BY <1>1 DEF Sound, TransitionError, TransferProcessType
<1> QED BY <1>2 DEF Sound, INITIAL, PROVISIONING, PROVISIONED, REQUESTING,
                    DEPROVISIONED, ENDED, ERROR

(* A transition whose target state demands no more than the process has *)
(* yields a sound process; an ignored one leaves it as it was.          *)
LEMMA TransitionSound ==
  ASSUME NEW tp, Sound(tp),
         NEW end \in TransferProcessStates, end # INITIAL,
         end \in PROVISIONING .. ENDED => tp.manifest # Null,
         end \in PROVISIONED .. ENDED => GetResourcesToProvision(tp) = {},
         end = REQUESTING => tp.state # REQUESTING \/ tp.stateCount <= RetryLimit
  PROVE  /\ Sound(Transition(tp, end))
         /\ Transition(tp, end).id = tp.id
         /\ Transition(tp, end).manifest = tp.manifest
<1> DEFINE new == Transition(tp, end)
<1>1. tp \in TransferProcessType
  BY DEF Sound
<1>2. /\ new \in TransferProcessType
      /\ new.id = tp.id /\ new.manifest = tp.manifest
      /\ new.provisioned = tp.provisioned /\ new.deprovisioned = tp.deprovisioned
  BY <1>1, TransitionFrame
<1>3. CASE end < tp.state
  BY <1>3 DEF Transition
<1>4. CASE ~(end < tp.state)
  <2>1. new.state = end
    BY <1>1, <1>4, TransitionFrame
  <2>2. new.stateCount = IF tp.state = end THEN tp.stateCount + 1 ELSE 1
    BY <1>1, <1>4, TransitionFrame
  <2>3. new.state = REQUESTING => new.stateCount <= RetryLimit + 1
    BY <1>1, <2>1, <2>2, ManagerAssumption DEF TransferProcessType
  <2> HIDE DEF new
  <2>4. GetResourcesToProvision(new) = GetResourcesToProvision(tp)
    BY <1>2, ToProvisionFrame
  <2>5. Sound(new)
    BY <1>2, <2>1, <2>3, <2>4 DEF Sound
  <2> QED BY <1>2, <2>5 DEF new
<1> QED BY <1>3, <1>4

(* Provisioned resources keep a process sound: they leave no more of the    *)
(* manifest to provision than there was, and PROVISIONED is only entered    *)
(* once the manifest is covered (handleProvisionResult).                    *)
LEMMA ProvisionResultSound ==
  ASSUME NEW tp, Sound(tp), tp.manifest # Null,
         NEW done, done \subseteq Resources
  PROVE  \A fatal \in BOOLEAN :
           /\ Sound(ProvisionResult(tp, done, fatal))
           /\ ProvisionResult(tp, done, fatal).id = tp.id
           /\ ProvisionResult(tp, done, fatal).manifest = tp.manifest
<1> TAKE fatal \in BOOLEAN
<1> DEFINE updated == AddProvisionedResources(tp, done)
<1>1. /\ updated \in TransferProcessType
      /\ updated.id = tp.id /\ updated.manifest = tp.manifest
      /\ updated.state = tp.state /\ updated.stateCount = tp.stateCount
      /\ updated.deprovisioned = tp.deprovisioned
      /\ updated.provisioned = tp.provisioned \cup done
  BY NullAssumption DEF Sound, TransferProcessType, AddProvisionedResources
<1>2. Sound(updated)
  <2>1. GetResourcesToProvision(updated) \subseteq GetResourcesToProvision(tp)
    BY <1>1 DEF GetResourcesToProvision
  <2> HIDE DEF updated
  <2> QED BY <1>1, <2>1 DEF Sound
<1>3. CASE fatal
  BY <1>1, <1>2, <1>3, ErrorSound DEF ProvisionResult
<1>4. CASE ~fatal /\ ProvisioningComplete(updated)
  <2> DEFINE new == Transition(updated, PROVISIONED)
  <2>1. PROVISIONED \in TransferProcessStates /\ PROVISIONED # INITIAL
    BY DEF TransferProcessStates, PROVISIONED, INITIAL
  <2>2. GetResourcesToProvision(updated) = {}
    BY <1>4 DEF ProvisioningComplete
  <2>3. PROVISIONED # REQUESTING
    BY DEF PROVISIONED, REQUESTING
  <2> HIDE DEF updated
  <2>4. Sound(new) /\ new.id = tp.id /\ new.manifest = tp.manifest
    BY <1>1, <1>2, <2>1, <2>2, <2>3, TransitionSound
  <2> QED BY <1>4, <2>4 DEF ProvisionResult, updated
<1>5. CASE ~fatal /\ ~ProvisioningComplete(updated)
  BY <1>1, <1>2, <1>5 DEF ProvisionResult
<1> QED BY <1>3, <1>4, <1>5

(* handleDeprovisionResult: unless its transition throws, the saved process *)
(* is sound, and DEPROVISIONED only follows DEPROVISIONING.                 *)
LEMMA DeprovisionResultSound ==
  ASSUME NEW tp, Sound(tp), tp.state # ERROR,
         NEW done, done \subseteq Resources
  PROVE  \A fatal \in BOOLEAN :
           fatal \/ ~DeprovisionResultThrows(tp, done) =>
             /\ Sound(DeprovisionResult(tp, done, fatal))
             /\ DeprovisionResult(tp, done, fatal).id = tp.id
             /\ DeprovisionResult(tp, done, fatal).manifest = tp.manifest
<1> TAKE fatal \in BOOLEAN
<1> HAVE fatal \/ ~DeprovisionResultThrows(tp, done)
<1> DEFINE updated == AddDeprovisionedResources(tp, done)
<1>1. /\ updated \in TransferProcessType
      /\ updated.id = tp.id /\ updated.manifest = tp.manifest
      /\ updated.state = tp.state /\ updated.stateCount = tp.stateCount
      /\ updated.provisioned = tp.provisioned
  BY DEF Sound, TransferProcessType, AddDeprovisionedResources
<1>2. Sound(updated)
  BY <1>1, ToProvisionFrame DEF Sound
<1>3. CASE fatal
  BY <1>1, <1>2, <1>3, ErrorSound DEF DeprovisionResult
<1>4. CASE ~fatal /\ DeprovisionComplete(updated)
  <2> DEFINE new == Transition(updated, DEPROVISIONED)
  <2>1. ~Throws(updated, DEPROVISIONED)
    BY <1>4 DEF DeprovisionResultThrows
  <2>2. Starts(updated, DEPROVISIONED) = {DEPROVISIONING, DEPROVISIONED}
    BY DEF Starts, UNSAVED, INITIAL,
           PROVISIONING, PROVISIONED, REQUESTING, REQUESTED, IN_PROGRESS,
           STREAMING, COMPLETED, DEPROVISIONING, DEPROVISIONED, ENDED,
           CANCELLED
  <2> HIDE DEF updated
  <2>3. CASE DEPROVISIONED < updated.state
    BY <1>1, <1>2, <1>4, <2>3 DEF DeprovisionResult, Transition, updated
  <2>4. CASE ~(DEPROVISIONED < updated.state)
    <3>1. updated.state \in {DEPROVISIONING, DEPROVISIONED}
      BY <1>1, <2>1, <2>2, <2>4
      DEF Throws, TransferProcessType, TransferProcessStates, UNSAVED, INITIAL,
          PROVISIONING, PROVISIONED, REQUESTING, REQUESTED, IN_PROGRESS,
          STREAMING, COMPLETED, DEPROVISIONING, DEPROVISIONED, ENDED,
          CANCELLED, ERROR
    <3>2. updated.manifest # Null /\ GetResourcesToProvision(updated) = {}
      BY <1>2, <3>1 DEF Sound, PROVISIONING, PROVISIONED, DEPROVISIONING, DEPROVISIONED, ENDED
    <3>3. /\ DEPROVISIONED \in TransferProcessStates
          /\ DEPROVISIONED # INITIAL /\ DEPROVISIONED # REQUESTING
      BY DEF TransferProcessStates, DEPROVISIONED, INITIAL, REQUESTING
    <3>4. Sound(new) /\ new.id = tp.id /\ new.manifest = tp.manifest
      BY <1>1, <1>2, <3>2, <3>3, TransitionSound
    <3> QED BY <1>4, <3>4 DEF DeprovisionResult, updated
  <2> QED BY <2>3, <2>4
<1>5. CASE ~fatal /\ ~DeprovisionComplete(updated)
  BY <1>1, <1>2, <1>5 DEF DeprovisionResult
<1> QED BY <1>3, <1>4, <1>5

(* A handler that neither throws nor ignores its command saves a sound *)
(* process with the manifest it found.                                 *)
LEMMA ModifiedSound ==
  ASSUME NEW cmd \in CommandType, NEW tp, Sound(tp),
         cmd.kind = "AddProvisionedResource" =>
           tp.manifest # Null /\ cmd.resource \in Resources,
         cmd.kind = "DeprovisionComplete" => cmd.resource \in Resources,
         ~HandlerThrows(cmd, tp), ~HandlerIgnores(cmd, tp),
         NEW fatal \in BOOLEAN
  PROVE  /\ Sound(Modified(cmd, tp, fatal))
         /\ Modified(cmd, tp, fatal).id = tp.id
         /\ Modified(cmd, tp, fatal).manifest = tp.manifest
<1>1. CASE cmd.kind = "CancelTransfer"
  <2>1. /\ CANCELLED \in TransferProcessStates
        /\ CANCELLED # INITIAL /\ CANCELLED # REQUESTING
        /\ CANCELLED \notin PROVISIONING .. ENDED
        /\ CANCELLED \notin PROVISIONED .. ENDED
    BY DEF TransferProcessStates, CANCELLED, INITIAL, REQUESTING, PROVISIONING,
           PROVISIONED, DEPROVISIONED, ENDED
  <2> QED BY <1>1, <2>1, TransitionSound DEF Modified
<1>2. CASE cmd.kind = "DeprovisionRequest"
  <2>1. ~Throws(tp, DEPROVISIONING) /\ Modified(cmd, tp, fatal) = Transition(tp, DEPROVISIONING)
    BY <1>2 DEF HandlerThrows, Modified
  <2>2. Starts(tp, DEPROVISIONING) = {COMPLETED, DEPROVISIONING}
    BY DEF Starts, UNSAVED, INITIAL, PROVISIONING, PROVISIONED, REQUESTING,
           REQUESTED, IN_PROGRESS, STREAMING, COMPLETED, DEPROVISIONING,
           DEPROVISIONED, ENDED, CANCELLED
  <2>3. CASE DEPROVISIONING < tp.state
    BY <2>1, <2>3 DEF Transition
  <2>4. CASE ~(DEPROVISIONING < tp.state)
    <3>1. tp.state \in {COMPLETED, DEPROVISIONING}
      BY <2>1, <2>2, <2>4
      DEF Sound, Throws, TransferProcessType, TransferProcessStates, UNSAVED,
          INITIAL, PROVISIONING, PROVISIONED, REQUESTING, REQUESTED,
          IN_PROGRESS, STREAMING, COMPLETED, DEPROVISIONING, DEPROVISIONED,
          ENDED, CANCELLED, ERROR
    <3>2. tp.manifest # Null /\ GetResourcesToProvision(tp) = {}
      BY <3>1 DEF Sound, PROVISIONING, PROVISIONED, COMPLETED, DEPROVISIONING, ENDED
    <3>3. /\ DEPROVISIONING \in TransferProcessStates
          /\ DEPROVISIONING # INITIAL /\ DEPROVISIONING # REQUESTING
      BY DEF TransferProcessStates, DEPROVISIONING, INITIAL, REQUESTING
    <3> QED BY <2>1, <3>2, <3>3, TransitionSound
  <2> QED BY <2>3, <2>4
<1>3. CASE cmd.kind = "AddProvisionedResource"
  <2>1. Modified(cmd, tp, fatal) = ProvisionResult(tp, {cmd.resource}, fatal)
    BY <1>3 DEF Modified
  <2>2. tp.manifest # Null /\ {cmd.resource} \subseteq Resources
    BY <1>3
  <2>3. \A f \in BOOLEAN :
          /\ Sound(ProvisionResult(tp, {cmd.resource}, f))
          /\ ProvisionResult(tp, {cmd.resource}, f).id = tp.id
          /\ ProvisionResult(tp, {cmd.resource}, f).manifest = tp.manifest
    BY <2>2, ProvisionResultSound
  <2> QED BY <2>1, <2>3
<1>4. CASE cmd.kind = "DeprovisionComplete"
  <2>1. Modified(cmd, tp, fatal) = DeprovisionResult(tp, {cmd.resource}, FALSE)
    BY <1>4 DEF Modified
  <2>2. tp.state # ERROR /\ ~DeprovisionResultThrows(tp, {cmd.resource})
    BY <1>4 DEF HandlerThrows, HandlerIgnores
  <2>3. {cmd.resource} \subseteq Resources
    BY <1>4
  <2>4. \A f \in BOOLEAN :
          /\ Sound(DeprovisionResult(tp, {cmd.resource}, f))
          /\ DeprovisionResult(tp, {cmd.resource}, f).id = tp.id
          /\ DeprovisionResult(tp, {cmd.resource}, f).manifest = tp.manifest
    BY <2>2, <2>3, DeprovisionResultSound
  <2> QED BY <2>1, <2>4
<1> QED BY <1>1, <1>2, <1>3, <1>4 DEF CommandType, AllCommandKinds

-----------------------------------------------------------------------------
(* The store *)

(* Copies and commands stay valid when the store grows and keeps manifests. *)
ManifestsKept ==
  /\ DOMAIN store \subseteq DOMAIN store'
  /\ \A id \in DOMAIN store : store'[id].manifest = store[id].manifest

(* Held copies and acceptable commands stay so. *)
LEMMA KeptHeld ==
  ASSUME ManifestsKept
  PROVE  /\ \A tp : Held(tp) => Held(tp)'
         /\ \A cmd : CommandOK(cmd) => CommandOK(cmd)'
  BY DEF ManifestsKept, Held, CommandOK

(* Saving a held copy, or creating a process, keeps the store sound. *)
LEMMA UpsertKeeps ==
  ASSUME StoreInv, leased \subseteq DOMAIN store, selected \subseteq DOMAIN store,
         NEW tp, Held(tp), Upsert(tp)
  PROVE  /\ StoreInv' /\ ManifestsKept /\ DOMAIN store' = DOMAIN store
         /\ leased' \subseteq DOMAIN store' /\ selected' \subseteq DOMAIN store'
  BY DEF StoreInv, Held, Upsert, ManifestsKept

(* The state-machine thread, the request threads and the bounds *)
LoopInv ==
  /\ leased \subseteq DOMAIN store /\ selected \subseteq DOMAIN store
  /\ DOMAIN creating \subseteq Clients
  /\ \A c \in DOMAIN creating : creating[c] \in Requests
  /\ phase \in 1 .. CommandPhase /\ pc \in {"select", "lease", "process"}
  /\ issued \in 0 .. MaxCommands /\ transient \in 0 .. MaxTransient

Inv == StoreInv /\ BatchInv /\ TaskInv /\ CommandInv /\ LoopInv

(* The invariant split for the proof is the one TLC checks. *)
LEMMA InvIsIndInv == Inv <=> IndInv
  BY DEF Inv, IndInv, TypeOK, StoreInv, BatchInv, TaskInv, CommandInv, LoopInv,
         Held, Sound

(* Steps that leave the store, the loop and the commands alone *)
LEMMA KeptBatch ==
  ASSUME BatchInv, ManifestsKept, UNCHANGED <<phase, pc, batch>>
  PROVE  BatchInv'
  BY KeptHeld DEF BatchInv

(* A step that leaves queue and drained commands alone keeps them valid. *)
LEMMA KeptCommands ==
  ASSUME CommandInv, ManifestsKept, UNCHANGED <<queue, commands>>
  PROVE  CommandInv'
  BY KeptHeld DEF CommandInv

-----------------------------------------------------------------------------
(* The processors of the state-machine thread *)

(* While a batch is processed, no update of a command handler is pending. *)
LEMMA NoPendingCommand ==
  ASSUME Inv, pc # "select", phase # CommandPhase
  PROVE  \A t \in tasks : t.thread \in Callbacks
  BY DEF Inv, TaskInv, TaskType

(* Leaving an entity of the batch, or the whole iteration *)
LEMMA ProcessedKeeps ==
  ASSUME Inv, ManifestsKept, NEW tp \in batch, pc = "process",
         Processed(tp) \/ Aborted
  PROVE  /\ BatchInv' /\ CommandInv'
         /\ phase' \in 1 .. CommandPhase /\ pc' \in {"select", "lease", "process"}
         /\ UNCHANGED <<creating, issued>>
<1>1. /\ phase' \in 1 .. CommandPhase /\ pc' \in {"select", "lease", "process"}
      /\ UNCHANGED <<creating, issued>>
  BY DEF Processed, Aborted, NextPhase, CommandPhase, Inv, LoopInv
<1>2. BatchInv'
  <2>1. CASE batch' = {}
    BY <2>1 DEF BatchInv
  <2>2. CASE batch' # {}
    <3>1. batch' \subseteq batch /\ phase' = phase /\ pc' = pc
      BY <2>2 DEF Processed, Aborted
    <3> QED BY <3>1, KeptHeld DEF BatchInv, Inv
  <2> QED BY <2>1, <2>2
<1>3. CommandInv'
  <2>1. CASE Processed(tp)
    BY <2>1, KeptCommands DEF Processed, Inv
  <2>2. CASE Aborted
    <3>1. commands' = <<>> /\ queue' = queue
      BY <2>2 DEF Aborted
    <3>2. commands' \in Seq(CommandType) /\ Len(commands') = 0
      BY <3>1, EmptySeq
    <3> QED BY <3>1, <3>2, KeptHeld DEF CommandInv, Inv
  <2> QED BY <2>1, <2>2
<1> QED BY <1>1, <1>2, <1>3

(* A processor that saves a held version of the process it was given *)
LEMMA ProcessorSaves ==
  ASSUME Inv, NEW tp \in batch, pc = "process", phase # CommandPhase,
         NEW new, Held(new), Upsert(new),
         Processed(tp) \/ Aborted,
         UNCHANGED tasks, transient' \in 0 .. MaxTransient
  PROVE  Inv'
<1>1. /\ StoreInv' /\ ManifestsKept
      /\ leased' \subseteq DOMAIN store' /\ selected' \subseteq DOMAIN store'
  BY UpsertKeeps DEF Inv, LoopInv
<1>2. /\ BatchInv' /\ CommandInv'
      /\ phase' \in 1 .. CommandPhase /\ pc' \in {"select", "lease", "process"}
      /\ UNCHANGED <<creating, issued>>
  BY <1>1, ProcessedKeeps
<1>3. TaskInv'
  <2>1. \A t \in tasks : t.thread \in Callbacks /\ t.thread # SM
    BY NoPendingCommand, ManagerAssumption
  <2> QED BY <1>1, <2>1, KeptHeld DEF TaskInv, Inv
<1>4. LoopInv'
  BY <1>1, <1>2 DEF LoopInv, Inv
<1> QED BY <1>1, <1>2, <1>3, <1>4 DEF Inv

(* A processor that starts an operation, or does nothing *)
LEMMA ProcessorStarts ==
  ASSUME Inv, NEW tp \in batch, pc = "process", phase # CommandPhase,
         NEW kind \in Operations,
         (Start(kind, tp) /\ tp.state = OperationState(kind)) \/ UNCHANGED tasks,
         Processed(tp), UNCHANGED <<storeVars, transient>>
  PROVE  Inv'
<1>1. ManifestsKept /\ StoreInv'
  BY DEF ManifestsKept, StoreInv, storeVars, Inv
<1>2. /\ BatchInv' /\ CommandInv'
      /\ phase' \in 1 .. CommandPhase /\ pc' \in {"select", "lease", "process"}
      /\ UNCHANGED <<creating, issued>>
  BY <1>1, ProcessedKeeps
<1>3. \A t \in tasks : t.thread \in Callbacks /\ t.thread # SM
  BY NoPendingCommand, ManagerAssumption
<1>4. Held(tp)
  BY DEF Inv, BatchInv
<1>5. TaskInv'
  <2>1. CASE UNCHANGED tasks
    BY <1>1, <1>3, <2>1, KeptHeld DEF TaskInv, Inv
  <2>2. CASE Start(kind, tp) /\ tp.state = OperationState(kind)
    <3>1. PICK c \in Callbacks :
            tasks' = tasks \cup {[thread |-> c, kind |-> kind, tp |-> tp]}
      BY <2>2 DEF Start
    <3> DEFINE new == [thread |-> c, kind |-> kind, tp |-> tp]
    <3>2. /\ new \in TaskType /\ new.thread = c /\ new.kind = kind /\ new.tp = tp
      BY <1>4 DEF TaskType, Held, Sound
    <3>3. tp.state = OperationState(kind)
      BY <2>2
    <3>4. tp.manifest # Null
      BY <1>4, <3>3 DEF Operations, OperationState, Held, Sound, PROVISIONING, DEPROVISIONING,
                  REQUESTING, ENDED
    <3>5. Held(tp)'
      BY <1>1, <1>4, KeptHeld
    <3>6. c # SM
      BY ManagerAssumption
    <3> HIDE DEF new
    <3>7. ASSUME NEW t \in tasks
          PROVE  /\ t \in TaskType /\ Held(t.tp)'
                 /\ t.kind \in Operations =>
                      t.thread \in Callbacks /\ t.tp.state = OperationState(t.kind)
                 /\ t.thread \in Callbacks => t.tp.manifest # Null
                 /\ t.thread # SM
      BY <1>1, <1>3, KeptHeld DEF TaskInv, Inv
    <3> QED BY <3>1, <3>2, <3>3, <3>4, <3>5, <3>6, <3>7 DEF TaskInv, new
  <2> QED BY <2>1, <2>2
<1>6. LoopInv'
  BY <1>1, <1>2 DEF LoopInv, Inv, storeVars, ManifestsKept
<1> QED BY <1>1, <1>2, <1>5, <1>6 DEF Inv

(* processInitial is the only step that changes a manifest; no other copy of *)
(* the process exists then, and no provisioning result is queued for it.     *)
LEMMA InitialKeeps ==
  ASSUME Inv, NEW tp \in batch, ProcessInitial(tp)
  PROVE  Inv'
<1>1. /\ pc = "process" /\ phase # CommandPhase /\ Processors[phase] = INITIAL
      /\ Processed(tp) /\ UNCHANGED <<tasks, transient>>
  BY DEF ProcessInitial, Processing
<1>2. Held(tp) /\ tp.state = INITIAL /\ Sound(tp)
  BY <1>1 DEF Inv, BatchInv, Held
<1>3. CASE Upsert(TransitionError(tp))
  <2>1. Held(TransitionError(tp))
    BY <1>2, ErrorSound DEF Held
  <2> QED BY <1>1, <1>3, <2>1, ProcessorSaves DEF Inv, LoopInv
<1>4. ASSUME NEW manifest \in SUBSET Definitions,
             Upsert(TransitionProvisioning(tp, manifest))
      PROVE  Inv'
  <2> DEFINE new == TransitionProvisioning(tp, manifest)
  <2>1. PROVISIONING \in TransferProcessStates /\ ~(PROVISIONING < INITIAL)
    BY DEF TransferProcessStates, PROVISIONING, INITIAL
  <2>2. /\ new \in TransferProcessType /\ new.id = tp.id /\ new.manifest = manifest
        /\ new.state = PROVISIONING
    <3> DEFINE moved == Transition(tp, PROVISIONING)
    <3>1. moved \in TransferProcessType /\ moved.id = tp.id /\ moved.state = PROVISIONING
      BY <1>2, <2>1, TransitionFrame DEF Sound
    <3>2. new = [moved EXCEPT !.manifest = manifest]
      BY DEF TransitionProvisioning
    <3> HIDE DEF moved, new
    <3> QED BY <3>1, <3>2 DEF TransferProcessType
  <2>3. manifest # Null
    BY NullAssumption
  <2> HIDE DEF new
  <2>4. Sound(new)
    BY <2>2, <2>3 DEF Sound, INITIAL, PROVISIONING, PROVISIONED, REQUESTING,
                      DEPROVISIONED, ENDED
  <2>5. /\ tp.id \in DOMAIN store /\ store[tp.id].manifest = Null
        /\ tp.manifest = Null
    BY <1>2 DEF Held, Sound
  <2>6. /\ DOMAIN store' = DOMAIN store /\ store'[tp.id] = new
        /\ \A id \in DOMAIN store : id # tp.id => store'[id] = store[id]
        /\ leased' \subseteq DOMAIN store' /\ selected' \subseteq DOMAIN store'
    BY <1>4, <2>2, <2>5 DEF Upsert, new, Inv, LoopInv
  <2>7. StoreInv'
    BY <2>2, <2>4, <2>6 DEF StoreInv, Inv
  <2>8. \A r : Held(r) /\ r.id # tp.id => Held(r)'
    BY <2>6 DEF Held
  <2>9. BatchInv'
    <3>1. CASE batch' = {}
      BY <3>1 DEF BatchInv
    <3>2. CASE batch' # {}
      <4>1. batch' = batch \ {tp} /\ phase' = phase /\ pc' = pc
        BY <1>1, <3>2 DEF Processed
      <4>2. \A r \in batch' : Held(r)'
        BY <2>8, <4>1 DEF BatchInv, Inv
      <4> QED BY <4>1, <4>2 DEF BatchInv, Inv
    <3> QED BY <3>1, <3>2
  <2>10. \A t \in tasks : t.thread # SM /\ t.tp.id # tp.id
    <3>1. \A t \in tasks : t.thread \in Callbacks
      BY <1>1, NoPendingCommand
    <3> QED BY <2>5, <3>1, ManagerAssumption DEF Inv, TaskInv, Held
  <2>11. TaskInv'
    BY <1>1, <2>8, <2>10 DEF TaskInv, Inv
  <2>12. \A cmd : CommandOK(cmd) => CommandOK(cmd)'
    BY <2>5, <2>6 DEF CommandOK
  <2>13. CommandInv'
    BY <1>1, <2>12 DEF CommandInv, Inv, Processed
  <2>14. LoopInv'
    BY <1>1, <2>6 DEF LoopInv, Inv, Processed, NextPhase, CommandPhase
  <2> QED BY <2>7, <2>9, <2>11, <2>13, <2>14 DEF Inv
<1> QED BY <1>3, <1>4 DEF ProcessInitial

(* Every processor keeps the invariant. *)
LEMMA ProcessKeeps ==
  ASSUME Inv, NEW tp \in batch, Process(tp)
  PROVE  Inv'
<1> USE DEF Processing
<1>0. /\ Held(tp) /\ Sound(tp) /\ tp \in TransferProcessType
      /\ tp.state = Processors[phase]
      /\ transient \in 0 .. MaxTransient
      /\ TransientAnswer => transient' \in 0 .. MaxTransient
  BY ManagerAssumption DEF Inv, BatchInv, Held, Sound, LoopInv, TransientAnswer
<1>e. Held(TransitionError(tp))
  BY <1>0, ErrorSound DEF Held
<1>t. ASSUME NEW end \in {PROVISIONED, REQUESTING, IN_PROGRESS, STREAMING, COMPLETED, ENDED},
             tp.state \in PROVISIONED .. ENDED,
             end = REQUESTING => tp.state # REQUESTING
      PROVE  Held(Transition(tp, end))
  <2>1. end \in TransferProcessStates /\ end # INITIAL
    BY DEF TransferProcessStates, INITIAL, PROVISIONED, REQUESTING, IN_PROGRESS,
           STREAMING, COMPLETED, ENDED
  <2>2. tp.manifest # Null /\ GetResourcesToProvision(tp) = {}
    BY <1>0, <1>t DEF Sound, PROVISIONING, PROVISIONED, ENDED
  <2>3. /\ Sound(Transition(tp, end)) /\ Transition(tp, end).id = tp.id
        /\ Transition(tp, end).manifest = tp.manifest
    BY <1>0, <1>t, <2>1, <2>2, TransitionSound
  <2> QED BY <1>0, <2>3 DEF Held
<1>f. tp.state \in {PROVISIONED, REQUESTED} => Held(TransitionInProgressOrStreaming(tp))
  <2>1. InProgressOrStreaming(tp) \in {IN_PROGRESS, STREAMING}
    BY DEF InProgressOrStreaming
  <2>2. tp.state \in {PROVISIONED, REQUESTED} => tp.state \in PROVISIONED .. ENDED
    BY DEF PROVISIONED, REQUESTED, ENDED
  <2>3. IN_PROGRESS # REQUESTING /\ STREAMING # REQUESTING
    BY DEF IN_PROGRESS, STREAMING, REQUESTING
  <2> QED BY <1>t, <2>1, <2>2, <2>3 DEF TransitionInProgressOrStreaming
<1>s. /\ PROVISIONED \in PROVISIONED .. ENDED /\ IN_PROGRESS \in PROVISIONED .. ENDED
      /\ DEPROVISIONED \in PROVISIONED .. ENDED
      /\ REQUESTING # PROVISIONED /\ REQUESTING # ENDED
      /\ COMPLETED # REQUESTING
  BY DEF PROVISIONED, IN_PROGRESS, DEPROVISIONED, REQUESTING, ENDED, COMPLETED
<1>1. CASE ProcessInitial(tp)
  BY <1>1, InitialKeeps
<1>2. CASE ProcessInitialAssetNotFound(tp)
  BY <1>0, <1>2, <1>e, ProcessorSaves DEF ProcessInitialAssetNotFound
<1>3. CASE ProcessProvisioning(tp)
  BY <1>0, <1>3, ProcessorStarts
  DEF ProcessProvisioning, Operations, OperationState
<1>4. CASE ProcessProvisionedConsumer(tp)
  <2>1. Held(Transition(tp, REQUESTING))
    BY <1>0, <1>4, <1>s, <1>t DEF ProcessProvisionedConsumer
  <2> QED BY <1>0, <1>4, <2>1, ProcessorSaves DEF ProcessProvisionedConsumer
<1>5. CASE ProcessProviderRequest(tp)
  <2>1. Held(TransitionInProgressOrStreaming(tp))
    BY <1>0, <1>5, <1>f DEF ProcessProviderRequest
  <2>2. Held(Transition(tp, PROVISIONED))
    BY <1>0, <1>5, <1>s, <1>t DEF ProcessProviderRequest
  <2>3. transient' \in 0 .. MaxTransient
    BY <1>0, <1>5 DEF ProcessProviderRequest
  <2>4. PICK new : Held(new) /\ Upsert(new)
    BY <1>5, <1>e, <2>1, <2>2 DEF ProcessProviderRequest
  <2> QED BY <1>5, <2>3, <2>4, ProcessorSaves DEF ProcessProviderRequest
<1>6. CASE ProcessRequestingDelayed(tp)
  BY <1>0, <1>6, ProcessorSaves DEF ProcessRequestingDelayed
<1>7. CASE SendConsumerRequest(tp)
  BY <1>0, <1>7, ProcessorStarts
  DEF SendConsumerRequest, Operations, OperationState
<1>8. CASE ProcessRequested(tp)
  <2>1. CASE Upsert(TransitionInProgressOrStreaming(tp))
    BY <1>0, <1>8, <1>f, <2>1, ProcessorSaves DEF ProcessRequested
  <2>2. CASE UNCHANGED storeVars
    BY <1>0, <1>8, <2>2, ProcessorStarts DEF ProcessRequested, Operations
  <2> QED BY <1>8, <2>1, <2>2 DEF ProcessRequested
<1>9. CASE ProcessInProgressIgnored(tp)
  BY <1>0, <1>9, ProcessorStarts DEF ProcessInProgressIgnored, Operations
<1>10. CASE ProcessInProgressCompleted(tp)
  <2>1. Held(Transition(tp, COMPLETED))
    BY <1>0, <1>10, <1>s, <1>t DEF ProcessInProgressCompleted
  <2> QED BY <1>0, <1>10, <2>1, ProcessorSaves DEF ProcessInProgressCompleted
<1>11. CASE ProcessInProgressNotCompleted(tp)
  BY <1>0, <1>11, ProcessorSaves DEF ProcessInProgressNotCompleted
<1>12. CASE ProcessDeprovisioning(tp)
  BY <1>0, <1>12, ProcessorStarts
  DEF ProcessDeprovisioning, Operations, OperationState
<1>13. CASE ProcessDeprovisioned(tp)
  <2>1. Held(Transition(tp, ENDED))
    BY <1>0, <1>13, <1>s, <1>t DEF ProcessDeprovisioned
  <2> QED BY <1>0, <1>13, <2>1, ProcessorSaves DEF ProcessDeprovisioned
<1> QED BY <1>1, <1>2, <1>3, <1>4, <1>5, <1>6, <1>7, <1>8, <1>9, <1>10, <1>11,
           <1>12, <1>13 DEF Process

-----------------------------------------------------------------------------
(* Callbacks *)

(* A callback that found the process and goes on to save a version of it *)
LEMMA CallbackGoesOn ==
  ASSUME Inv, NEW t \in tasks, t.thread \in Callbacks,
         NEW new, Sound(new), new.id = t.tp.id,
         new.manifest = store[t.tp.id].manifest,
         GoesOnToUpdate(t, new),
         UNCHANGED <<storeVars, loopVars, creating, queue, issued>>,
         transient' \in 0 .. MaxTransient
  PROVE  Inv'
<1>1. ManifestsKept /\ StoreInv' /\ BatchInv' /\ CommandInv'
  <2>1. ManifestsKept /\ StoreInv'
    BY DEF ManifestsKept, StoreInv, storeVars, Inv
  <2> QED BY <2>1, KeptBatch, KeptCommands DEF Inv, loopVars
<1>2. TaskInv'
  <2> DEFINE u == [thread |-> t.thread, kind |-> "update", tp |-> new]
  <2>1. /\ u \in TaskType /\ u.thread = t.thread /\ u.kind = "update" /\ u.tp = new
        /\ "update" \notin Operations /\ u.thread # SM
    BY ManagerAssumption DEF TaskType, Sound, Operations
  <2>2. Held(t.tp) /\ t.tp.manifest # Null
    BY DEF Inv, TaskInv
  <2>3. Held(new)'
    <3>1. Held(new)
      BY <2>2 DEF Held
    <3> QED BY <1>1, <3>1, KeptHeld
  <2>4. new.manifest # Null
    BY <2>2 DEF Held
  <2>5. tasks' \subseteq tasks \cup {u}
    BY DEF GoesOnToUpdate
  <2> HIDE DEF u
  <2>6. ASSUME NEW v \in tasks
        PROVE  /\ v \in TaskType /\ Held(v.tp)'
               /\ v.kind \in Operations =>
                    v.thread \in Callbacks /\ v.tp.state = OperationState(v.kind)
               /\ v.thread \in Callbacks => v.tp.manifest # Null
               /\ v.thread = SM => pc = "select" \/ phase = CommandPhase
    BY <1>1, KeptHeld DEF TaskInv, Inv
  <2> QED BY <2>1, <2>3, <2>4, <2>5, <2>6 DEF TaskInv, loopVars
<1>3. LoopInv'
  BY DEF LoopInv, Inv, storeVars, loopVars
<1> QED BY <1>1, <1>2, <1>3 DEF Inv

(* A thread that saves a held process, or nothing, and ends *)
LEMMA TaskEnds ==
  ASSUME Inv, NEW t \in tasks, tasks' = tasks \ {t},
         NEW new, (Held(new) /\ Upsert(new)) \/ UNCHANGED storeVars,
         UNCHANGED <<loopVars, creating, queue, issued>>,
         transient' \in 0 .. MaxTransient
  PROVE  Inv'
<1>1. /\ StoreInv' /\ ManifestsKept
      /\ leased' \subseteq DOMAIN store' /\ selected' \subseteq DOMAIN store'
  <2>1. CASE Held(new) /\ Upsert(new)
    BY <2>1, UpsertKeeps DEF Inv, LoopInv
  <2>2. CASE UNCHANGED storeVars
    BY <2>2 DEF ManifestsKept, StoreInv, storeVars, Inv, LoopInv
  <2> QED BY <2>1, <2>2
<1>2. BatchInv' /\ CommandInv'
  BY <1>1, KeptBatch, KeptCommands DEF Inv, loopVars
<1>3. TaskInv'
  BY <1>1, KeptHeld DEF TaskInv, Inv, loopVars
<1>4. LoopInv'
  BY <1>1 DEF LoopInv, Inv, loopVars
<1> QED BY <1>1, <1>2, <1>3, <1>4 DEF Inv

(* Every completion of a future, and every pending update, keeps the invariant. *)
LEMMA CallbackKeeps ==
  ASSUME Inv, NEW t \in tasks, Callback(t)
  PROVE  Inv'
<1>0. /\ t \in TaskType /\ Held(t.tp) /\ Sound(t.tp)
      /\ t.kind \in Operations =>
           t.thread \in Callbacks /\ t.tp.state = OperationState(t.kind)
      /\ t.thread \in Callbacks => t.tp.manifest # Null
      /\ transient \in 0 .. MaxTransient
  BY DEF Inv, TaskInv, Held, LoopInv
<1> DEFINE found == store[t.tp.id]
<1>f. Sound(found) /\ found.id = t.tp.id /\ found.manifest = t.tp.manifest
  BY <1>0 DEF Inv, StoreInv, Held
<1>e. /\ Sound(TransitionError(found))
      /\ TransitionError(found).id = t.tp.id
      /\ TransitionError(found).manifest = found.manifest
  BY <1>f, ErrorSound
<1>a. ASSUME NEW todo, NEW done, NEW fatal, Answer(todo, done, fatal)
      PROVE  transient' \in 0 .. MaxTransient
  BY <1>0, <1>a, ManagerAssumption DEF Answer, TransientAnswer
<1>1. CASE ProvisionReturns(t)
  <2> DEFINE todo == GetResourcesToProvision(t.tp)
  <2>1. PICK done \in SUBSET Resources, fatal \in BOOLEAN :
          /\ Answer(todo, {DefinitionOf[r] : r \in done}, fatal)
          /\ IF found.state = ERROR THEN tasks' = tasks \ {t}
             ELSE GoesOnToUpdate(t, ProvisionResult(found, done, fatal))
    BY <1>1 DEF ProvisionReturns, Find
  <2>2. /\ UNCHANGED <<storeVars, loopVars, creating, queue, issued>>
        /\ t.thread \in Callbacks /\ found.manifest # Null
    BY <1>0, <1>1, <1>f DEF ProvisionReturns, Operations
  <2>3. transient' \in 0 .. MaxTransient
    BY <1>a, <2>1
  <2>4. CASE found.state = ERROR
    BY <2>1, <2>2, <2>3, <2>4, TaskEnds
  <2>5. CASE found.state # ERROR
    <3>1. /\ Sound(ProvisionResult(found, done, fatal))
          /\ ProvisionResult(found, done, fatal).id = found.id
          /\ ProvisionResult(found, done, fatal).manifest = found.manifest
      BY <1>f, <2>2, ProvisionResultSound
    <3> QED BY <1>f, <2>1, <2>2, <2>3, <2>5, <3>1, CallbackGoesOn
  <2> QED BY <2>4, <2>5
<1>2. CASE DeprovisionReturns(t)
  <2> DEFINE todo == GetResourcesToDeprovision(t.tp)
  <2>1. PICK done \in SUBSET todo, fatal \in BOOLEAN :
          /\ Answer(todo, done, fatal)
          /\ IF found.state = ERROR \/ (~fatal /\ DeprovisionResultThrows(found, done))
             THEN tasks' = tasks \ {t}
             ELSE GoesOnToUpdate(t, DeprovisionResult(found, done, fatal))
    BY <1>2 DEF DeprovisionReturns, Find
  <2>2. /\ UNCHANGED <<storeVars, loopVars, creating, queue, issued>>
        /\ t.thread \in Callbacks
    BY <1>0, <1>2 DEF DeprovisionReturns, Operations
  <2>3. done \subseteq Resources
    BY <1>0, <2>1 DEF GetResourcesToDeprovision, Sound, TransferProcessType
  <2>4. transient' \in 0 .. MaxTransient
    BY <1>a, <2>1
  <2>5. CASE found.state = ERROR \/ (~fatal /\ DeprovisionResultThrows(found, done))
    BY <2>1, <2>2, <2>4, <2>5, TaskEnds
  <2>6. CASE ~(found.state = ERROR \/ (~fatal /\ DeprovisionResultThrows(found, done)))
    <3>1. /\ Sound(DeprovisionResult(found, done, fatal))
          /\ DeprovisionResult(found, done, fatal).id = found.id
          /\ DeprovisionResult(found, done, fatal).manifest = found.manifest
      BY <1>f, <2>3, <2>6, DeprovisionResultSound
    <3> QED BY <1>f, <2>1, <2>2, <2>4, <2>6, <3>1, CallbackGoesOn
  <2> QED BY <2>5, <2>6
<1>3. CASE OperationThrows(t)
  BY <1>0, <1>3, <1>e, CallbackGoesOn DEF OperationThrows, Find, Operations
<1>4. CASE SendSucceeds(t)
  <2>1. t.tp.state = REQUESTING
    BY <1>0, <1>4 DEF SendSucceeds, Operations, OperationState
  <2>2. t.tp.manifest # Null /\ GetResourcesToProvision(t.tp) = {}
    BY <1>0, <2>1 DEF Sound, PROVISIONING, PROVISIONED, REQUESTING, ENDED
  <2>3. /\ REQUESTED \in TransferProcessStates /\ REQUESTED # INITIAL
        /\ REQUESTED # REQUESTING
    BY DEF TransferProcessStates, REQUESTED, INITIAL, REQUESTING
  <2>4. Held(Transition(t.tp, REQUESTED))
    BY <1>0, <2>2, <2>3, TransitionSound DEF Held
  <2> QED BY <1>0, <1>4, <2>4, TaskEnds DEF SendSucceeds
<1>5. CASE SendFails(t)
  <2>1. t.tp.state = REQUESTING
    BY <1>0, <1>5 DEF SendFails, Operations, OperationState
  <2>2. t.tp.manifest # Null /\ GetResourcesToProvision(t.tp) = {}
    BY <1>0, <2>1 DEF Sound, PROVISIONING, PROVISIONED, REQUESTING, ENDED
  <2>3. t.tp.stateCount <= RetryLimit
    BY <1>0, <1>5, ManagerAssumption
    DEF SendFails, RetriesExhausted, Sound, TransferProcessType
  <2>4. REQUESTING \in TransferProcessStates /\ REQUESTING # INITIAL
    BY DEF TransferProcessStates, INITIAL, REQUESTING
  <2>5. Held(Transition(t.tp, REQUESTING))
    BY <1>0, <2>2, <2>3, <2>4, TransitionSound DEF Held
  <2> QED BY <1>0, <1>5, <2>5, TaskEnds DEF SendFails
<1>6. CASE SendFailsFinally(t)
  BY <1>0, <1>6, <1>e, CallbackGoesOn DEF SendFailsFinally, Find, Operations
<1>7. CASE Update(t)
  BY <1>0, <1>7, TaskEnds DEF Update
<1> QED BY <1>1, <1>2, <1>3, <1>4, <1>5, <1>6, <1>7 DEF Callback

-----------------------------------------------------------------------------
(* Request threads *)

(* initiateRequest and the enqueueing of commands keep the invariant. *)
LEMMA RequestKeeps ==
  ASSUME Inv, Request
  PROVE  Inv'
<1>1. ASSUME NEW c \in Clients, NEW req \in Requests, InitiateRequestLookup(c, req)
      PROVE  Inv'
  <2>1. ManifestsKept /\ StoreInv'
    BY <1>1 DEF InitiateRequestLookup, ManifestsKept, StoreInv, storeVars, Inv
  <2>2. BatchInv' /\ CommandInv'
    BY <1>1, <2>1, KeptBatch, KeptCommands DEF InitiateRequestLookup, Inv, loopVars
  <2>3. TaskInv'
    BY <1>1, <2>1, KeptHeld DEF InitiateRequestLookup, TaskInv, Inv, loopVars
  <2>4. LoopInv'
    BY <1>1 DEF InitiateRequestLookup, LoopInv, Inv, storeVars, loopVars
  <2> QED BY <2>1, <2>2, <2>3, <2>4 DEF Inv
<1>2. ASSUME NEW c \in Clients, NEW id \in Processes, InitiateRequestCreate(c, id)
      PROVE  Inv'
  <2>1. creating[c] \in Requests
    BY <1>2 DEF InitiateRequestCreate, Inv, LoopInv
  <2>2. PICK req \in Requests : creating[c] = req
    BY <2>1
  <2> DEFINE new == NewTransferProcess(id, req)
             unsaved == [id |-> id, req |-> req, state |-> UNSAVED,
                         stateCount |-> 0, manifest |-> Null,
                         provisioned |-> {}, deprovisioned |-> {}]
  <2>3. unsaved \in TransferProcessType
    BY DEF TransferProcessType, TransferProcessStates
  <2>4. new = Transition(unsaved, INITIAL)
    BY DEF NewTransferProcess
  <2>5. INITIAL \in TransferProcessStates /\ ~(INITIAL < UNSAVED)
    BY DEF TransferProcessStates, INITIAL, UNSAVED
  <2>6. /\ new \in TransferProcessType /\ new.id = id /\ new.state = INITIAL
        /\ new.manifest = Null
    BY <2>3, <2>4, <2>5, TransitionFrame
  <2> HIDE DEF new
  <2>7. Sound(new)
    BY <2>6 DEF Sound, INITIAL, PROVISIONING, PROVISIONED, REQUESTING,
                DEPROVISIONED, ENDED
  <2>8. /\ DOMAIN store' = DOMAIN store \cup {id} /\ store'[id] = new
        /\ id \notin DOMAIN store
        /\ \A i \in DOMAIN store : store'[i] = store[i]
        /\ leased' \subseteq DOMAIN store' /\ selected' \subseteq DOMAIN store'
    BY <1>2, <2>2, <2>6 DEF InitiateRequestCreate, Upsert, new, Inv, LoopInv
  <2>9. StoreInv' /\ ManifestsKept
    BY <2>6, <2>7, <2>8 DEF StoreInv, ManifestsKept, Inv
  <2>10. BatchInv' /\ CommandInv'
    BY <1>2, <2>9, KeptBatch, KeptCommands DEF InitiateRequestCreate, Inv, loopVars
  <2>11. TaskInv'
    BY <1>2, <2>9, KeptHeld DEF InitiateRequestCreate, TaskInv, Inv, loopVars
  <2>12. LoopInv'
    BY <1>2, <2>8 DEF InitiateRequestCreate, LoopInv, Inv, loopVars
  <2> QED BY <2>9, <2>10, <2>11, <2>12 DEF Inv
<1>3. ASSUME NEW kind \in CommandKinds, NEW id \in Processes,
             NEW resource \in Resources \cup {Null},
             IssueCommand(kind, id, resource)
      PROVE  Inv'
  <2> DEFINE cmd == NewCommand(kind, id, resource)
  <2>1. /\ cmd \in CommandType /\ cmd.id = id /\ cmd.kind = kind
        /\ cmd.resource = resource
    BY ManagerAssumption DEF NewCommand, CommandType
  <2>2. ManifestsKept /\ StoreInv'
    BY <1>3 DEF IssueCommand, ManifestsKept, StoreInv, storeVars, Inv
  <2>3. CommandOK(cmd)
    <3>1. id \in DOMAIN store /\ Acceptable(cmd)
      BY <1>3 DEF IssueCommand
    <3>2. store[id] \in TransferProcessType
      BY <3>1 DEF Inv, StoreInv, Sound
    <3> HIDE DEF cmd
    <3> QED BY <2>1, <3>1, <3>2 DEF CommandOK, Acceptable, Find, TransferProcessType
  <2>4. CommandOK(cmd)'
    BY <2>2, <2>3, KeptHeld
  <2>5. queue' = Append(queue, cmd) /\ commands' = commands
    BY <1>3 DEF IssueCommand, Enqueue, loopVars
  <2> HIDE DEF cmd
  <2>6. CommandInv'
    <3>1. queue \in Seq(CommandType)
      BY DEF Inv, CommandInv
    <3>2. /\ queue' \in Seq(CommandType) /\ Len(queue') = Len(queue) + 1
          /\ \A i \in 1 .. Len(queue) : queue'[i] = queue[i]
          /\ queue'[Len(queue) + 1] = cmd /\ Len(queue) \in Nat
      BY <2>1, <2>5, <3>1, AppendProperties, LenProperties
    <3>3. ASSUME NEW i \in 1 .. Len(queue')
          PROVE  CommandOK(queue[i])'
      <4>1. PICK c : c = queue'[i]
        OBVIOUS
      <4>2. CommandOK(c)'
        BY <2>2, <2>4, <3>2, <4>1, KeptHeld DEF Inv, CommandInv
      <4> QED BY <4>1, <4>2 DEF CommandOK
    <3> QED BY <2>2, <2>5, <3>2, <3>3, KeptHeld DEF Inv, CommandInv
  <2>7. BatchInv'
    BY <1>3, <2>2, KeptBatch DEF IssueCommand, Inv, loopVars
  <2>8. TaskInv'
    BY <1>3, <2>2, KeptHeld DEF IssueCommand, TaskInv, Inv, loopVars
  <2>9. LoopInv'
    BY <1>3, ManagerAssumption DEF IssueCommand, LoopInv, Inv, storeVars, loopVars
  <2> QED BY <2>2, <2>6, <2>7, <2>8, <2>9 DEF Inv
<1> QED BY <1>1, <1>2, <1>3 DEF Request

-----------------------------------------------------------------------------
(* The loop *)

(* nextForState hands out sound copies, at most one per process. *)
LEMMA FetchKeeps ==
  ASSUME Inv, NextForState
  PROVE  Inv'
<1> DEFINE candidates == Candidates(Processors[phase])
<1>1. PICK ids \in SUBSET candidates :
        /\ batch' = {store[id] : id \in ids}
        /\ selected' = ids
        /\ IF ids = {} THEN phase' = NextPhase /\ pc' = "select"
                       ELSE phase' = phase /\ pc' = "lease"
  BY DEF NextForState
<1>2. /\ UNCHANGED <<store, leased, creating, queue, commands, tasks, issued, transient>>
      /\ pc = "select" /\ phase # CommandPhase /\ \A t \in tasks : t.thread # SM
  BY DEF NextForState, Idle
<1>3. ManifestsKept /\ StoreInv'
  BY <1>2 DEF ManifestsKept, StoreInv, Inv
<1>4. \A id \in ids : id \in DOMAIN store /\ store[id].state = Processors[phase]
  BY <1>1 DEF Candidates
<1>5. BatchInv'
  <2>1. CASE ids = {}
    BY <1>1, <2>1 DEF BatchInv
  <2>2. CASE ids # {}
    <3>1. \A id \in ids : Held(store[id]) /\ store[id].id = id
      BY <1>4 DEF Inv, StoreInv, Held
    <3>2. \A tp \in batch' : Held(tp)' /\ tp.state = Processors[phase]
      BY <1>1, <1>3, <1>4, <3>1, KeptHeld
    <3>3. phase' = phase /\ pc' = "lease"
      BY <1>1, <2>2
    <3>4. \A tp1, tp2 \in batch' : tp1.id = tp2.id => tp1 = tp2
      BY <1>1, <3>1
    <3> QED BY <1>2, <3>2, <3>3, <3>4 DEF BatchInv
  <2> QED BY <2>1, <2>2
<1>6. CommandInv'
  BY <1>2, <1>3, KeptCommands DEF Inv
<1>7. TaskInv'
  BY <1>2, <1>3, KeptHeld DEF TaskInv, Inv
<1>8. LoopInv'
  BY <1>1, <1>2, <1>4 DEF LoopInv, Inv, NextPhase, CommandPhase
<1> QED BY <1>3, <1>5, <1>6, <1>7, <1>8 DEF Inv

(* Marking the fetched Items as leased keeps the invariant. *)
LEMMA LeaseKeeps ==
  ASSUME Inv, Lease
  PROVE  Inv'
<1>1. ManifestsKept /\ StoreInv'
  BY DEF Lease, ManifestsKept, StoreInv, Inv
<1>2. BatchInv'
  BY <1>1, KeptHeld DEF Lease, BatchInv, Inv
<1>3. CommandInv'
  BY <1>1, KeptCommands DEF Lease, Inv
<1>4. TaskInv'
  BY <1>1, KeptHeld DEF Lease, TaskInv, Inv
<1>5. LoopInv'
  BY DEF Lease, LoopInv, Inv
<1> QED BY <1>1, <1>2, <1>3, <1>4, <1>5 DEF Inv

(* In the command phase the batch is empty. *)
LEMMA EmptyBatch ==
  ASSUME Inv, pc = "select" \/ phase = CommandPhase
  PROVE  batch = {}
  BY DEF Inv, BatchInv

(* Draining the command queue keeps the invariant. *)
LEMMA DequeueKeeps ==
  ASSUME Inv, Dequeue
  PROVE  Inv'
<1>1. PICK n \in 0 .. Len(queue) :
        /\ commands' = SubSeq(queue, 1, n)
        /\ queue' = SubSeq(queue, n + 1, Len(queue))
        /\ IF n = 0 THEN phase' = NextPhase /\ pc' = "select"
                    ELSE phase' = phase /\ pc' = "process"
  BY DEF Dequeue
<1>2. /\ UNCHANGED <<storeVars, creating, batch, tasks, issued, transient>>
      /\ pc = "select" /\ phase = CommandPhase /\ \A t \in tasks : t.thread # SM
  BY DEF Dequeue, Idle
<1>3. ManifestsKept /\ StoreInv'
  BY <1>2 DEF ManifestsKept, StoreInv, Inv, storeVars
<1>4. BatchInv'
  BY <1>2, EmptyBatch DEF BatchInv
<1>5. CommandInv'
  <2>1. queue \in Seq(CommandType) /\ Len(queue) \in Nat
        /\ \A i \in 1 .. Len(queue) : queue[i] \in CommandType /\ CommandOK(queue[i])
    BY LenProperties DEF Inv, CommandInv
  <2>2. /\ commands' \in Seq(CommandType)
        /\ Len(commands') = n
        /\ \A i \in 1 .. n : commands'[i] = queue[i]
    <3>1. n \in Int /\ \A i \in 1 .. n : queue[i] \in CommandType
      BY <2>1
    <3> QED BY <1>1, <3>1, SubSeqProperties
  <2>3. /\ queue' \in Seq(CommandType)
        /\ Len(queue') = Len(queue) - n
        /\ \A i \in 1 .. (Len(queue) - n) : queue'[i] = queue[n + i]
    <3>1. /\ n + 1 \in Int /\ Len(queue) \in Int
          /\ \A i \in n + 1 .. Len(queue) : queue[i] \in CommandType
      BY <2>1
    <3>2. /\ queue' \in Seq(CommandType)
          /\ Len(queue') = IF n + 1 <= Len(queue) THEN Len(queue) - (n + 1) + 1 ELSE 0
          /\ \A i \in 1 .. (Len(queue) - (n + 1) + 1) : queue'[i] = queue[(n + 1) + i - 1]
      BY <1>1, <3>1, SubSeqProperties
    <3> QED BY <2>1, <3>2
  <2>4. ASSUME NEW i \in 1 .. Len(commands')
        PROVE  CommandOK(commands[i])'
    <3>1. PICK c : c = commands'[i]
      OBVIOUS
    <3>2. CommandOK(c)
      BY <2>1, <2>2, <3>1
    <3> QED BY <1>3, <3>1, <3>2, KeptHeld DEF CommandOK
  <2>5. ASSUME NEW i \in 1 .. Len(queue')
        PROVE  CommandOK(queue[i])'
    <3>1. PICK c : c = queue'[i]
      OBVIOUS
    <3>2. CommandOK(c)
      <4>1. n + i \in 1 .. Len(queue) /\ c = queue[n + i]
        BY <2>1, <2>3, <3>1
      <4> QED BY <2>1, <4>1
    <3> QED BY <1>3, <3>1, <3>2, KeptHeld DEF CommandOK
  <2> QED BY <2>2, <2>3, <2>4, <2>5 DEF CommandInv
<1>6. TaskInv'
  BY <1>2, <1>3, KeptHeld DEF TaskInv, Inv
<1>7. LoopInv'
  BY <1>1, <1>2 DEF LoopInv, Inv, NextPhase, CommandPhase, storeVars
<1> QED BY <1>3, <1>4, <1>5, <1>6, <1>7 DEF Inv

(* Dropping the command that was run *)
LEMMA TailCommands ==
  ASSUME Inv, UNCHANGED store, commands # <<>>, commands' = Tail(commands)
  PROVE  /\ commands' \in Seq(CommandType)
         /\ \A i \in 1 .. Len(commands') : CommandOK(commands[i])'
<1>1. commands \in Seq(CommandType) /\ Len(commands) \in Nat
  BY LenProperties DEF Inv, CommandInv
<1>2. /\ commands' \in Seq(CommandType) /\ Len(commands') = Len(commands) - 1
      /\ \A i \in 1 .. Len(commands') : commands'[i] = commands[i + 1]
  BY <1>1, HeadTailProperties
<1>3. ASSUME NEW i \in 1 .. Len(commands')
      PROVE  CommandOK(commands[i])'
  <2>1. i + 1 \in 1 .. Len(commands) /\ commands'[i] = commands[i + 1]
    BY <1>1, <1>2
  <2>2. CommandOK(commands[i + 1])
    BY <2>1 DEF Inv, CommandInv
  <2> QED BY <2>1, <2>2 DEF CommandOK
<1> QED BY <1>2, <1>3

(* The command at the head is about a stored process. *)
LEMMA HeadCommand ==
  ASSUME Inv, commands # <<>>
  PROVE  Head(commands) \in CommandType /\ CommandOK(Head(commands))
<1>1. commands \in Seq(CommandType)
  BY DEF Inv, CommandInv
<1>2. 1 \in 1 .. Len(commands) /\ Head(commands) = commands[1]
  BY <1>1, EmptySeq, LenProperties
<1> QED BY <1>1, <1>2 DEF Inv, CommandInv, CommandOK

(* A command handler that succeeds keeps the invariant. *)
LEMMA RunCommandKeeps ==
  ASSUME Inv, commands # <<>>, RunCommand(Head(commands))
  PROVE  Inv'
<1>1. PICK cmd : cmd = Head(commands)
  OBVIOUS
<1>2. PICK found : found = store[cmd.id]
  OBVIOUS
<1>3. /\ pc = "process" /\ phase = CommandPhase
      /\ ~HandlerThrows(cmd, found)
      /\ IF HandlerIgnores(cmd, found) THEN UNCHANGED tasks
         ELSE \E fatal \in BOOLEAN :
                tasks' = tasks \cup {[thread |-> SM, kind |-> "update",
                                      tp |-> Modified(cmd, found, fatal)]}
      /\ CommandDone
      /\ UNCHANGED <<storeVars, creating, batch, queue, issued, transient>>
  BY <1>1, <1>2 DEF RunCommand, Running, Find
<1>4. cmd \in CommandType /\ CommandOK(cmd)
  BY <1>1, HeadCommand
<1>5. Sound(found) /\ found.id = cmd.id /\ cmd.id \in DOMAIN store
  BY <1>2, <1>4 DEF CommandOK, Inv, StoreInv
<1>6. ManifestsKept /\ StoreInv' /\ BatchInv'
  BY <1>3, EmptyBatch DEF ManifestsKept, StoreInv, BatchInv, Inv, storeVars
<1>7. CommandInv'
  <2>1. commands' = Tail(commands) /\ UNCHANGED <<store, queue>>
    BY <1>3 DEF CommandDone, storeVars
  <2>2. \A i \in 1 .. Len(queue') : CommandOK(queue[i])'
    BY <2>1 DEF Inv, CommandInv, CommandOK
  <2> QED BY <2>1, <2>2, TailCommands DEF Inv, CommandInv
<1>8. pc' = "select" \/ phase' = CommandPhase
  BY <1>3 DEF CommandDone
<1>9. TaskInv'
  <2>1. ASSUME NEW v \in tasks
        PROVE  /\ v \in TaskType /\ Held(v.tp)'
               /\ v.kind \in Operations =>
                    v.thread \in Callbacks /\ v.tp.state = OperationState(v.kind)
               /\ v.thread \in Callbacks => v.tp.manifest # Null
    BY <1>6, KeptHeld DEF TaskInv, Inv
  <2>2. CASE HandlerIgnores(cmd, found)
    BY <1>3, <1>8, <2>1, <2>2 DEF TaskInv
  <2>3. CASE ~HandlerIgnores(cmd, found)
    <3>0. PICK fatal \in BOOLEAN :
            tasks' = tasks \cup {[thread |-> SM, kind |-> "update",
                                  tp |-> Modified(cmd, found, fatal)]}
      BY <1>3, <2>3
    <3> DEFINE new == Modified(cmd, found, fatal)
               u == [thread |-> SM, kind |-> "update", tp |-> new]
    <3>1. Sound(new) /\ new.id = found.id /\ new.manifest = found.manifest
      BY <1>2, <1>3, <1>4, <1>5, <2>3, ModifiedSound DEF CommandOK
    <3>2. Held(new)'
      BY <1>2, <1>5, <1>6, <3>1, KeptHeld DEF Held
    <3> HIDE DEF new
    <3>3. /\ u \in TaskType /\ u.thread = SM /\ u.kind = "update" /\ u.tp = new
          /\ "update" \notin Operations /\ SM \notin Callbacks
      BY <3>1, ManagerAssumption DEF TaskType, Sound, Operations
    <3>4. tasks' = tasks \cup {u}
      BY <3>0 DEF new
    <3> HIDE DEF u
    <3> QED BY <1>8, <2>1, <3>2, <3>3, <3>4 DEF TaskInv
  <2> QED BY <2>2, <2>3
<1>10. LoopInv'
  BY <1>3 DEF LoopInv, Inv, CommandDone, NextPhase, CommandPhase, storeVars
<1> QED BY <1>6, <1>7, <1>9, <1>10 DEF Inv

(* Retrying, discarding or losing a failed command keeps the invariant. *)
LEMMA CommandFailsKeeps ==
  ASSUME Inv, commands # <<>>, CommandFails(Head(commands))
  PROVE  Inv'
<1>1. PICK cmd : cmd = Head(commands)
  OBVIOUS
<1>2. /\ pc = "process" /\ phase = CommandPhase /\ \A t \in tasks : t.thread # SM
      /\ UNCHANGED <<storeVars, tasks, transient, creating, issued>>
      /\ batch' = batch \/ batch' = {}
      /\ \/ queue' = Append(queue, Failed(cmd)) /\ commands' = Tail(commands)
         \/ queue' = queue /\ commands' = Tail(commands)
         \/ queue' = queue /\ commands' = <<>>
      /\ phase' \in 1 .. CommandPhase /\ pc' \in {"select", "lease", "process"}
  <2>1. NextPhase \in 1 .. CommandPhase /\ 1 \in 1 .. CommandPhase
        /\ phase \in 1 .. CommandPhase
    BY DEF NextPhase, CommandPhase, Inv, LoopInv
  <2> QED BY <1>1, <2>1 DEF CommandFails, Running, Idle, Enqueue, CommandDone, Aborted
<1>3. ManifestsKept /\ StoreInv' /\ BatchInv'
  BY <1>2, EmptyBatch DEF ManifestsKept, StoreInv, BatchInv, Inv, storeVars
<1>4. cmd \in CommandType /\ CommandOK(cmd)
  BY <1>1, HeadCommand
<1>5. Failed(cmd) \in CommandType /\ CommandOK(Failed(cmd))
  <2>1. /\ Failed(cmd) \in CommandType /\ Failed(cmd).id = cmd.id
        /\ Failed(cmd).kind = cmd.kind /\ Failed(cmd).resource = cmd.resource
    BY <1>4 DEF Failed, CommandType
  <2> QED BY <1>4, <2>1 DEF CommandOK
<1>6. UNCHANGED store
  BY <1>2 DEF storeVars
<1>7. commands' \in Seq(CommandType) /\ \A i \in 1 .. Len(commands') : CommandOK(commands[i])'
  <2>1. CASE commands' = Tail(commands)
    BY <1>6, <2>1, TailCommands
  <2>2. CASE commands' = <<>>
    <3>1. commands' \in Seq(CommandType) /\ Len(commands') = 0
      BY <2>2, EmptySeq
    <3> QED BY <3>1
  <2> QED BY <1>2, <2>1, <2>2
<1>8. queue' \in Seq(CommandType) /\ \A i \in 1 .. Len(queue') : CommandOK(queue[i])'
  <2>1. CASE queue' = queue
    BY <1>6, <2>1 DEF Inv, CommandInv, CommandOK
  <2>2. CASE queue' = Append(queue, Failed(cmd))
    <3>1. queue \in Seq(CommandType)
      BY DEF Inv, CommandInv
    <3>2. /\ queue' \in Seq(CommandType) /\ Len(queue') = Len(queue) + 1
          /\ \A i \in 1 .. Len(queue) : queue'[i] = queue[i]
          /\ queue'[Len(queue) + 1] = Failed(cmd) /\ Len(queue) \in Nat
      BY <1>5, <2>2, <3>1, AppendProperties, LenProperties
    <3>3. ASSUME NEW i \in 1 .. Len(queue')
          PROVE  CommandOK(queue[i])'
      <4>1. PICK c : c = queue'[i]
        OBVIOUS
      <4>2. CommandOK(c)
        BY <1>5, <3>2, <4>1 DEF Inv, CommandInv
      <4> QED BY <1>6, <4>1, <4>2 DEF CommandOK
    <3> QED BY <3>2, <3>3
  <2> QED BY <1>2, <2>1, <2>2
<1>9. TaskInv'
  BY <1>2, <1>3, KeptHeld DEF TaskInv, Inv
<1>10. LoopInv'
  BY <1>2 DEF LoopInv, Inv, storeVars
<1> QED BY <1>3, <1>7, <1>8, <1>9, <1>10 DEF Inv, CommandInv

-----------------------------------------------------------------------------
(* Theorems *)

(* The empty store satisfies the invariant. *)
LEMMA InitInv == Init => Inv
<1> SUFFICES ASSUME Init PROVE Inv
  OBVIOUS
<1>1. /\ DOMAIN store = {} /\ DOMAIN creating = {}
      /\ leased = {} /\ selected = {} /\ batch = {} /\ tasks = {}
      /\ queue = <<>> /\ commands = <<>>
      /\ phase = 1 /\ pc = "select" /\ issued = 0 /\ transient = 0
  BY DEF Init
<1>2. CommandInv
  <2>1. <<>> \in Seq(CommandType) /\ Len(<<>>) = 0
    BY EmptySeq
  <2> QED BY <1>1, <2>1 DEF CommandInv
<1> QED BY <1>1, <1>2, ManagerAssumption
        DEF Inv, StoreInv, BatchInv, TaskInv, LoopInv, CommandPhase

(* Every step keeps the invariant. *)
LEMMA NextInv == Inv /\ [Next]_vars => Inv'
<1> SUFFICES ASSUME Inv, [Next]_vars PROVE Inv'
  OBVIOUS
<1>1. CASE Request
  BY <1>1, RequestKeeps
<1>2. CASE Loop
  BY <1>2, FetchKeeps, LeaseKeeps, ProcessKeeps, DequeueKeeps, RunCommandKeeps,
     CommandFailsKeeps DEF Loop
<1>3. ASSUME NEW t \in tasks, Callback(t) PROVE Inv'
  BY <1>3, CallbackKeeps
<1>4. CASE UNCHANGED vars
  BY <1>4 DEF vars, Inv, StoreInv, BatchInv, TaskInv, CommandInv, LoopInv, Held,
              CommandOK
<1> QED BY <1>1, <1>2, <1>3, <1>4 DEF Next

(* The inductive invariant holds of every reachable state of the manager. *)
THEOREM IndInvHolds == Spec => []IndInv
<1>1. Init => IndInv
  BY InitInv, InvIsIndInv
<1>2. IndInv /\ [Next]_vars => IndInv'
  <2> SUFFICES ASSUME IndInv, [Next]_vars PROVE IndInv'
    OBVIOUS
  <2>1. Inv'
    BY NextInv, InvIsIndInv
  <2>2. Inv' <=> IndInv'
    BY InvIsIndInv, PTL
  <2> QED BY <2>1, <2>2
<1> QED BY <1>1, <1>2, PTL DEF Spec

(* Every variable of the manager keeps its type. *)
THEOREM TypeCorrect == Spec => []TypeOK
<1>1. IndInv => TypeOK
  BY DEF IndInv
<1> QED BY <1>1, IndInvHolds, PTL

(* Under the invariant every copy is sound. *)
LEMMA RecordsSound ==
  ASSUME IndInv
  PROVE  \A tp \in Records : Sound(tp)
  BY DEF IndInv, StoreInv, BatchInv, TaskInv, Held, Records

(* A process past PROVISIONING has a resource for every definition of its  *)
(* manifest, however provisioning results, repeated ones among them,       *)
(* commands and stale copies are interleaved.                              *)
THEOREM ProvisioningCorrect == Spec => []ProvisionedIsComplete
<1>1. IndInv => ProvisionedIsComplete
  BY RecordsSound
  DEF Sound, ProvisionedIsComplete, PROVISIONING, PROVISIONED, ENDED
<1> QED BY <1>1, IndInvHolds, PTL

(* At most RetryLimit + 1 attempts are counted in REQUESTING. *)
THEOREM RetriesCorrect == Spec => []RetriesBounded
<1>1. IndInv => RetriesBounded
  BY RecordsSound DEF Sound, RetriesBounded
<1> QED BY <1>1, IndInvHolds, PTL
===============================================================================
