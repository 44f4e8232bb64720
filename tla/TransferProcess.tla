--------------------------- MODULE TransferProcess ---------------------------
(***************************************************************************)
(* The TransferProcess entity (spi/transfer-spi, TransferProcess.java and  *)
(* its base class StatefulEntity): the data the transfer manager keeps for *)
(* one transfer, and the transitions the entity allows.  A process is a    *)
(* record; a transition is an operator from records to records together    *)
(* with a predicate telling when the Java method throws.                   *)
(***************************************************************************)
EXTENDS Integers, FiniteSets

CONSTANTS
  Processes,     \* the ids randomUUID() hands out
  Requests,      \* the data requests clients submit
  Definitions,   \* resource definitions a manifest may contain
  Resources,     \* ids of provisioned resources
  DefinitionOf,  \* getResourceDefinitionId() of each of them
  Null           \* a null reference

CONSUMER == "CONSUMER"
PROVIDER == "PROVIDER"

(***************************************************************************)
(* A data request: its id, the side it is processed on, and what the       *)
(* manager asks of it: dataRequest.isManagedResources(),                   *)
(* transferType.isFinite(), and whether a StatusChecker is registered for  *)
(* its destination type.                                                   *)
(***************************************************************************)
DataRequest ==
  [transfer : STRING, type : {CONSUMER, PROVIDER},
   managed : BOOLEAN, finite : BOOLEAN, checked : BOOLEAN]

ASSUME RequestsAssumption == Requests \subseteq DataRequest
ASSUME ResourcesAssumption == DefinitionOf \in [Resources -> Definitions]
ASSUME NullAssumption == \A rs \in SUBSET Definitions : Null # rs

-----------------------------------------------------------------------------
(* TransferProcessStates: the codes are ordered, transition() compares them *)
UNSAVED        == 0
INITIAL        == 100
PROVISIONING   == 200
PROVISIONED    == 300
REQUESTING     == 400
REQUESTED      == 500
IN_PROGRESS    == 600
STREAMING      == 700
COMPLETED      == 800
DEPROVISIONING == 900
DEPROVISIONED  == 1000
ENDED          == 1100
CANCELLED      == 1200
ERROR          == -1

TransferProcessStates ==
  {UNSAVED, INITIAL, PROVISIONING, PROVISIONED, REQUESTING, REQUESTED,
   IN_PROGRESS, STREAMING, COMPLETED, DEPROVISIONING, DEPROVISIONED, ENDED,
   CANCELLED, ERROR}

(***************************************************************************)
(* The entity.  A provisioned resource has an id of its own, chosen by the *)
(* provisioner: two resources may be made from one definition.             *)
(***************************************************************************)
TransferProcessType ==
  [id : Processes, req : Requests, state : TransferProcessStates,
   stateCount : Nat, manifest : {Null} \cup SUBSET Definitions,
   provisioned : SUBSET Resources, deprovisioned : SUBSET Resources]

IsProvider(tp) == tp.req.type = PROVIDER

-----------------------------------------------------------------------------
(* Resources *)

(* What is left to provision is told by definition ... *)
GetResourcesToProvision(tp) ==
  IF tp.manifest = Null THEN {}
  ELSE tp.manifest \ {DefinitionOf[r] : r \in tp.provisioned}

ProvisioningComplete(tp) ==
  tp.manifest # Null /\ GetResourcesToProvision(tp) = {}

(* ... and what is left to deprovision by resource id. *)
GetResourcesToDeprovision(tp) == tp.provisioned \ tp.deprovisioned

DeprovisionComplete(tp) == GetResourcesToDeprovision(tp) = {}

AddProvisionedResources(tp, rs) == [tp EXCEPT !.provisioned = @ \cup rs]

(* A deprovisioned resource that was never provisioned is skipped. *)
AddDeprovisionedResources(tp, rs) ==
  [tp EXCEPT !.deprovisioned = @ \cup (rs \cap tp.provisioned)]

-----------------------------------------------------------------------------
(* Transitions *)

(* The states from which the entity's transitionXxx method reaches end. *)
Starts(tp, end) ==
  CASE end = INITIAL        -> {UNSAVED}
    [] end = PROVISIONING   -> {INITIAL, PROVISIONING}
    [] end = PROVISIONED    -> {PROVISIONING, PROVISIONED, REQUESTED}
    [] end = REQUESTING     -> {PROVISIONED, REQUESTING}
    [] end = REQUESTED      -> {PROVISIONED, REQUESTING, REQUESTED}
    [] end = IN_PROGRESS    -> IF IsProvider(tp)
                               THEN {REQUESTED, PROVISIONED, IN_PROGRESS}
                               ELSE {REQUESTED, IN_PROGRESS}
    [] end = STREAMING      -> IF IsProvider(tp) THEN {PROVISIONED, STREAMING}
                                                 ELSE {REQUESTED, STREAMING}
    [] end = COMPLETED      -> {COMPLETED, IN_PROGRESS, REQUESTED, STREAMING}
    [] end = DEPROVISIONING -> {COMPLETED, DEPROVISIONING}
    [] end = DEPROVISIONED  -> {DEPROVISIONING, DEPROVISIONED}
    [] end = ENDED          -> {DEPROVISIONED}
    [] end = CANCELLED      -> {UNSAVED, INITIAL, PROVISIONING, PROVISIONED,
                                REQUESTED, REQUESTING, IN_PROGRESS, STREAMING,
                                DEPROVISIONED, DEPROVISIONING, CANCELLED}

(* StatefulEntity.transitionTo: staying in a state counts, entering resets. *)
TransitionTo(tp, end) ==
  [tp EXCEPT !.state = end,
             !.stateCount = IF tp.state = end THEN @ + 1 ELSE 1]

(* The IllegalStateException of transition(), and of the two transitions a *)
(* provider does not have.                                                 *)
Throws(tp, end) ==
  \/ IsProvider(tp) /\ end \in {REQUESTING, REQUESTED}
  \/ tp.state <= end /\ tp.state \notin Starts(tp, end)

(* transition(): a step to a smaller code is silently ignored. *)
Transition(tp, end) == IF end < tp.state THEN tp ELSE TransitionTo(tp, end)

(* Mutant: the manifest is not kept. *)
TransitionProvisioningOnly(tp, manifest) == Transition(tp, PROVISIONING)

TransitionProvisioning(tp, manifest) ==
  [Transition(tp, PROVISIONING) EXCEPT !.manifest = manifest]

InProgressOrStreaming(tp) ==
  IF tp.req.finite THEN IN_PROGRESS ELSE STREAMING

TransitionInProgressOrStreaming(tp) == Transition(tp, InProgressOrStreaming(tp))

TransitionError(tp) == [tp EXCEPT !.state = ERROR, !.stateCount = 1]

(* initiateRequest builds the entity UNSAVED, with state count 0. *)
NewTransferProcess(id, req) ==
  Transition([id |-> id, req |-> req, state |-> UNSAVED, stateCount |-> 0,
              manifest |-> Null, provisioned |-> {},
              deprovisioned |-> {}], INITIAL)
=============================================================================
