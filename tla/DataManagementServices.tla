----------------------- MODULE DataManagementServices ------------------------
(***************************************************************************)
(* The controllers and services of the data management API                 *)
(* (extensions/api/data-management).  The transaction context of the       *)
(* default runtime is a no-op: every access to a store is a step of its    *)
(* own, and the calls of several clients, the negotiation managers and the *)
(* transfer manager interleave between them.                               *)
(***************************************************************************)
EXTENDS Naturals

CONSTANTS
  Clients,
  Assets, Policies, Definitions, Negotiations, Transfers, DataRequests,
  QueueBound,
  Workloads,       \* bound: the sets of operations used together
  Null

VARIABLES
  assets, policies, definitions, negotiations, transfers, commands,
  call,            \* the call of each client: request, step, copy read, code
  could,           \* the answers that were right at some moment of the call
  free,            \* the kinds of reference the id was free of at some moment
  workload         \* the operations the clients use

stores == <<assets, policies, definitions, negotiations, transfers, commands>>
vars == <<stores, call, could, free, workload>>

(* The stores, and the answers the API may give *)
Api == INSTANCE DataManagementApi

ASSUME ServicesAssumption ==
  /\ QueueBound \in Nat \ {0}
  /\ Workloads \subseteq SUBSET Api!Operations

(* A null reference is none of the things a variable may refer to. *)
ASSUME NullAssumption ==
  /\ Null \notin Assets \cup Policies \cup Definitions \cup Negotiations
                \cup Transfers \cup DataRequests
  /\ \A r \in Api!Requests : Null # r
  /\ \A d \in Api!ContractDefinition : Null # d
  /\ \A n \in Api!ContractNegotiation : Null # n
  /\ \A t \in Api!TransferProcess : Null # t
  /\ \A code \in {200, 400, 404, 409, 503} : Null # code

Codes == {200, 400, 404, 409, 503}
Steps == {"idle", "start", "save", "contracts", "access", "delete", "enqueue",
          "correlation", "decline", "done"}
Kinds == {"agreement", "contractPolicy", "accessPolicy", "definition"}

NoCall == [request |-> Null, step |-> "idle", copy |-> Null, code |-> Null]

(* A negotiation in hand, with its id *)
Copy == [id : Negotiations, item : Api!ContractNegotiation]

CallType ==
  [request : Api!Requests \cup {Null}, step : Steps, copy : Copy \cup {Null},
   code : Codes \cup {Null}]

TypeOK ==
  /\ Api!StoreType
  /\ call \in [Clients -> CallType]
  /\ could \in [Clients -> SUBSET Codes]
  /\ free \in [Clients -> SUBSET Kinds]
  /\ workload \in Workloads

Init ==
  /\ Api!StoreInit
  /\ call = [c \in Clients |-> NoCall]
  /\ could = [c \in Clients |-> {}]
  /\ free = [c \in Clients |-> {}]
  /\ workload \in Workloads

-----------------------------------------------------------------------------
(* Steps of a call *)

Request(c) == call[c].request
At(c, step, ops) == call[c].step = step /\ Request(c).op \in ops

(* The call goes on, with a negotiation in hand or without. *)
Continue(c, step, copy) ==
  call' = [call EXCEPT ![c] =
    [request |-> Request(c), step |-> step, copy |-> copy, code |-> Null]]

GoTo(c, step) == Continue(c, step, Null) /\ UNCHANGED stores

(* The result of the service becomes the answer: ServiceResultHandler and   *)
(* EdcApiExceptionMapper.                                                  *)
Done(c, code) ==
  call' = [call EXCEPT ![c] =
    [request |-> Request(c), step |-> "done", copy |-> Null, code |-> code]]

Refuse(c, code) == Done(c, code) /\ UNCHANGED stores

Begin(c, r) ==
  /\ call[c].step \in {"idle", "done"}
  /\ r.op \in workload
  /\ call' = [call EXCEPT ![c] = [request |-> r, step |-> "start", copy |-> Null, code |-> Null]]
  /\ UNCHANGED stores

(* The transformers and validators of the controllers, before any store *)
Malformed(c) ==
  /\ call[c].step = "start" /\ ~Request(c).wellFormed
  /\ Refuse(c, 400)

(* query: one access to the store *)
Query(c) ==
  /\ At(c, "start", Api!Queries) /\ Request(c).wellFormed
  /\ Refuse(c, 200)

Agreements == {"getContractAgreement", "getAgreementForNegotiation"}

Exists(r) ==
  \/ r.op \in Api!OnAssets /\ r.id \in assets
  \/ r.op \in Api!OnPolicies /\ r.id \in policies
  \/ r.op \in Api!OnDefinitions /\ definitions[r.id] # Null
  \/ r.op \in Api!OnNegotiations \ Agreements /\ negotiations[r.id] # Null
  \/ r.op \in Agreements /\ Api!Agreed(r.id)
  \/ r.op \in Api!OnTransfers /\ transfers[r.id] # Null
  \/ r.op \in Api!OnDataRequests /\ Api!Requested(r.id)

Gets ==
  {"getAsset", "getPolicy", "getContractDefinition", "getNegotiation",
   "getNegotiationState", "getContractAgreement", "getAgreementForNegotiation",
   "getTransferProcess", "getTransferProcessState"}

(* findById, getState and getForNegotiation: ObjectNotFoundException for null *)
Get(c) ==
  /\ At(c, "start", Gets)
  /\ Refuse(c, IF Exists(Request(c)) THEN 200 ELSE 404)

-----------------------------------------------------------------------------
(* create: findById, then save or accept *)

(* Mutant: create does not look whether the id is taken. *)
CreateFindNothing(c) ==
  /\ At(c, "start", Api!Creations) /\ Request(c).wellFormed
  /\ GoTo(c, "save")

CreateFind(c) ==
  /\ At(c, "start", Api!Creations) /\ Request(c).wellFormed
  /\ IF Exists(Request(c)) THEN Refuse(c, 409) ELSE GoTo(c, "save")

CreateSave(c) ==
  /\ At(c, "save", Api!Creations)
  /\ Api!Put(Request(c)) /\ Done(c, 200)

-----------------------------------------------------------------------------
(* delete *)

(* Mutant: agreements are not queried. *)
RemoveAssetUnchecked(c) ==
  /\ At(c, "start", {"removeAsset"})
  /\ GoTo(c, "delete")

(* AssetServiceImpl.delete: queryNegotiations, deleteById *)
RemoveAssetQuery(c) ==
  /\ At(c, "start", {"removeAsset"})
  /\ IF Api!ReferencedByAgreement(Request(c).id)
     THEN Refuse(c, 409) ELSE GoTo(c, "delete")

(* PolicyDefinitionServiceImpl.deleteById: findById, a query for either     *)
(* reference, deleteById                                                   *)
DeletePolicyFind(c) ==
  /\ At(c, "start", {"deletePolicy"})
  /\ IF Exists(Request(c)) THEN GoTo(c, "contracts") ELSE Refuse(c, 404)

DeletePolicyContracts(c) ==
  /\ At(c, "contracts", {"deletePolicy"})
  /\ IF Api!ReferencedAsContractPolicy(Request(c).id)
     THEN Refuse(c, 409) ELSE GoTo(c, "access")

DeletePolicyAccess(c) ==
  /\ At(c, "access", {"deletePolicy"})
  /\ IF Api!ReferencedAsAccessPolicy(Request(c).id)
     THEN Refuse(c, 409) ELSE GoTo(c, "delete")

(* deleteById answers null for an id that is not there (any more). *)
DeleteById(c) ==
  /\ \/ At(c, "delete", {"removeAsset", "deletePolicy"})
     \/ At(c, "start", {"deleteContractDefinition"})
  /\ IF Exists(Request(c)) THEN Api!Remove(Request(c)) /\ Done(c, 200)
     ELSE Refuse(c, 404)

-----------------------------------------------------------------------------
(* Negotiations and transfers *)

InitiateNegotiation(c) ==
  /\ At(c, "start", {"initiateContractNegotiation"}) /\ Request(c).wellFormed
  /\ \E n \in Negotiations : Api!InitiateNegotiation(n)
  /\ Done(c, 200)

(* initiateConsumerRequest looks for a process of the request, and creates  *)
(* one if there is none.                                                   *)
InitiateTransferFind(c) ==
  /\ At(c, "start", {"initiateTransfer"}) /\ Request(c).wellFormed
  /\ IF Exists(Request(c)) THEN Refuse(c, 200) ELSE GoTo(c, "save")

InitiateTransferCreate(c) ==
  /\ At(c, "save", {"initiateTransfer"})
  /\ \E t \in Transfers : Api!InitiateTransfer(t, Request(c).id)
  /\ Done(c, 200)

CancelNegotiationFind(c) ==
  /\ At(c, "start", {"cancelNegotiation"})
  /\ IF Exists(Request(c)) THEN GoTo(c, "enqueue") ELSE Refuse(c, 404)

(* apply, cancelImpl, deprovisionImpl: the transition is tried on the copy  *)
(* that was read.                                                          *)
CommandTransferFind(c) ==
  /\ At(c, "start", Api!TransferCommands)
  /\ IF ~Exists(Request(c)) THEN Refuse(c, 404)
     ELSE IF ~Api!Accepts(Request(c)) THEN Refuse(c, 409)
     ELSE GoTo(c, "enqueue")

(* Mutant: the queue has room for one command more than its capacity. *)
EnqueueOneMore(c) ==
  /\ At(c, "enqueue", Api!QueuedCommands)
  /\ IF commands[Api!QueueOf(Request(c))] > QueueBound THEN Refuse(c, 503)
     ELSE Api!Enqueue(Api!QueueOf(Request(c))) /\ Done(c, 200)

(* ArrayBlockingQueue.add throws an IllegalStateException when full. *)
EnqueueCommand(c) ==
  /\ At(c, "enqueue", Api!QueuedCommands)
  /\ IF Api!QueueFull(Request(c)) THEN Refuse(c, 503)
     ELSE Api!Enqueue(Api!QueueOf(Request(c))) /\ Done(c, 200)

(* The negotiation as declined leaves it for save *)
InHand(n) == [id |-> n, item |-> Api!Declined(negotiations[n])]

(* declined looks for the id: find copies the negotiation, whose            *)
(* transitionDeclined is refused in some states.                           *)
DeclineFind(c) ==
  /\ At(c, "start", {"declineNegotiation"})
  /\ IF ~Exists(Request(c)) THEN GoTo(c, "correlation")
     ELSE IF ~Api!Declinable(Request(c).id) THEN Refuse(c, 409)
     ELSE Continue(c, "decline", InHand(Request(c).id)) /\ UNCHANGED stores

(* ... and then for the correlation id: findForCorrelationId hands out the  *)
(* stored negotiation itself, so that transitionDeclined is in the store    *)
(* before save.                                                            *)
DeclineCorrelated(c) ==
  /\ At(c, "correlation", {"declineNegotiation"})
  /\ \/ Api!Correlated(Request(c).id) = {} /\ Refuse(c, 409)
     \/ \E m \in Api!Correlated(Request(c).id) :
          IF Api!Declinable(m)
          THEN /\ Api!SaveNegotiation(m, Api!Declined(negotiations[m]))
               /\ Continue(c, "decline", InHand(m))
          ELSE Refuse(c, 409)

DeclineSave(c) ==
  /\ At(c, "decline", {"declineNegotiation"})
  /\ Api!SaveNegotiation(call[c].copy.id, call[c].copy.item) /\ Done(c, 200)

-----------------------------------------------------------------------------
(* The specification *)

Step(c) ==
  \/ Malformed(c) \/ Query(c) \/ Get(c)
  \/ CreateFind(c) \/ CreateSave(c)
  \/ RemoveAssetQuery(c) \/ DeletePolicyFind(c) \/ DeletePolicyContracts(c)
  \/ DeletePolicyAccess(c) \/ DeleteById(c)
  \/ InitiateNegotiation(c) \/ InitiateTransferFind(c) \/ InitiateTransferCreate(c)
  \/ CancelNegotiationFind(c) \/ CommandTransferFind(c) \/ EnqueueCommand(c)
  \/ DeclineFind(c) \/ DeclineCorrelated(c) \/ DeclineSave(c)

(* What is true at this moment for the call of a client: the answers that   *)
(* would be right, and the kinds of reference its id is free of.           *)
AnswersNow(c) == Api!Answers(Request(c))
UnreferencedNow(c) ==
  {k \in Kinds :
     /\ Request(c).op \in {"removeAsset", "deletePolicy"}
     /\ k = "agreement" => ~Api!ReferencedByAgreement(Request(c).id)
     /\ k \in {"contractPolicy", "definition"} =>
          ~Api!ReferencedAsContractPolicy(Request(c).id)
     /\ k \in {"accessPolicy", "definition"} =>
          ~Api!ReferencedAsAccessPolicy(Request(c).id)}

UnderWay(c) == call[c].step \notin {"idle", "done"}

(* History: what was true at the moments of a call, from its request to the *)
(* last access it makes to a store.                                        *)
Remember ==
  /\ could' = [c \in Clients |->
       IF UnderWay(c)'
       THEN (IF UnderWay(c) THEN could[c] ELSE {}) \cup AnswersNow(c)'
       ELSE could[c]]
  /\ free' = [c \in Clients |->
       IF UnderWay(c)'
       THEN (IF UnderWay(c) THEN free[c] ELSE {}) \cup UnreferencedNow(c)'
       ELSE free[c]]
  /\ UNCHANGED workload

(* The managers work on what the operations in use can see. *)
Background ==
  /\ \/ "declineNegotiation" \in workload
        /\ \E n \in Negotiations : Api!NegotiationRequested(n)
     \/ "getNegotiation" \in workload /\ \E n \in Negotiations : Api!NegotiationSaved(n)
     \/ "getTransferProcess" \in workload /\ \E t \in Transfers : Api!TransferSaved(t)
     \/ \E queue \in Api!Queues : Api!CommandRun(queue)
  /\ UNCHANGED call

Next ==
  /\ \/ \E c \in Clients, r \in Api!Requests : Begin(c, r)
     \/ \E c \in Clients : Step(c)
     \/ Background
  /\ Remember

Spec == Init /\ [][Next]_vars

-----------------------------------------------------------------------------
(* Properties *)

(* Every answer gives a reason that was true at some moment of the call,    *)
(* whatever the other clients and the managers did meanwhile.  The reasons  *)
(* are those of the document, with the codes of Unlisted; for decline and   *)
(* getForNegotiation, whose answers contradict the document, they are the   *)
(* reasons of the services (Contradicted).                                 *)
AnswerWasTrue == \A c \in Clients : call[c].step = "done" => call[c].code \in could[c]

Deleted(c, op) == call[c].step = "done" /\ Request(c).op = op /\ call[c].code = 200

(* "Deleting an asset is only possible if that asset is not yet referenced  *)
(* by a contract agreement": it was not, at some moment of the call.  For a *)
(* policy definition, it was not referenced in either of the two ways, each *)
(* at some moment of the call.                                             *)
DeletedUnreferenced ==
  \A c \in Clients :
    /\ Deleted(c, "removeAsset") => "agreement" \in free[c]
    /\ Deleted(c, "deletePolicy") => {"contractPolicy", "accessPolicy"} \subseteq free[c]

(* "Deleting a policy definition is only possible if that policy definition *)
(* is not yet referenced by a contract definition": at some moment of the   *)
(* call no contract definition referenced it.                              *)
PolicyDeletedUnreferenced ==
  \A c \in Clients : Deleted(c, "deletePolicy") => "definition" \in free[c]
=============================================================================
