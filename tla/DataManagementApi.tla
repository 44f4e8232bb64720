-------------------------- MODULE DataManagementApi --------------------------
(***************************************************************************)
(* The data management API: its stores, what a successful call does to     *)
(* them, and the answers an operation may give in a state of the stores,   *)
(* each with its reason.  The answers are those docs/swaggerui/            *)
(* swagger-spec.js lists, and some the document does not list (Unlisted);  *)
(* for two operations the services contradict the document, and the        *)
(* answers are the services' own (Contradicted).                           *)
(***************************************************************************)
EXTENDS Naturals

CONSTANTS
  Assets, Policies, Definitions, Negotiations, Transfers,   \* ids
  DataRequests,    \* the ids clients give to their data requests
  QueueBound,      \* the capacity of a BoundedCommandQueue
  Null             \* a null reference

VARIABLES
  assets,          \* the assets in the asset index
  policies,        \* the policy definitions in their store
  definitions,     \* the contract definitions, by id
  negotiations,    \* the contract negotiations, by id
  transfers,       \* the transfer processes, by id
  commands         \* how many commands wait for the managers

stores == <<assets, policies, definitions, negotiations, transfers, commands>>

-----------------------------------------------------------------------------
(* Requests *)

Queries ==
  {"getAllAssets", "getAllPolicies", "getAllContractDefinitions",
   "getNegotiations", "getAllAgreements", "getAllTransferProcesses"}
Creations == {"createAsset", "createPolicy", "createContractDefinition"}
Deletions == {"removeAsset", "deletePolicy", "deleteContractDefinition"}
Initiations == {"initiateContractNegotiation", "initiateTransfer"}
TransferCommands == {"cancelTransferProcess", "deprovisionTransferProcess"}
QueuedCommands == TransferCommands \cup {"cancelNegotiation"}

(* The operations on the id of a path or of a body, by what it identifies *)
OnAssets == {"createAsset", "getAsset", "removeAsset"}
OnPolicies == {"createPolicy", "getPolicy", "deletePolicy"}
OnDefinitions ==
  {"createContractDefinition", "getContractDefinition", "deleteContractDefinition"}
OnNegotiations ==
  {"getNegotiation", "getNegotiationState", "getContractAgreement",
   "getAgreementForNegotiation", "cancelNegotiation", "declineNegotiation"}
OnTransfers ==
  TransferCommands \cup {"getTransferProcess", "getTransferProcessState"}
OnDataRequests == {"initiateTransfer"}
WithoutId == Queries \cup {"initiateContractNegotiation"}

Operations ==
  OnAssets \cup OnPolicies \cup OnDefinitions \cup OnNegotiations \cup OnTransfers
    \cup OnDataRequests \cup WithoutId

(* Only a query and a request body can be malformed, and then there is no   *)
(* id; the id of a path is never null.                                     *)
Requests ==
  [op : OnAssets, id : Assets, wellFormed : {TRUE}]
    \cup [op : OnPolicies, id : Policies, wellFormed : {TRUE}]
    \cup [op : OnDefinitions, id : Definitions, wellFormed : {TRUE}]
    \cup [op : OnNegotiations, id : Negotiations, wellFormed : {TRUE}]
    \cup [op : OnTransfers, id : Transfers, wellFormed : {TRUE}]
    \cup [op : OnDataRequests, id : DataRequests, wellFormed : {TRUE}]
    \cup [op : WithoutId, id : {Null}, wellFormed : {TRUE}]
    \cup [op : Queries \cup Creations \cup Initiations, id : {Null}, wellFormed : {FALSE}]

-----------------------------------------------------------------------------
(* The stores *)

(* A contract definition names two policies, which need not exist. *)
ContractDefinition == [accessPolicyId : Policies, contractPolicyId : Policies]

(* A negotiation: whether its state accepts transitionDeclined, the asset   *)
(* of the agreement attached to it, and the correlation id: the id of the   *)
(* counter-party's negotiation, Null for a negotiation initiated here.  An  *)
(* agreement has no store of its own: it is named by its negotiation.      *)
ContractNegotiation ==
  [declinable : BOOLEAN, agreement : Assets \cup {Null},
   correlation : Negotiations \cup {Null}]

(* A transfer process: which of the commands its state accepts, and the     *)
(* data request it was created for, if that came from a client.            *)
TransferProcess == [accepts : SUBSET TransferCommands, request : DataRequests \cup {Null}]

Queues == {"negotiation", "transfer"}

StoreType ==
  /\ assets \subseteq Assets
  /\ policies \subseteq Policies
  /\ definitions \in [Definitions -> ContractDefinition \cup {Null}]
  /\ negotiations \in [Negotiations -> ContractNegotiation \cup {Null}]
  /\ transfers \in [Transfers -> TransferProcess \cup {Null}]
  /\ commands \in [Queues -> 0 .. QueueBound]

Agreed(n) == negotiations[n] # Null /\ negotiations[n].agreement # Null

(* processIdForTransferId finds a process *)
Requested(q) == \E t \in Transfers : transfers[t] # Null /\ transfers[t].request = q

(* Why an asset or a policy definition must not be deleted *)
ReferencedByAgreement(asset) ==
  \E n \in Negotiations : Agreed(n) /\ negotiations[n].agreement = asset
ReferencedAsContractPolicy(policy) ==
  \E d \in Definitions : definitions[d] # Null /\ definitions[d].contractPolicyId = policy
ReferencedAsAccessPolicy(policy) ==
  \E d \in Definitions : definitions[d] # Null /\ definitions[d].accessPolicyId = policy
ReferencedByDefinition(policy) ==
  ReferencedAsContractPolicy(policy) \/ ReferencedAsAccessPolicy(policy)

-----------------------------------------------------------------------------
(* The operations: the codes that may be answered, each for its reason *)

Code(code, reason) == {k \in {code} : reason}

OfQuery(r) == Code(200, r.wellFormed) \cup Code(400, ~r.wellFormed)

OfCreation(r, exists) ==
  Code(200, r.wellFormed /\ ~exists) \cup Code(400, ~r.wellFormed)
    \cup Code(409, r.wellFormed /\ exists)

OfId(r, exists) == Code(200, exists) \cup Code(400, r.id = Null) \cup Code(404, ~exists)

getAllAssets(r) == OfQuery(r)
createAsset(r) == OfCreation(r, r.id \in assets)
getAsset(r) == OfId(r, r.id \in assets)
removeAsset(r) == OfId(r, r.id \in assets) \cup Code(409, ReferencedByAgreement(r.id))

getAllPolicies(r) == OfQuery(r)
createPolicy(r) == OfCreation(r, r.id \in policies)
getPolicy(r) == OfId(r, r.id \in policies)
deletePolicy(r) == OfId(r, r.id \in policies) \cup Code(409, ReferencedByDefinition(r.id))

getAllContractDefinitions(r) == OfQuery(r)
createContractDefinition(r) == OfCreation(r, definitions[r.id] # Null)
getContractDefinition(r) == OfId(r, definitions[r.id] # Null)
deleteContractDefinition(r) == OfId(r, definitions[r.id] # Null)

getNegotiations(r) == OfQuery(r)
initiateContractNegotiation(r) == Code(200, r.wellFormed) \cup Code(400, ~r.wellFormed)
getNegotiation(r) == OfId(r, negotiations[r.id] # Null)
getNegotiationState(r) == OfId(r, negotiations[r.id] # Null)
cancelNegotiation(r) == OfId(r, negotiations[r.id] # Null)

getAllAgreements(r) == OfQuery(r)
getContractAgreement(r) == OfId(r, Agreed(r.id))

getAllTransferProcesses(r) == OfQuery(r)
initiateTransfer(r) == Code(200, r.wellFormed) \cup Code(400, ~r.wellFormed)
getTransferProcess(r) == OfId(r, transfers[r.id] # Null)
getTransferProcessState(r) == OfId(r, transfers[r.id] # Null)
cancelTransferProcess(r) == OfId(r, transfers[r.id] # Null)
deprovisionTransferProcess(r) == OfId(r, transfers[r.id] # Null)

Documented(r) ==
  CASE r.op = "getAllAssets" -> getAllAssets(r)
    [] r.op = "createAsset" -> createAsset(r)
    [] r.op = "getAsset" -> getAsset(r)
    [] r.op = "removeAsset" -> removeAsset(r)
    [] r.op = "getAllPolicies" -> getAllPolicies(r)
    [] r.op = "createPolicy" -> createPolicy(r)
    [] r.op = "getPolicy" -> getPolicy(r)
    [] r.op = "deletePolicy" -> deletePolicy(r)
    [] r.op = "getAllContractDefinitions" -> getAllContractDefinitions(r)
    [] r.op = "createContractDefinition" -> createContractDefinition(r)
    [] r.op = "getContractDefinition" -> getContractDefinition(r)
    [] r.op = "deleteContractDefinition" -> deleteContractDefinition(r)
    [] r.op = "getNegotiations" -> getNegotiations(r)
    [] r.op = "initiateContractNegotiation" -> initiateContractNegotiation(r)
    [] r.op = "getNegotiation" -> getNegotiation(r)
    [] r.op = "getNegotiationState" -> getNegotiationState(r)
    [] r.op = "cancelNegotiation" -> cancelNegotiation(r)
    [] r.op = "getAllAgreements" -> getAllAgreements(r)
    [] r.op = "getContractAgreement" -> getContractAgreement(r)
    [] r.op = "getAllTransferProcesses" -> getAllTransferProcesses(r)
    [] r.op = "initiateTransfer" -> initiateTransfer(r)
    [] r.op = "getTransferProcess" -> getTransferProcess(r)
    [] r.op = "getTransferProcessState" -> getTransferProcessState(r)
    [] r.op = "cancelTransferProcess" -> cancelTransferProcess(r)
    [] r.op = "deprovisionTransferProcess" -> deprovisionTransferProcess(r)
    [] OTHER -> {}

(* Answers of the services that the document does not list, with their      *)
(* reasons: a transfer whose state does not accept the command, and a full  *)
(* command queue, which is answered like any exception.                    *)
QueueOf(r) == IF r.op = "cancelNegotiation" THEN "negotiation" ELSE "transfer"
QueueFull(r) == commands[QueueOf(r)] = QueueBound
Accepts(r) == transfers[r.id] # Null /\ r.op \in transfers[r.id].accepts

Unlisted(r) ==
  Code(409, r.op \in TransferCommands /\ transfers[r.id] # Null /\ ~Accepts(r))
    \cup Code(503, r.op \in QueuedCommands /\ QueueFull(r))

(* Where the services contradict the document, which answers 404 for a      *)
(* negotiation that does not exist and 200, with "the contract agreement    *)
(* that is attached to the negotiation, or null", for one that does.        *)
(* getForNegotiation is answered 404 whenever there is no agreement.        *)
(* decline is answered 409 when there is no such negotiation, and 200 when  *)
(* it declined another one, whose correlation id is the id given.          *)
Declinable(n) == negotiations[n] # Null /\ negotiations[n].declinable
Correlated(n) ==
  {m \in Negotiations : negotiations[m] # Null /\ negotiations[m].correlation = n}

getForNegotiation(r) == Code(200, Agreed(r.id)) \cup Code(404, ~Agreed(r.id))
decline(r) ==
  Code(200, Declinable(r.id) \/ \E m \in Correlated(r.id) : Declinable(m))
    \cup Code(409, ~Declinable(r.id))

Contradicted == {"getAgreementForNegotiation", "declineNegotiation"}

Answers(r) ==
  IF r.op \in Contradicted
  THEN IF r.op = "declineNegotiation" THEN decline(r) ELSE getForNegotiation(r)
  ELSE Documented(r) \cup Unlisted(r)

-----------------------------------------------------------------------------
(* What a successful call does to the stores *)

Enqueue(queue) ==
  /\ commands' = [commands EXCEPT ![queue] = @ + 1]
  /\ UNCHANGED <<assets, policies, definitions, negotiations, transfers>>

Put(r) ==
  \/ /\ r.op = "createAsset"
     /\ assets' = assets \cup {r.id}
     /\ UNCHANGED <<policies, definitions, negotiations, transfers, commands>>
  \/ /\ r.op = "createPolicy"
     /\ policies' = policies \cup {r.id}
     /\ UNCHANGED <<assets, definitions, negotiations, transfers, commands>>
  \/ /\ r.op = "createContractDefinition"
     /\ \E d \in ContractDefinition : definitions' = [definitions EXCEPT ![r.id] = d]
     /\ UNCHANGED <<assets, policies, negotiations, transfers, commands>>

Remove(r) ==
  \/ /\ r.op = "removeAsset"
     /\ assets' = assets \ {r.id}
     /\ UNCHANGED <<policies, definitions, negotiations, transfers, commands>>
  \/ /\ r.op = "deletePolicy"
     /\ policies' = policies \ {r.id}
     /\ UNCHANGED <<assets, definitions, negotiations, transfers, commands>>
  \/ /\ r.op = "deleteContractDefinition"
     /\ definitions' = [definitions EXCEPT ![r.id] = Null]
     /\ UNCHANGED <<assets, policies, negotiations, transfers, commands>>

SaveNegotiation(n, negotiation) ==
  /\ negotiations' = [negotiations EXCEPT ![n] = negotiation]
  /\ UNCHANGED <<assets, policies, definitions, transfers, commands>>

(* initiate: the negotiation gets a new id and starts as INITIAL, which      *)
(* cannot be declined.                                                     *)
InitiateNegotiation(n) ==
  /\ negotiations[n] = Null
  /\ SaveNegotiation(n, [declinable |-> FALSE, agreement |-> Null, correlation |-> Null])

(* transitionDeclined: to a state that cannot be declined again *)
Declined(negotiation) ==
  [declinable |-> FALSE, agreement |-> negotiation.agreement,
   correlation |-> negotiation.correlation]

(* initiateRequest: the process gets a new id and starts as INITIAL, which  *)
(* can be cancelled.                                                       *)
InitiateTransfer(t, q) ==
  /\ transfers[t] = Null
  /\ transfers' =
       [transfers EXCEPT ![t] = [accepts |-> {"cancelTransferProcess"}, request |-> q]]
  /\ UNCHANGED <<assets, policies, definitions, negotiations, commands>>

-----------------------------------------------------------------------------
(* The environment: negotiations and transfers progress under their         *)
(* managers and the messages of counter-parties.                           *)

(* The provider's manager creates a negotiation for the request of a        *)
(* consumer, and keeps the id of the consumer's negotiation.               *)
NegotiationRequested(n) ==
  /\ negotiations[n] = Null
  /\ \E declinable \in BOOLEAN, correlation \in Negotiations \ {n} :
       SaveNegotiation(n, [declinable |-> declinable, agreement |-> Null,
                           correlation |-> correlation])

(* A save, of a copy that may have been read before another save *)
NegotiationSaved(n) ==
  /\ negotiations[n] # Null
  /\ \E declinable \in BOOLEAN, agreement \in Assets \cup {Null} :
       SaveNegotiation(n, [declinable |-> declinable, agreement |-> agreement,
                           correlation |-> negotiations[n].correlation])

TransferSaved(t) ==
  /\ \E accepts \in SUBSET TransferCommands :
       transfers' = [transfers EXCEPT ![t] =
         [accepts |-> accepts,
          request |-> IF transfers[t] # Null THEN transfers[t].request ELSE Null]]
  /\ UNCHANGED <<assets, policies, definitions, negotiations, commands>>

CommandRun(queue) ==
  /\ commands[queue] > 0
  /\ commands' = [commands EXCEPT ![queue] = @ - 1]
  /\ UNCHANGED <<assets, policies, definitions, negotiations, transfers>>

-----------------------------------------------------------------------------
(* Empty stores *)

StoreInit ==
  /\ assets = {} /\ policies = {}
  /\ definitions = [d \in Definitions |-> Null]
  /\ negotiations = [n \in Negotiations |-> Null]
  /\ transfers = [t \in Transfers |-> Null]
  /\ commands = [queue \in Queues |-> 0]
=============================================================================
