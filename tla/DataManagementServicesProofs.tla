-------------------- MODULE DataManagementServicesProofs ---------------------
(***************************************************************************)
(* Proofs about DataManagementServices.                                    *)
(***************************************************************************)
EXTENDS DataManagementServices, TLAPS

-----------------------------------------------------------------------------
(* Requests and answers *)

(* What a request is about *)
LEMMA RequestShape ==
  ASSUME NEW r \in Api!Requests
  PROVE  /\ r.op \in Api!Operations
         /\ r.wellFormed \in BOOLEAN
         /\ r.wellFormed /\ r.op \in Api!OnAssets => r.id \in Assets
         /\ r.wellFormed /\ r.op \in Api!OnPolicies => r.id \in Policies
         /\ r.wellFormed /\ r.op \in Api!OnDefinitions => r.id \in Definitions
         /\ r.wellFormed /\ r.op \in Api!OnNegotiations => r.id \in Negotiations
         /\ r.wellFormed /\ r.op \in Api!OnTransfers => r.id \in Transfers
         /\ r.wellFormed /\ r.op \in Api!OnDataRequests => r.id \in DataRequests
         /\ ~r.wellFormed => r.op \in Api!Queries \cup Api!Creations \cup Api!Initiations
BY DEF Api!Requests, Api!Operations, Api!OnAssets, Api!OnPolicies, Api!OnDefinitions,
       Api!OnNegotiations, Api!OnTransfers, Api!OnDataRequests, Api!WithoutId, Api!Queries,
       Api!Creations,
       Api!Initiations, Api!TransferCommands

(* The document's answers to an operation are those of its definition. *)
DocumentedAsDefined(r) ==
  /\ r.op = "getAllAssets" => Api!Documented(r) = Api!getAllAssets(r)
  /\ r.op = "createAsset" => Api!Documented(r) = Api!createAsset(r)
  /\ r.op = "getAsset" => Api!Documented(r) = Api!getAsset(r)
  /\ r.op = "removeAsset" => Api!Documented(r) = Api!removeAsset(r)
  /\ r.op = "getAllPolicies" => Api!Documented(r) = Api!getAllPolicies(r)
  /\ r.op = "createPolicy" => Api!Documented(r) = Api!createPolicy(r)
  /\ r.op = "getPolicy" => Api!Documented(r) = Api!getPolicy(r)
  /\ r.op = "deletePolicy" => Api!Documented(r) = Api!deletePolicy(r)
  /\ r.op = "getAllContractDefinitions" => Api!Documented(r) = Api!getAllContractDefinitions(r)
  /\ r.op = "createContractDefinition" => Api!Documented(r) = Api!createContractDefinition(r)
  /\ r.op = "getContractDefinition" => Api!Documented(r) = Api!getContractDefinition(r)
  /\ r.op = "deleteContractDefinition" => Api!Documented(r) = Api!deleteContractDefinition(r)
  /\ r.op = "getNegotiations" => Api!Documented(r) = Api!getNegotiations(r)
  /\ r.op = "initiateContractNegotiation" => Api!Documented(r) = Api!initiateContractNegotiation(r)
  /\ r.op = "getNegotiation" => Api!Documented(r) = Api!getNegotiation(r)
  /\ r.op = "getNegotiationState" => Api!Documented(r) = Api!getNegotiationState(r)
  /\ r.op = "cancelNegotiation" => Api!Documented(r) = Api!cancelNegotiation(r)
  /\ r.op = "getAllAgreements" => Api!Documented(r) = Api!getAllAgreements(r)
  /\ r.op = "getContractAgreement" => Api!Documented(r) = Api!getContractAgreement(r)
  /\ r.op = "getAllTransferProcesses" => Api!Documented(r) = Api!getAllTransferProcesses(r)
  /\ r.op = "initiateTransfer" => Api!Documented(r) = Api!initiateTransfer(r)
  /\ r.op = "getTransferProcess" => Api!Documented(r) = Api!getTransferProcess(r)
  /\ r.op = "getTransferProcessState" => Api!Documented(r) = Api!getTransferProcessState(r)
  /\ r.op = "cancelTransferProcess" => Api!Documented(r) = Api!cancelTransferProcess(r)
  /\ r.op = "deprovisionTransferProcess" => Api!Documented(r) = Api!deprovisionTransferProcess(r)

LEMMA DocumentedFor == \A r : DocumentedAsDefined(r)
  <1> TAKE r
  <1> QED BY Zenon DEF DocumentedAsDefined, Api!Documented

(* No other codes are answered. *)
LEMMA AnswersAreCodes == \A r \in Api!Requests : Api!Answers(r) \subseteq Codes
  <1> SUFFICES ASSUME NEW r \in Api!Requests PROVE Api!Answers(r) \subseteq Codes
    OBVIOUS
  <1>1. /\ Api!Unlisted(r) \subseteq Codes
        /\ Api!decline(r) \subseteq Codes
        /\ Api!getForNegotiation(r) \subseteq Codes
    BY DEF Api!Unlisted, Api!decline, Api!getForNegotiation, Api!Code, Codes
  <1>2. r.op \notin Api!Contradicted => Api!Documented(r) \subseteq Codes
    BY RequestShape, DocumentedFor
    DEF DocumentedAsDefined, Api!Operations, Api!OnAssets, Api!OnPolicies, Api!OnDefinitions,
        Api!OnNegotiations, Api!OnTransfers, Api!OnDataRequests, Api!WithoutId, Api!Queries,
        Api!TransferCommands, Api!Code, Api!OfQuery, Api!OfCreation, Api!OfId, Codes,
        Api!getAllAssets, Api!createAsset, Api!getAsset, Api!removeAsset, Api!getAllPolicies,
        Api!createPolicy, Api!getPolicy, Api!deletePolicy, Api!getAllContractDefinitions,
        Api!createContractDefinition, Api!getContractDefinition, Api!deleteContractDefinition,
        Api!getNegotiations, Api!initiateContractNegotiation, Api!getNegotiation,
        Api!getNegotiationState, Api!cancelNegotiation,
        Api!getAllAgreements, Api!getContractAgreement,
        Api!getAllTransferProcesses, Api!initiateTransfer, Api!getTransferProcess,
        Api!getTransferProcessState, Api!cancelTransferProcess, Api!deprovisionTransferProcess,
        Api!Contradicted
  <1> QED BY <1>1, <1>2 DEF Api!Answers


LEMMA DocumentedStays == (\A r : DocumentedAsDefined(r))'
BY DocumentedFor, PTL

(* The answers depend on nothing but the stores. *)
LEMMA SameAnswers ==
  ASSUME NEW r \in Api!Requests, UNCHANGED stores
  PROVE  Api!Answers(r)' = Api!Answers(r)
  <1>1. UNCHANGED <<assets, policies, definitions, negotiations, transfers, commands>>
    BY DEF stores
  <1>2. DocumentedAsDefined(r)'
    BY DocumentedStays
  <1>3. r.op \notin Api!Contradicted => Api!Documented(r)' = Api!Documented(r)
    <2> SUFFICES ASSUME r.op \notin Api!Contradicted
                 PROVE  Api!Documented(r)' = Api!Documented(r)
      OBVIOUS
    <2>1. CASE r.op \in Api!OnAssets
      BY <1>1, <1>2, <2>1, DocumentedFor
      DEF DocumentedAsDefined, Api!OnAssets, Api!Code, Api!OfCreation, Api!OfId,
          Api!ReferencedByAgreement, Api!Agreed, Api!createAsset, Api!getAsset, Api!removeAsset
    <2>2. CASE r.op \in Api!OnPolicies
      BY <1>1, <1>2, <2>2, DocumentedFor
      DEF DocumentedAsDefined, Api!OnPolicies, Api!Code, Api!OfCreation, Api!OfId,
          Api!ReferencedByDefinition, Api!ReferencedAsContractPolicy,
          Api!ReferencedAsAccessPolicy, Api!createPolicy, Api!getPolicy, Api!deletePolicy
    <2>3. CASE r.op \in Api!OnDefinitions
      BY <1>1, <1>2, <2>3, DocumentedFor
      DEF DocumentedAsDefined, Api!OnDefinitions, Api!Code, Api!OfCreation, Api!OfId,
          Api!createContractDefinition, Api!getContractDefinition, Api!deleteContractDefinition
    <2>4. CASE r.op \in Api!OnNegotiations
      BY <1>1, <1>2, <2>4, DocumentedFor
      DEF DocumentedAsDefined, Api!OnNegotiations, Api!Code, Api!OfId, Api!Agreed,
          Api!getNegotiation, Api!getNegotiationState, Api!getContractAgreement,
          Api!cancelNegotiation, Api!Contradicted
    <2>5. CASE r.op \in Api!OnTransfers
      BY <1>1, <1>2, <2>5, DocumentedFor
      DEF DocumentedAsDefined, Api!OnTransfers, Api!TransferCommands, Api!Code, Api!OfId,
          Api!getTransferProcess, Api!getTransferProcessState, Api!cancelTransferProcess,
          Api!deprovisionTransferProcess
    <2>6. CASE r.op \in Api!OnDataRequests \cup Api!WithoutId
      BY <1>2, <2>6, DocumentedFor
      DEF DocumentedAsDefined, Api!OnDataRequests, Api!WithoutId, Api!Queries, Api!Code,
          Api!OfQuery, Api!getAllAssets, Api!getAllPolicies, Api!getAllContractDefinitions,
          Api!getNegotiations, Api!getAllAgreements, Api!getAllTransferProcesses,
          Api!initiateContractNegotiation, Api!initiateTransfer
    <2>7. r.op \in Api!Operations
      BY RequestShape
    <2> QED BY <2>1, <2>2, <2>3, <2>4, <2>5, <2>6, <2>7 DEF Api!Operations
  <1>4. Api!Unlisted(r)' = Api!Unlisted(r)
    BY <1>1 DEF Api!Unlisted, Api!Code, Api!Accepts, Api!QueueFull, Api!QueueOf
  <1>5. Api!decline(r)' = Api!decline(r) /\ Api!getForNegotiation(r)' = Api!getForNegotiation(r)
    BY <1>1 DEF Api!decline, Api!getForNegotiation, Api!Code, Api!Declinable, Api!Correlated,
       Api!Agreed
  <1> QED BY <1>3, <1>4, <1>5 DEF Api!Answers

LEMMA AnswersStayCodes == (\A r \in Api!Requests : Api!Answers(r) \subseteq Codes)'
BY AnswersAreCodes, PTL

(* The right answer of each kind of operation *)
LEMMA RefusingMalformed ==
  ASSUME NEW r \in Api!Requests, ~r.wellFormed
  PROVE  400 \in Api!Answers(r)
BY RequestShape, DocumentedFor
DEF DocumentedAsDefined, Api!Answers, Api!Contradicted, Api!Queries, Api!Creations, Api!Initiations, Api!Code,
    Api!OfQuery, Api!OfCreation,
    Api!getAllAssets, Api!getAllPolicies, Api!getAllContractDefinitions, Api!getNegotiations,
    Api!getAllAgreements, Api!getAllTransferProcesses, Api!createAsset, Api!createPolicy,
    Api!createContractDefinition, Api!initiateContractNegotiation, Api!initiateTransfer

LEMMA AnsweringQuery ==
  ASSUME NEW r \in Api!Requests, r.wellFormed, r.op \in Api!Queries \cup Api!Initiations
  PROVE  200 \in Api!Answers(r)
BY DocumentedFor
DEF DocumentedAsDefined, Api!Answers, Api!Contradicted, Api!Queries, Api!Initiations, Api!Code, Api!OfQuery,
    Api!getAllAssets, Api!getAllPolicies, Api!getAllContractDefinitions, Api!getNegotiations,
    Api!getAllAgreements, Api!getAllTransferProcesses,
    Api!initiateContractNegotiation, Api!initiateTransfer

LEMMA AnsweringCreation ==
  ASSUME NEW r \in Api!Requests, r.wellFormed, r.op \in Api!Creations
  PROVE  /\ Exists(r) => 409 \in Api!Answers(r)
         /\ ~Exists(r) => 200 \in Api!Answers(r)
BY DocumentedFor
DEF DocumentedAsDefined, Exists, Agreements, Api!Answers, Api!Contradicted, Api!Creations, Api!Code, Api!OfCreation,
    Api!OnAssets, Api!OnPolicies, Api!OnDefinitions, Api!OnNegotiations, Api!OnTransfers,
    Api!OnDataRequests,
    Api!TransferCommands,
    Api!createAsset, Api!createPolicy, Api!createContractDefinition

LEMMA AnsweringId ==
  ASSUME NEW r \in Api!Requests, r.op \in Gets \cup Api!Deletions \cup Api!QueuedCommands
  PROVE  /\ Exists(r) => 200 \in Api!Answers(r)
         /\ ~Exists(r) => 404 \in Api!Answers(r)
BY DocumentedFor
DEF DocumentedAsDefined, Exists, Agreements, Gets, Api!Answers, Api!Contradicted, Api!getForNegotiation, Api!Deletions,
    Api!QueuedCommands, Api!Code, Api!OfId, Api!Agreed,
    Api!OnAssets, Api!OnPolicies, Api!OnDefinitions, Api!OnNegotiations, Api!OnTransfers,
    Api!OnDataRequests,
    Api!TransferCommands,
    Api!getAsset, Api!getPolicy, Api!getContractDefinition, Api!getNegotiation,
    Api!getNegotiationState, Api!getContractAgreement,
    Api!getTransferProcess, Api!getTransferProcessState, Api!removeAsset, Api!deletePolicy,
    Api!deleteContractDefinition, Api!cancelNegotiation, Api!cancelTransferProcess,
    Api!deprovisionTransferProcess

LEMMA RefusingReferenced ==
  ASSUME NEW r \in Api!Requests
  PROVE  /\ r.op = "removeAsset" /\ Api!ReferencedByAgreement(r.id) => 409 \in Api!Answers(r)
         /\ r.op = "deletePolicy" /\ Api!ReferencedAsContractPolicy(r.id) => 409 \in Api!Answers(r)
         /\ r.op = "deletePolicy" /\ Api!ReferencedAsAccessPolicy(r.id) => 409 \in Api!Answers(r)
BY DocumentedFor
DEF DocumentedAsDefined, Api!Answers, Api!Contradicted, Api!Code, Api!removeAsset, Api!deletePolicy,
    Api!ReferencedByDefinition

LEMMA AnsweringCommand ==
  ASSUME NEW r \in Api!Requests
  PROVE  /\ r.op \in Api!QueuedCommands /\ Api!QueueFull(r) => 503 \in Api!Answers(r)
         /\ r.op \in Api!TransferCommands /\ Exists(r) /\ ~Api!Accepts(r) =>
              409 \in Api!Answers(r)
  <1>1. r.op \in Api!TransferCommands /\ Exists(r) => transfers[r.id] # Null
    BY DEF Exists, Agreements, Api!TransferCommands, Api!OnAssets, Api!OnPolicies,
           Api!OnDefinitions, Api!OnNegotiations, Api!OnTransfers, Api!OnDataRequests
  <1> QED
    BY <1>1 DEF Api!Answers, Api!Unlisted, Api!Code, Api!Contradicted, Api!QueuedCommands,
       Api!TransferCommands

LEMMA AnsweringDecline ==
  ASSUME NEW r \in Api!Requests, r.op = "declineNegotiation"
  PROVE  /\ ~Api!Declinable(r.id) => 409 \in Api!Answers(r)
         /\ Api!Declinable(r.id) => 200 \in Api!Answers(r)
         /\ \A m \in Api!Correlated(r.id) : Api!Declinable(m) => 200 \in Api!Answers(r)
BY DEF Api!Answers, Api!Contradicted, Api!decline, Api!Code

-----------------------------------------------------------------------------
(* The inductive invariant *)

(* Which operation is at which step *)
ControlOf(c) ==
  /\ call[c].step = "idle" <=> Request(c) = Null
  /\ call[c].step = "done" <=> call[c].code # Null
  /\ UnderWay(c) /\ call[c].step # "start" => Request(c).wellFormed
  /\ call[c].step = "save" => Request(c).op \in Api!Creations \cup {"initiateTransfer"}
  /\ call[c].step \in {"contracts", "access"} => Request(c).op = "deletePolicy"
  /\ call[c].step = "delete" => Request(c).op \in {"removeAsset", "deletePolicy"}
  /\ call[c].step = "enqueue" => Request(c).op \in Api!QueuedCommands
  /\ call[c].step \in {"correlation", "decline"} => Request(c).op = "declineNegotiation"
  /\ call[c].step = "decline" => call[c].copy \in Copy

(* What an earlier access of the call found is remembered. *)
FreeOf(c, op, kinds) == Request(c).op = op => kinds \subseteq free[c]

HistoryOf(c) ==
  /\ UnderWay(c) => AnswersNow(c) \subseteq could[c] /\ UnreferencedNow(c) \subseteq free[c]
  /\ call[c].step \in {"save", "enqueue", "decline"} => 200 \in could[c]
  /\ call[c].step = "correlation" => 409 \in could[c]
  /\ call[c].step = "access" => FreeOf(c, "deletePolicy", {"contractPolicy"})
  /\ call[c].step = "delete" \/ (call[c].step = "done" /\ call[c].code = 200) =>
       /\ FreeOf(c, "removeAsset", {"agreement"})
       /\ FreeOf(c, "deletePolicy", {"contractPolicy", "accessPolicy"})
  /\ call[c].step = "done" => call[c].code \in could[c]

CallInv == \A c \in Clients : ControlOf(c) /\ HistoryOf(c)

IndInv == TypeOK /\ CallInv

-----------------------------------------------------------------------------
(* How a step changes the calls *)

(* What is remembered covers the present, and is kept during a call. *)
LEMMA Remembering ==
  ASSUME Remember, NEW c \in Clients
  PROVE  /\ UnderWay(c)' => AnswersNow(c)' \subseteq could'[c]
         /\ UnderWay(c)' => UnreferencedNow(c)' \subseteq free'[c]
         /\ UnderWay(c) \/ ~UnderWay(c)' => could[c] \subseteq could'[c] /\ free[c] \subseteq free'[c]
BY DEF Remember

(* The calls of the other clients stay as they are. *)
LEMMA OtherCalls ==
  ASSUME Remember, NEW c \in Clients, ControlOf(c), HistoryOf(c), call'[c] = call[c]
  PROVE  (ControlOf(c) /\ HistoryOf(c))'
  <1>1. UnderWay(c)' <=> UnderWay(c)
    BY DEF UnderWay
  <1>2. Request(c)' = Request(c)
    BY DEF Request
  <1>3. ControlOf(c)'
    BY <1>1, <1>2 DEF ControlOf
  <1>4. HistoryOf(c)'
    BY <1>1, <1>2, Remembering DEF HistoryOf, FreeOf
  <1> QED BY <1>3, <1>4

(* A call that ends with an answer remembered as right *)
LEMMA Finishing ==
  ASSUME IndInv, Remember, NEW c \in Clients, NEW code \in Codes, Done(c, code),
         UnderWay(c), code \in could[c],
         code = 200 => /\ FreeOf(c, "removeAsset", {"agreement"})
                       /\ FreeOf(c, "deletePolicy", {"contractPolicy", "accessPolicy"})
  PROVE  call' \in [Clients -> CallType] /\ CallInv'
  <1>1. /\ call' \in [Clients -> CallType]
        /\ call'[c].step = "done" /\ call'[c].code = code
        /\ call'[c].request = call[c].request
        /\ \A d \in Clients \ {c} : call'[d] = call[d]
    BY DEF IndInv, TypeOK, CallType, Done, Request, Steps
  <1>2. ControlOf(c) /\ HistoryOf(c)
    BY DEF IndInv, CallInv
  <1>3. ~UnderWay(c)' /\ Request(c)' = Request(c)
    BY <1>1 DEF UnderWay, Request
  <1>4. ControlOf(c)'
    BY <1>1, <1>2, <1>3, NullAssumption DEF ControlOf, UnderWay, Codes
  <1>5. HistoryOf(c)'
    BY <1>1, <1>3, Remembering DEF HistoryOf, FreeOf
  <1>6. \A d \in Clients \ {c} : (ControlOf(d) /\ HistoryOf(d))'
    BY <1>1, OtherCalls DEF IndInv, CallInv
  <1> QED BY <1>1, <1>4, <1>5, <1>6 DEF CallInv

(* A call that goes on *)
LEMMA GoingOn ==
  ASSUME IndInv, Remember, NEW c \in Clients, NEW step \in Steps \ {"idle", "start", "done"},
         NEW copy \in Copy \cup {Null},
         Continue(c, step, copy), UnderWay(c), Request(c).wellFormed,
         step = "save" => Request(c).op \in Api!Creations \cup {"initiateTransfer"},
         step \in {"contracts", "access"} => Request(c).op = "deletePolicy",
         step = "delete" => Request(c).op \in {"removeAsset", "deletePolicy"},
         step = "enqueue" => Request(c).op \in Api!QueuedCommands,
         step \in {"correlation", "decline"} => Request(c).op = "declineNegotiation",
         step = "decline" => copy \in Copy,
         step \in {"save", "enqueue", "decline"} => 200 \in could[c],
         step = "correlation" => 409 \in could[c],
         step = "access" => FreeOf(c, "deletePolicy", {"contractPolicy"}),
         step = "delete" => /\ FreeOf(c, "removeAsset", {"agreement"})
                            /\ FreeOf(c, "deletePolicy", {"contractPolicy", "accessPolicy"})
  PROVE  call' \in [Clients -> CallType] /\ CallInv'
  <1>1. /\ call' \in [Clients -> CallType]
        /\ call'[c].step = step /\ call'[c].code = Null /\ call'[c].copy = copy
        /\ call'[c].request = call[c].request
        /\ \A d \in Clients \ {c} : call'[d] = call[d]
    BY DEF IndInv, TypeOK, CallType, Continue, Request
  <1>2. ControlOf(c) /\ HistoryOf(c)
    BY DEF IndInv, CallInv
  <1>3. UnderWay(c)' /\ Request(c)' = Request(c)
    BY <1>1 DEF UnderWay, Request
  <1>4. ControlOf(c)'
    BY <1>1, <1>2, <1>3 DEF ControlOf, UnderWay
  <1>5. HistoryOf(c)'
    BY <1>1, <1>3, Remembering DEF HistoryOf, FreeOf
  <1>6. \A d \in Clients \ {c} : (ControlOf(d) /\ HistoryOf(d))'
    BY <1>1, OtherCalls DEF IndInv, CallInv
  <1> QED BY <1>1, <1>4, <1>5, <1>6 DEF CallInv

(* A call that begins *)
LEMMA Beginning ==
  ASSUME IndInv, Remember, NEW c \in Clients, NEW r \in Api!Requests, Begin(c, r)
  PROVE  call' \in [Clients -> CallType] /\ CallInv'
  <1>1. /\ call' \in [Clients -> CallType]
        /\ call'[c].step = "start" /\ call'[c].code = Null
        /\ call'[c].request = r
        /\ \A d \in Clients \ {c} : call'[d] = call[d]
    BY DEF IndInv, TypeOK, CallType, Begin, Steps
  <1>2. UnderWay(c)' /\ Request(c)' = r
    BY <1>1 DEF UnderWay, Request
  <1>3. ControlOf(c)'
    BY <1>1, <1>2, NullAssumption DEF ControlOf
  <1>4. HistoryOf(c)'
    BY <1>1, <1>2, Remembering DEF HistoryOf
  <1>5. \A d \in Clients \ {c} : (ControlOf(d) /\ HistoryOf(d))'
    BY <1>1, OtherCalls DEF IndInv, CallInv
  <1> QED BY <1>1, <1>3, <1>4, <1>5 DEF CallInv

-----------------------------------------------------------------------------
(* Every step keeps the invariant. *)

(* Shared facts about a client's call under way *)
LEMMA AboutCall ==
  ASSUME IndInv, NEW c \in Clients, UnderWay(c)
  PROVE  /\ Request(c) \in Api!Requests
         /\ ControlOf(c) /\ HistoryOf(c)
         /\ \A code \in Api!Answers(Request(c)) : code \in could[c]
  <1>1. ControlOf(c) /\ HistoryOf(c)
    BY DEF IndInv, CallInv
  <1>2. Request(c) \in Api!Requests \cup {Null}
    BY DEF IndInv, TypeOK, CallType, Request
  <1> QED BY <1>1, <1>2 DEF ControlOf, HistoryOf, UnderWay, AnswersNow

(* A refusal for a reason that is true now *)
LEMMA Refusing ==
  ASSUME IndInv, Remember, NEW c \in Clients, NEW code \in Codes, Refuse(c, code),
         UnderWay(c), code \in Api!Answers(Request(c)),
         code # 200 \/ Request(c).op \notin {"removeAsset", "deletePolicy"}
  PROVE  call' \in [Clients -> CallType] /\ CallInv'
BY AboutCall, Finishing DEF Refuse, FreeOf

LEMMA KeepMalformed ==
  ASSUME IndInv, Remember, NEW c \in Clients, Malformed(c)
  PROVE  call' \in [Clients -> CallType] /\ CallInv'
  <1>1. UnderWay(c)
    BY DEF Malformed, UnderWay
  <1> QED BY <1>1, AboutCall, Refusing, RefusingMalformed DEF Malformed, Codes

LEMMA KeepQuery ==
  ASSUME IndInv, Remember, NEW c \in Clients, Query(c)
  PROVE  call' \in [Clients -> CallType] /\ CallInv'
  <1>1. UnderWay(c)
    BY DEF Query, At, UnderWay
  <1> QED BY <1>1, AboutCall, Refusing, AnsweringQuery DEF Query, At, Codes, Api!Queries

LEMMA KeepGet ==
  ASSUME IndInv, Remember, NEW c \in Clients, Get(c)
  PROVE  call' \in [Clients -> CallType] /\ CallInv'
  <1>1. UnderWay(c)
    BY DEF Get, At, UnderWay
  <1> QED BY <1>1, AboutCall, Refusing, AnsweringId DEF Get, At, Codes, Gets

LEMMA KeepCreateFind ==
  ASSUME IndInv, Remember, NEW c \in Clients, CreateFind(c)
  PROVE  call' \in [Clients -> CallType] /\ CallInv'
  <1>1. UnderWay(c)
    BY DEF CreateFind, At, UnderWay
  <1>2. Request(c) \in Api!Requests
    BY <1>1, AboutCall
  <1>3. CASE Exists(Request(c))
    BY <1>1, <1>2, <1>3, Refusing, AnsweringCreation DEF CreateFind, At, Codes
  <1>4. CASE ~Exists(Request(c))
    <2>1. 200 \in could[c]
      BY <1>1, <1>2, <1>4, AboutCall, AnsweringCreation DEF CreateFind, At
    <2>2. Continue(c, "save", Null)
      BY <1>4 DEF CreateFind, GoTo
    <2> QED BY <1>1, <2>1, <2>2, GoingOn DEF CreateFind, At, Steps
  <1> QED BY <1>3, <1>4

LEMMA KeepSave ==
  ASSUME IndInv, Remember, NEW c \in Clients, CreateSave(c) \/ InitiateTransferCreate(c)
  PROVE  call' \in [Clients -> CallType] /\ CallInv'
  <1>1. UnderWay(c) /\ call[c].step = "save" /\ Done(c, 200)
    BY DEF CreateSave, InitiateTransferCreate, At, UnderWay
  <1>2. 200 \in could[c]
    BY <1>1, AboutCall DEF HistoryOf
  <1>3. Request(c).op \notin {"removeAsset", "deletePolicy"}
    BY DEF CreateSave, InitiateTransferCreate, At, Api!Creations
  <1> QED BY <1>1, <1>2, <1>3, Finishing DEF FreeOf, Codes

LEMMA KeepRemoveAssetQuery ==
  ASSUME IndInv, Remember, NEW c \in Clients, RemoveAssetQuery(c)
  PROVE  call' \in [Clients -> CallType] /\ CallInv'
  <1>1. UnderWay(c) /\ Request(c).op = "removeAsset"
    BY DEF RemoveAssetQuery, At, UnderWay
  <1>2. Request(c) \in Api!Requests /\ Request(c).wellFormed
    BY <1>1, AboutCall, RequestShape DEF Api!Queries, Api!Creations, Api!Initiations
  <1>3. CASE Api!ReferencedByAgreement(Request(c).id)
    BY <1>1, <1>2, <1>3, Refusing, RefusingReferenced DEF RemoveAssetQuery, Codes
  <1>4. CASE ~Api!ReferencedByAgreement(Request(c).id)
    <2>1. "agreement" \in free[c]
      BY <1>1, <1>4, AboutCall DEF HistoryOf, UnreferencedNow, Kinds
    <2>2. Continue(c, "delete", Null)
      BY <1>4 DEF RemoveAssetQuery, GoTo
    <2> QED BY <1>1, <1>2, <2>1, <2>2, GoingOn DEF FreeOf, Steps
  <1> QED BY <1>3, <1>4

LEMMA KeepDeletePolicyFind ==
  ASSUME IndInv, Remember, NEW c \in Clients, DeletePolicyFind(c)
  PROVE  call' \in [Clients -> CallType] /\ CallInv'
  <1>1. UnderWay(c) /\ Request(c).op = "deletePolicy"
    BY DEF DeletePolicyFind, At, UnderWay
  <1>2. Request(c) \in Api!Requests /\ Request(c).wellFormed
    BY <1>1, AboutCall, RequestShape DEF Api!Queries, Api!Creations, Api!Initiations
  <1>3. CASE ~Exists(Request(c))
    BY <1>1, <1>2, <1>3, Refusing, AnsweringId DEF DeletePolicyFind, Codes, Api!Deletions
  <1>4. CASE Exists(Request(c))
    BY <1>1, <1>2, <1>4, GoingOn DEF DeletePolicyFind, GoTo, Steps
  <1> QED BY <1>3, <1>4

LEMMA KeepDeletePolicyContracts ==
  ASSUME IndInv, Remember, NEW c \in Clients, DeletePolicyContracts(c)
  PROVE  call' \in [Clients -> CallType] /\ CallInv'
  <1>1. UnderWay(c) /\ Request(c).op = "deletePolicy"
    BY DEF DeletePolicyContracts, At, UnderWay
  <1>2. Request(c) \in Api!Requests /\ Request(c).wellFormed
    BY <1>1, AboutCall, RequestShape DEF Api!Queries, Api!Creations, Api!Initiations
  <1>3. CASE Api!ReferencedAsContractPolicy(Request(c).id)
    BY <1>1, <1>2, <1>3, Refusing, RefusingReferenced DEF DeletePolicyContracts, Codes
  <1>4. CASE ~Api!ReferencedAsContractPolicy(Request(c).id)
    <2>1. "contractPolicy" \in free[c]
      BY <1>1, <1>4, AboutCall DEF HistoryOf, UnreferencedNow, Kinds
    <2>2. Continue(c, "access", Null)
      BY <1>4 DEF DeletePolicyContracts, GoTo
    <2> QED BY <1>1, <1>2, <2>1, <2>2, GoingOn DEF FreeOf, Steps
  <1> QED BY <1>3, <1>4

LEMMA KeepDeletePolicyAccess ==
  ASSUME IndInv, Remember, NEW c \in Clients, DeletePolicyAccess(c)
  PROVE  call' \in [Clients -> CallType] /\ CallInv'
  <1>1. UnderWay(c) /\ Request(c).op = "deletePolicy" /\ call[c].step = "access"
    BY DEF DeletePolicyAccess, At, UnderWay
  <1>2. Request(c) \in Api!Requests /\ Request(c).wellFormed
    BY <1>1, AboutCall, RequestShape DEF Api!Queries, Api!Creations, Api!Initiations
  <1>3. CASE Api!ReferencedAsAccessPolicy(Request(c).id)
    BY <1>1, <1>2, <1>3, Refusing, RefusingReferenced DEF DeletePolicyAccess, Codes
  <1>4. CASE ~Api!ReferencedAsAccessPolicy(Request(c).id)
    <2>1. "accessPolicy" \in free[c]
      BY <1>1, <1>4, AboutCall DEF HistoryOf, UnreferencedNow, Kinds
    <2>2. "contractPolicy" \in free[c]
      BY <1>1, AboutCall DEF HistoryOf, FreeOf
    <2>3. Continue(c, "delete", Null)
      BY <1>4 DEF DeletePolicyAccess, GoTo
    <2> QED BY <1>1, <1>2, <2>1, <2>2, <2>3, GoingOn DEF FreeOf, Steps
  <1> QED BY <1>3, <1>4

LEMMA KeepDeleteById ==
  ASSUME IndInv, Remember, NEW c \in Clients, DeleteById(c)
  PROVE  call' \in [Clients -> CallType] /\ CallInv'
  <1>1. UnderWay(c) /\ Request(c).op \in Api!Deletions
    BY DEF DeleteById, At, UnderWay, Api!Deletions
  <1>2. Request(c) \in Api!Requests /\ ControlOf(c) /\ HistoryOf(c)
    BY <1>1, AboutCall
  <1>3. CASE ~Exists(Request(c))
    BY <1>1, <1>2, <1>3, Refusing, AnsweringId DEF DeleteById, Codes
  <1>4. CASE Exists(Request(c))
    <2>1. 200 \in could[c]
      BY <1>1, <1>2, <1>4, AboutCall, AnsweringId
    <2>2. /\ FreeOf(c, "removeAsset", {"agreement"})
          /\ FreeOf(c, "deletePolicy", {"contractPolicy", "accessPolicy"})
      BY <1>2 DEF DeleteById, At, HistoryOf, FreeOf
    <2>3. Done(c, 200)
      BY <1>4 DEF DeleteById
    <2> QED BY <1>1, <2>1, <2>2, <2>3, Finishing DEF Codes
  <1> QED BY <1>3, <1>4

LEMMA KeepInitiateNegotiation ==
  ASSUME IndInv, Remember, NEW c \in Clients, InitiateNegotiation(c)
  PROVE  call' \in [Clients -> CallType] /\ CallInv'
  <1>1. /\ UnderWay(c) /\ Done(c, 200) /\ Request(c).wellFormed
        /\ Request(c).op = "initiateContractNegotiation"
    BY DEF InitiateNegotiation, At, UnderWay
  <1>2. 200 \in could[c]
    BY <1>1, AboutCall, AnsweringQuery DEF Api!Initiations
  <1> QED BY <1>1, <1>2, Finishing DEF FreeOf, Codes

LEMMA KeepInitiateTransferFind ==
  ASSUME IndInv, Remember, NEW c \in Clients, InitiateTransferFind(c)
  PROVE  call' \in [Clients -> CallType] /\ CallInv'
  <1>1. UnderWay(c) /\ Request(c).wellFormed /\ Request(c).op = "initiateTransfer"
    BY DEF InitiateTransferFind, At, UnderWay
  <1>2. 200 \in Api!Answers(Request(c)) /\ 200 \in could[c]
    BY <1>1, AboutCall, AnsweringQuery DEF Api!Initiations
  <1>3. CASE Exists(Request(c))
    BY <1>1, <1>2, <1>3, Refusing DEF InitiateTransferFind, Codes
  <1>4. CASE ~Exists(Request(c))
    <2>1. Continue(c, "save", Null)
      BY <1>4 DEF InitiateTransferFind, GoTo
    <2> QED BY <1>1, <1>2, <2>1, GoingOn DEF Steps
  <1> QED BY <1>3, <1>4

LEMMA KeepCancelNegotiationFind ==
  ASSUME IndInv, Remember, NEW c \in Clients, CancelNegotiationFind(c)
  PROVE  call' \in [Clients -> CallType] /\ CallInv'
  <1>1. UnderWay(c) /\ Request(c).op = "cancelNegotiation"
    BY DEF CancelNegotiationFind, At, UnderWay
  <1>2. Request(c) \in Api!Requests /\ Request(c).wellFormed
    BY <1>1, AboutCall, RequestShape DEF Api!Queries, Api!Creations, Api!Initiations
  <1>3. CASE ~Exists(Request(c))
    BY <1>1, <1>2, <1>3, Refusing, AnsweringId
    DEF CancelNegotiationFind, Codes, Api!QueuedCommands
  <1>4. CASE Exists(Request(c))
    <2>1. 200 \in could[c]
      BY <1>1, <1>2, <1>4, AboutCall, AnsweringId DEF Api!QueuedCommands
    <2>2. Continue(c, "enqueue", Null)
      BY <1>4 DEF CancelNegotiationFind, GoTo
    <2> QED BY <1>1, <1>2, <2>1, <2>2, GoingOn DEF Steps, Api!QueuedCommands
  <1> QED BY <1>3, <1>4

LEMMA KeepCommandTransferFind ==
  ASSUME IndInv, Remember, NEW c \in Clients, CommandTransferFind(c)
  PROVE  call' \in [Clients -> CallType] /\ CallInv'
  <1>1. UnderWay(c) /\ Request(c).op \in Api!TransferCommands
    BY DEF CommandTransferFind, At, UnderWay
  <1>2. Request(c) \in Api!Requests /\ Request(c).wellFormed
    BY <1>1, AboutCall, RequestShape
    DEF Api!Queries, Api!Creations, Api!Initiations, Api!TransferCommands
  <1>3. CASE ~Exists(Request(c))
    BY <1>1, <1>2, <1>3, Refusing, AnsweringId
    DEF CommandTransferFind, Codes, Api!QueuedCommands
  <1>4. CASE Exists(Request(c)) /\ ~Api!Accepts(Request(c))
    BY <1>1, <1>2, <1>4, Refusing, AnsweringCommand DEF CommandTransferFind, Codes
  <1>5. CASE Exists(Request(c)) /\ Api!Accepts(Request(c))
    <2>1. 200 \in could[c]
      BY <1>1, <1>2, <1>5, AboutCall, AnsweringId DEF Api!QueuedCommands
    <2>2. Continue(c, "enqueue", Null)
      BY <1>5 DEF CommandTransferFind, GoTo
    <2> QED BY <1>1, <1>2, <2>1, <2>2, GoingOn DEF Steps, Api!QueuedCommands
  <1> QED BY <1>3, <1>4, <1>5

LEMMA KeepEnqueueCommand ==
  ASSUME IndInv, Remember, NEW c \in Clients, EnqueueCommand(c)
  PROVE  call' \in [Clients -> CallType] /\ CallInv'
  <1>1. /\ UnderWay(c) /\ Request(c).op \in Api!QueuedCommands
        /\ call[c].step = "enqueue"
    BY DEF EnqueueCommand, At, UnderWay
  <1>2. Request(c) \in Api!Requests /\ 200 \in could[c]
    BY <1>1, AboutCall DEF HistoryOf
  <1>3. CASE Api!QueueFull(Request(c))
    BY <1>1, <1>2, <1>3, Refusing, AnsweringCommand DEF EnqueueCommand, Codes
  <1>4. CASE ~Api!QueueFull(Request(c))
    <2>1. Done(c, 200)
      BY <1>4 DEF EnqueueCommand
    <2>2. Request(c).op \notin {"removeAsset", "deletePolicy"}
      BY <1>1 DEF Api!QueuedCommands, Api!TransferCommands
    <2> QED BY <1>1, <1>2, <2>1, <2>2, Finishing DEF FreeOf, Codes
  <1> QED BY <1>3, <1>4

(* A negotiation in hand *)
LEMMA InHandTyped ==
  ASSUME Api!StoreType, NEW n \in Negotiations, negotiations[n] # Null
  PROVE  InHand(n) \in Copy /\ Api!Declined(negotiations[n]) \in Api!ContractNegotiation
  <1>1. negotiations[n] \in Api!ContractNegotiation
    BY DEF Api!StoreType
  <1>2. Api!Declined(negotiations[n]) \in Api!ContractNegotiation
    BY <1>1 DEF Api!Declined, Api!ContractNegotiation
  <1> QED BY <1>2 DEF InHand, Copy

LEMMA KeepDeclineFind ==
  ASSUME IndInv, Remember, NEW c \in Clients, DeclineFind(c)
  PROVE  call' \in [Clients -> CallType] /\ CallInv'
  <1>1. UnderWay(c) /\ Request(c).op = "declineNegotiation"
    BY DEF DeclineFind, At, UnderWay
  <1>2. Request(c) \in Api!Requests /\ Request(c).wellFormed
    BY <1>1, AboutCall, RequestShape DEF Api!Queries, Api!Creations, Api!Initiations
  <1>3. Request(c).id \in Negotiations
    BY <1>1, <1>2, RequestShape DEF Api!OnNegotiations
  <1>4. ~Exists(Request(c)) => ~Api!Declinable(Request(c).id)
    BY <1>1 DEF Exists, Agreements, Api!Declinable, Api!OnNegotiations
  <1>5. CASE ~Exists(Request(c))
    <2>1. 409 \in could[c]
      BY <1>1, <1>2, <1>4, <1>5, AboutCall, AnsweringDecline
    <2>2. Continue(c, "correlation", Null)
      BY <1>5 DEF DeclineFind, GoTo
    <2> QED BY <1>1, <1>2, <2>1, <2>2, GoingOn DEF Steps
  <1>6. CASE Exists(Request(c)) /\ ~Api!Declinable(Request(c).id)
    BY <1>1, <1>2, <1>6, Refusing, AnsweringDecline DEF DeclineFind, Codes
  <1>7. CASE Exists(Request(c)) /\ Api!Declinable(Request(c).id)
    <2>1. 200 \in could[c]
      BY <1>1, <1>2, <1>7, AboutCall, AnsweringDecline
    <2>2. InHand(Request(c).id) \in Copy
      BY <1>3, <1>7, InHandTyped DEF IndInv, TypeOK, Api!Declinable
    <2>3. Continue(c, "decline", InHand(Request(c).id))
      BY <1>7 DEF DeclineFind
    <2> QED BY <1>1, <1>2, <2>1, <2>2, <2>3, GoingOn DEF Steps
  <1> QED BY <1>5, <1>6, <1>7

LEMMA KeepDeclineCorrelated ==
  ASSUME IndInv, Remember, NEW c \in Clients, DeclineCorrelated(c)
  PROVE  call' \in [Clients -> CallType] /\ CallInv'
  <1>1. /\ UnderWay(c) /\ Request(c).op = "declineNegotiation"
        /\ call[c].step = "correlation"
    BY DEF DeclineCorrelated, At, UnderWay
  <1>2. Request(c) \in Api!Requests /\ Request(c).wellFormed
    BY <1>1, AboutCall, RequestShape DEF Api!Queries, Api!Creations, Api!Initiations
  <1>3. CASE Refuse(c, 409)
    <2>1. 409 \in could[c]
      BY <1>1, AboutCall DEF HistoryOf
    <2> QED BY <1>1, <1>3, <2>1, Finishing DEF Refuse, Codes
  <1>4. CASE ~Refuse(c, 409)
    <2>1. PICK m \in Api!Correlated(Request(c).id) :
            Api!Declinable(m) /\ Continue(c, "decline", InHand(m))
      BY <1>4 DEF DeclineCorrelated
    <2>2. 200 \in could[c]
      BY <1>1, <1>2, <2>1, AboutCall, AnsweringDecline
    <2>3. InHand(m) \in Copy
      BY <2>1, InHandTyped DEF IndInv, TypeOK, Api!Declinable, Api!Correlated
    <2> QED BY <1>1, <1>2, <2>1, <2>2, <2>3, GoingOn DEF Steps
  <1> QED BY <1>3, <1>4

LEMMA KeepDeclineSave ==
  ASSUME IndInv, Remember, NEW c \in Clients, DeclineSave(c)
  PROVE  call' \in [Clients -> CallType] /\ CallInv'
  <1>1. /\ UnderWay(c) /\ Request(c).op = "declineNegotiation"
        /\ call[c].step = "decline" /\ Done(c, 200)
    BY DEF DeclineSave, At, UnderWay
  <1>2. 200 \in could[c]
    BY <1>1, AboutCall DEF HistoryOf
  <1> QED BY <1>1, <1>2, Finishing DEF FreeOf, Codes

LEMMA KeepBackground ==
  ASSUME IndInv, Remember, UNCHANGED call
  PROVE  call' \in [Clients -> CallType] /\ CallInv'
  <1>1. \A c \in Clients : (ControlOf(c) /\ HistoryOf(c))'
    BY OtherCalls DEF IndInv, CallInv
  <1> QED BY <1>1 DEF IndInv, TypeOK, CallInv

-----------------------------------------------------------------------------
(* The stores keep their types. *)

LEMMA PutTyped ==
  ASSUME Api!StoreType, NEW r \in Api!Requests, r.wellFormed, Api!Put(r) \/ Api!Remove(r)
  PROVE  Api!StoreType'
  <1>1. /\ r.op \in Api!OnAssets => r.id \in Assets
        /\ r.op \in Api!OnPolicies => r.id \in Policies
        /\ r.op \in Api!OnDefinitions => r.id \in Definitions
    BY RequestShape
  <1> QED
    BY <1>1 DEF Api!StoreType, Api!Put, Api!Remove, Api!OnAssets, Api!OnPolicies, Api!OnDefinitions

LEMMA NegotiationTyped ==
  ASSUME Api!StoreType, NEW n \in Negotiations, NEW negotiation \in Api!ContractNegotiation,
         Api!SaveNegotiation(n, negotiation)
  PROVE  Api!StoreType'
BY DEF Api!StoreType, Api!SaveNegotiation

LEMMA InitiatedTyped ==
  ASSUME Api!StoreType, NEW n \in Negotiations, Api!InitiateNegotiation(n)
  PROVE  Api!StoreType'
BY NegotiationTyped DEF Api!InitiateNegotiation, Api!ContractNegotiation

LEMMA RequestedTyped ==
  ASSUME Api!StoreType, NEW n \in Negotiations, Api!NegotiationRequested(n)
  PROVE  Api!StoreType'
BY NegotiationTyped DEF Api!NegotiationRequested, Api!ContractNegotiation

LEMMA SavedTyped ==
  ASSUME Api!StoreType, NEW n \in Negotiations, Api!NegotiationSaved(n)
  PROVE  Api!StoreType'
  <1>1. negotiations[n].correlation \in Negotiations \cup {Null}
    BY DEF Api!StoreType, Api!NegotiationSaved, Api!ContractNegotiation
  <1> QED BY <1>1, NegotiationTyped DEF Api!NegotiationSaved, Api!ContractNegotiation

LEMMA TransferTyped ==
  ASSUME Api!StoreType, NEW t \in Transfers, NEW q \in DataRequests,
         Api!InitiateTransfer(t, q)
  PROVE  Api!StoreType'
BY DEF Api!StoreType, Api!InitiateTransfer, Api!TransferProcess, Api!TransferCommands

LEMMA TransferSavedTyped ==
  ASSUME Api!StoreType, NEW t \in Transfers, Api!TransferSaved(t)
  PROVE  Api!StoreType'
  <1>1. (IF transfers[t] # Null THEN transfers[t].request ELSE Null) \in DataRequests \cup {Null}
    BY DEF Api!StoreType, Api!TransferProcess
  <1> QED BY <1>1 DEF Api!StoreType, Api!TransferSaved, Api!TransferProcess

LEMMA CommandsTyped ==
  ASSUME Api!StoreType, NEW queue \in Api!Queues,
         (Api!Enqueue(queue) /\ commands[queue] # QueueBound) \/ Api!CommandRun(queue)
  PROVE  Api!StoreType'
BY ServicesAssumption DEF Api!StoreType, Api!Enqueue, Api!CommandRun

LEMMA StoresUnchanged ==
  ASSUME Api!StoreType, UNCHANGED stores
  PROVE  Api!StoreType'
BY DEF Api!StoreType, stores

LEMMA StepTyped ==
  ASSUME IndInv, NEW c \in Clients, Step(c)
  PROVE  Api!StoreType'
  <1> Api!StoreType
    BY DEF IndInv, TypeOK
  <1>1. CASE UNCHANGED stores
    BY <1>1, StoresUnchanged
  <1>2. CASE CreateSave(c)
    <2>1. UnderWay(c) /\ call[c].step = "save"
      BY <1>2 DEF CreateSave, At, UnderWay
    <2>2. Request(c) \in Api!Requests /\ Request(c).wellFormed
      BY <2>1, AboutCall DEF ControlOf
    <2> QED BY <1>2, <2>2, PutTyped DEF CreateSave
  <1>3. CASE DeleteById(c) /\ ~UNCHANGED stores
    <2>1. UnderWay(c) /\ Request(c).op \in Api!Deletions
      BY <1>3 DEF DeleteById, At, UnderWay, Api!Deletions
    <2>2. Request(c) \in Api!Requests /\ Request(c).wellFormed
      BY <2>1, AboutCall, RequestShape
      DEF Api!Queries, Api!Creations, Api!Initiations, Api!Deletions
    <2> QED BY <1>3, <2>2, PutTyped DEF DeleteById, Refuse
  <1>4. CASE InitiateNegotiation(c)
    BY <1>4, InitiatedTyped DEF InitiateNegotiation
  <1>5. CASE InitiateTransferCreate(c)
    <2>1. UnderWay(c) /\ call[c].step = "save" /\ Request(c).op = "initiateTransfer"
      BY <1>5 DEF InitiateTransferCreate, At, UnderWay
    <2>2. Request(c).id \in DataRequests
      BY <2>1, AboutCall, RequestShape DEF ControlOf, Api!OnDataRequests
    <2> QED BY <1>5, <2>2, TransferTyped DEF InitiateTransferCreate
  <1>6. CASE EnqueueCommand(c) /\ ~UNCHANGED stores
    BY <1>6, CommandsTyped
    DEF EnqueueCommand, Refuse, Api!QueueFull, Api!QueueOf, Api!Queues
  <1>7. CASE DeclineSave(c)
    <2>1. UnderWay(c) /\ call[c].step = "decline"
      BY <1>7 DEF DeclineSave, At, UnderWay
    <2>2. call[c].copy \in Copy
      BY <2>1, AboutCall DEF ControlOf
    <2> QED BY <1>7, <2>2, NegotiationTyped DEF DeclineSave, Copy
  <1>8. CASE DeclineCorrelated(c) /\ ~UNCHANGED stores
    <2>1. PICK m \in Api!Correlated(Request(c).id) :
            Api!SaveNegotiation(m, Api!Declined(negotiations[m]))
      BY <1>8 DEF DeclineCorrelated, Refuse
    <2> QED BY <2>1, InHandTyped, NegotiationTyped DEF Api!Correlated
  <1> QED
    BY <1>1, <1>2, <1>3, <1>4, <1>5, <1>6, <1>7, <1>8
    DEF Step, Malformed, Query, Get, CreateFind, RemoveAssetQuery, DeletePolicyFind,
        DeletePolicyContracts, DeletePolicyAccess, InitiateTransferFind,
        CancelNegotiationFind, CommandTransferFind, DeclineFind, Refuse, GoTo

LEMMA BackgroundTyped ==
  ASSUME IndInv, Background
  PROVE  Api!StoreType'
  <1> Api!StoreType
    BY DEF IndInv, TypeOK
  <1>1. ASSUME NEW n \in Negotiations, Api!NegotiationRequested(n) \/ Api!NegotiationSaved(n)
        PROVE  Api!StoreType'
    BY <1>1, RequestedTyped, SavedTyped
  <1>2. ASSUME NEW t \in Transfers, Api!TransferSaved(t)
        PROVE  Api!StoreType'
    BY <1>2, TransferSavedTyped
  <1>3. ASSUME NEW queue \in Api!Queues, Api!CommandRun(queue)
        PROVE  Api!StoreType'
    BY <1>3, CommandsTyped
  <1> QED BY <1>1, <1>2, <1>3 DEF Background

LEMMA HistoryTyped ==
  ASSUME IndInv, Remember, call' \in [Clients -> CallType], CallInv'
  PROVE  could' \in [Clients -> SUBSET Codes] /\ free' \in [Clients -> SUBSET Kinds]
  <1>1. ASSUME NEW c \in Clients, UnderWay(c)'
        PROVE  AnswersNow(c)' \subseteq Codes /\ UnreferencedNow(c)' \subseteq Kinds
    <2>1. Request(c)' \in Api!Requests
      BY <1>1 DEF CallInv, ControlOf, CallType, Request, UnderWay
    <2> QED BY <2>1, AnswersStayCodes DEF AnswersNow, UnreferencedNow
  <1> QED BY <1>1 DEF IndInv, TypeOK, Remember

-----------------------------------------------------------------------------
(* The theorems about Spec *)

LEMMA InitIndInv == Init => IndInv
  <1> SUFFICES ASSUME Init PROVE IndInv
    OBVIOUS
  <1>1. Api!StoreType
    BY ServicesAssumption DEF Init, Api!StoreInit, Api!StoreType, Api!Queues
  <1>2. TypeOK
    BY <1>1 DEF Init, TypeOK, NoCall, CallType, Steps, Codes, Kinds
  <1>3. CallInv
    BY DEF Init, CallInv, ControlOf, HistoryOf, NoCall, Request, UnderWay
  <1> QED BY <1>2, <1>3 DEF IndInv

LEMMA NextIndInv == IndInv /\ [Next]_vars => IndInv'
  <1> SUFFICES ASSUME IndInv, [Next]_vars PROVE IndInv'
    OBVIOUS
  <1>1. CASE UNCHANGED vars
    <2>1. UNCHANGED <<assets, policies, definitions, negotiations, transfers, commands,
                     call, could, free, workload>>
      BY <1>1 DEF vars, stores
    <2>2. TypeOK'
      BY <2>1 DEF IndInv, TypeOK, Api!StoreType
    <2>3. \A r \in Api!Requests : Api!Answers(r)' = Api!Answers(r)
      BY <1>1, SameAnswers DEF vars
    <2>4. CallInv'
      <3> SUFFICES ASSUME NEW c \in Clients PROVE (ControlOf(c) /\ HistoryOf(c))'
        BY DEF CallInv
      <3>1. ControlOf(c) /\ HistoryOf(c)
        BY DEF IndInv, CallInv
      <3>2. Request(c)' = Request(c) /\ (UnderWay(c)' <=> UnderWay(c))
        BY <2>1 DEF Request, UnderWay
      <3>3. UnderWay(c) => AnswersNow(c)' = AnswersNow(c)
        BY <2>3, <3>2, AboutCall DEF AnswersNow
      <3>4. UnreferencedNow(c)' = UnreferencedNow(c)
        BY <2>1, <3>2 DEF UnreferencedNow, Api!ReferencedByAgreement, Api!Agreed,
           Api!ReferencedAsContractPolicy, Api!ReferencedAsAccessPolicy
      <3>5. ControlOf(c)'
        BY <2>1, <3>1, <3>2 DEF ControlOf
      <3>6. HistoryOf(c)'
        BY <2>1, <3>1, <3>2, <3>3, <3>4 DEF HistoryOf, FreeOf
      <3> QED BY <3>5, <3>6
    <2> QED BY <2>2, <2>4 DEF IndInv
  <1>2. ASSUME Next PROVE IndInv'
    <2>1. Remember
      BY <1>2 DEF Next
    <2>2. call' \in [Clients -> CallType] /\ CallInv' /\ Api!StoreType'
      <3>1. ASSUME NEW c \in Clients, NEW r \in Api!Requests, Begin(c, r)
            PROVE  call' \in [Clients -> CallType] /\ CallInv' /\ Api!StoreType'
        BY <2>1, <3>1, Beginning, StoresUnchanged DEF Begin, IndInv, TypeOK
      <3>2. ASSUME NEW c \in Clients, Step(c)
            PROVE  call' \in [Clients -> CallType] /\ CallInv' /\ Api!StoreType'
        BY <2>1, <3>2, StepTyped, KeepMalformed, KeepQuery, KeepGet, KeepCreateFind, KeepSave,
           KeepRemoveAssetQuery, KeepDeletePolicyFind, KeepDeletePolicyContracts,
           KeepDeletePolicyAccess, KeepDeleteById, KeepInitiateNegotiation,
           KeepInitiateTransferFind, KeepCancelNegotiationFind, KeepCommandTransferFind,
           KeepEnqueueCommand, KeepDeclineFind, KeepDeclineCorrelated, KeepDeclineSave
        DEF Step
      <3>3. ASSUME Background
            PROVE  call' \in [Clients -> CallType] /\ CallInv' /\ Api!StoreType'
        BY <2>1, <3>3, KeepBackground, BackgroundTyped DEF Background
      <3> QED BY <1>2, <3>1, <3>2, <3>3 DEF Next
    <2>3. could' \in [Clients -> SUBSET Codes] /\ free' \in [Clients -> SUBSET Kinds]
      BY <2>1, <2>2, HistoryTyped
    <2> QED BY <2>1, <2>2, <2>3 DEF IndInv, TypeOK, Remember
  <1> QED BY <1>1, <1>2

LEMMA Invariance == Spec => []IndInv
BY InitIndInv, NextIndInv, PTL DEF Spec

(* Every variable keeps its type: in particular a command queue never holds *)
(* more than its bound, however many clients enqueue at once.              *)
THEOREM TypeCorrect == Spec => []TypeOK
BY Invariance, PTL DEF IndInv

(* Every call is answered with a code whose reason was true at some moment  *)
(* of the call: the document's reason or one of Unlisted, and for decline   *)
(* and getForNegotiation the services' own (Contradicted).                 *)
THEOREM AnswersAreTrue == Spec => []AnswerWasTrue
  <1>1. IndInv => AnswerWasTrue
    BY DEF IndInv, CallInv, HistoryOf, AnswerWasTrue
  <1> QED BY <1>1, Invariance, PTL

(* An asset is deleted only if no agreement, and a policy definition only   *)
(* if neither a contract policy nor an access policy, referenced it during  *)
(* the call.                                                               *)
THEOREM DeletionsAreChecked == Spec => []DeletedUnreferenced
  <1>1. IndInv => DeletedUnreferenced
    BY DEF IndInv, CallInv, HistoryOf, FreeOf, DeletedUnreferenced, Deleted
  <1> QED BY <1>1, Invariance, PTL
=============================================================================
