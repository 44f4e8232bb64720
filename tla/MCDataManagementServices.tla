---------------------- MODULE MCDataManagementServices -----------------------
(***************************************************************************)
(* Instances of DataManagementServices for TLC.  Operations that share no  *)
(* store do not disturb each other, so each behaviour uses the operations  *)
(* of one group: assets (with the negotiations whose agreements reference  *)
(* them), negotiations, policies and contract definitions, or transfers.   *)
(***************************************************************************)
EXTENDS DataManagementServices, TLC

AssetWorkload ==
  {"getAllAssets", "createAsset", "getAsset", "removeAsset", "getNegotiations",
   "initiateContractNegotiation", "getNegotiation", "getNegotiationState",
   "getAllAgreements", "getContractAgreement"}

NegotiationWorkload ==
  {"initiateContractNegotiation", "getNegotiation", "getAgreementForNegotiation",
   "cancelNegotiation", "declineNegotiation"}

PolicyWorkload ==
  {"getAllPolicies", "createPolicy", "getPolicy", "deletePolicy",
   "getAllContractDefinitions", "createContractDefinition",
   "getContractDefinition", "deleteContractDefinition"}

TransferWorkload ==
  {"getAllTransferProcesses", "initiateTransfer", "getTransferProcess",
   "getTransferProcessState", "cancelTransferProcess", "deprovisionTransferProcess"}

Groups == {AssetWorkload, NegotiationWorkload, PolicyWorkload, TransferWorkload}

OnlyPolicies == {PolicyWorkload}

(* Clients, and negotiations, are alike. *)
SameClients == Permutations(Clients) \cup Permutations(Negotiations)
=============================================================================
