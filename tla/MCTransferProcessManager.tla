----------------------- MODULE MCTransferProcessManager -----------------------
(***************************************************************************)
(* Instances of TransferProcessManager for TLC.                            *)
(***************************************************************************)
EXTENDS TransferProcessManager, TLC

MCRequest(transfer, type, managed, finite, checked) ==
  [transfer |-> transfer, type |-> type, managed |-> managed,
   finite |-> finite, checked |-> checked]

(* One transfer, on either side, with every combination of options. *)
AnyRequest ==
  {MCRequest("t1", type, managed, finite, checked) :
     type \in {CONSUMER, PROVIDER},
     managed \in BOOLEAN, finite \in BOOLEAN, checked \in BOOLEAN}

(* One managed consumer transfer that is checked for completion. *)
ConsumerRequest == {MCRequest("t1", CONSUMER, TRUE, TRUE, TRUE)}

(* One transfer, a checked consumer transfer or a streaming provider one. *)
EitherSide ==
  {MCRequest("t1", CONSUMER, TRUE, TRUE, TRUE),
   MCRequest("t1", PROVIDER, FALSE, FALSE, FALSE)}

(* Two transfers: one on the provider side, one on the consumer side. *)
TwoRequests ==
  {MCRequest("t1", CONSUMER, FALSE, TRUE, TRUE),
   MCRequest("t2", PROVIDER, FALSE, TRUE, FALSE)}

(* Two resources may be reported for each definition. *)
TwoEach == Definitions \X {1, 2}
OneEach == Definitions \X {1}

(* A second resource may be reported for one of the definitions. *)
OneReportedAgain ==
  LET d == CHOOSE d \in Definitions : TRUE IN OneEach \cup {<<d, 2>>}
MadeFrom == [r \in Resources |-> r[1]]

CancelOnly == {"CancelTransfer"}
DeprovisionOnly == {"DeprovisionRequest"}
ApiCommands == {"CancelTransfer", "DeprovisionRequest"}
WithoutLateProvisioning == AllCommandKinds \ {"AddProvisionedResource"}

SameThreads == Permutations(Callbacks)
Interchangeable == Permutations(Callbacks) \cup Permutations(Definitions)

===============================================================================
