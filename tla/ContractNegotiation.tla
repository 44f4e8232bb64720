------------------------- MODULE ContractNegotiation -------------------------
(***************************************************************************)
(* The ContractNegotiation entity (spi/contract-spi): what either party    *)
(* keeps of one negotiation, and the transitions the entity allows.        *)
(* Unlike a TransferProcess, a negotiation has no "back" check: every      *)
(* transition from a state that is not listed throws.                      *)
(***************************************************************************)
EXTENDS Integers

CONSTANTS
  Consumers,   \* ids of negotiations created by initiate
  Providers,   \* ids of negotiations created by requested
  Null         \* a null reference

ASSUME NegotiationAssumption ==
  Consumers \cap Providers = {} /\ Null \notin Consumers \cup Providers

CONSUMER == "CONSUMER"
PROVIDER == "PROVIDER"

-----------------------------------------------------------------------------
(* ContractNegotiationStates *)
UNSAVED            == 0
INITIAL            == 50
REQUESTING         == 100
REQUESTED          == 200
PROVIDER_OFFERING  == 300
PROVIDER_OFFERED   == 400
CONSUMER_OFFERING  == 500
CONSUMER_OFFERED   == 600
CONSUMER_APPROVING == 700
CONSUMER_APPROVED  == 800
DECLINING          == 900
DECLINED           == 1000
CONFIRMING         == 1100
CONFIRMED          == 1200
ERROR              == -1

ContractNegotiationStates ==
  {UNSAVED, INITIAL, REQUESTING, REQUESTED, PROVIDER_OFFERING,
   PROVIDER_OFFERED, CONSUMER_OFFERING, CONSUMER_OFFERED, CONSUMER_APPROVING,
   CONSUMER_APPROVED, DECLINING, DECLINED, CONFIRMING, CONFIRMED, ERROR}

(* Agreements are numbered in the order of their creation; 0 is no agreement. *)
NoAgreement == 0

(* The entity.  Offers, addresses and error details are left out: what the  *)
(* validation of an offer or an agreement says is a choice of the manager.  *)
ContractNegotiationType ==
  [id : Consumers \cup Providers, type : {CONSUMER, PROVIDER},
   correlationId : Consumers \cup {Null}, state : ContractNegotiationStates,
   stateCount : Nat, agreement : Nat]

IsConsumer(n) == n.type = CONSUMER

-----------------------------------------------------------------------------
(* Transitions *)

(* The states from which the entity's transitionXxx method reaches end;    *)
(* none where the method rejects this type of negotiation.                 *)
Starts(n, end) ==
  CASE end = INITIAL -> {UNSAVED, REQUESTING}
    [] end = REQUESTING -> IF IsConsumer(n) THEN {REQUESTING, INITIAL} ELSE {}
    [] end = REQUESTED ->
         IF IsConsumer(n) THEN {REQUESTED, REQUESTING} ELSE {UNSAVED}
    [] end = CONSUMER_OFFERING ->
         IF IsConsumer(n) THEN {CONSUMER_OFFERING, REQUESTED} ELSE {}
    [] end = PROVIDER_OFFERING ->
         IF IsConsumer(n) THEN {}
         ELSE {PROVIDER_OFFERING, PROVIDER_OFFERED, REQUESTED}
    [] end = CONSUMER_OFFERED ->
         IF IsConsumer(n) THEN {PROVIDER_OFFERED, CONSUMER_OFFERING} ELSE {}
    [] end = PROVIDER_OFFERED ->
         IF IsConsumer(n) THEN {} ELSE {PROVIDER_OFFERED, PROVIDER_OFFERING}
    [] end = CONSUMER_APPROVING ->
         IF IsConsumer(n)
         THEN {CONSUMER_APPROVING, CONSUMER_OFFERED, REQUESTED} ELSE {}
    [] end = CONSUMER_APPROVED ->
         IF IsConsumer(n)
         THEN {CONSUMER_APPROVED, CONSUMER_APPROVING, PROVIDER_OFFERED} ELSE {}
    [] end = DECLINING ->
         {DECLINING, REQUESTED, CONSUMER_APPROVED}
           \cup (IF IsConsumer(n) THEN {CONSUMER_OFFERED} ELSE {PROVIDER_OFFERED})
    [] end = DECLINED ->
         {DECLINING, REQUESTED}
           \cup (IF IsConsumer(n) THEN {CONSUMER_OFFERED}
                 ELSE {PROVIDER_OFFERED, CONFIRMING, CONFIRMED})
    [] end = CONFIRMING ->
         IF IsConsumer(n) THEN {} ELSE {CONFIRMING, REQUESTED, PROVIDER_OFFERED}
    [] end = CONFIRMED ->
         IF IsConsumer(n)
         THEN {CONFIRMING, CONSUMER_APPROVED, REQUESTED, CONSUMER_OFFERED, CONFIRMED}
         ELSE {CONFIRMING}

Throws(n, end) == n.state \notin Starts(n, end)

(* transition() and StatefulEntity.transitionTo *)
Transition(n, end) ==
  [n EXCEPT !.state = end,
            !.stateCount = IF n.state = end THEN @ + 1 ELSE 1]

TransitionError(n) == [n EXCEPT !.state = ERROR, !.stateCount = 1]

SetContractAgreement(n, agreement) == [n EXCEPT !.agreement = agreement]

(* The negotiations that initiate and requested build and save first *)
NewConsumerNegotiation(id) ==
  Transition([id |-> id, type |-> CONSUMER, correlationId |-> Null,
              state |-> UNSAVED, stateCount |-> 0, agreement |-> NoAgreement],
             INITIAL)

NewProviderNegotiation(id, correlationId) ==
  Transition([id |-> id, type |-> PROVIDER, correlationId |-> correlationId,
              state |-> UNSAVED, stateCount |-> 0, agreement |-> NoAgreement],
             REQUESTED)
=============================================================================
