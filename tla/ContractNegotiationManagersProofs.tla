------------------ MODULE ContractNegotiationManagersProofs ------------------
(***************************************************************************)
(* Proofs, for every number of negotiations, retries, messages and         *)
(* interventions, that the copies of a negotiation the two managers hand   *)
(* around stay sound.  First lemmas about the entity and what the handlers *)
(* and callbacks make of it, then about the store and the calls, then one  *)
(* lemma per action, then the theorems.                                    *)
(***************************************************************************)
EXTENDS ContractNegotiationManagers, TLAPS

-----------------------------------------------------------------------------
(* The entity *)

(* transitionTo changes the state and its count only. *)
LEMMA TransitionFrame ==
  ASSUME NEW n \in ContractNegotiationType, NEW end \in ContractNegotiationStates
  PROVE  /\ Transition(n, end) \in ContractNegotiationType
         /\ Transition(n, end).id = n.id
         /\ Transition(n, end).type = n.type
         /\ Transition(n, end).correlationId = n.correlationId
         /\ Transition(n, end).agreement = n.agreement
         /\ Transition(n, end).state = end
         /\ Transition(n, end).stateCount =
              IF n.state = end THEN n.stateCount + 1 ELSE 1
<1> DEFINE count == IF n.state = end THEN n.stateCount + 1 ELSE 1
<1>1. count \in Nat
  BY DEF ContractNegotiationType
<1>2. Transition(n, end) = [n EXCEPT !.state = end, !.stateCount = count]
  BY DEF Transition
<1> HIDE DEF count
<1>3. /\ Transition(n, end) \in ContractNegotiationType
      /\ Transition(n, end).id = n.id
      /\ Transition(n, end).type = n.type
      /\ Transition(n, end).correlationId = n.correlationId
      /\ Transition(n, end).agreement = n.agreement
      /\ Transition(n, end).state = end
      /\ Transition(n, end).stateCount = count
  BY <1>1, <1>2 DEF ContractNegotiationType
<1> QED BY <1>3 DEF count

(* A transition is sound when the target state fits the negotiation's type, *)
(* its agreement and its attempts so far, whatever state it was in.         *)
LEMMA TransitionSound ==
  ASSUME NEW n, Linked(n), NEW end \in ContractNegotiationStates,
         end \in {INITIAL, REQUESTING} => n.type = CONSUMER,
         end = CONFIRMED => n.agreement # NoAgreement,
         n.agreement # NoAgreement => end \in {CONFIRMED, DECLINED, ERROR},
         end \in {REQUESTING, CONFIRMING} =>
           n.state # end \/ n.stateCount <= RetryLimit
  PROVE  /\ Sound(Transition(n, end))
         /\ Transition(n, end).id = n.id
         /\ Transition(n, end).correlationId = n.correlationId
<1> DEFINE new == Transition(n, end)
<1>1. n \in ContractNegotiationType
  BY DEF Linked
<1>2. /\ new \in ContractNegotiationType
      /\ new.id = n.id /\ new.type = n.type
      /\ new.correlationId = n.correlationId /\ new.agreement = n.agreement
      /\ new.state = end
      /\ new.stateCount = IF n.state = end THEN n.stateCount + 1 ELSE 1
  BY <1>1, TransitionFrame
<1>3. end \in {REQUESTING, CONFIRMING} => new.stateCount <= RetryLimit + 1
  BY <1>1, <1>2, ManagersAssumption DEF ContractNegotiationType
<1> HIDE DEF new
<1>4. Linked(new)
  BY <1>2 DEF Linked
<1>5. Sound(new)
  BY <1>2, <1>3, <1>4 DEF Sound
<1> QED BY <1>2, <1>5 DEF new

(* transitionError is always possible. *)
LEMMA ErrorSound ==
  ASSUME NEW n, Sound(n)
  PROVE  /\ Sound(TransitionError(n))
         /\ TransitionError(n).id = n.id
         /\ TransitionError(n).correlationId = n.correlationId
<1>1. ERROR \in ContractNegotiationStates
  BY DEF ContractNegotiationStates
<1>2. /\ TransitionError(n) \in ContractNegotiationType
      /\ TransitionError(n).id = n.id
      /\ TransitionError(n).type = n.type
      /\ TransitionError(n).correlationId = n.correlationId
      /\ TransitionError(n).state = ERROR
  BY <1>1 DEF Sound, Linked, TransitionError, ContractNegotiationType
<1> QED BY <1>2 DEF Sound, Linked, INITIAL, REQUESTING, CONFIRMING, CONFIRMED, ERROR

(* The methods of the entity never let a negotiation with an agreement go   *)
(* back to negotiating, nor a provider request.                             *)
LEMMA NotThrown ==
  ASSUME NEW n, Sound(n),
         NEW end \in {REQUESTING, REQUESTED, DECLINING, DECLINED, CONFIRMING, CONFIRMED},
         ~Throws(n, end)
  PROVE  /\ end \in ContractNegotiationStates
         /\ end = REQUESTING => n.type = CONSUMER
         /\ n.agreement # NoAgreement => end \in {CONFIRMED, DECLINED}
<1>1. end \in ContractNegotiationStates
  BY DEF ContractNegotiationStates
<1>2. n.state \in Starts(n, end)
  BY DEF Throws
<1>3. CASE end = REQUESTING
  <2>1. Starts(n, end) = IF IsConsumer(n) THEN {REQUESTING, INITIAL} ELSE {}
    BY <1>3 DEF Starts, INITIAL, REQUESTING, REQUESTED, CONSUMER_OFFERING,
                PROVIDER_OFFERING, CONSUMER_OFFERED, PROVIDER_OFFERED,
                CONSUMER_APPROVING, CONSUMER_APPROVED, DECLINING, DECLINED,
                CONFIRMING, CONFIRMED
  <2> QED BY <1>1, <1>2, <1>3, <2>1 DEF Sound, IsConsumer, INITIAL, REQUESTING,
                                      CONFIRMED, DECLINED, ERROR
<1>4. CASE end = REQUESTED
  <2>1. Starts(n, end) = IF IsConsumer(n) THEN {REQUESTED, REQUESTING} ELSE {UNSAVED}
    BY <1>4 DEF Starts, INITIAL, REQUESTING, REQUESTED, CONSUMER_OFFERING,
                PROVIDER_OFFERING, CONSUMER_OFFERED, PROVIDER_OFFERED,
                CONSUMER_APPROVING, CONSUMER_APPROVED, DECLINING, DECLINED,
                CONFIRMING, CONFIRMED
  <2> QED BY <1>1, <1>2, <1>4, <2>1 DEF Sound, UNSAVED, REQUESTING, REQUESTED,
                                      CONFIRMED, DECLINED, ERROR
<1>5. CASE end = DECLINING
  <2>1. Starts(n, end) \subseteq
          {DECLINING, REQUESTED, CONSUMER_APPROVED, CONSUMER_OFFERED, PROVIDER_OFFERED}
    BY <1>5 DEF Starts, INITIAL, REQUESTING, REQUESTED, CONSUMER_OFFERING,
                PROVIDER_OFFERING, CONSUMER_OFFERED, PROVIDER_OFFERED,
                CONSUMER_APPROVING, CONSUMER_APPROVED, DECLINING, DECLINED,
                CONFIRMING, CONFIRMED
  <2> QED BY <1>1, <1>2, <1>5, <2>1 DEF Sound, REQUESTING, REQUESTED, DECLINING,
                CONSUMER_APPROVED, CONSUMER_OFFERED, PROVIDER_OFFERED,
                CONFIRMED, DECLINED, ERROR
<1>6. CASE end = CONFIRMING
  <2>1. Starts(n, end) \subseteq {CONFIRMING, REQUESTED, PROVIDER_OFFERED}
    BY <1>6 DEF Starts, INITIAL, REQUESTING, REQUESTED, CONSUMER_OFFERING,
                PROVIDER_OFFERING, CONSUMER_OFFERED, PROVIDER_OFFERED,
                CONSUMER_APPROVING, CONSUMER_APPROVED, DECLINING, DECLINED,
                CONFIRMING, CONFIRMED
  <2> QED BY <1>1, <1>2, <1>6, <2>1 DEF Sound, REQUESTING, REQUESTED, CONFIRMING,
                PROVIDER_OFFERED, CONFIRMED, DECLINED, ERROR
<1>7. CASE end \in {DECLINED, CONFIRMED}
  BY <1>1, <1>7 DEF DECLINED, CONFIRMED, REQUESTING
<1> QED BY <1>3, <1>4, <1>5, <1>6, <1>7

(* setContractAgreement changes the agreement only. *)
LEMMA AgreementFrame ==
  ASSUME NEW n, Linked(n), NEW agreement \in Nat
  PROVE  /\ Linked(SetContractAgreement(n, agreement))
         /\ SetContractAgreement(n, agreement).id = n.id
         /\ SetContractAgreement(n, agreement).type = n.type
         /\ SetContractAgreement(n, agreement).correlationId = n.correlationId
         /\ SetContractAgreement(n, agreement).state = n.state
         /\ SetContractAgreement(n, agreement).stateCount = n.stateCount
         /\ SetContractAgreement(n, agreement).agreement = agreement
BY DEF SetContractAgreement, Linked, ContractNegotiationType

-----------------------------------------------------------------------------
(* What the callbacks and handlers make of a negotiation *)

(* Sent and sending states by kind of message. *)
LEMMA StatesOfKinds ==
  /\ SentState("request") = REQUESTED /\ SendingState("request") = REQUESTING
  /\ SentState("agreement") = CONFIRMED /\ SendingState("agreement") = CONFIRMING
  /\ SentState("rejection") = DECLINED /\ SendingState("rejection") = DECLINING
BY DEF SentState, SendingState

(* onInitialOfferSent, onAgreementSent and onRejectionSent save a sound     *)
(* negotiation; a confirmed one has the agreement that was sent.            *)
LEMMA OnSuccessSound ==
  ASSUME NEW n, Sound(n), NEW call \in CallType,
         call.kind = "agreement" => call.agreement # NoAgreement,
         ~Throws(n, SentState(call.kind))
  PROVE  /\ Sound(OnSuccess(call, n))
         /\ OnSuccess(call, n).id = n.id
         /\ OnSuccess(call, n).correlationId = n.correlationId
<1>0. Linked(n) /\ call.kind \in Kinds /\ call.agreement \in Nat
  BY DEF Sound, CallType
<1>1. CASE call.kind = "agreement"
  <2> DEFINE agreed == SetContractAgreement(n, call.agreement)
  <2>1. /\ Linked(agreed) /\ agreed.id = n.id
        /\ agreed.correlationId = n.correlationId
        /\ agreed.agreement = call.agreement
    BY <1>0, AgreementFrame
  <2>2. CONFIRMED \in ContractNegotiationStates
        /\ CONFIRMED \notin {INITIAL, REQUESTING, CONFIRMING}
    BY DEF ContractNegotiationStates, INITIAL, REQUESTING, CONFIRMING, CONFIRMED
  <2>3. OnSuccess(call, n) = Transition(agreed, CONFIRMED)
    BY <1>1, StatesOfKinds DEF OnSuccess
  <2> HIDE DEF agreed
  <2> QED BY <1>1, <2>1, <2>2, <2>3, TransitionSound
<1>2. CASE call.kind \in {"request", "rejection"}
  <2> DEFINE end == SentState(call.kind)
  <2>1. end \in {REQUESTED, DECLINED}
    BY <1>2, StatesOfKinds
  <2>2. /\ end \in ContractNegotiationStates
        /\ n.agreement # NoAgreement => end \in {CONFIRMED, DECLINED}
    BY <2>1, NotThrown
  <2>3. end \notin {INITIAL, REQUESTING, CONFIRMING, CONFIRMED}
    BY <2>1 DEF INITIAL, REQUESTING, CONFIRMING, CONFIRMED, REQUESTED, DECLINED
  <2>4. OnSuccess(call, n) = Transition(n, end)
    BY <1>2 DEF OnSuccess
  <2> HIDE DEF end
  <2> QED BY <1>0, <2>2, <2>3, <2>4, TransitionSound
<1> QED BY <1>0, <1>1, <1>2 DEF Kinds

(* A retry counts one more attempt, within the limit. *)
LEMMA OnFailureSound ==
  ASSUME NEW n, Sound(n), NEW call \in CallType,
         ~RetriesExhausted(n), ~Throws(n, SendingState(call.kind))
  PROVE  /\ Sound(OnFailure(call, n))
         /\ OnFailure(call, n).id = n.id
         /\ OnFailure(call, n).correlationId = n.correlationId
<1> DEFINE end == SendingState(call.kind)
<1>1. end \in {REQUESTING, CONFIRMING, DECLINING}
  BY StatesOfKinds DEF CallType, Kinds
<1>2. /\ end \in ContractNegotiationStates
      /\ end = REQUESTING => n.type = CONSUMER
      /\ n.agreement # NoAgreement => end \in {CONFIRMED, DECLINED}
  BY <1>1, NotThrown
<1>3. end # CONFIRMED /\ end # INITIAL
  BY <1>1 DEF INITIAL, REQUESTING, CONFIRMING, CONFIRMED, DECLINING
<1>4. n.stateCount <= RetryLimit
  BY ManagersAssumption DEF Sound, Linked, ContractNegotiationType, RetriesExhausted
<1>5. Linked(n)
  BY DEF Sound
<1>6. OnFailure(call, n) = Transition(n, end)
  BY DEF OnFailure
<1> HIDE DEF end
<1> QED BY <1>2, <1>3, <1>4, <1>5, <1>6, TransitionSound

(* The consumer confirms with the agreement it received. *)
LEMMA ConfirmationSound ==
  ASSUME NEW n, Sound(n), NEW agreement \in Nat, agreement # NoAgreement
  PROVE  /\ Sound(Confirmation(n, agreement))
         /\ Confirmation(n, agreement).id = n.id
         /\ Confirmation(n, agreement).correlationId = n.correlationId
<1> DEFINE agreed == SetContractAgreement(n, agreement)
<1>1. /\ Linked(agreed) /\ agreed.id = n.id /\ agreed.state = n.state
      /\ agreed.correlationId = n.correlationId
      /\ agreed.agreement = agreement
  BY AgreementFrame DEF Sound
<1>2. CONFIRMED \in ContractNegotiationStates
      /\ CONFIRMED \notin {INITIAL, REQUESTING, CONFIRMING}
  BY DEF ContractNegotiationStates, INITIAL, REQUESTING, CONFIRMING, CONFIRMED
<1>3. Confirmation(n, agreement) =
        IF n.state = CONFIRMED THEN agreed ELSE Transition(agreed, CONFIRMED)
  BY DEF Confirmation
<1> HIDE DEF agreed
<1>4. CASE n.state = CONFIRMED
  BY <1>1, <1>2, <1>3, <1>4 DEF Sound
<1>5. CASE n.state # CONFIRMED
  BY <1>1, <1>2, <1>3, <1>5, TransitionSound
<1> QED BY <1>4, <1>5

(* DECLINED may be entered with an agreement and without one. *)
LEMMA DeclinedSound ==
  ASSUME NEW n, Linked(n)
  PROVE  /\ Sound(Transition(n, DECLINED))
         /\ Transition(n, DECLINED).id = n.id
         /\ Transition(n, DECLINED).correlationId = n.correlationId
<1>1. DECLINED \in ContractNegotiationStates
      /\ DECLINED \notin {INITIAL, REQUESTING, CONFIRMING, CONFIRMED}
  BY DEF ContractNegotiationStates, INITIAL, REQUESTING, CONFIRMING, CONFIRMED, DECLINED
<1> QED BY <1>1, TransitionSound

(* declined drops the agreement of the provider's negotiation. *)
LEMMA DeclinedByProviderSound ==
  ASSUME NEW n, Sound(n)
  PROVE  /\ Sound(Declined(n))
         /\ Declined(n).id = n.id
         /\ Declined(n).correlationId = n.correlationId
<1> DEFINE dropped == SetContractAgreement(n, NoAgreement)
<1>1. /\ Linked(dropped) /\ dropped.id = n.id
      /\ dropped.correlationId = n.correlationId
  BY AgreementFrame DEF Sound, NoAgreement
<1>2. Declined(n) = Transition(dropped, DECLINED)
  BY DEF Declined
<1> HIDE DEF dropped
<1> QED BY <1>1, <1>2, DeclinedSound

-----------------------------------------------------------------------------
(* Records, calls and the store *)

(* Negotiations are never deleted: what is true of a copy stays true. *)
LEMMA RecordKept ==
  ASSUME NEW n, NEW ids, RecordOK(n, ids), NEW more, ids \subseteq more
  PROVE  RecordOK(n, more)
BY DEF RecordOK

LEMMA CallKept ==
  ASSUME NEW call, NEW ids, CallOK(call, ids), NEW more, ids \subseteq more
  PROVE  CallOK(call, more)
BY RecordKept DEF CallOK

(* A sound negotiation with the links of a stored one can be stored. *)
LEMMA SameLinks ==
  ASSUME NEW n, NEW ids, RecordOK(n, ids), NEW new, Sound(new),
         new.id = n.id, new.correlationId = n.correlationId
  PROVE  RecordOK(new, ids)
BY DEF RecordOK

(* A record that may be saved has its type. *)
LEMMA RecordType ==
  ASSUME NEW n, NEW ids, RecordOK(n, ids)
  PROVE  n \in ContractNegotiationType
BY DEF RecordOK, Sound, Linked

(* The two ends of a call keep it consistent. *)
LEMMA ReceiverOK ==
  ASSUME NEW call, NEW ids, CallOK(call, ids)
  PROVE  /\ \A n : RecordOK(n, ids) =>
              CallOK([call EXCEPT !.receiver = "handling", !.received = n], ids)
         /\ call.receiver = "transit" =>
              CallOK([call EXCEPT !.receiver = "failed"], ids)
         /\ CallOK([call EXCEPT !.receiver = "ok", !.received = Null], ids)
<1>1. ASSUME NEW n, RecordOK(n, ids)
      PROVE  CallOK([call EXCEPT !.receiver = "handling", !.received = n], ids)
  BY <1>1, RecordType DEF CallOK, CallType
<1>2. call.receiver = "transit" => CallOK([call EXCEPT !.receiver = "failed"], ids)
  BY DEF CallOK, CallType
<1>3. CallOK([call EXCEPT !.receiver = "ok", !.received = Null], ids)
  BY DEF CallOK, CallType
<1> QED BY <1>1, <1>2, <1>3

LEMMA SenderOK ==
  ASSUME NEW call, NEW ids, CallOK(call, ids)
  PROVE  /\ \A n : RecordOK(n, ids) =>
              CallOK([call EXCEPT !.sender = "saving", !.result = n], ids)
         /\ call.sender = "waiting" => CallOK([call EXCEPT !.sender = "gone"], ids)
         /\ CallOK([call EXCEPT !.sender = "gone", !.result = Null], ids)
<1>1. ASSUME NEW n, RecordOK(n, ids)
      PROVE  CallOK([call EXCEPT !.sender = "saving", !.result = n], ids)
  BY <1>1, RecordType DEF CallOK, CallType
<1>2. call.sender = "waiting" => CallOK([call EXCEPT !.sender = "gone"], ids)
  BY DEF CallOK, CallType
<1>3. CallOK([call EXCEPT !.sender = "gone", !.result = Null], ids)
  BY DEF CallOK, CallType
<1> QED BY <1>1, <1>2, <1>3

(* Saving a sound negotiation keeps the store sound and deletes nothing. *)
LEMMA PutStore ==
  ASSUME StoreInv, NEW n, Sound(n),
         n.correlationId # Null => n.correlationId \in DOMAIN store,
         Put(n)
  PROVE  StoreInv' /\ DOMAIN store' = DOMAIN store \cup {n.id}
<1>1. DOMAIN store' = DOMAIN store \cup {n.id}
  BY DEF Put
<1>2. ASSUME NEW id \in DOMAIN store'
      PROVE  store'[id].id = id /\ RecordOK(store'[id], DOMAIN store')
  <2>1. CASE id = n.id
    <3>1. store'[id] = n
      BY <1>2, <2>1 DEF Put
    <3> QED BY <1>1, <2>1, <3>1 DEF RecordOK
  <2>2. CASE id # n.id
    <3>1. id \in DOMAIN store /\ store'[id] = store[id]
      BY <1>1, <1>2, <2>2 DEF Put
    <3> QED BY <1>1, <3>1, RecordKept DEF StoreInv
  <2> QED BY <2>1, <2>2
<1> QED BY <1>1, <1>2 DEF StoreInv

(* What the loops and the API hold survives every save. *)
LEMMA HeldKept ==
  ASSUME FetchedInv, UpdateInv, DOMAIN store \subseteq DOMAIN store',
         fetched' \subseteq fetched, updates' \subseteq updates
  PROVE  FetchedInv' /\ UpdateInv'
BY RecordKept DEF FetchedInv, UpdateInv

LEMMA CallsKept ==
  ASSUME CallInv, DOMAIN store \subseteq DOMAIN store', calls' \subseteq calls
  PROVE  CallInv'
BY CallKept DEF CallInv

LEMMA ContinueOK ==
  ASSUME CallInv, DOMAIN store \subseteq DOMAIN store',
         NEW call, NEW next, CallOK(next, DOMAIN store), Continue(call, next)
  PROVE  CallInv'
<1>1. calls' \subseteq calls \cup {next}
  BY DEF Continue
<1> QED BY <1>1, CallKept DEF CallInv

-----------------------------------------------------------------------------
(* One lemma per action *)

LEMMA InitInv == Init => IndInv
BY ManagersAssumption DEF Init, IndInv, StoreInv, LeaseInv, FetchedInv, UpdateInv,
   CallInv, BoundInv

(* The copies of a batch are what is stored. *)
LEMMA NextForStateInv ==
  ASSUME IndInv, NEW manager \in Managers, NEW side, NEW state,
         NextForState(manager, side, state)
  PROVE  IndInv'
<1>1. PICK ids \in SUBSET DOMAIN store :
        /\ \A id \in ids : store[id].state = state
        /\ leased' = leased \cup ids
        /\ fetched' = fetched \cup {[manager |-> manager, n |-> store[id]] : id \in ids}
  BY DEF NextForState, Candidates
<1>2. UNCHANGED <<store, calls, updates, agreements, interventions, delays>>
      /\ state \in Processors(manager)
  BY DEF NextForState
<1>3. StoreInv' /\ UpdateInv' /\ CallInv' /\ BoundInv'
  BY <1>2 DEF IndInv, StoreInv, UpdateInv, CallInv, BoundInv
<1>4. LeaseInv'
  BY <1>1, <1>2 DEF IndInv, LeaseInv
<1>5. ASSUME NEW f \in fetched'
      PROVE  /\ f \in FetchedType /\ RecordOK(f.n, DOMAIN store')
             /\ f.n.state \in Processors(f.manager)
  <2>1. CASE f \in fetched
    BY <1>2, <2>1 DEF IndInv, FetchedInv
  <2>2. CASE f \notin fetched
    <3>1. PICK id \in ids : f = [manager |-> manager, n |-> store[id]]
      BY <1>1, <1>5, <2>2
    <3>2. RecordOK(store[id], DOMAIN store)
      BY <1>1 DEF IndInv, StoreInv
    <3> QED BY <1>1, <1>2, <3>1, <3>2, RecordType DEF FetchedType
  <2> QED BY <2>1, <2>2
<1>6. FetchedInv'
  BY <1>5 DEF FetchedInv
<1> QED BY <1>3, <1>4, <1>6 DEF IndInv

(* Every save of a record that belongs to the store, with calls that stay   *)
(* consistent and nothing new in the hands of the loops and the API.        *)
LEMMA SaveInv ==
  ASSUME IndInv, NEW n, Sound(n),
         n.correlationId # Null => n.correlationId \in DOMAIN store,
         Put(n), leased' \subseteq leased,
         fetched' \subseteq fetched, updates' \subseteq updates,
         CallInv', BoundInv'
  PROVE  IndInv'
<1>1. StoreInv' /\ DOMAIN store \subseteq DOMAIN store'
  BY PutStore DEF IndInv
<1>2. FetchedInv' /\ UpdateInv'
  BY <1>1, HeldKept DEF IndInv
<1>3. LeaseInv'
  BY <1>1 DEF IndInv, LeaseInv
<1> QED BY <1>1, <1>2, <1>3 DEF IndInv

(* A step that leaves the store, the loops and the API alone. *)
LEMMA CallStepInv ==
  ASSUME IndInv, CallInv',
         UNCHANGED <<store, leased, fetched, updates, agreements, interventions,
                     delays>>
  PROVE  IndInv'
BY DEF IndInv, StoreInv, LeaseInv, FetchedInv, UpdateInv, BoundInv

LEMMA ProcessInitialInv ==
  ASSUME IndInv, NEW f \in fetched, ProcessInitial(f)
  PROVE  IndInv'
<1> DEFINE n == Transition(f.n, REQUESTING)
<1>1. RecordOK(f.n, DOMAIN store) /\ f.n.state = INITIAL
  BY DEF IndInv, FetchedInv, ProcessInitial
<1>2. REQUESTING \in ContractNegotiationStates /\ REQUESTING # CONFIRMED
      /\ REQUESTING # INITIAL
      /\ INITIAL \notin {CONFIRMED, DECLINED, ERROR}
  BY DEF ContractNegotiationStates, REQUESTING, INITIAL, CONFIRMED, DECLINED, ERROR
<1>3. Linked(f.n) /\ f.n.type = CONSUMER /\ f.n.agreement = NoAgreement
  BY <1>1, <1>2 DEF RecordOK, Sound
<1>4. Sound(n) /\ n.id = f.n.id /\ n.correlationId = f.n.correlationId
  BY <1>1, <1>2, <1>3, TransitionSound
<1>5. Put(n) /\ leased' \subseteq leased
      /\ fetched' \subseteq fetched /\ updates' = updates
      /\ calls' = calls /\ BoundInv'
  BY DEF ProcessInitial, Save, IndInv, BoundInv
<1> HIDE DEF n
<1>6. DOMAIN store \subseteq DOMAIN store'
  BY <1>5 DEF Put
<1>7. CallInv'
  BY <1>5, <1>6, CallsKept DEF IndInv
<1> QED BY <1>1, <1>4, <1>5, <1>7, SaveInv DEF RecordOK

LEMMA DelayedInv ==
  ASSUME IndInv, NEW f \in fetched, Delayed(f)
  PROVE  IndInv'
<1>1. RecordOK(f.n, DOMAIN store)
  BY DEF IndInv, FetchedInv
<1>2. Put(f.n) /\ leased' \subseteq leased
      /\ fetched' \subseteq fetched /\ updates' = updates /\ calls' = calls
  BY DEF Delayed, Save
<1>3. BoundInv'
  BY ManagersAssumption DEF Delayed, IndInv, BoundInv
<1>4. DOMAIN store \subseteq DOMAIN store'
  BY <1>2 DEF Put
<1>5. CallInv'
  BY <1>2, <1>4, CallsKept DEF IndInv
<1> QED BY <1>1, <1>2, <1>3, <1>5, SaveInv DEF RecordOK

(* A message names a negotiation of the store: the consumer's, unless the   *)
(* consumer manager sends the rejection of a provider's negotiation.        *)
LEMMA SendInv ==
  ASSUME IndInv, NEW f \in fetched, NEW kind \in Kinds, Send(f, kind)
  PROVE  IndInv'
<1>1. /\ f \in FetchedType /\ RecordOK(f.n, DOMAIN store)
      /\ f.n.state \in Processors(f.manager)
      /\ f.n.state = SendingState(kind) /\ CorrelationId(f) # Null
  BY DEF IndInv, FetchedInv, Send
<1>2. f.n \in ContractNegotiationType /\ Linked(f.n)
      /\ f.n.id \in Consumers \cup Providers /\ f.n.stateCount \in Nat
      /\ f.n.type \in {CONSUMER, PROVIDER} /\ f.manager \in {CONSUMER, PROVIDER}
  BY <1>1 DEF RecordOK, Sound, Linked, ContractNegotiationType, FetchedType, Managers
<1>3. CorrelationId(f) \in DOMAIN store /\ CorrelationId(f) \in Consumers \cup Providers
  BY <1>1, <1>2 DEF CorrelationId, RecordOK, Linked
<1>4. kind # "rejection" => CorrelationId(f) \in Consumers
  <2>1. CASE kind = "request"
    <3>1. f.n.type = CONSUMER
      BY <1>1, <2>1, StatesOfKinds DEF RecordOK, Sound
    <3> QED BY <1>1, <1>2, <3>1 DEF CorrelationId, Linked
  <2>2. CASE kind = "agreement"
    <3>1. f.n.state = CONFIRMING
      BY <1>1, <2>2, StatesOfKinds
    <3>2. f.manager = PROVIDER
      BY <1>1, <1>2, <3>1 DEF Processors, CONSUMER, PROVIDER, INITIAL, REQUESTING,
                         DECLINING, CONFIRMING
    <3> QED BY <1>1, <1>2, <3>2 DEF CorrelationId, Linked, CONSUMER, PROVIDER
  <2> QED BY <2>1, <2>2 DEF Kinds
<1>5. /\ agreements' = agreements + (IF kind = "agreement" THEN 1 ELSE 0)
      /\ agreements' <= MaxAgreements
      /\ agreements \in Nat
      /\ UNCHANGED <<store, leased, updates, interventions, delays>>
      /\ fetched' \subseteq fetched
  BY ManagersAssumption DEF Send, IndInv, BoundInv
<1>6. BoundInv' /\ agreements' \in Nat /\ (kind = "agreement" => agreements' # NoAgreement)
  BY <1>5, ManagersAssumption DEF IndInv, BoundInv, NoAgreement
<1> DEFINE call == [id |-> f.n.id, kind |-> kind, attempt |-> f.n.stateCount,
                    to |-> CorrelationId(f),
                    agreement |-> IF kind = "agreement" THEN agreements' ELSE NoAgreement,
                    sender |-> "waiting", receiver |-> "transit",
                    result |-> Null, received |-> Null]
<1>7. CallOK(call, DOMAIN store)
  BY <1>1, <1>2, <1>3, <1>4, <1>6 DEF CallOK, CallType, RecordOK, NoAgreement
<1>8. calls' = calls \cup {call}
  BY DEF Send
<1> HIDE DEF call
<1>9. CallInv'
  BY <1>5, <1>7, <1>8 DEF IndInv, CallInv
<1>10. StoreInv' /\ LeaseInv' /\ FetchedInv' /\ UpdateInv'
  BY <1>5 DEF IndInv, StoreInv, LeaseInv, FetchedInv, UpdateInv
<1> QED BY <1>6, <1>9, <1>10 DEF IndInv

LEMMA SendThrowsInv ==
  ASSUME IndInv, NEW f \in fetched, SendThrows(f)
  PROVE  IndInv'
<1>1. fetched' \subseteq fetched
      /\ UNCHANGED <<store, leased, calls, updates, agreements, interventions, delays>>
  BY DEF SendThrows
<1> QED BY <1>1 DEF IndInv, StoreInv, LeaseInv, FetchedInv, UpdateInv, CallInv, BoundInv

(* requested: a new negotiation of the provider, linked to the consumer's. *)
LEMMA RequestedInv ==
  ASSUME IndInv, NEW call \in calls, NEW id \in Providers, Requested(call, id)
  PROVE  IndInv'
<1>1. CallOK(call, DOMAIN store) /\ call.kind = "request"
      /\ call.to \in Consumers /\ call.to \in DOMAIN store
  BY DEF IndInv, CallInv, CallOK, Requested
<1> DEFINE new == [id |-> id, type |-> PROVIDER, correlationId |-> call.to,
                   state |-> UNSAVED, stateCount |-> 0, agreement |-> NoAgreement]
           n == NewProviderNegotiation(id, call.to)
<1>2. Linked(new) /\ new.id = id /\ new.correlationId = call.to
      /\ new.agreement = NoAgreement
  BY <1>1 DEF Linked, ContractNegotiationType, ContractNegotiationStates, NoAgreement,
             CONSUMER, PROVIDER
<1>3. n = Transition(new, REQUESTED)
  BY DEF NewProviderNegotiation
<1>4. /\ {REQUESTED, CONFIRMING, DECLINING} \subseteq ContractNegotiationStates
      /\ {REQUESTED, CONFIRMING, DECLINING} \cap {INITIAL, REQUESTING, CONFIRMED} = {}
      /\ REQUESTED # CONFIRMING /\ REQUESTED # DECLINING
  BY DEF ContractNegotiationStates, INITIAL, REQUESTING, REQUESTED, CONFIRMING,
         DECLINING, CONFIRMED
<1> HIDE DEF new
<1>5. Sound(n) /\ n.id = id /\ n.correlationId = call.to
  BY <1>2, <1>3, <1>4, TransitionSound
<1>6. n.state = REQUESTED /\ n.agreement = NoAgreement
  BY <1>2, <1>3, <1>4, TransitionFrame DEF Linked
<1> HIDE DEF n
<1>7. ASSUME NEW end \in {CONFIRMING, DECLINING}
      PROVE  /\ Sound(Transition(n, end)) /\ Transition(n, end).id = id
             /\ Transition(n, end).correlationId = call.to
  <2>1. /\ end \in ContractNegotiationStates
        /\ end # INITIAL /\ end # REQUESTING /\ end # CONFIRMED
        /\ n.state # end
    BY <1>4, <1>6, <1>7
  <2>2. Linked(n)
    BY <1>5 DEF Sound
  <2> QED BY <1>5, <1>6, <2>1, <2>2, TransitionSound
<1>8. /\ Put(n) /\ leased' \subseteq leased
      /\ UNCHANGED <<fetched, updates, agreements, interventions, delays>>
  BY DEF Requested, Save, n
<1>9. PICK end \in {CONFIRMING, DECLINING} : Handling(call, Transition(n, end))
  BY DEF Requested, n
<1>10. StoreInv' /\ DOMAIN store' = DOMAIN store \cup {id}
  BY <1>1, <1>5, <1>8, PutStore DEF IndInv
<1>11. RecordOK(Transition(n, end), DOMAIN store')
  BY <1>1, <1>7, <1>10 DEF RecordOK
<1> DEFINE next == [call EXCEPT !.receiver = "handling", !.received = Transition(n, end)]
<1>12. CallOK(call, DOMAIN store')
  BY <1>1, <1>10, CallKept
<1>13. CallOK(next, DOMAIN store')
  BY <1>11, <1>12, ReceiverOK
<1>14. calls' \subseteq calls \cup {next}
  BY <1>9 DEF Handling, Continue
<1> HIDE DEF next
<1>15. CallInv'
  BY <1>10, <1>13, <1>14, CallKept DEF IndInv, CallInv
<1>16. BoundInv'
  BY <1>8 DEF IndInv, BoundInv
<1> QED BY <1>1, <1>5, <1>8, <1>15, <1>16, SaveInv

(* A handler that goes on to save a record of the store, or refuses. *)
LEMMA HandlingInv ==
  ASSUME IndInv, NEW call \in calls, store' = store
  PROVE  /\ \A n : RecordOK(n, DOMAIN store) /\ Handling(call, n) => CallInv'
         /\ call.receiver = "transit" /\ Refused(call) => CallInv'
<1>1. CallOK(call, DOMAIN store) /\ CallInv
  BY DEF IndInv, CallInv
<1>2. ASSUME NEW n, RecordOK(n, DOMAIN store), Handling(call, n)
      PROVE  CallInv'
  <2> DEFINE next == [call EXCEPT !.receiver = "handling", !.received = n]
  <2>1. CallOK(next, DOMAIN store)
    BY <1>1, <1>2, ReceiverOK
  <2>2. Continue(call, next)
    BY <1>2 DEF Handling
  <2> HIDE DEF next
  <2> QED BY <1>1, <2>1, <2>2, ContinueOK
<1>3. ASSUME call.receiver = "transit", Refused(call)
      PROVE  CallInv'
  <2> DEFINE next == [call EXCEPT !.receiver = "failed"]
  <2>1. CallOK(next, DOMAIN store)
    BY <1>1, <1>3, ReceiverOK
  <2>2. Continue(call, next)
    BY <1>3 DEF Refused
  <2> HIDE DEF next
  <2> QED BY <1>1, <2>1, <2>2, ContinueOK
<1> QED BY <1>2, <1>3

(* What Find returns can be handled. *)
LEMMA FoundOK ==
  ASSUME IndInv, NEW id \in DOMAIN store
  PROVE  RecordOK(Find(id), DOMAIN store) /\ Find(id).id = id /\ Sound(Find(id))
BY DEF IndInv, StoreInv, Find, RecordOK

(* confirmed *)
LEMMA ConfirmedInv ==
  ASSUME IndInv, NEW call \in calls, Confirmed(call)
  PROVE  IndInv'
<1>1. CallOK(call, DOMAIN store) /\ call.kind = "agreement" /\ call.receiver = "transit"
  BY DEF IndInv, CallInv, Confirmed
<1>2. call.to \in DOMAIN store /\ call.agreement \in Nat /\ call.agreement # NoAgreement
  BY <1>1 DEF CallOK, CallType
<1>3. UNCHANGED <<store, leased, fetched, updates, agreements, interventions, delays>>
  BY DEF Confirmed
<1> DEFINE found == Find(call.to)
<1>4. RecordOK(found, DOMAIN store) /\ Sound(found)
  BY <1>2, FoundOK
<1>5. \/ Handling(call, Confirmation(found, call.agreement))
      \/ ~Throws(found, DECLINING) /\ Handling(call, Transition(found, DECLINING))
      \/ Refused(call)
  BY DEF Confirmed
<1> HIDE DEF found
<1>6. RecordOK(Confirmation(found, call.agreement), DOMAIN store)
  BY <1>2, <1>4, ConfirmationSound, SameLinks
<1>7. ~Throws(found, DECLINING) => RecordOK(Transition(found, DECLINING), DOMAIN store)
  <2> HAVE ~Throws(found, DECLINING)
  <2>1. DECLINING \in ContractNegotiationStates
        /\ (found.agreement # NoAgreement => DECLINING \in {CONFIRMED, DECLINED})
    BY <1>4, NotThrown
  <2>2. DECLINING \notin {INITIAL, REQUESTING, CONFIRMING, CONFIRMED, DECLINED}
    BY DEF INITIAL, REQUESTING, CONFIRMING, CONFIRMED, DECLINED, DECLINING
  <2> QED BY <1>4, <2>1, <2>2, TransitionSound, SameLinks DEF Sound
<1>8. CallInv'
  BY <1>1, <1>3, <1>5, <1>6, <1>7, HandlingInv
<1> QED BY <1>3, <1>8, CallStepInv

(* declined, found by the id *)
LEMMA DeclinedByIdInv ==
  ASSUME IndInv, NEW call \in calls, DeclinedById(call)
  PROVE  IndInv'
<1>1. CallOK(call, DOMAIN store) /\ call.receiver = "transit" /\ call.to \in DOMAIN store
  BY DEF IndInv, CallInv, CallOK, DeclinedById
<1>2. UNCHANGED <<store, leased, fetched, updates, agreements, interventions, delays>>
  BY DEF DeclinedById
<1>3. RecordOK(Declined(Find(call.to)), DOMAIN store)
  BY <1>1, FoundOK, DeclinedByProviderSound, SameLinks
<1>4. Handling(call, Declined(Find(call.to))) \/ Refused(call)
  BY DEF DeclinedById
<1>5. CallInv'
  BY <1>1, <1>2, <1>3, <1>4, HandlingInv
<1> QED BY <1>2, <1>5, CallStepInv

(* declined, found by the correlation id: only a provider's negotiation has *)
(* one, and a CONFIRMED one can be declined, so none loses its agreement    *)
(* while it stays CONFIRMED.                                                *)
LEMMA DeclinedByCorrelationIdInv ==
  ASSUME IndInv, NEW call \in calls, DeclinedByCorrelationId(call)
  PROVE  IndInv'
<1>1. CallOK(call, DOMAIN store) /\ call.receiver = "transit"
  BY DEF IndInv, CallInv, DeclinedByCorrelationId
<1>2. PICK id \in FindForCorrelationId(call.to) :
        IF Throws(Find(id), DECLINED)
        THEN Put(SetContractAgreement(Find(id), NoAgreement)) /\ Refused(call)
        ELSE Put(Declined(Find(id))) /\ Handling(call, Declined(Find(id)))
  BY DEF DeclinedByCorrelationId
<1>3. UNCHANGED <<leased, fetched, updates, agreements, interventions, delays>>
  BY DEF DeclinedByCorrelationId
<1>4. BoundInv'
  BY <1>3 DEF IndInv, BoundInv
<1> DEFINE found == Find(id)
           dropped == SetContractAgreement(found, NoAgreement)
<1>5. id \in DOMAIN store /\ found.correlationId = call.to
  BY DEF FindForCorrelationId, Find
<1>6. RecordOK(found, DOMAIN store) /\ Sound(found)
  BY <1>5, FoundOK
<1>7. found.type = PROVIDER
  BY <1>1, <1>5, <1>6, NegotiationAssumption
     DEF CallOK, CallType, Sound, Linked, ContractNegotiationType
<1>8. RecordOK(Declined(found), DOMAIN store) /\ Sound(Declined(found))
      /\ Declined(found).id = found.id
      /\ Declined(found).correlationId = found.correlationId
  BY <1>6, DeclinedByProviderSound, SameLinks
<1>9. CASE Throws(found, DECLINED)
  <2>1. found.state # CONFIRMED
    <3>1. CONFIRMED \in Starts(found, DECLINED)
      BY <1>7 DEF Starts, IsConsumer, CONSUMER, PROVIDER, INITIAL, REQUESTING, REQUESTED,
                CONSUMER_OFFERING, PROVIDER_OFFERING, CONSUMER_OFFERED, PROVIDER_OFFERED,
                CONSUMER_APPROVING, CONSUMER_APPROVED, DECLINING, DECLINED,
                CONFIRMING, CONFIRMED
    <3> QED BY <1>9, <3>1 DEF Throws
  <2>2. /\ Linked(dropped) /\ dropped.id = found.id /\ dropped.type = found.type
        /\ dropped.correlationId = found.correlationId /\ dropped.state = found.state
        /\ dropped.stateCount = found.stateCount /\ dropped.agreement = NoAgreement
    BY <1>6, AgreementFrame DEF Sound, NoAgreement
  <2>3. Put(dropped) /\ Refused(call)
    BY <1>2, <1>9
  <2> HIDE DEF dropped
  <2>4. Sound(dropped)
    BY <1>6, <2>1, <2>2 DEF Sound
  <2>5. DOMAIN store \subseteq DOMAIN store'
    BY <2>3 DEF Put
  <2>6. CallOK([call EXCEPT !.receiver = "failed"], DOMAIN store)
    BY <1>1, ReceiverOK
  <2>7. CallInv'
    BY <2>3, <2>5, <2>6, ContinueOK DEF Refused, IndInv
  <2> HIDE DEF found
  <2> QED BY <1>3, <1>4, <1>6, <2>2, <2>3, <2>4, <2>7, SaveInv DEF RecordOK
<1>10. CASE ~Throws(found, DECLINED)
  <2>1. Put(Declined(found)) /\ Handling(call, Declined(found))
    BY <1>2, <1>10
  <2> HIDE DEF found
  <2>2. DOMAIN store \subseteq DOMAIN store'
    BY <2>1 DEF Put
  <2>3. CallOK([call EXCEPT !.receiver = "handling", !.received = Declined(found)], DOMAIN store)
    BY <1>1, <1>8, ReceiverOK
  <2>4. CallInv'
    BY <2>1, <2>2, <2>3, ContinueOK DEF Handling, IndInv
  <2> QED BY <1>3, <1>4, <1>6, <1>8, <2>1, <2>4, SaveInv DEF RecordOK
<1> QED BY <1>9, <1>10

LEMMA DeclinedUnknownInv ==
  ASSUME IndInv, NEW call \in calls, DeclinedUnknown(call)
  PROVE  IndInv'
<1>1. call.receiver = "transit" /\ Refused(call)
      /\ UNCHANGED <<store, leased, fetched, updates, agreements, interventions, delays>>
  BY DEF DeclinedUnknown
<1>2. CallInv'
  BY <1>1, HandlingInv
<1> QED BY <1>1, <1>2, CallStepInv

(* The handler saves what it made of the negotiation and answers. *)
LEMMA ReceiverSavesInv ==
  ASSUME IndInv, NEW call \in calls, ReceiverSaves(call)
  PROVE  IndInv'
<1> DEFINE next == [call EXCEPT !.receiver = "ok", !.received = Null]
<1>1. CallOK(call, DOMAIN store) /\ call.receiver = "handling"
  BY DEF IndInv, CallInv, ReceiverSaves
<1>2. RecordOK(call.received, DOMAIN store)
  BY <1>1 DEF CallOK
<1>3. CallOK(next, DOMAIN store)
  BY <1>1, ReceiverOK
<1>4. /\ Put(call.received) /\ leased' \subseteq leased
      /\ Continue(call, next)
      /\ UNCHANGED <<fetched, updates, agreements, interventions, delays>>
  BY DEF ReceiverSaves, Save
<1> HIDE DEF next
<1>5. DOMAIN store \subseteq DOMAIN store'
  BY <1>4 DEF Put
<1>6. CallInv'
  BY <1>3, <1>4, <1>5, ContinueOK DEF IndInv
<1>7. BoundInv'
  BY <1>4 DEF IndInv, BoundInv
<1> QED BY <1>2, <1>4, <1>6, <1>7, SaveInv DEF RecordOK

LEMMA LostInv ==
  ASSUME IndInv, NEW call \in calls, Lost(call)
  PROVE  IndInv'
<1>1. calls' \subseteq calls
      /\ UNCHANGED <<store, leased, fetched, updates, agreements, interventions, delays>>
  BY DEF Lost
<1>2. CallInv'
  BY <1>1, CallsKept DEF IndInv
<1> QED BY <1>1, <1>2, CallStepInv

(* A callback that goes on to save a record of the store, or throws. *)
LEMMA SavingInv ==
  ASSUME IndInv, NEW call \in calls, store' = store
  PROVE  /\ \A n : RecordOK(n, DOMAIN store) /\ Saving(call, n) => CallInv'
         /\ call.sender = "waiting" /\ Swallowed(call) => CallInv'
<1>1. CallOK(call, DOMAIN store) /\ CallInv
  BY DEF IndInv, CallInv
<1>2. ASSUME NEW n, RecordOK(n, DOMAIN store), Saving(call, n)
      PROVE  CallInv'
  <2> DEFINE next == [call EXCEPT !.sender = "saving", !.result = n]
  <2>1. CallOK(next, DOMAIN store)
    BY <1>1, <1>2, SenderOK
  <2>2. Continue(call, next)
    BY <1>2 DEF Saving
  <2> HIDE DEF next
  <2> QED BY <1>1, <2>1, <2>2, ContinueOK
<1>3. ASSUME call.sender = "waiting", Swallowed(call)
      PROVE  CallInv'
  <2> DEFINE next == [call EXCEPT !.sender = "gone"]
  <2>1. CallOK(next, DOMAIN store)
    BY <1>1, <1>3, SenderOK
  <2>2. Continue(call, next)
    BY <1>3 DEF Swallowed
  <2> HIDE DEF next
  <2> QED BY <1>1, <2>1, <2>2, ContinueOK
<1> QED BY <1>2, <1>3

(* The answer is positive. *)
LEMMA SendSucceedsInv ==
  ASSUME IndInv, NEW call \in calls, SendSucceeds(call)
  PROVE  IndInv'
<1> DEFINE found == Find(call.id)
<1>1. CallOK(call, DOMAIN store) /\ call.sender = "waiting"
      /\ UNCHANGED <<store, leased, fetched, updates, agreements, interventions, delays>>
  BY DEF IndInv, CallInv, SendSucceeds
<1>2. call \in CallType /\ call.id \in DOMAIN store
      /\ (call.kind = "agreement" => call.agreement # NoAgreement)
  BY <1>1 DEF CallOK
<1>3. RecordOK(found, DOMAIN store) /\ Sound(found)
  BY <1>2, FoundOK
<1>4. \/ Swallowed(call)
      \/ ~Throws(found, SentState(call.kind)) /\ Saving(call, OnSuccess(call, found))
  BY DEF SendSucceeds
<1> HIDE DEF found
<1>5. ~Throws(found, SentState(call.kind)) =>
        RecordOK(OnSuccess(call, found), DOMAIN store)
  BY <1>2, <1>3, OnSuccessSound, SameLinks
<1>6. CallInv'
  BY <1>1, <1>4, <1>5, SavingInv
<1> QED BY <1>1, <1>6, CallStepInv

(* The answer is negative, late or lost. *)
LEMMA SendFailsInv ==
  ASSUME IndInv, NEW call \in calls, SendFails(call)
  PROVE  IndInv'
<1> DEFINE found == Find(call.id)
<1>1. CallOK(call, DOMAIN store) /\ call.sender = "waiting"
      /\ UNCHANGED <<store, leased, fetched, updates, agreements, interventions, delays>>
  BY DEF IndInv, CallInv, SendFails
<1>2. call \in CallType /\ call.id \in DOMAIN store
  BY <1>1 DEF CallOK
<1>3. RecordOK(found, DOMAIN store) /\ Sound(found)
  BY <1>2, FoundOK
<1>4. \/ Swallowed(call)
      \/ Saving(call, TransitionError(found))
      \/ /\ ~RetriesExhausted(found) /\ ~Throws(found, SendingState(call.kind))
         /\ Saving(call, OnFailure(call, found))
  BY DEF SendFails
<1> HIDE DEF found
<1>5. RecordOK(TransitionError(found), DOMAIN store)
  BY <1>3, ErrorSound, SameLinks
<1>6. ~RetriesExhausted(found) /\ ~Throws(found, SendingState(call.kind)) =>
        RecordOK(OnFailure(call, found), DOMAIN store)
  BY <1>2, <1>3, OnFailureSound, SameLinks
<1>7. CallInv'
  BY <1>1, <1>4, <1>5, <1>6, SavingInv
<1> QED BY <1>1, <1>7, CallStepInv

(* The callback saves what it made of the negotiation, however old. *)
LEMMA SenderSavesInv ==
  ASSUME IndInv, NEW call \in calls, SenderSaves(call)
  PROVE  IndInv'
<1> DEFINE next == [call EXCEPT !.sender = "gone", !.result = Null]
<1>1. CallOK(call, DOMAIN store) /\ call.sender = "saving"
  BY DEF IndInv, CallInv, SenderSaves
<1>2. RecordOK(call.result, DOMAIN store)
  BY <1>1 DEF CallOK
<1>3. CallOK(next, DOMAIN store)
  BY <1>1, SenderOK
<1>4. /\ Put(call.result) /\ leased' \subseteq leased
      /\ Continue(call, next)
      /\ UNCHANGED <<fetched, updates, agreements, interventions, delays>>
  BY DEF SenderSaves, Save
<1> HIDE DEF next
<1>5. DOMAIN store \subseteq DOMAIN store'
  BY <1>4 DEF Put
<1>6. CallInv'
  BY <1>3, <1>4, <1>5, ContinueOK DEF IndInv
<1>7. BoundInv'
  BY <1>4 DEF IndInv, BoundInv
<1> QED BY <1>2, <1>4, <1>6, <1>7, SaveInv DEF RecordOK

(* initiate *)
LEMMA InitiateInv ==
  ASSUME IndInv, NEW id \in Consumers, Initiate(id)
  PROVE  IndInv'
<1> DEFINE new == [id |-> id, type |-> CONSUMER, correlationId |-> Null,
                   state |-> UNSAVED, stateCount |-> 0, agreement |-> NoAgreement]
           n == NewConsumerNegotiation(id)
<1>1. Linked(new) /\ new.correlationId = Null /\ new.type = CONSUMER
      /\ new.agreement = NoAgreement
  BY DEF Linked, ContractNegotiationType, ContractNegotiationStates, NoAgreement,
         CONSUMER, PROVIDER
<1>2. n = Transition(new, INITIAL)
  BY DEF NewConsumerNegotiation
<1>3. INITIAL \in ContractNegotiationStates
      /\ INITIAL \notin {REQUESTING, CONFIRMING, CONFIRMED}
  BY DEF ContractNegotiationStates, INITIAL, REQUESTING, CONFIRMING, CONFIRMED
<1> HIDE DEF new
<1>4. Sound(n) /\ n.correlationId = Null
  BY <1>1, <1>2, <1>3, TransitionSound
<1>5. /\ Put(n) /\ leased' \subseteq leased
      /\ UNCHANGED <<fetched, calls, updates, agreements, interventions, delays>>
  BY DEF Initiate, Save
<1> HIDE DEF n
<1>6. DOMAIN store \subseteq DOMAIN store'
  BY <1>5 DEF Put
<1>7. CallInv'
  BY <1>5, <1>6, CallsKept DEF IndInv
<1>8. BoundInv'
  BY <1>5 DEF IndInv, BoundInv
<1> QED BY <1>4, <1>5, <1>7, <1>8, SaveInv

(* A cancelled or declined copy of the store waits to be saved. *)
LEMMA InterveneInv ==
  ASSUME IndInv, NEW thread \in Managers \cup {"api"}, NEW n,
         RecordOK(n, DOMAIN store), Intervene(thread, n)
  PROVE  IndInv'
<1> DEFINE u == [thread |-> thread, no |-> interventions', n |-> n]
<1>1. /\ interventions < MaxInterventions /\ interventions' = interventions + 1
      /\ updates' = updates \cup {u}
      /\ UNCHANGED <<store, leased, fetched, calls, agreements, delays>>
  BY DEF Intervene
<1>2. BoundInv' /\ interventions' \in Nat
  BY <1>1, ManagersAssumption DEF IndInv, BoundInv
<1>3. u \in UpdateType /\ RecordOK(u.n, DOMAIN store)
  BY <1>2, RecordType DEF UpdateType
<1> HIDE DEF u
<1>4. UpdateInv'
  BY <1>1, <1>3 DEF IndInv, UpdateInv
<1> QED BY <1>1, <1>2, <1>4 DEF IndInv, StoreInv, LeaseInv, FetchedInv, CallInv

LEMMA CancelInv ==
  ASSUME IndInv, NEW manager \in Managers, NEW id, Cancel(manager, id)
  PROVE  IndInv'
<1>1. id \in DOMAIN store /\ Intervene(manager, TransitionError(Find(id)))
  BY DEF Cancel
<1>2. RecordOK(TransitionError(Find(id)), DOMAIN store)
  BY <1>1, FoundOK, ErrorSound, SameLinks
<1> QED BY <1>1, <1>2, InterveneInv

LEMMA DeclineInv ==
  ASSUME IndInv, NEW id, Decline(id)
  PROVE  IndInv'
<1>1. id \in DOMAIN store /\ Intervene("api", Transition(Find(id), DECLINED))
  BY DEF Decline
<1>2. RecordOK(Find(id), DOMAIN store) /\ Linked(Find(id))
  BY <1>1, FoundOK DEF Sound
<1>3. RecordOK(Transition(Find(id), DECLINED), DOMAIN store)
  BY <1>2, DeclinedSound, SameLinks
<1> QED BY <1>1, <1>3, InterveneInv

LEMMA UpdateStepInv ==
  ASSUME IndInv, NEW u \in updates, Update(u)
  PROVE  IndInv'
<1>1. RecordOK(u.n, DOMAIN store)
  BY DEF IndInv, UpdateInv
<1>2. /\ Put(u.n) /\ leased' \subseteq leased /\ updates' \subseteq updates
      /\ UNCHANGED <<fetched, calls, agreements, interventions, delays>>
  BY DEF Update, Save
<1>3. DOMAIN store \subseteq DOMAIN store'
  BY <1>2 DEF Put
<1>4. CallInv'
  BY <1>2, <1>3, CallsKept DEF IndInv
<1>5. BoundInv'
  BY <1>2 DEF IndInv, BoundInv
<1> QED BY <1>1, <1>2, <1>4, <1>5, SaveInv DEF RecordOK

-----------------------------------------------------------------------------
(* Theorems *)

(* Every step keeps the invariant. *)
LEMMA NextInv == IndInv /\ [Next]_vars => IndInv'
<1> SUFFICES ASSUME IndInv, [Next]_vars PROVE IndInv'
  OBVIOUS
<1>1. CASE Api
  BY <1>1, InitiateInv, CancelInv, DeclineInv DEF Api
<1>2. ASSUME NEW u \in updates, Update(u) PROVE IndInv'
  BY <1>2, UpdateStepInv
<1>3. ASSUME NEW manager \in Managers, NEW side \in Managers, Loop(manager, side)
      PROVE  IndInv'
  <2>1. CASE \E state \in Processors(manager) : NextForState(manager, side, state)
    BY <2>1, NextForStateInv
  <2>2. CASE \E f \in OfLoop(manager, side) : Process(f)
    BY <2>2, ProcessInitialInv, DelayedInv, SendInv, SendThrowsInv DEF Process, OfLoop
  <2> QED BY <1>3, <2>1, <2>2 DEF Loop
<1>4. ASSUME NEW call \in calls, Receive(call) PROVE IndInv'
  BY <1>4, RequestedInv, ConfirmedInv, DeclinedByIdInv, DeclinedByCorrelationIdInv,
     DeclinedUnknownInv, ReceiverSavesInv DEF Receive
<1>5. ASSUME NEW call \in calls, Callback(call) PROVE IndInv'
  BY <1>5, SendSucceedsInv, SendFailsInv, SenderSavesInv DEF Callback
<1>6. ASSUME NEW call \in calls, Lost(call) PROVE IndInv'
  BY <1>6, LostInv
<1>7. CASE UNCHANGED vars
  BY <1>7 DEF vars, IndInv, StoreInv, LeaseInv, FetchedInv, UpdateInv, CallInv, BoundInv
<1> QED BY <1>1, <1>2, <1>3, <1>4, <1>5, <1>6, <1>7 DEF Next

(* The inductive invariant holds of every reachable state of the two        *)
(* managers and of the messages between them.                               *)
THEOREM IndInvHolds == Spec => []IndInv
BY InitInv, NextInv, PTL DEF Spec

(* Every variable of the managers keeps its type. *)
THEOREM TypeCorrect == Spec => []TypeOK
<1>1. ASSUME IndInv PROVE TypeOK
  <2>1. \A id \in DOMAIN store :
          store[id] \in ContractNegotiationType /\ store[id].id = id
    BY <1>1, RecordType DEF IndInv, StoreInv
  <2>2. DOMAIN store \subseteq Consumers \cup Providers
    BY <2>1 DEF ContractNegotiationType
  <2>3. calls \subseteq CallType
    BY <1>1 DEF IndInv, CallInv, CallOK
  <2>4. leased \subseteq DOMAIN store /\ fetched \subseteq FetchedType
        /\ updates \subseteq UpdateType
    BY <1>1 DEF IndInv, LeaseInv, FetchedInv, UpdateInv
  <2> QED BY <1>1, <2>1, <2>2, <2>3, <2>4 DEF IndInv, BoundInv, TypeOK
<1> QED BY <1>1, IndInvHolds, PTL

(* Under the invariant every copy of a negotiation is sound. *)
LEMMA RecordsSound ==
  ASSUME IndInv
  PROVE  \A n \in Records : Sound(n)
<1>1. \A id \in DOMAIN store : Sound(store[id])
  BY DEF IndInv, StoreInv, RecordOK
<1>2. \A f \in fetched : Sound(f.n)
  BY DEF IndInv, FetchedInv, RecordOK
<1>3. \A u \in updates : Sound(u.n)
  BY DEF IndInv, UpdateInv, RecordOK
<1>4. \A call \in calls : /\ call.result # Null => Sound(call.result)
                          /\ call.received # Null => Sound(call.received)
  BY DEF IndInv, CallInv, CallOK, RecordOK
<1> QED BY <1>1, <1>2, <1>3, <1>4 DEF Records

(* A negotiation is CONFIRMED only with an agreement and has one only if it *)
(* was confirmed, in the store and in every copy that a loop, a callback, a *)
(* handler or the API can still save.                                       *)
THEOREM AgreementsCorrect == Spec => []AgreementMeansConfirmed
<1>1. IndInv => AgreementMeansConfirmed
  BY RecordsSound DEF Sound, AgreementMeansConfirmed
<1> QED BY <1>1, IndInvHolds, PTL

(* No copy counts more than RetryLimit + 1 attempts to send a request or an *)
(* agreement, however late or repeated the answers are.                     *)
THEOREM AttemptsCorrect == Spec => []AttemptsBounded
<1>1. IndInv => AttemptsBounded
  BY RecordsSound DEF Sound, AttemptsBounded
<1> QED BY <1>1, IndInvHolds, PTL
=============================================================================
