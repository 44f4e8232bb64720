--------------------- MODULE ContractNegotiationManagers ---------------------
(***************************************************************************)
(* Two connectors negotiate: ConsumerContractNegotiationManagerImpl and    *)
(* ProviderContractNegotiationManagerImpl, their in-memory stores, and the *)
(* IDS messages between them (contract request, contract agreement and     *)
(* contract rejection) over an unreliable network.                         *)
(*                                                                         *)
(* Every connector runs BOTH managers, each with its own state-machine     *)
(* thread, on one store and one command queue (ContractServiceExtension).  *)
(* A negotiation lives on the connector of its type, so "store" stands for *)
(* the two stores: consumer negotiations are those of the consumer's       *)
(* connector, provider negotiations those of the provider's.               *)
(*                                                                         *)
(* Each step has at most one access to a store: what a handler, callback,  *)
(* API call or command found and is about to save is kept in the call or   *)
(* in "updates".  nextForState is one step here; its race with upsert is   *)
(* part of TransferProcessManager.                                         *)
(***************************************************************************)
EXTENDS ContractNegotiation, FiniteSets, FiniteSetsExt

CONSTANTS
  BatchSize,         \* negotiations leased by one nextForState
  RetryLimit,        \* send attempts that may fail and be retried
  MaxAgreements,     \* bound: agreements the providers create
  MaxInterventions,  \* bound: cancel and decline calls of the API
  MaxDelays          \* bound: sends put off by shouldDelay

ASSUME ManagersAssumption ==
  /\ BatchSize \in Nat \ {0}
  /\ {RetryLimit, MaxAgreements, MaxInterventions, MaxDelays} \subseteq Nat

VARIABLES
  store,          \* the stored negotiations of both connectors
  leased,         \* ids whose stored Item is leased
  fetched,        \* copies a manager's loop fetched and has not processed
  calls,          \* messages sent, with the state of their two ends
  updates,        \* saves about to be made for the API and for commands
  agreements,     \* number of agreements created
  interventions,  \* number of API calls
  delays          \* number of sends put off

vars == <<store, leased, fetched, calls, updates, agreements, interventions,
          delays>>

Managers == {CONSUMER, PROVIDER}
Kinds == {"request", "agreement", "rejection"}

FetchedType == [manager : Managers, n : ContractNegotiationType]

(***************************************************************************)
(* A call: the negotiation that sends and its attempt, the correlation id  *)
(* of the message, and its two ends.  The sender waits for the response,   *)
(* then saves "result", then is gone; the receiver gets the message, saves *)
(* "received", and answers.                                                *)
(***************************************************************************)
CallType ==
  [id : Consumers \cup Providers, kind : Kinds, attempt : Nat,
   to : Consumers \cup Providers, agreement : Nat,
   sender : {"waiting", "saving", "gone"},
   receiver : {"transit", "handling", "ok", "failed"},
   result : ContractNegotiationType \cup {Null},
   received : ContractNegotiationType \cup {Null}]

(* A save of the API thread, or of the loop of a manager that runs a command *)
UpdateType ==
  [thread : Managers \cup {"api"}, no : Nat, n : ContractNegotiationType]

-----------------------------------------------------------------------------
(* The stores *)

Find(id) == store[id]

(* findForCorrelationId returns the first match of an unordered map. *)
FindForCorrelationId(id) == {p \in DOMAIN store : store[p].correlationId = id}

(* Mutant: negotiations are kept by their correlation id if they have one. *)
PutByCorrelationId(n) ==
  LET key == IF n.correlationId = Null THEN n.id ELSE n.correlationId IN
  store' = [id \in DOMAIN store \cup {key} |-> IF id = key THEN n ELSE store[id]]

Put(n) == store' = [id \in DOMAIN store \cup {n.id} |->
                      IF id = n.id THEN n ELSE store[id]]

Save(n) == Put(n) /\ leased' = leased \ {n.id}

-----------------------------------------------------------------------------
(* The loops *)

(* The states of the processors of start(); counter offers, which no        *)
(* message of the IDS endpoint leads to, are left out.                      *)
Processors(manager) ==
  IF manager = CONSUMER THEN {INITIAL, REQUESTING, DECLINING}
                        ELSE {DECLINING, CONFIRMING}

(* A loop is the thread of a manager on the connector of that side. *)
OfLoop(manager, side) ==
  {f \in fetched : f.manager = manager /\ f.n.type = side}

Idle(manager, side) ==
  /\ OfLoop(manager, side) = {}
  /\ \A u \in updates : ~(u.thread = manager /\ u.n.type = side)

(* Mutant: the lease filter is missing. *)
CandidatesIgnoringLease(side, state) ==
  {id \in DOMAIN store : store[id].type = side /\ store[id].state = state}

Candidates(side, state) ==
  {id \in DOMAIN store : /\ store[id].type = side
                         /\ store[id].state = state
                         /\ id \notin leased}

NextForState(manager, side, state) ==
  /\ Idle(manager, side)
  /\ state \in Processors(manager)
  /\ LET candidates == Candidates(side, state) IN
     \E ids \in SUBSET candidates :
       /\ ids # {}
       /\ Cardinality(ids) = Min({BatchSize, Cardinality(candidates)})
       /\ leased' = leased \cup ids
       /\ fetched' = fetched \cup {[manager |-> manager, n |-> store[id]] : id \in ids}
  /\ UNCHANGED <<store, calls, updates, agreements, interventions, delays>>

ProcessInitial(f) ==
  /\ f.n.state = INITIAL
  /\ Save(Transition(f.n, REQUESTING))
  /\ fetched' = fetched \ {f}
  /\ UNCHANGED <<calls, updates, agreements, interventions, delays>>

SendingState(kind) ==
  CASE kind = "request" -> REQUESTING
    [] kind = "agreement" -> CONFIRMING
    [] kind = "rejection" -> DECLINING

(* Mutant: the lease is kept while the retry is put off. *)
DelayedStillLeased(f) ==
  /\ f.n.state # INITIAL /\ f.n.stateCount > 1
  /\ delays < MaxDelays /\ delays' = delays + 1
  /\ fetched' = fetched \ {f}
  /\ UNCHANGED <<store, leased, calls, updates, agreements, interventions>>

(* shouldDelay: breakLease saves the copy that was fetched. *)
Delayed(f) ==
  /\ f.n.state # INITIAL /\ f.n.stateCount > 1
  /\ delays < MaxDelays /\ delays' = delays + 1
  /\ Save(f.n)
  /\ fetched' = fetched \ {f}
  /\ UNCHANGED <<calls, updates, agreements, interventions>>

(* The correlation id a manager puts in a message: the consumer's manager   *)
(* sends the id of the negotiation, the provider's its correlation id; each *)
(* does so for any negotiation it fetched.                                  *)
CorrelationId(f) ==
  IF f.manager = CONSUMER THEN f.n.id ELSE f.n.correlationId

(* processRequesting, processConfirming, processDeclining.  An agreement is *)
(* new at every attempt: it is stored only after it was sent.               *)
Send(f, kind) ==
  /\ f.n.state = SendingState(kind)
  /\ CorrelationId(f) # Null
  /\ agreements' = agreements + (IF kind = "agreement" THEN 1 ELSE 0)
  /\ agreements' <= MaxAgreements
  /\ calls' = calls \cup
       {[id |-> f.n.id, kind |-> kind, attempt |-> f.n.stateCount,
         to |-> CorrelationId(f),
         agreement |-> IF kind = "agreement" THEN agreements' ELSE NoAgreement,
         sender |-> "waiting", receiver |-> "transit",
         result |-> Null, received |-> Null]}
  /\ fetched' = fetched \ {f}
  /\ UNCHANGED <<store, leased, updates, interventions, delays>>

(* The builder of ContractRejection rejects a null correlation id; the      *)
(* exception ends the iteration and the batch stays leased.                 *)
SendThrows(f) ==
  /\ f.n.state = DECLINING
  /\ CorrelationId(f) = Null
  /\ fetched' = fetched \ OfLoop(f.manager, f.n.type)
  /\ UNCHANGED <<store, leased, calls, updates, agreements, interventions,
                 delays>>

-----------------------------------------------------------------------------
(* Calls *)

(* A call is forgotten when both of its ends are done with it. *)
Continue(call, next) ==
  calls' = (calls \ {call}) \cup
    (IF next.sender = "gone" /\ next.receiver \in {"ok", "failed"}
     THEN {} ELSE {next})

Handling(call, n) ==
  Continue(call, [call EXCEPT !.receiver = "handling", !.received = n])

(* Mutant: the endpoint answers as if the message had been processed. *)
RefusedSilently(call) == Continue(call, [call EXCEPT !.receiver = "ok"])

Refused(call) == Continue(call, [call EXCEPT !.receiver = "failed"])

(* ProviderContractNegotiationManagerImpl.requested: a new negotiation is   *)
(* saved as REQUESTED, then the validated offer is saved with it.           *)
Requested(call, id) ==
  /\ call.kind = "request" /\ call.receiver = "transit"
  /\ id \in Providers \ DOMAIN store
  /\ LET n == NewProviderNegotiation(id, call.to) IN
     /\ Save(n)
     /\ \E end \in {CONFIRMING, DECLINING} : Handling(call, Transition(n, end))
  /\ UNCHANGED <<fetched, updates, agreements, interventions, delays>>

(* What confirmed makes of a valid agreement, which it takes again when the *)
(* negotiation is CONFIRMED already.                                        *)
Confirmation(n, agreement) ==
  LET agreed == SetContractAgreement(n, agreement) IN
  IF n.state = CONFIRMED THEN agreed ELSE Transition(agreed, CONFIRMED)

(* ConsumerContractNegotiationManagerImpl.confirmed: the agreement is valid *)
(* or not; either way the answer is positive, unless a transition throws.   *)
Confirmed(call) ==
  /\ call.kind = "agreement" /\ call.receiver = "transit"
  /\ LET found == Find(call.to) IN
     \/ /\ found.state = CONFIRMED \/ ~Throws(found, CONFIRMED)
        /\ Handling(call, Confirmation(found, call.agreement))
     \/ /\ ~Throws(found, DECLINING)
        /\ Handling(call, Transition(found, DECLINING))
     \/ /\ Throws(found, CONFIRMED) \/ Throws(found, DECLINING)
        /\ Refused(call)
  /\ UNCHANGED <<store, leased, fetched, updates, agreements, interventions,
                 delays>>

(* ProviderContractNegotiationManagerImpl.declined drops the agreement. *)
Declined(n) == Transition(SetContractAgreement(n, NoAgreement), DECLINED)

(* A rejection from the provider: found by the id, a copy. *)
DeclinedById(call) ==
  /\ call.kind = "rejection" /\ call.receiver = "transit"
  /\ call.id \in Providers /\ call.to \in Consumers
  /\ LET found == Find(call.to) IN
     IF Throws(found, DECLINED) THEN Refused(call)
                                ELSE Handling(call, Declined(found))
  /\ UNCHANGED <<store, leased, fetched, updates, agreements, interventions,
                 delays>>

(* A rejection from the consumer: found by the correlation id, and that is  *)
(* the stored object itself, changed in place before it is saved, and       *)
(* without its agreement even if the transition throws.                     *)
DeclinedByCorrelationId(call) ==
  /\ call.kind = "rejection" /\ call.receiver = "transit"
  /\ call.id \in Consumers
  /\ \E id \in FindForCorrelationId(call.to) :
       IF Throws(Find(id), DECLINED)
       THEN Put(SetContractAgreement(Find(id), NoAgreement)) /\ Refused(call)
       ELSE Put(Declined(Find(id))) /\ Handling(call, Declined(Find(id)))
  /\ UNCHANGED <<leased, fetched, updates, agreements, interventions, delays>>

(* No manager of the receiving connector knows the negotiation. *)
DeclinedUnknown(call) ==
  /\ call.kind = "rejection" /\ call.receiver = "transit"
  /\ \/ call.id \in Consumers /\ FindForCorrelationId(call.to) = {}
     \/ call.id \in Providers /\ call.to \in Providers
  /\ Refused(call)
  /\ UNCHANGED <<store, leased, fetched, updates, agreements, interventions,
                 delays>>

ReceiverSaves(call) ==
  /\ call.receiver = "handling"
  /\ Save(call.received)
  /\ Continue(call, [call EXCEPT !.receiver = "ok", !.received = Null])
  /\ UNCHANGED <<fetched, updates, agreements, interventions, delays>>

(* A message whose sender does not wait any more may never arrive. *)
Lost(call) ==
  /\ call.sender = "gone" /\ call.receiver = "transit"
  /\ calls' = calls \ {call}
  /\ UNCHANGED <<store, leased, fetched, updates, agreements, interventions,
                 delays>>

-----------------------------------------------------------------------------
(* Callbacks: AsyncSendResultHandler *)

(* Mutant: one attempt too many. *)
RetriesExhaustedLate(n) == n.stateCount > RetryLimit + 1

RetriesExhausted(n) == n.stateCount > RetryLimit

SentState(kind) ==
  CASE kind = "request" -> REQUESTED
    [] kind = "agreement" -> CONFIRMED
    [] kind = "rejection" -> DECLINED

(* Mutant: the agreement that was sent is not stored. *)
OnSuccessWithoutAgreement(call, n) == Transition(n, SentState(call.kind))

(* onInitialOfferSent, onAgreementSent, onRejectionSent *)
OnSuccess(call, n) ==
  Transition(IF call.kind = "agreement"
             THEN SetContractAgreement(n, call.agreement) ELSE n,
             SentState(call.kind))

OnFailure(call, n) == Transition(n, SendingState(call.kind))

(* The callback goes on to save n. *)
Saving(call, n) == Continue(call, [call EXCEPT !.sender = "saving", !.result = n])

(* The transition throws: the future swallows the exception. *)
Swallowed(call) == Continue(call, [call EXCEPT !.sender = "gone"])

SendSucceeds(call) ==
  /\ call.sender = "waiting" /\ call.receiver = "ok"
  /\ LET found == Find(call.id) IN
     IF Throws(found, SentState(call.kind))
     THEN Swallowed(call) ELSE Saving(call, OnSuccess(call, found))
  /\ UNCHANGED <<store, leased, fetched, updates, agreements, interventions,
                 delays>>

(* The answer is negative or is lost, or the message takes too long; it may *)
(* still be handled later.                                                  *)
SendFails(call) ==
  /\ call.sender = "waiting"
  /\ LET found == Find(call.id) IN
     IF RetriesExhausted(found) THEN Saving(call, TransitionError(found))
     ELSE IF Throws(found, SendingState(call.kind)) THEN Swallowed(call)
     ELSE Saving(call, OnFailure(call, found))
  /\ UNCHANGED <<store, leased, fetched, updates, agreements, interventions,
                 delays>>

SenderSaves(call) ==
  /\ call.sender = "saving"
  /\ Save(call.result)
  /\ Continue(call, [call EXCEPT !.sender = "gone", !.result = Null])
  /\ UNCHANGED <<fetched, updates, agreements, interventions, delays>>

-----------------------------------------------------------------------------
(* The data management API *)

Initiate(id) ==
  /\ id \in Consumers \ DOMAIN store
  /\ Save(NewConsumerNegotiation(id))
  /\ UNCHANGED <<fetched, calls, updates, agreements, interventions, delays>>

Intervene(thread, n) ==
  /\ interventions < MaxInterventions
  /\ interventions' = interventions + 1
  /\ updates' = updates \cup {[thread |-> thread, no |-> interventions', n |-> n]}
  /\ UNCHANGED <<store, leased, fetched, calls, agreements, delays>>

(* CancelNegotiationCommandHandler, run by the loop of either manager: the  *)
(* two share the command queue.                                             *)
Cancel(manager, id) ==
  /\ id \in DOMAIN store
  /\ Idle(manager, Find(id).type)
  /\ Intervene(manager, TransitionError(Find(id)))

(* ConsumerContractNegotiationManagerImpl.declined, called by the API *)
Decline(id) ==
  /\ id \in DOMAIN store
  /\ ~Throws(Find(id), DECLINED)
  /\ Intervene("api", Transition(Find(id), DECLINED))

Update(u) ==
  /\ Save(u.n)
  /\ updates' = updates \ {u}
  /\ UNCHANGED <<fetched, calls, agreements, interventions, delays>>

-----------------------------------------------------------------------------
Init ==
  /\ store = [id \in {} |-> id] /\ leased = {}
  /\ fetched = {} /\ calls = {} /\ updates = {}
  /\ agreements = 0 /\ interventions = 0 /\ delays = 0

Process(f) ==
  \/ ProcessInitial(f)
  \/ Delayed(f)
  \/ \E kind \in Kinds : Send(f, kind)
  \/ SendThrows(f)

(* The thread of a loop *)
Loop(manager, side) ==
  \/ \E state \in Processors(manager) : NextForState(manager, side, state)
  \/ \E f \in OfLoop(manager, side) : Process(f)

Receive(call) ==
  \/ \E id \in Providers : Requested(call, id)
  \/ Confirmed(call)
  \/ DeclinedById(call)
  \/ DeclinedByCorrelationId(call)
  \/ DeclinedUnknown(call)
  \/ ReceiverSaves(call)

Callback(call) == SendSucceeds(call) \/ SendFails(call) \/ SenderSaves(call)

Api ==
  \/ \E id \in Consumers : Initiate(id)
  \/ \E manager \in Managers, id \in Consumers \cup Providers : Cancel(manager, id)
  \/ \E id \in Consumers \cup Providers : Decline(id)

Next ==
  \/ Api
  \/ \E u \in updates : Update(u)
  \/ \E manager, side \in Managers : Loop(manager, side)
  \/ \E call \in calls : Receive(call) \/ Callback(call) \/ Lost(call)

Spec == Init /\ [][Next]_vars

(***************************************************************************)
(* Fairness.  The thread of a loop goes on polling its states and          *)
(* processing what it fetched; threads that found a negotiation go on to   *)
(* save it; every future completes, if only by a timeout.  A message need  *)
(* not be delivered.                                                       *)
(***************************************************************************)
Fairness ==
  /\ \A manager, side \in Managers : WF_vars(Loop(manager, side))
  /\ WF_vars(\E u \in updates : Update(u))
  /\ \A id \in Consumers \cup Providers :
       /\ WF_vars(\E call \in calls : call.id = id /\ Callback(call))
       /\ WF_vars(\E call \in calls : call.id = id /\ ReceiverSaves(call))

FairSpec == Spec /\ Fairness

-----------------------------------------------------------------------------
(* Properties *)

(* Type correctness of every variable. *)
TypeOK ==
  /\ DOMAIN store \subseteq Consumers \cup Providers
  /\ \A id \in DOMAIN store : store[id] \in ContractNegotiationType /\ store[id].id = id
  /\ leased \subseteq DOMAIN store
  /\ fetched \subseteq FetchedType
  /\ calls \subseteq CallType
  /\ updates \subseteq UpdateType
  /\ agreements \in 0 .. MaxAgreements
  /\ interventions \in 0 .. MaxInterventions
  /\ delays \in 0 .. MaxDelays

(* Every record of a negotiation that some thread can still save. *)
Records ==
  {store[id] : id \in DOMAIN store} \cup {f.n : f \in fetched}
    \cup {u.n : u \in updates}
    \cup ({call.result : call \in calls} \ {Null})
    \cup ({call.received : call \in calls} \ {Null})

(* getContractAgreement: "Returns the finalized agreement or null if the    *)
(* negotiation has not been confirmed".  Through retries, late messages and *)
(* stale copies, a negotiation is CONFIRMED only with an agreement, and has *)
(* one only if it is CONFIRMED or was declined or cancelled afterwards.     *)
AgreementMeansConfirmed ==
  \A n \in Records :
    /\ n.state = CONFIRMED => n.agreement # NoAgreement
    /\ n.agreement # NoAgreement => n.state \in {CONFIRMED, DECLINED, ERROR}

(* AsyncSendResultHandler gives up after RetryLimit failures: no copy of a  *)
(* negotiation counts more than RetryLimit + 1 attempts to send a request   *)
(* or an agreement.                                                         *)
AttemptsBounded ==
  \A n \in Records :
    n.state \in {REQUESTING, CONFIRMING} => n.stateCount <= RetryLimit + 1

(* The provider confirms only a negotiation the consumer has settled: the   *)
(* consumer is never left negotiating, or requesting again, when its        *)
(* provider has confirmed, whatever messages and answers are late or lost.  *)
ConfirmedOnBothSides ==
  \A p \in DOMAIN store \cap Providers :
    store[p].state = CONFIRMED =>
      store[store[p].correlationId].state \in {CONFIRMED, DECLINING, DECLINED, ERROR}

(* A consumer negotiation whose request was answered is never requested     *)
(* again: no copy that a loop or a callback still holds takes it back from  *)
(* REQUESTED, DECLINING, DECLINED or CONFIRMED.  (A cancel can be undone.)  *)
NeverRequestedAgain ==
  [][\A c \in DOMAIN store \cap Consumers :
       store[c].state \notin {INITIAL, REQUESTING, ERROR} =>
         store'[c].state \notin {INITIAL, REQUESTING}]_vars

(* The sending of a request or an agreement ends: with an answer or after   *)
(* the last retry the negotiation leaves REQUESTING or CONFIRMING.          *)
SendingEnds ==
  \A id \in Consumers \cup Providers :
    (id \in DOMAIN store /\ store[id].state \in {REQUESTING, CONFIRMING})
      ~> (id \in DOMAIN store /\ store[id].state \notin {REQUESTING, CONFIRMING})

(* "agreed-upon terms ... between two data space participants": when both   *)
(* parties have confirmed and no message is under way, they hold the same   *)
(* agreement.                                                               *)
SameAgreement ==
  \A p \in DOMAIN store \cap Providers :
    LET c == store[p].correlationId IN
    store[p].state = CONFIRMED /\ store[c].state = CONFIRMED /\ calls = {} =>
      store[p].agreement = store[c].agreement

-----------------------------------------------------------------------------
(***************************************************************************)
(* The inductive invariant.  The properties above speak of every copy a    *)
(* thread can still save, but a step is only safe for more reasons: what   *)
(* the type of a negotiation allows, which loop fetched it, and that a     *)
(* message names negotiations that exist and carries its agreement.        *)
(***************************************************************************)
Linked(n) ==
  /\ n \in ContractNegotiationType
  /\ n.type = CONSUMER => n.id \in Consumers /\ n.correlationId = Null
  /\ n.type = PROVIDER => n.id \in Providers /\ n.correlationId \in Consumers

Sound(n) ==
  /\ Linked(n)
  /\ n.state \in {INITIAL, REQUESTING} => n.type = CONSUMER
  /\ n.state = CONFIRMED => n.agreement # NoAgreement
  /\ n.agreement # NoAgreement => n.state \in {CONFIRMED, DECLINED, ERROR}
  /\ n.state \in {REQUESTING, CONFIRMING} => n.stateCount <= RetryLimit + 1

(* A sound copy of a stored negotiation whose consumer is stored too *)
RecordOK(n, ids) ==
  /\ Sound(n)
  /\ n.id \in ids
  /\ n.correlationId # Null => n.correlationId \in ids

CallOK(call, ids) ==
  /\ call \in CallType
  /\ call.id \in ids
  /\ call.to \in ids
  /\ call.kind # "rejection" => call.to \in Consumers
  /\ call.kind = "agreement" => call.agreement # NoAgreement
  /\ IF call.sender = "saving" THEN RecordOK(call.result, ids)
                               ELSE call.result = Null
  /\ IF call.receiver = "handling" THEN RecordOK(call.received, ids)
                                   ELSE call.received = Null

StoreInv ==
  \A id \in DOMAIN store : store[id].id = id /\ RecordOK(store[id], DOMAIN store)

LeaseInv == leased \subseteq DOMAIN store

FetchedInv ==
  \A f \in fetched :
    /\ f \in FetchedType
    /\ RecordOK(f.n, DOMAIN store)
    /\ f.n.state \in Processors(f.manager)

UpdateInv == \A u \in updates : u \in UpdateType /\ RecordOK(u.n, DOMAIN store)

CallInv == \A call \in calls : CallOK(call, DOMAIN store)

BoundInv ==
  /\ agreements \in 0 .. MaxAgreements
  /\ interventions \in 0 .. MaxInterventions
  /\ delays \in 0 .. MaxDelays

(* What every step of the managers, messages and callbacks preserves. *)
IndInv ==
  StoreInv /\ LeaseInv /\ FetchedInv /\ UpdateInv /\ CallInv /\ BoundInv
-----------------------------------------------------------------------------
(***************************************************************************)
(* The inductive invariant behind ConfirmedOnBothSides and                 *)
(* NeverRequestedAgain.  That a provider has confirmed says something of   *)
(* the consumer only if nobody holds a copy of the consumer's negotiation  *)
(* from before the answer.                                                 *)
(***************************************************************************)
Answers == {CONFIRMED, DECLINING, DECLINED, ERROR}

(* The copies that some thread can still save. *)
Pending ==
  {f.n : f \in fetched} \cup {u.n : u \in updates}
    \cup {call.result : call \in {k \in calls : k.sender = "saving"}}
    \cup {call.received : call \in {k \in calls : k.receiver = "handling"}}

(* The request of c was answered, and nobody can save c as it was before. *)
HasRequested(c) ==
  /\ store[c].state \in {REQUESTED} \cup Answers
  /\ \A n \in Pending : n.id = c => n.state \in Answers
  /\ \A call \in calls : call.id = c /\ call.kind = "request" => call.sender = "gone"

(* The thread that has c, if any, is protected by the lease, which only a  *)
(* cancel command breaks.                                                  *)
Protected(c) ==
  \/ store[c].state \in {INITIAL, REQUESTING} /\ c \in leased
  \/ store[c].state = ERROR

LoopRequests(f) ==
  /\ Protected(f.n.id)
  /\ f.n.state \in {INITIAL, REQUESTING}
  /\ \A g \in fetched : g.n.id = f.n.id => g = f
  /\ \A call \in calls : call.id = f.n.id => call.sender = "gone"

CallbackRequests(call) ==
  /\ Protected(call.id)
  /\ call.sender = "saving" => call.result.state \in {REQUESTING, REQUESTED, ERROR}
  /\ \A k \in calls : k.id = call.id /\ k.sender # "gone" => k = call

(* The request of c is still to be answered, and only one thread has c. *)
StillRequests(c) ==
  /\ store[c].state \in {INITIAL, REQUESTING, ERROR}
  /\ \A f \in fetched : f.n.id = c => LoopRequests(f)
  /\ \A u \in updates : u.n.id = c => u.n.state = ERROR
  /\ \A call \in calls :
       /\ call.id = c => call.kind = "request"
       /\ call.id = c /\ call.sender # "gone" => CallbackRequests(call)
       /\ call.receiver = "handling" => call.received.id # c

(* c has answered an agreement. *)
Answered(c) == HasRequested(c) /\ store[c].state \in Answers

(* A copy names the same consumer as the stored negotiation; a provider     *)
(* has confirmed only what the consumer has answered.                       *)
Agreed(n) ==
  /\ n.correlationId = store[n.id].correlationId
  /\ n.state = CONFIRMING => n.type = PROVIDER
  /\ n.state = CONFIRMED /\ n.type = PROVIDER => Answered(n.correlationId)

AgreementCallOK(call) ==
  /\ call.id \in Providers
  /\ call.to = store[call.id].correlationId
  /\ call.receiver = "handling" => call.received.id = call.to
  /\ call.receiver = "ok" => Answered(call.to)

(* A callback saves its own negotiation. *)
CallbackOK(call) ==
  /\ call.sender = "saving" => call.result.id = call.id
  /\ call.kind = "agreement" => AgreementCallOK(call)

(* One thread at a time requests, until an answer; and a positive response  *)
(* to an agreement means that the consumer has answered for good.           *)
AnswerInv ==
  /\ \A c \in DOMAIN store \cap Consumers : HasRequested(c) \/ StillRequests(c)
  /\ \A id \in DOMAIN store : Agreed(store[id])
  /\ \A n \in Pending : Agreed(n)
  /\ \A call \in calls : CallbackOK(call)
=============================================================================
