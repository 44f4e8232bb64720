------------------- MODULE ContractNegotiationAnswersProofs -------------------
(***************************************************************************)
(* Proofs, for every number of negotiations, messages, retries and         *)
(* interventions, that a provider confirms only what its consumer has      *)
(* answered, and that an answered request is never made again.  The        *)
(* argument is about the copies threads still hold: until the answer there *)
(* is one thread at a time that has the consumer's negotiation, and from   *)
(* then on every copy of it is an answer.                                  *)
(***************************************************************************)
EXTENDS ContractNegotiationManagersProofs

-----------------------------------------------------------------------------
(* The entity *)

(* Before a request is answered, the entity refuses to be confirmed or      *)
(* declined.                                                                *)
LEMMA UnansweredThrows ==
  ASSUME NEW n, n.state \in {INITIAL, REQUESTING, ERROR}, n.type = CONSUMER
  PROVE  Throws(n, CONFIRMED) /\ Throws(n, DECLINING) /\ Throws(n, DECLINED)
<1>1. /\ Starts(n, CONFIRMED) =
           {CONFIRMING, CONSUMER_APPROVED, REQUESTED, CONSUMER_OFFERED, CONFIRMED}
      /\ Starts(n, DECLINING) =
           {DECLINING, REQUESTED, CONSUMER_APPROVED} \cup {CONSUMER_OFFERED}
      /\ Starts(n, DECLINED) = {DECLINING, REQUESTED} \cup {CONSUMER_OFFERED}
  BY DEF Starts, IsConsumer, INITIAL, REQUESTING, REQUESTED, CONSUMER_OFFERING,
         PROVIDER_OFFERING, CONSUMER_OFFERED, PROVIDER_OFFERED,
         CONSUMER_APPROVING, CONSUMER_APPROVED, DECLINING, DECLINED,
         CONFIRMING, CONFIRMED
<1> QED BY <1>1 DEF Throws, INITIAL, REQUESTING, REQUESTED, CONSUMER_OFFERED,
                  CONSUMER_APPROVED, DECLINING, DECLINED, CONFIRMING, CONFIRMED, ERROR

(* The states that matter are different. *)
LEMMA DistinctStates ==
  /\ REQUESTED \notin Answers /\ INITIAL \notin Answers /\ REQUESTING \notin Answers
  /\ CONFIRMING \notin Answers
  /\ {CONFIRMED, DECLINING, DECLINED, ERROR} \subseteq Answers
  /\ REQUESTED \notin {INITIAL, REQUESTING, ERROR}
  /\ CONFIRMED \notin {DECLINING, DECLINED, ERROR, CONFIRMING, REQUESTED, INITIAL, REQUESTING}
  /\ CONFIRMING \notin {DECLINING, DECLINED, ERROR, REQUESTED, INITIAL, REQUESTING}
  /\ ERROR \notin {INITIAL, REQUESTING, DECLINING, DECLINED}
  /\ DECLINING \notin {INITIAL, REQUESTING} /\ INITIAL # REQUESTING
  /\ Answers \cup {REQUESTED, INITIAL, REQUESTING, CONFIRMING} \subseteq ContractNegotiationStates
BY DEF Answers, ContractNegotiationStates, INITIAL, REQUESTING, REQUESTED, DECLINING,
       DECLINED, CONFIRMING, CONFIRMED, ERROR

(* transitionError changes the state and its count only. *)
LEMMA ErrorFrame ==
  ASSUME NEW n \in ContractNegotiationType
  PROVE  /\ TransitionError(n).id = n.id
         /\ TransitionError(n).type = n.type
         /\ TransitionError(n).correlationId = n.correlationId
         /\ TransitionError(n).state = ERROR
BY DEF TransitionError, ContractNegotiationType

(* What is stored under an id of a consumer is a consumer negotiation. *)
LEMMA StoredConsumer ==
  ASSUME IndInv, NEW c \in DOMAIN store, c \in Consumers
  PROVE  /\ store[c].type = CONSUMER /\ store[c].id = c
         /\ store[c] \in ContractNegotiationType
<1>1. store[c].id = c /\ Linked(store[c])
  BY DEF IndInv, StoreInv, RecordOK, Sound
<1> QED BY <1>1, NegotiationAssumption DEF Linked, ContractNegotiationType

-----------------------------------------------------------------------------
(* Copies in the hands of threads *)

(* A call that is new and the copies it brings with it. *)
LEMMA PendingStep ==
  ASSUME fetched' \subseteq fetched, updates' \subseteq updates,
         NEW next, \A k \in calls' : k \in calls \/ k = next
  PROVE  \A n \in Pending' : \/ n \in Pending
                             \/ next.sender = "saving" /\ n = next.result
                             \/ next.receiver = "handling" /\ n = next.received
BY DEF Pending

(* A step that adds no call. *)
LEMMA PendingQuiet ==
  ASSUME fetched' \subseteq fetched, updates' \subseteq updates, calls' \subseteq calls
  PROVE  Pending' \subseteq Pending
BY DEF Pending

(* Every copy that can be saved is sound and linked to the store. *)
LEMMA PendingOK ==
  ASSUME IndInv
  PROVE  \A n \in Pending : RecordOK(n, DOMAIN store)
BY DEF IndInv, FetchedInv, UpdateInv, CallInv, CallOK, Pending

-----------------------------------------------------------------------------
(* One consumer *)

(* What every step does to a consumer's negotiation. *)
ModeKept(c) ==
  /\ HasRequested(c)' \/ StillRequests(c)'
  /\ HasRequested(c) => HasRequested(c)'
  /\ Answered(c) => Answered(c)'

Modes == \A c \in DOMAIN store \cap Consumers : ModeKept(c)

(* Once answered, only answers can be saved. *)
LEMMA HasKept ==
  ASSUME NEW c, HasRequested(c),
         store'[c].state = store[c].state \/ store'[c].state \in Answers,
         \A n \in Pending' : n.id = c => n \in Pending \/ n.state \in Answers,
         \A k \in calls' : k.id = c /\ k.kind = "request" =>
            \/ k.sender = "gone"
            \/ \E j \in calls : j.id = c /\ j.kind = "request" /\ j.sender = k.sender
  PROVE  HasRequested(c)' /\ ModeKept(c)
<1>1. HasRequested(c)'
  BY DEF HasRequested
<1>2. Answered(c) => Answered(c)'
  BY <1>1 DEF Answered
<1> QED BY <1>1, <1>2 DEF ModeKept

(* A step that adds nothing about c. *)
LEMMA ElsewhereQuiet ==
  ASSUME NEW c, HasRequested(c) \/ StillRequests(c),
         store'[c].state = store[c].state, c \in leased => c \in leased',
         \A f \in fetched' : f.n.id = c => f \in fetched,
         \A u \in updates' : u.n.id = c => u \in updates,
         calls' \subseteq calls
  PROVE  ModeKept(c)
<1>1. CASE HasRequested(c)
  <2>1. \A n \in Pending' : n.id = c => n \in Pending
    BY DEF Pending
  <2> QED BY <1>1, <2>1, HasKept
<1>2. CASE ~HasRequested(c) /\ StillRequests(c)
  <2>1. Protected(c) => Protected(c)'
    BY DEF Protected
  <2>2. \A f \in fetched' : f.n.id = c => LoopRequests(f)'
    BY <1>2, <2>1 DEF StillRequests, LoopRequests
  <2>3. \A k \in calls' : k.id = c /\ k.sender # "gone" => CallbackRequests(k)'
    BY <1>2, <2>1 DEF StillRequests, CallbackRequests
  <2>4. StillRequests(c)'
    BY <1>2, <2>2, <2>3 DEF StillRequests
  <2> QED BY <1>2, <2>4 DEF ModeKept, Answered
<1> QED BY <1>1, <1>2

(* A step that replaces a call by one that differs in nothing about c. *)
LEMMA ElsewhereCall ==
  ASSUME NEW c, HasRequested(c) \/ StillRequests(c),
         store'[c].state = store[c].state, c \in leased => c \in leased',
         \A f \in fetched' : f.n.id = c => f \in fetched,
         \A u \in updates' : u.n.id = c => u \in updates,
         NEW call, NEW next,
         \A k \in calls' : k \in calls \/ k = next,
         next.sender = "saving" => next.result.id = next.id,
         next.id = c => /\ call \in calls /\ call.id = c /\ call.kind = next.kind
                        /\ call.sender = next.sender /\ call.result = next.result
                        /\ call = next \/ call \notin calls',
         next.receiver = "handling" /\ next.received.id = c =>
           call \in calls /\ call.receiver = "handling" /\ call.received = next.received
  PROVE  ModeKept(c)
<1>1. CASE HasRequested(c)
  <2>1. ASSUME NEW n \in Pending', n.id = c PROVE n \in Pending
    <3>1. CASE \E f \in fetched' : n = f.n
      BY <2>1, <3>1 DEF Pending
    <3>2. CASE \E u \in updates' : n = u.n
      BY <2>1, <3>2 DEF Pending
    <3>3. CASE \E k \in calls' : k.sender = "saving" /\ n = k.result
      BY <2>1, <3>3 DEF Pending
    <3>4. CASE \E k \in calls' : k.receiver = "handling" /\ n = k.received
      BY <2>1, <3>4 DEF Pending
    <3> QED BY <2>1, <3>1, <3>2, <3>3, <3>4 DEF Pending
  <2>2. \A k \in calls' : k.id = c /\ k.kind = "request" =>
          \E j \in calls : j.id = c /\ j.kind = "request" /\ j.sender = k.sender
    OBVIOUS
  <2> QED BY <1>1, <2>1, <2>2, HasKept
<1>2. CASE ~HasRequested(c) /\ StillRequests(c)
  <2>1. Protected(c) => Protected(c)'
    BY DEF Protected
  <2>2. \A f \in fetched' : f.n.id = c => LoopRequests(f)'
    BY <1>2, <2>1 DEF StillRequests, LoopRequests
  <2>3. \A k \in calls' : k.id = c /\ k.sender # "gone" => CallbackRequests(k)'
    BY <1>2, <2>1 DEF StillRequests, CallbackRequests
  <2>4. \A k \in calls' : /\ k.id = c => k.kind = "request"
                          /\ k.receiver = "handling" => k.received.id # c
    BY <1>2 DEF StillRequests
  <2>5. StillRequests(c)'
    BY <1>2, <2>2, <2>3, <2>4 DEF StillRequests
  <2> QED BY <1>2, <2>5 DEF ModeKept, Answered
<1> QED BY <1>1, <1>2

-----------------------------------------------------------------------------
(* All negotiations *)

(* Under the invariant a consumer is in one of its two modes. *)
LEMMA ModeOf ==
  ASSUME AnswerInv, NEW c \in DOMAIN store \cap Consumers
  PROVE  HasRequested(c) \/ StillRequests(c)
BY DEF AnswerInv

(* What a step may not undo: links and answers. *)
LinksKept ==
  \A id \in DOMAIN store :
    id \in DOMAIN store' /\ store'[id].correlationId = store[id].correlationId

(* What was agreed stays agreed. *)
LEMMA AgreedKept ==
  ASSUME Modes, LinksKept, NEW n, RecordOK(n, DOMAIN store), Agreed(n)
  PROVE  Agreed(n)'
<1>1. n.id \in DOMAIN store
      /\ (n.type = PROVIDER => n.correlationId \in DOMAIN store \cap Consumers)
  BY NegotiationAssumption DEF RecordOK, Sound, Linked
<1>2. n.type = PROVIDER /\ Answered(n.correlationId) => Answered(n.correlationId)'
  BY <1>1 DEF Modes, ModeKept
<1> QED BY <1>1, <1>2 DEF Agreed, LinksKept

LEMMA CallbackKept ==
  ASSUME Modes, LinksKept, NEW call, CallOK(call, DOMAIN store), CallbackOK(call)
  PROVE  CallbackOK(call)'
<1>1. /\ call.id \in DOMAIN store
      /\ call.kind = "agreement" => call.to \in DOMAIN store \cap Consumers
  BY DEF CallOK
<1>2. call.kind = "agreement" /\ Answered(call.to) => Answered(call.to)'
  BY <1>1 DEF Modes, ModeKept
<1> QED BY <1>1, <1>2 DEF CallbackOK, AgreementCallOK, LinksKept

(* The four parts of the invariant after a step. *)
LEMMA StepAnswer ==
  ASSUME IndInv, AnswerInv, Modes, LinksKept,
         \A c \in (DOMAIN store' \cap Consumers) \ DOMAIN store : StillRequests(c)',
         \A id \in DOMAIN store' :
           (id \in DOMAIN store /\ store'[id] = store[id]) \/ Agreed(store[id])',
         \A n \in Pending' : n \in Pending \/ Agreed(n)',
         \A call \in calls' : call \in calls \/ CallbackOK(call)'
  PROVE  AnswerInv'
<1>1. \A c \in DOMAIN store' \cap Consumers : HasRequested(c)' \/ StillRequests(c)'
  BY DEF Modes, ModeKept
<1>2. ASSUME NEW id \in DOMAIN store' PROVE Agreed(store[id])'
  <2>1. CASE id \in DOMAIN store /\ store'[id] = store[id]
    <3>1. PICK n : n = store[id]
      OBVIOUS
    <3>2. RecordOK(n, DOMAIN store) /\ Agreed(n)
      BY <2>1, <3>1 DEF IndInv, StoreInv, AnswerInv
    <3>3. Agreed(n)'
      BY <3>2, AgreedKept
    <3> QED BY <2>1, <3>1, <3>3
  <2> QED BY <2>1
<1>3. ASSUME NEW n \in Pending' PROVE Agreed(n)'
  BY PendingOK, AgreedKept DEF AnswerInv
<1>4. ASSUME NEW call \in calls' PROVE CallbackOK(call)'
  BY CallbackKept DEF AnswerInv, IndInv, CallInv
<1> QED BY <1>1, <1>2, <1>3, <1>4 DEF AnswerInv

(* A step that leaves the store alone. *)
LEMMA KeepAnswer ==
  ASSUME IndInv, AnswerInv, Modes, store' = store,
         \A n \in Pending' : n \in Pending \/ (RecordOK(n, DOMAIN store) /\ Agreed(n)),
         \A call \in calls' : call \in calls \/ CallbackOK(call)'
  PROVE  AnswerInv'
<1>1. LinksKept
  BY DEF LinksKept
<1>2. \A n \in Pending' : n \in Pending \/ Agreed(n)'
  BY <1>1, AgreedKept
<1> QED BY <1>1, <1>2, StepAnswer

(* A step that saves a new copy of a stored negotiation. *)
LEMMA PutAnswer ==
  ASSUME IndInv, AnswerInv, Modes,
         NEW n, RecordOK(n, DOMAIN store), Agreed(n), Put(n),
         \A m \in Pending' : m \in Pending \/ m = n,
         \A call \in calls' : call \in calls \/ CallbackOK(call)'
  PROVE  AnswerInv' /\ LinksKept
<1>1. n.id \in DOMAIN store /\ n.correlationId = store[n.id].correlationId
  BY DEF RecordOK, Agreed
<1>2. /\ DOMAIN store' = DOMAIN store
      /\ \A id \in DOMAIN store : store'[id] = IF id = n.id THEN n ELSE store[id]
  BY <1>1 DEF Put
<1>3. LinksKept
  BY <1>1, <1>2 DEF LinksKept
<1>4. Agreed(n)'
  BY <1>3, AgreedKept
<1>5. ASSUME NEW id \in DOMAIN store'
      PROVE  (id \in DOMAIN store /\ store'[id] = store[id]) \/ Agreed(store[id])'
  <2>1. CASE id = n.id
    <3>1. store'[id] = n
      BY <1>1, <1>2, <2>1
    <3> QED BY <1>4, <3>1
  <2>2. CASE id # n.id
    BY <1>2, <2>2
  <2> QED BY <2>1, <2>2
<1> QED BY <1>2, <1>3, <1>4, <1>5, StepAnswer

-----------------------------------------------------------------------------
(* The loops *)

(* A fetched negotiation of a consumer: an answer, or the only copy. *)
LEMMA FetchedMode ==
  ASSUME AnswerInv, NEW f \in fetched, f.n.id \in DOMAIN store \cap Consumers
  PROVE  \/ HasRequested(f.n.id) /\ f.n.state \in Answers
         \/ ~HasRequested(f.n.id) /\ StillRequests(f.n.id) /\ LoopRequests(f)
<1>1. f.n \in Pending
  BY DEF Pending
<1>2. HasRequested(f.n.id) => f.n.state \in Answers
  BY <1>1 DEF HasRequested
<1>3. StillRequests(f.n.id) => LoopRequests(f)
  BY DEF StillRequests
<1> QED BY <1>2, <1>3, ModeOf

(* nextForState leases what nobody holds. *)
LEMMA NextForStateAnswer ==
  ASSUME IndInv, AnswerInv, NEW manager \in Managers, NEW side, NEW state,
         NextForState(manager, side, state)
  PROVE  AnswerInv' /\ Modes
<1>1. PICK ids \in SUBSET DOMAIN store :
        /\ \A id \in ids : store[id].state = state /\ id \notin leased
        /\ leased' = leased \cup ids
        /\ fetched' = fetched \cup {[manager |-> manager, n |-> store[id]] : id \in ids}
  BY DEF NextForState, Candidates
<1>2. UNCHANGED <<store, calls, updates>> /\ state \in {INITIAL, REQUESTING, DECLINING, CONFIRMING}
  BY DEF NextForState, Processors
<1>3. \A id \in ids : store[id].id = id
  BY <1>1 DEF IndInv, StoreInv
<1>4. \A f \in fetched' : f \in fetched \/ (f.n.id \in ids /\ f.n = store[f.n.id] /\ f.manager = manager)
  BY <1>1, <1>3
<1>5. ASSUME NEW c \in DOMAIN store \cap Consumers PROVE ModeKept(c)
  <2>1. CASE c \notin ids
    <3>1. \A f \in fetched' : f.n.id = c => f \in fetched
      BY <1>4, <2>1
    <3> QED BY <1>1, <1>2, <3>1, ModeOf, ElsewhereQuiet
  <2>2. CASE c \in ids /\ HasRequested(c)
    <3>1. store[c].state \in Answers
      BY <1>1, <1>2, <2>2, DistinctStates DEF HasRequested, Answers
    <3>2. \A n \in Pending' : n.id = c => n \in Pending \/ n.state \in Answers
      BY <1>2, <1>4, <3>1 DEF Pending
    <3> QED BY <1>2, <2>2, <3>2, HasKept
  <2>3. CASE c \in ids /\ ~HasRequested(c)
    <3>1. StillRequests(c)
      BY <2>3, ModeOf
    <3>2. store[c].state \in {INITIAL, REQUESTING} /\ ~Protected(c)
      BY <1>1, <1>2, <2>3, <3>1, DistinctStates DEF StillRequests, Protected
    <3>3. /\ \A f \in fetched : f.n.id # c
          /\ \A k \in calls : k.id = c => k.sender = "gone"
      BY <3>1, <3>2 DEF StillRequests, LoopRequests, CallbackRequests
    <3>4. Protected(c)'
      BY <1>1, <1>2, <2>3, <3>2 DEF Protected
    <3>5. ASSUME NEW f \in fetched', f.n.id = c PROVE LoopRequests(f)'
      <4>1. f.n = store[c] /\ f.manager = manager
        BY <1>4, <3>3, <3>5
      <4>2. \A g \in fetched' : g.n.id = c => g = f
        BY <1>1, <1>3, <3>3, <3>5
      <4> QED BY <1>2, <3>2, <3>3, <3>4, <3>5, <4>1, <4>2 DEF LoopRequests
    <3>6. StillRequests(c)'
      BY <1>2, <3>1, <3>3, <3>5 DEF StillRequests
    <3> QED BY <2>3, <3>6 DEF ModeKept, Answered
  <2> QED BY <2>1, <2>2, <2>3
<1>6. Modes
  BY <1>5 DEF Modes
<1>7. ASSUME NEW n \in Pending', n \notin Pending
      PROVE  RecordOK(n, DOMAIN store) /\ Agreed(n)
  <2>1. PICK id \in ids : n = store[id]
    BY <1>2, <1>4, <1>7 DEF Pending
  <2> QED BY <1>1, <2>1 DEF IndInv, StoreInv, AnswerInv
<1> QED BY <1>2, <1>6, <1>7, KeepAnswer

(* A loop saves the negotiation that it fetched. *)
LEMMA LoopSaves ==
  ASSUME IndInv, AnswerInv, NEW f \in fetched, NEW n, Save(n),
         n.id = f.n.id, RecordOK(n, DOMAIN store), Agreed(n),
         n.state = f.n.state \/ (f.n.state = INITIAL /\ n.state = REQUESTING),
         fetched' = fetched \ {f}, UNCHANGED <<calls, updates>>
  PROVE  AnswerInv' /\ Modes
<1>1. n.id \in DOMAIN store
  BY DEF RecordOK
<1>2. /\ leased' = leased \ {n.id}
      /\ \A id \in DOMAIN store : store'[id] = IF id = n.id THEN n ELSE store[id]
  BY DEF Save, Put
<1>3. Pending' \subseteq Pending
  BY DEF Pending
<1>4. ASSUME NEW c \in DOMAIN store \cap Consumers PROVE ModeKept(c)
  <2>1. CASE c # n.id
    BY <1>2, <2>1, ModeOf, ElsewhereQuiet
  <2>2. CASE c = n.id /\ HasRequested(c)
    <3>1. n.state \in Answers
      BY <2>2, FetchedMode, DistinctStates
    <3> QED BY <1>2, <1>3, <2>2, <3>1, HasKept
  <2>3. CASE c = n.id /\ ~HasRequested(c)
    <3>1. StillRequests(c) /\ LoopRequests(f)
      BY <2>3, FetchedMode
    <3>2. n.state \in {INITIAL, REQUESTING} /\ store'[c] = n
      BY <1>2, <2>3, <3>1 DEF LoopRequests
    <3>3. /\ \A g \in fetched' : g.n.id # c
          /\ \A k \in calls : k.id = c => k.sender = "gone"
      BY <2>3, <3>1 DEF LoopRequests
    <3>4. StillRequests(c)'
      BY <3>1, <3>2, <3>3 DEF StillRequests
    <3> QED BY <2>3, <3>4 DEF ModeKept, Answered
  <2> QED BY <2>1, <2>2, <2>3
<1>5. Modes
  BY <1>4 DEF Modes
<1>6. Put(n)
  BY DEF Save
<1> QED BY <1>3, <1>5, <1>6, PutAnswer

LEMMA ProcessInitialAnswer ==
  ASSUME IndInv, AnswerInv, NEW f \in fetched, ProcessInitial(f)
  PROVE  AnswerInv' /\ Modes
<1> DEFINE n == Transition(f.n, REQUESTING)
<1>1. f.n.state = INITIAL /\ Save(n) /\ fetched' = fetched \ {f} /\ UNCHANGED <<calls, updates>>
  BY DEF ProcessInitial
<1>2. f.n \in Pending
  BY DEF Pending
<1>3. RecordOK(f.n, DOMAIN store) /\ Sound(f.n) /\ Agreed(f.n) /\ f.n \in ContractNegotiationType
  BY <1>2, PendingOK, RecordType DEF AnswerInv, RecordOK
<1>4. /\ n.id = f.n.id /\ n.type = f.n.type /\ n.correlationId = f.n.correlationId
      /\ n.state = REQUESTING
  BY <1>3, TransitionFrame, DistinctStates
<1>5. Sound(n)
  <2>1. /\ f.n.type = CONSUMER /\ f.n.agreement = NoAgreement /\ f.n.state # REQUESTING
        /\ REQUESTING # CONFIRMED /\ Linked(f.n) /\ REQUESTING \in ContractNegotiationStates
    BY <1>1, <1>3, DistinctStates DEF Sound
  <2> QED BY <2>1, TransitionSound
<1> HIDE DEF n
<1>6. RecordOK(n, DOMAIN store)
  BY <1>3, <1>4, <1>5, SameLinks
<1>7. Agreed(n)
  BY <1>3, <1>4, DistinctStates DEF Agreed
<1> QED BY <1>1, <1>4, <1>6, <1>7, LoopSaves

LEMMA DelayedAnswer ==
  ASSUME IndInv, AnswerInv, NEW f \in fetched, Delayed(f)
  PROVE  AnswerInv' /\ Modes
<1>1. Save(f.n) /\ fetched' = fetched \ {f} /\ UNCHANGED <<calls, updates>>
  BY DEF Delayed
<1>2. f.n \in Pending
  BY DEF Pending
<1>3. RecordOK(f.n, DOMAIN store) /\ Agreed(f.n)
  BY <1>2, PendingOK DEF AnswerInv
<1> QED BY <1>1, <1>3, LoopSaves

(* A request is sent by the only thread that has the negotiation. *)
LEMMA SendAnswer ==
  ASSUME IndInv, AnswerInv, NEW f \in fetched, NEW kind \in Kinds, Send(f, kind)
  PROVE  AnswerInv' /\ Modes
<1>1. /\ f.n.state = SendingState(kind)
      /\ fetched' = fetched \ {f} /\ UNCHANGED <<store, leased, updates>>
  BY DEF Send
<1>2. PICK next : /\ calls' = calls \cup {next}
                  /\ next.id = f.n.id /\ next.kind = kind /\ next.to = CorrelationId(f)
                  /\ next.sender = "waiting" /\ next.receiver = "transit"
  <2> DEFINE message == [id |-> f.n.id, kind |-> kind, attempt |-> f.n.stateCount,
                         to |-> CorrelationId(f),
                         agreement |-> IF kind = "agreement" THEN agreements' ELSE NoAgreement,
                         sender |-> "waiting", receiver |-> "transit",
                         result |-> Null, received |-> Null]
  <2>1. calls' = calls \cup {message}
    BY DEF Send
  <2>2. /\ message.id = f.n.id /\ message.kind = kind /\ message.to = CorrelationId(f)
        /\ message.sender = "waiting" /\ message.receiver = "transit"
    OBVIOUS
  <2> HIDE DEF message
  <2> QED BY <2>1, <2>2
<1>3. f.n \in Pending
  BY DEF Pending
<1>4. RecordOK(f.n, DOMAIN store) /\ Sound(f.n) /\ Agreed(f.n)
      /\ f.n.state \in Processors(f.manager)
  BY <1>3, PendingOK DEF AnswerInv, RecordOK, IndInv, FetchedInv
<1>5. Pending' \subseteq Pending
  BY <1>1, <1>2 DEF Pending
<1>6. ASSUME NEW c \in DOMAIN store \cap Consumers PROVE ModeKept(c)
  <2>1. CASE c # f.n.id
    BY <1>1, <1>2, <2>1, ModeOf, ElsewhereCall
  <2>2. CASE c = f.n.id /\ HasRequested(c)
    <3>1. kind # "request"
      BY <1>1, <2>2, FetchedMode, StatesOfKinds, DistinctStates
    <3> QED BY <1>1, <1>2, <1>5, <2>2, <3>1, HasKept
  <2>3. CASE c = f.n.id /\ ~HasRequested(c)
    <3>1. StillRequests(c) /\ LoopRequests(f)
      BY <2>3, FetchedMode
    <3>2. kind = "request"
      BY <1>1, <3>1, StatesOfKinds, DistinctStates DEF LoopRequests, Kinds
    <3>3. /\ \A g \in fetched' : g.n.id # c
          /\ \A k \in calls : k.id = c => k.sender = "gone"
      BY <1>1, <2>3, <3>1 DEF LoopRequests
    <3>4. Protected(c)'
      BY <1>1, <2>3, <3>1 DEF LoopRequests, Protected
    <3>5. \A k \in calls' : k.id = c /\ k.sender # "gone" => k = next
      BY <1>2, <3>3
    <3>6. CallbackRequests(next)'
      BY <1>2, <2>3, <3>4, <3>5 DEF CallbackRequests
    <3>7. StillRequests(c)'
      BY <1>1, <1>2, <3>1, <3>2, <3>3, <3>5, <3>6 DEF StillRequests
    <3> QED BY <2>3, <3>7 DEF ModeKept, Answered
  <2> QED BY <2>1, <2>2, <2>3
<1>7. Modes
  BY <1>6 DEF Modes
<1>8. CallbackOK(next)'
  <2>1. CASE kind = "agreement"
    <3>1. f.n.state = CONFIRMING
      BY <1>1, <2>1, StatesOfKinds
    <3>2. f.n.type = PROVIDER /\ f.n.id \in Providers
          /\ f.n.correlationId = store[f.n.id].correlationId
      BY <1>4, <3>1 DEF Agreed, Sound, Linked
    <3>3. CorrelationId(f) = f.n.correlationId
      BY <1>4, <3>1, DistinctStates DEF CorrelationId, Processors, DECLINING, CONFIRMING
    <3> QED BY <1>1, <1>2, <3>2, <3>3 DEF CallbackOK, AgreementCallOK
  <2>2. CASE kind # "agreement"
    BY <1>2, <2>2 DEF CallbackOK
  <2> QED BY <2>1, <2>2
<1> QED BY <1>1, <1>2, <1>5, <1>7, <1>8, KeepAnswer

LEMMA SendThrowsAnswer ==
  ASSUME IndInv, AnswerInv, NEW f \in fetched, SendThrows(f)
  PROVE  AnswerInv' /\ Modes
<1>1. fetched' \subseteq fetched /\ UNCHANGED <<store, leased, calls, updates>>
  BY DEF SendThrows
<1>2. \A c \in DOMAIN store \cap Consumers : ModeKept(c)
  BY <1>1, ModeOf, ElsewhereQuiet
<1>3. Modes
  BY <1>2 DEF Modes
<1> QED BY <1>1, <1>3, PendingQuiet, KeepAnswer

-----------------------------------------------------------------------------
(* Messages *)

(* A call that goes on. *)
LEMMA ContinueCalls ==
  ASSUME NEW call, NEW next, Continue(call, next)
  PROVE  /\ \A k \in calls' : k \in calls \/ k = next
         /\ call \in calls' => call = next
BY DEF Continue

(* Whoever receives a message, a consumer that has requested is only handed *)
(* answers, and one that still requests is not handed over at all.          *)
LEMMA ReceiverModes ==
  ASSUME AnswerInv, NEW call \in calls, NEW next, Continue(call, next),
         next.id = call.id, next.kind = call.kind,
         next.sender = call.sender, next.result = call.result,
         next.receiver = "handling" /\ next.received.id \in DOMAIN store \cap Consumers =>
           HasRequested(next.received.id) /\ next.received.state \in Answers,
         \A c \in DOMAIN store \cap Consumers : store'[c].state = store[c].state,
         \A c \in DOMAIN store \cap Consumers : c \in leased => c \in leased',
         UNCHANGED <<fetched, updates>>
  PROVE  Modes
<1>1. /\ \A k \in calls' : k \in calls \/ k = next
      /\ call \in calls' => call = next
  BY ContinueCalls
<1>2. CallbackOK(call)
  BY DEF AnswerInv
<1>3. ASSUME NEW c \in DOMAIN store \cap Consumers PROVE ModeKept(c)
  <2>1. CASE next.receiver = "handling" /\ next.received.id = c
    <3>1. HasRequested(c) /\ next.received.state \in Answers
      BY <2>1
    <3>2. call.sender = "saving" => call.result \in Pending
      BY DEF Pending
    <3>3. \A n \in Pending' : n.id = c => n \in Pending \/ n.state \in Answers
      BY <1>1, <3>1, <3>2, PendingStep
    <3>4. \A k \in calls' : k.id = c /\ k.kind = "request" =>
            \E j \in calls : j.id = c /\ j.kind = "request" /\ j.sender = k.sender
      BY <1>1
    <3> QED BY <3>1, <3>3, <3>4, HasKept
  <2>2. CASE ~(next.receiver = "handling" /\ next.received.id = c)
    BY <1>1, <1>2, <2>2, ModeOf, ElsewhereCall DEF CallbackOK
  <2> QED BY <2>1, <2>2
<1> QED BY <1>3 DEF Modes

(* The endpoint refuses a message: nothing else changes. *)
LEMMA RefusedAnswer ==
  ASSUME IndInv, AnswerInv, NEW call \in calls, Refused(call),
         UNCHANGED <<store, leased, fetched, updates>>
  PROVE  AnswerInv' /\ Modes
<1> DEFINE next == [call EXCEPT !.receiver = "failed"]
<1>1. call \in CallType /\ CallbackOK(call) /\ CallOK(call, DOMAIN store)
  BY DEF IndInv, CallInv, CallOK, AnswerInv
<1>2. /\ next.id = call.id /\ next.kind = call.kind /\ next.to = call.to
      /\ next.sender = call.sender /\ next.result = call.result
      /\ next.receiver = "failed"
  BY <1>1 DEF CallType
<1>3. Continue(call, next)
  BY DEF Refused
<1> HIDE DEF next
<1>4. Modes
  BY <1>2, <1>3, ReceiverModes
<1>5. CallbackOK(next)'
  <2>1. LinksKept
    BY DEF LinksKept
  <2>2. CallbackOK(call)'
    BY <1>1, <1>4, <2>1, CallbackKept
  <2> QED BY <1>2, <2>2 DEF CallbackOK, AgreementCallOK
<1>6. \A n \in Pending' : n \in Pending
  <2>1. call.sender = "saving" => call.result \in Pending
    BY DEF Pending
  <2> QED BY <1>2, <1>3, <2>1, ContinueCalls, PendingStep
<1> QED BY <1>3, <1>4, <1>5, <1>6, ContinueCalls, KeepAnswer

(* What a handler makes of a negotiation. *)
LEMMA HandlingFrame ==
  ASSUME IndInv, AnswerInv, NEW call \in calls, NEW n, Handling(call, n)
  PROVE  \E next :
           /\ Continue(call, next)
           /\ next.id = call.id /\ next.kind = call.kind /\ next.to = call.to
           /\ next.sender = call.sender /\ next.result = call.result
           /\ next.receiver = "handling" /\ next.received = n
<1> DEFINE next == [call EXCEPT !.receiver = "handling", !.received = n]
<1>1. call \in CallType
  BY DEF IndInv, CallInv, CallOK
<1>2. /\ next.id = call.id /\ next.kind = call.kind /\ next.to = call.to
      /\ next.sender = call.sender /\ next.result = call.result
      /\ next.receiver = "handling" /\ next.received = n
  BY <1>1 DEF CallType
<1>3. Continue(call, next)
  BY DEF Handling
<1> HIDE DEF next
<1> QED BY <1>2, <1>3

(* A handler holds a copy that is agreed, an answer if it is a consumer's. *)
LEMMA HandlingAnswer ==
  ASSUME IndInv, AnswerInv, NEW call \in calls, NEW n, Handling(call, n),
         n.id \in DOMAIN store \cap Consumers => HasRequested(n.id) /\ n.state \in Answers,
         call.kind = "agreement" => n.id = call.to,
         \A c \in DOMAIN store \cap Consumers : store'[c].state = store[c].state,
         \A c \in DOMAIN store \cap Consumers : c \in leased => c \in leased',
         LinksKept, UNCHANGED <<fetched, updates>>
  PROVE  /\ Modes
         /\ \A k \in calls' : k \in calls \/ CallbackOK(k)'
         /\ \A m \in Pending' : m \in Pending \/ m = n
<1>1. PICK next :
        /\ Continue(call, next)
        /\ next.id = call.id /\ next.kind = call.kind /\ next.to = call.to
        /\ next.sender = call.sender /\ next.result = call.result
        /\ next.receiver = "handling" /\ next.received = n
  BY HandlingFrame
<1>2. Modes
  BY <1>1, ReceiverModes
<1>3. CallOK(call, DOMAIN store) /\ CallbackOK(call)
  BY DEF IndInv, CallInv, AnswerInv
<1>4. CallbackOK(call)'
  BY <1>2, <1>3, CallbackKept
<1>5. CallbackOK(next)'
  BY <1>1, <1>4 DEF CallbackOK, AgreementCallOK
<1>6. call.sender = "saving" => call.result \in Pending
  BY DEF Pending
<1> QED BY <1>1, <1>2, <1>5, <1>6, ContinueCalls, PendingStep

(* requested: a negotiation that nobody knows yet. *)
LEMMA RequestedAnswer ==
  ASSUME IndInv, AnswerInv, NEW call \in calls, NEW id \in Providers, Requested(call, id)
  PROVE  AnswerInv' /\ Modes
<1> DEFINE new == [id |-> id, type |-> PROVIDER, correlationId |-> call.to,
                   state |-> UNSAVED, stateCount |-> 0, agreement |-> NoAgreement]
<1>1. call.kind = "request" /\ id \notin DOMAIN store /\ UNCHANGED <<fetched, updates>>
  BY DEF Requested
<1>2. call.to \in DOMAIN store \cap Consumers
  BY <1>1 DEF IndInv, CallInv, CallOK
<1>3. PICK n : n = NewProviderNegotiation(id, call.to)
  OBVIOUS
<1>4. PICK end \in {CONFIRMING, DECLINING} : Handling(call, Transition(n, end))
  BY <1>3 DEF Requested
<1>5. new \in ContractNegotiationType
  BY <1>2 DEF ContractNegotiationType, ContractNegotiationStates, NoAgreement
<1>6. /\ n \in ContractNegotiationType /\ n.id = id /\ n.type = PROVIDER
      /\ n.correlationId = call.to /\ n.state = REQUESTED
  BY <1>3, <1>5, TransitionFrame, DistinctStates DEF NewProviderNegotiation
<1>7. PICK m : m = Transition(n, end)
  OBVIOUS
<1>8. /\ m.id = id /\ m.type = PROVIDER /\ m.correlationId = call.to
      /\ m.state \in {CONFIRMING, DECLINING} /\ Handling(call, m)
  <2>1. end \in ContractNegotiationStates
    BY <1>4, DistinctStates
  <2> QED BY <1>4, <1>6, <1>7, <2>1, TransitionFrame
<1>9. /\ DOMAIN store' = DOMAIN store \cup {id} /\ store'[id] = n
      /\ \A i \in DOMAIN store : store'[i] = store[i]
      /\ leased' = leased \ {id}
  BY <1>1, <1>3, <1>6 DEF Requested, Save, Put
<1>10. id \notin Consumers /\ LinksKept
  BY <1>9, NegotiationAssumption DEF LinksKept
<1>11. /\ Modes
       /\ \A k \in calls' : k \in calls \/ CallbackOK(k)'
       /\ \A i \in Pending' : i \in Pending \/ i = m
  BY <1>1, <1>8, <1>9, <1>10, HandlingAnswer
<1>12. Agreed(n)' /\ Agreed(m)'
  BY <1>6, <1>8, <1>9, DistinctStates DEF Agreed
<1>13. \A i \in DOMAIN store' :
         (i \in DOMAIN store /\ store'[i] = store[i]) \/ Agreed(store[i])'
  BY <1>9, <1>12
<1> QED BY <1>9, <1>10, <1>11, <1>12, <1>13, StepAnswer

(* confirmed and declined act on a consumer that has requested: the entity  *)
(* of any other throws.                                                     *)
LEMMA FoundHasRequested ==
  ASSUME IndInv, AnswerInv, NEW c \in DOMAIN store \cap Consumers,
         \/ ~Throws(store[c], CONFIRMED) \/ ~Throws(store[c], DECLINING)
         \/ ~Throws(store[c], DECLINED) \/ store[c].state = CONFIRMED
  PROVE  HasRequested(c)
<1>1. CASE StillRequests(c)
  <2>1. store[c].state \in {INITIAL, REQUESTING, ERROR}
    BY <1>1 DEF StillRequests
  <2>2. store[c].type = CONSUMER
    BY StoredConsumer
  <2> QED BY <2>1, <2>2, UnansweredThrows, DistinctStates
<1> QED BY <1>1, ModeOf

(* A handler works on a copy of a stored consumer negotiation. *)
LEMMA ConsumerHandling ==
  ASSUME IndInv, AnswerInv, NEW call \in calls, NEW n, Handling(call, n),
         call.to \in DOMAIN store \cap Consumers, HasRequested(call.to),
         n.id = call.to, n.state \in Answers, Sound(n),
         n.correlationId = store[call.to].correlationId,
         UNCHANGED <<store, leased, fetched, updates>>
  PROVE  AnswerInv' /\ Modes
<1>1. LinksKept
  BY DEF LinksKept
<1>2. /\ Modes
      /\ \A k \in calls' : k \in calls \/ CallbackOK(k)'
      /\ \A m \in Pending' : m \in Pending \/ m = n
  BY <1>1, HandlingAnswer
<1>3. RecordOK(n, DOMAIN store)
  BY DEF RecordOK, IndInv, StoreInv
<1>4. n.type = CONSUMER
  BY NegotiationAssumption DEF Sound, Linked, ContractNegotiationType
<1>5. Agreed(n)
  BY <1>4, DistinctStates DEF Agreed, CONSUMER, PROVIDER
<1> QED BY <1>2, <1>3, <1>5, KeepAnswer

(* confirmed *)
LEMMA ConfirmedAnswer ==
  ASSUME IndInv, AnswerInv, NEW call \in calls, Confirmed(call)
  PROVE  AnswerInv' /\ Modes
<1>1. CallOK(call, DOMAIN store) /\ call.kind = "agreement"
      /\ UNCHANGED <<store, leased, fetched, updates>>
  BY DEF IndInv, CallInv, Confirmed
<1>2. call.to \in DOMAIN store \cap Consumers /\ call.agreement \in Nat
      /\ call.agreement # NoAgreement
  BY <1>1 DEF CallOK, CallType
<1>3. PICK found : found = store[call.to]
  OBVIOUS
<1>4. Sound(found) /\ Linked(found) /\ found \in ContractNegotiationType /\ found.id = call.to
  BY <1>2, <1>3, FoundOK, RecordType DEF Find, Sound
<1>5. CASE /\ found.state = CONFIRMED \/ ~Throws(found, CONFIRMED)
           /\ Handling(call, Confirmation(found, call.agreement))
  <2>1. PICK n : n = Confirmation(found, call.agreement)
    OBVIOUS
  <2>2. Sound(n) /\ n.id = call.to /\ n.correlationId = found.correlationId
    BY <1>2, <1>4, <2>1, ConfirmationSound
  <2>3. n.state = CONFIRMED
    <3> DEFINE agreed == SetContractAgreement(found, call.agreement)
    <3>1. agreed \in ContractNegotiationType /\ agreed.state = found.state
      BY <1>2, <1>4, AgreementFrame DEF Linked
    <3>2. n = IF found.state = CONFIRMED THEN agreed ELSE Transition(agreed, CONFIRMED)
      BY <2>1 DEF Confirmation
    <3> HIDE DEF agreed
    <3>3. CONFIRMED \in ContractNegotiationStates
      BY DistinctStates
    <3> QED BY <3>1, <3>2, <3>3, TransitionFrame
  <2>4. HasRequested(call.to)
    BY <1>2, <1>3, <1>5, FoundHasRequested
  <2> QED BY <1>1, <1>2, <1>3, <1>5, <2>1, <2>2, <2>3, <2>4, DistinctStates, ConsumerHandling
<1>6. CASE ~Throws(found, DECLINING) /\ Handling(call, Transition(found, DECLINING))
  <2>1. PICK n : n = Transition(found, DECLINING)
    OBVIOUS
  <2>2. DECLINING \in ContractNegotiationStates
        /\ (found.agreement # NoAgreement => DECLINING \in {CONFIRMED, DECLINED})
    BY <1>4, <1>6, NotThrown
  <2>3. DECLINING \notin {INITIAL, REQUESTING, CONFIRMING, CONFIRMED, DECLINED}
    BY DEF INITIAL, REQUESTING, CONFIRMING, CONFIRMED, DECLINED, DECLINING
  <2>4. Sound(n) /\ n.id = call.to /\ n.correlationId = found.correlationId
    BY <1>4, <2>1, <2>2, <2>3, TransitionSound
  <2>5. n.state = DECLINING
    BY <1>4, <2>1, <2>2, TransitionFrame
  <2>6. HasRequested(call.to)
    BY <1>2, <1>3, <1>6, FoundHasRequested
  <2> QED BY <1>1, <1>2, <1>3, <1>6, <2>1, <2>4, <2>5, <2>6, DistinctStates, ConsumerHandling
<1>7. CASE Refused(call)
  BY <1>1, <1>7, RefusedAnswer
<1> QED BY <1>3, <1>5, <1>6, <1>7 DEF Confirmed, Find

(* What declined makes of a negotiation. *)
LEMMA DeclinedFrame ==
  ASSUME NEW n, Sound(n)
  PROVE  /\ Sound(Declined(n)) /\ Declined(n).id = n.id
         /\ Declined(n).correlationId = n.correlationId
         /\ Declined(n).state = DECLINED
<1> DEFINE dropped == SetContractAgreement(n, NoAgreement)
<1>1. dropped \in ContractNegotiationType
  BY AgreementFrame DEF Sound, Linked, NoAgreement
<1>2. Declined(n) = Transition(dropped, DECLINED)
  BY DEF Declined
<1> HIDE DEF dropped
<1>3. DECLINED \in ContractNegotiationStates
  BY DistinctStates
<1>4. Declined(n).state = DECLINED
  BY <1>1, <1>2, <1>3, TransitionFrame
<1> QED BY <1>4, DeclinedByProviderSound

(* declined, found by the id *)
LEMMA DeclinedByIdAnswer ==
  ASSUME IndInv, AnswerInv, NEW call \in calls, DeclinedById(call)
  PROVE  AnswerInv' /\ Modes
<1>1. CallOK(call, DOMAIN store) /\ call.kind = "rejection" /\ call.to \in Consumers
      /\ UNCHANGED <<store, leased, fetched, updates>>
  BY DEF IndInv, CallInv, DeclinedById
<1>2. call.to \in DOMAIN store \cap Consumers
  BY <1>1 DEF CallOK
<1>3. PICK found : found = store[call.to]
  OBVIOUS
<1>4. Sound(found) /\ found.id = call.to
  BY <1>2, <1>3, FoundOK DEF Find
<1>5. CASE ~Throws(found, DECLINED) /\ Handling(call, Declined(found))
  <2>1. PICK n : n = Declined(found)
    OBVIOUS
  <2>2. Sound(n) /\ n.id = call.to /\ n.correlationId = found.correlationId
        /\ n.state = DECLINED
    BY <1>4, <2>1, DeclinedFrame
  <2>3. HasRequested(call.to)
    BY <1>2, <1>3, <1>5, FoundHasRequested
  <2> QED BY <1>1, <1>2, <1>3, <1>5, <2>1, <2>2, <2>3, DistinctStates, ConsumerHandling
<1>6. CASE Refused(call)
  BY <1>1, <1>6, RefusedAnswer
<1> QED BY <1>3, <1>5, <1>6 DEF DeclinedById, Find

(* declined, found by the correlation id: the stored object of a provider   *)
(* is changed in place.                                                     *)
LEMMA DeclinedByCorrelationIdAnswer ==
  ASSUME IndInv, AnswerInv, NEW call \in calls, DeclinedByCorrelationId(call)
  PROVE  AnswerInv' /\ Modes
<1>1. CallOK(call, DOMAIN store) /\ call.kind = "rejection"
      /\ UNCHANGED <<leased, fetched, updates>>
  BY DEF IndInv, CallInv, DeclinedByCorrelationId
<1>2. PICK id \in FindForCorrelationId(call.to) :
        IF Throws(Find(id), DECLINED)
        THEN Put(SetContractAgreement(Find(id), NoAgreement)) /\ Refused(call)
        ELSE Put(Declined(Find(id))) /\ Handling(call, Declined(Find(id)))
  BY DEF DeclinedByCorrelationId
<1>3. PICK found : found = store[id]
  OBVIOUS
<1>4. id \in DOMAIN store /\ found.correlationId = call.to /\ found.id = id
      /\ Sound(found) /\ RecordOK(found, DOMAIN store) /\ Agreed(found)
  BY <1>3, FoundOK DEF FindForCorrelationId, Find, AnswerInv
<1>5. id \notin Consumers
  BY <1>1, <1>4, NegotiationAssumption
     DEF CallOK, CallType, Sound, Linked, ContractNegotiationType
<1>6. ASSUME NEW n, Put(n), n.id = id, n.correlationId = found.correlationId
      PROVE  LinksKept /\ \A c \in DOMAIN store \cap Consumers : store'[c].state = store[c].state
  BY <1>3, <1>4, <1>5, <1>6 DEF Put, LinksKept
<1>7. CASE /\ Throws(found, DECLINED)
           /\ Put(SetContractAgreement(found, NoAgreement)) /\ Refused(call)
  <2>1. PICK n : n = SetContractAgreement(found, NoAgreement)
    OBVIOUS
  <2>2. /\ Linked(n) /\ n.id = id /\ n.correlationId = found.correlationId
        /\ n.type = found.type /\ n.state = found.state /\ n.stateCount = found.stateCount
        /\ n.agreement = NoAgreement
    BY <1>4, <2>1, AgreementFrame DEF Sound, NoAgreement
  <2>3. found.type = PROVIDER
    BY <1>4, <1>5 DEF Sound, Linked, ContractNegotiationType
  <2>4. found.state # CONFIRMED
    <3>1. CONFIRMED \in Starts(found, DECLINED)
      BY <2>3 DEF Starts, IsConsumer, CONSUMER, PROVIDER, INITIAL, REQUESTING, REQUESTED,
                CONSUMER_OFFERING, PROVIDER_OFFERING, CONSUMER_OFFERED, PROVIDER_OFFERED,
                CONSUMER_APPROVING, CONSUMER_APPROVED, DECLINING, DECLINED,
                CONFIRMING, CONFIRMED
    <3> QED BY <1>7, <3>1 DEF Throws
  <2>5. RecordOK(n, DOMAIN store) /\ Agreed(n)
    <3>1. Sound(n)
      BY <1>4, <2>2, <2>4 DEF Sound
    <3> QED BY <1>4, <2>2, <2>4, <3>1 DEF RecordOK, Agreed
  <2>6. Put(n)
    BY <1>7, <2>1
  <2>7. LinksKept /\ \A c \in DOMAIN store \cap Consumers : store'[c].state = store[c].state
    BY <1>6, <2>2, <2>6
  <2> DEFINE next == [call EXCEPT !.receiver = "failed"]
  <2>8. /\ next.id = call.id /\ next.kind = call.kind /\ next.to = call.to
        /\ next.sender = call.sender /\ next.result = call.result
        /\ next.receiver = "failed" /\ Continue(call, next)
    BY <1>1, <1>7 DEF CallOK, CallType, Refused
  <2> HIDE DEF next
  <2>9. Modes
    BY <1>1, <2>7, <2>8, ReceiverModes
  <2>10. CallbackOK(next)'
    BY <1>1, <2>8 DEF CallbackOK, AnswerInv
  <2>11. \A m \in Pending' : m \in Pending
    <3>1. call.sender = "saving" => call.result \in Pending
      BY DEF Pending
    <3> QED BY <1>1, <2>8, <3>1, ContinueCalls, PendingStep
  <2> QED BY <2>5, <2>6, <2>8, <2>9, <2>10, <2>11, ContinueCalls, PutAnswer
<1>8. CASE Put(Declined(found)) /\ Handling(call, Declined(found))
  <2>1. PICK n : n = Declined(found)
    OBVIOUS
  <2>2. Sound(n) /\ n.id = id /\ n.correlationId = found.correlationId /\ n.state = DECLINED
    BY <1>4, <2>1, DeclinedFrame
  <2>3. LinksKept /\ \A c \in DOMAIN store \cap Consumers : store'[c].state = store[c].state
    BY <1>6, <1>8, <2>1, <2>2
  <2>4. /\ Modes
        /\ \A k \in calls' : k \in calls \/ CallbackOK(k)'
        /\ \A m \in Pending' : m \in Pending \/ m = n
    BY <1>1, <1>5, <1>8, <2>1, <2>2, <2>3, HandlingAnswer
  <2>5. RecordOK(n, DOMAIN store) /\ Agreed(n)
    BY <1>4, <2>2, DistinctStates DEF RecordOK, Agreed
  <2> QED BY <1>8, <2>1, <2>4, <2>5, PutAnswer
<1> QED BY <1>2, <1>3, <1>7, <1>8 DEF Find

LEMMA DeclinedUnknownAnswer ==
  ASSUME IndInv, AnswerInv, NEW call \in calls, DeclinedUnknown(call)
  PROVE  AnswerInv' /\ Modes
BY RefusedAnswer DEF DeclinedUnknown

(* A consumer saves an answer, and from then on the response is positive. *)
LEMMA ReceiverSavesAnswer ==
  ASSUME IndInv, AnswerInv, NEW call \in calls, ReceiverSaves(call)
  PROVE  AnswerInv' /\ Modes
<1> DEFINE next == [call EXCEPT !.receiver = "ok", !.received = Null]
<1>1. /\ CallOK(call, DOMAIN store) /\ CallbackOK(call) /\ call.receiver = "handling"
      /\ Save(call.received) /\ Continue(call, next) /\ UNCHANGED <<fetched, updates>>
  BY DEF IndInv, CallInv, AnswerInv, ReceiverSaves
<1>2. /\ next.id = call.id /\ next.kind = call.kind /\ next.to = call.to
      /\ next.sender = call.sender /\ next.result = call.result
      /\ next.receiver = "ok"
  BY <1>1 DEF CallOK, CallType
<1> HIDE DEF next
<1>3. PICK n : n = call.received
  OBVIOUS
<1>4. n \in Pending
  BY <1>1, <1>3 DEF Pending
<1>5. RecordOK(n, DOMAIN store) /\ n.id \in DOMAIN store /\ Agreed(n)
  BY <1>4, PendingOK DEF AnswerInv, RecordOK
<1>6. /\ leased' = leased \ {n.id} /\ Put(n)
      /\ DOMAIN store' = DOMAIN store
      /\ \A id \in DOMAIN store : store'[id] = IF id = n.id THEN n ELSE store[id]
  BY <1>1, <1>3, <1>5 DEF Save, Put
<1>7. /\ \A k \in calls' : k \in calls \/ k = next
      /\ call \in calls' => call = next
  BY <1>1, ContinueCalls
<1>8. \A m \in Pending' : m \in Pending
  <2>1. call.sender = "saving" => call.result \in Pending
    BY DEF Pending
  <2> QED BY <1>1, <1>2, <1>7, <2>1, PendingStep
<1>9. ASSUME NEW c \in DOMAIN store \cap Consumers
      PROVE  ModeKept(c) /\ (c = n.id => Answered(c)')
  <2>1. CASE c # n.id
    BY <1>1, <1>2, <1>6, <1>7, <2>1, ModeOf, ElsewhereCall DEF CallbackOK
  <2>2. CASE c = n.id
    <3>1. ~StillRequests(c)
      BY <1>1, <1>3, <2>2 DEF StillRequests
    <3>2. HasRequested(c)
      BY <3>1, ModeOf
    <3>3. store'[c].state \in Answers
      BY <1>4, <1>6, <2>2, <3>2 DEF HasRequested
    <3>4. \A k \in calls' : k.id = c /\ k.kind = "request" =>
            \E j \in calls : j.id = c /\ j.kind = "request" /\ j.sender = k.sender
      BY <1>2, <1>7
    <3>5. HasRequested(c)' /\ ModeKept(c)
      BY <1>8, <3>2, <3>3, <3>4, HasKept
    <3> QED BY <3>3, <3>5, DistinctStates DEF Answered, Answers
  <2> QED BY <2>1, <2>2
<1>10. Modes
  BY <1>9 DEF Modes
<1>11. LinksKept
  BY <1>5, <1>6 DEF LinksKept, Agreed
<1>12. CallbackOK(next)'
  <2>1. CallbackOK(call)'
    BY <1>1, <1>10, <1>11, CallbackKept
  <2>2. call.kind = "agreement" => Answered(call.to)'
    <3> HAVE call.kind = "agreement"
    <3>1. n.id = call.to /\ call.to \in DOMAIN store \cap Consumers
      BY <1>1, <1>3 DEF CallbackOK, AgreementCallOK, CallOK
    <3> QED BY <1>9, <3>1
  <2> QED BY <1>2, <2>1, <2>2 DEF CallbackOK, AgreementCallOK
<1> QED BY <1>5, <1>6, <1>7, <1>8, <1>10, <1>12, PutAnswer

LEMMA LostAnswer ==
  ASSUME IndInv, AnswerInv, NEW call \in calls, Lost(call)
  PROVE  AnswerInv' /\ Modes
<1>1. calls' \subseteq calls /\ UNCHANGED <<store, leased, fetched, updates>>
  BY DEF Lost
<1>2. \A c \in DOMAIN store \cap Consumers : ModeKept(c)
  BY <1>1, ModeOf, ElsewhereQuiet
<1>3. Modes
  BY <1>2 DEF Modes
<1> QED BY <1>1, <1>3, PendingQuiet, KeepAnswer

-----------------------------------------------------------------------------
(* Callbacks *)

(* A callback that is still to come or to save. *)
LEMMA CallbackMode ==
  ASSUME IndInv, AnswerInv, NEW call \in calls, call.sender # "gone",
         call.id \in DOMAIN store \cap Consumers
  PROVE  \/ HasRequested(call.id) /\ call.kind = "rejection"
         \/ /\ ~HasRequested(call.id) /\ StillRequests(call.id)
            /\ CallbackRequests(call) /\ call.kind = "request"
            /\ \A f \in fetched : f.n.id # call.id
<1>1. CASE HasRequested(call.id)
  <2>1. call.kind # "request"
    BY <1>1 DEF HasRequested
  <2>2. call.kind # "agreement"
    BY NegotiationAssumption DEF AnswerInv, CallbackOK, AgreementCallOK
  <2>3. call.kind \in Kinds
    BY DEF IndInv, CallInv, CallOK, CallType
  <2> QED BY <1>1, <2>1, <2>2, <2>3 DEF Kinds
<1>2. CASE ~HasRequested(call.id)
  <2>1. StillRequests(call.id)
    BY <1>2, ModeOf
  <2> QED BY <1>2, <2>1 DEF StillRequests, LoopRequests
<1> QED BY <1>1, <1>2

(* The callback found its negotiation, and goes on to save or throws. *)
LEMMA SenderModes ==
  ASSUME IndInv, AnswerInv, NEW call \in calls, NEW next, Continue(call, next),
         call.sender = "waiting", next.id = call.id, next.kind = call.kind,
         next.receiver = call.receiver, next.received = call.received,
         next.sender \in {"saving", "gone"},
         next.sender = "saving" => next.result.id = call.id,
         next.sender = "saving" /\ call.kind = "request" =>
           next.result.state \in {REQUESTING, REQUESTED, ERROR},
         next.sender = "saving" /\ call.kind = "rejection" =>
           next.result.state \in Answers,
         UNCHANGED <<store, leased, fetched, updates>>
  PROVE  Modes
<1>1. /\ \A k \in calls' : k \in calls \/ k = next
      /\ call \in calls' => call = next
  BY ContinueCalls
<1>2. call.receiver = "handling" => call.received \in Pending
  BY DEF Pending
<1>3. ASSUME NEW c \in DOMAIN store \cap Consumers PROVE ModeKept(c)
  <2>1. CASE c # call.id
    BY <1>1, <2>1, ModeOf, ElsewhereCall
  <2>2. CASE c = call.id /\ HasRequested(c)
    <3>1. call.kind = "rejection"
      BY <2>2, CallbackMode
    <3>2. \A n \in Pending' : n.id = c => n \in Pending \/ n.state \in Answers
      BY <1>1, <1>2, <3>1, PendingStep
    <3>3. \A k \in calls' : k.id = c /\ k.kind = "request" => k \in calls
      BY <1>1, <3>1
    <3> QED BY <2>2, <3>2, <3>3, HasKept
  <2>3. CASE c = call.id /\ ~HasRequested(c)
    <3>1. StillRequests(c) /\ CallbackRequests(call) /\ call.kind = "request"
          /\ \A f \in fetched : f.n.id # c
      BY <2>3, CallbackMode
    <3>2. Protected(c)'
      BY <2>3, <3>1 DEF CallbackRequests, Protected
    <3>3. \A k \in calls' : k.id = c /\ k.sender # "gone" => k = next
      BY <1>1, <2>3, <3>1 DEF CallbackRequests
    <3>4. CallbackRequests(next)'
      BY <2>3, <3>1, <3>2, <3>3 DEF CallbackRequests
    <3>5. \A k \in calls' : /\ k.id = c => k.kind = "request"
                            /\ k.receiver = "handling" => k.received.id # c
      BY <1>1, <3>1 DEF StillRequests
    <3>6. StillRequests(c)'
      BY <3>1, <3>3, <3>4, <3>5 DEF StillRequests
    <3> QED BY <2>3, <3>6 DEF ModeKept, Answered
  <2> QED BY <2>1, <2>2, <2>3
<1> QED BY <1>3 DEF Modes

(* The transition throws, the callback ends. *)
LEMMA SwallowedAnswer ==
  ASSUME IndInv, AnswerInv, NEW call \in calls, call.sender = "waiting", Swallowed(call),
         UNCHANGED <<store, leased, fetched, updates>>
  PROVE  AnswerInv' /\ Modes
<1> DEFINE next == [call EXCEPT !.sender = "gone"]
<1>1. CallOK(call, DOMAIN store) /\ CallbackOK(call) /\ Continue(call, next)
  BY DEF IndInv, CallInv, AnswerInv, Swallowed
<1>2. /\ next.id = call.id /\ next.kind = call.kind /\ next.to = call.to
      /\ next.sender = "gone" /\ next.receiver = call.receiver
      /\ next.received = call.received
  BY <1>1 DEF CallOK, CallType
<1> HIDE DEF next
<1>3. Modes
  BY <1>1, <1>2, SenderModes
<1>4. LinksKept
  BY DEF LinksKept
<1>5. CallbackOK(call)'
  BY <1>1, <1>3, <1>4, CallbackKept
<1>6. CallbackOK(next)'
  BY <1>2, <1>5 DEF CallbackOK, AgreementCallOK
<1>7. \A n \in Pending' : n \in Pending
  <2>1. call.receiver = "handling" => call.received \in Pending
    BY DEF Pending
  <2> QED BY <1>1, <1>2, <2>1, ContinueCalls, PendingStep
<1> QED BY <1>1, <1>3, <1>6, <1>7, ContinueCalls, KeepAnswer

(* The callback goes on to save what it made of its negotiation. *)
LEMMA SavingAnswer ==
  ASSUME IndInv, AnswerInv, NEW call \in calls, call.sender = "waiting",
         NEW n, Saving(call, n), RecordOK(n, DOMAIN store), Agreed(n), n.id = call.id,
         call.kind = "request" => n.state \in {REQUESTING, REQUESTED, ERROR},
         call.kind = "rejection" => n.state \in Answers,
         UNCHANGED <<store, leased, fetched, updates>>
  PROVE  AnswerInv' /\ Modes
<1> DEFINE next == [call EXCEPT !.sender = "saving", !.result = n]
<1>1. CallOK(call, DOMAIN store) /\ CallbackOK(call) /\ Continue(call, next)
  BY DEF IndInv, CallInv, AnswerInv, Saving
<1>2. /\ next.id = call.id /\ next.kind = call.kind /\ next.to = call.to
      /\ next.sender = "saving" /\ next.result = n
      /\ next.receiver = call.receiver /\ next.received = call.received
  BY <1>1 DEF CallOK, CallType
<1> HIDE DEF next
<1>3. Modes
  BY <1>1, <1>2, SenderModes
<1>4. LinksKept
  BY DEF LinksKept
<1>5. CallbackOK(call)'
  BY <1>1, <1>3, <1>4, CallbackKept
<1>6. CallbackOK(next)'
  BY <1>2, <1>5 DEF CallbackOK, AgreementCallOK
<1>7. \A m \in Pending' : m \in Pending \/ m = n
  <2>1. call.receiver = "handling" => call.received \in Pending
    BY DEF Pending
  <2> QED BY <1>1, <1>2, <2>1, ContinueCalls, PendingStep
<1> QED BY <1>1, <1>3, <1>6, <1>7, ContinueCalls, KeepAnswer

(* A provider confirms after a positive response: the consumer has answered. *)
LEMMA SendSucceedsAnswer ==
  ASSUME IndInv, AnswerInv, NEW call \in calls, SendSucceeds(call)
  PROVE  AnswerInv' /\ Modes
<1>1. /\ CallOK(call, DOMAIN store) /\ CallbackOK(call)
      /\ call.sender = "waiting" /\ call.receiver = "ok"
      /\ UNCHANGED <<store, leased, fetched, updates>>
  BY DEF IndInv, CallInv, AnswerInv, SendSucceeds
<1>2. call \in CallType /\ call.id \in DOMAIN store
      /\ (call.kind = "agreement" => call.agreement # NoAgreement) /\ call.kind \in Kinds
  BY <1>1 DEF CallOK, CallType
<1>3. PICK found : found = store[call.id]
  OBVIOUS
<1>4. RecordOK(found, DOMAIN store) /\ Sound(found) /\ found.id = call.id
      /\ found \in ContractNegotiationType /\ Agreed(found)
  BY <1>2, <1>3, FoundOK, RecordType DEF Find, AnswerInv
<1>5. CASE Swallowed(call)
  BY <1>1, <1>5, SwallowedAnswer
<1>6. CASE ~Throws(found, SentState(call.kind)) /\ Saving(call, OnSuccess(call, found))
  <2>1. PICK n : n = OnSuccess(call, found)
    OBVIOUS
  <2>2. Sound(n) /\ n.id = call.id /\ n.correlationId = found.correlationId
    BY <1>2, <1>4, <1>6, <2>1, OnSuccessSound
  <2>3. n.state = SentState(call.kind) /\ n.type = found.type
    <3> DEFINE agreed == IF call.kind = "agreement"
                         THEN SetContractAgreement(found, call.agreement) ELSE found
    <3>1. agreed \in ContractNegotiationType /\ agreed.type = found.type
      BY <1>2, <1>4, AgreementFrame DEF Sound, Linked, CallType
    <3>2. SentState(call.kind) \in ContractNegotiationStates
      BY <1>2, StatesOfKinds, DistinctStates DEF Kinds
    <3>3. n = Transition(agreed, SentState(call.kind))
      BY <2>1 DEF OnSuccess
    <3> HIDE DEF agreed
    <3> QED BY <3>1, <3>2, <3>3, TransitionFrame
  <2>4. RecordOK(n, DOMAIN store)
    BY <1>4, <2>2, SameLinks
  <2>5. Agreed(n)
    <3>1. CASE call.kind = "agreement"
      <4>1. Answered(call.to) /\ call.to = found.correlationId
        BY <1>1, <1>3, <3>1 DEF CallbackOK, AgreementCallOK
      <4> QED BY <1>3, <2>2, <2>3, <3>1, <4>1, StatesOfKinds, DistinctStates DEF Agreed
    <3>2. CASE call.kind \in {"request", "rejection"}
      BY <1>3, <2>2, <2>3, <3>2, StatesOfKinds, DistinctStates DEF Agreed
    <3> QED BY <1>2, <3>1, <3>2 DEF Kinds
  <2>6. /\ call.kind = "request" => n.state \in {REQUESTING, REQUESTED, ERROR}
        /\ call.kind = "rejection" => n.state \in Answers
    BY <2>3, StatesOfKinds, DistinctStates
  <2> QED BY <1>1, <1>6, <2>1, <2>2, <2>4, <2>5, <2>6, SavingAnswer
<1> QED BY <1>3, <1>5, <1>6 DEF SendSucceeds, Find

(* The message failed: a retry or an error. *)
LEMMA SendFailsAnswer ==
  ASSUME IndInv, AnswerInv, NEW call \in calls, SendFails(call)
  PROVE  AnswerInv' /\ Modes
<1>1. /\ CallOK(call, DOMAIN store) /\ CallbackOK(call) /\ call.sender = "waiting"
      /\ UNCHANGED <<store, leased, fetched, updates>>
  BY DEF IndInv, CallInv, AnswerInv, SendFails
<1>2. call \in CallType /\ call.id \in DOMAIN store /\ call.kind \in Kinds
  BY <1>1 DEF CallOK, CallType
<1>3. PICK found : found = store[call.id]
  OBVIOUS
<1>4. RecordOK(found, DOMAIN store) /\ Sound(found) /\ found.id = call.id
      /\ found \in ContractNegotiationType /\ Agreed(found)
  BY <1>2, <1>3, FoundOK, RecordType DEF Find, AnswerInv
<1>5. CASE Swallowed(call)
  BY <1>1, <1>5, SwallowedAnswer
<1>6. CASE Saving(call, TransitionError(found))
  <2>1. PICK n : n = TransitionError(found)
    OBVIOUS
  <2>2. Sound(n) /\ n.id = call.id /\ n.correlationId = found.correlationId /\ n.state = ERROR
    BY <1>4, <2>1, ErrorSound, ErrorFrame
  <2>3. RecordOK(n, DOMAIN store)
    BY <1>4, <2>2, SameLinks
  <2>4. Agreed(n)
    BY <1>3, <2>2, DistinctStates DEF Agreed
  <2> QED BY <1>1, <1>6, <2>1, <2>2, <2>3, <2>4, DistinctStates, SavingAnswer
<1>7. CASE /\ ~RetriesExhausted(found) /\ ~Throws(found, SendingState(call.kind))
           /\ Saving(call, OnFailure(call, found))
  <2>1. PICK n : n = OnFailure(call, found)
    OBVIOUS
  <2>2. Sound(n) /\ n.id = call.id /\ n.correlationId = found.correlationId
    BY <1>2, <1>4, <1>7, <2>1, OnFailureSound
  <2>3. n.state = SendingState(call.kind) /\ n.type = found.type
    <3>1. SendingState(call.kind) \in ContractNegotiationStates
      BY <1>2, StatesOfKinds, DistinctStates DEF Kinds
    <3> QED BY <1>4, <2>1, <3>1, TransitionFrame DEF OnFailure
  <2>4. RecordOK(n, DOMAIN store)
    BY <1>4, <2>2, SameLinks
  <2>5. Agreed(n)
    <3>1. CASE call.kind = "agreement"
      <4>1. found.id \in Providers
        BY <1>1, <1>4, <3>1 DEF CallbackOK, AgreementCallOK
      <4>2. n.type = PROVIDER
        BY <1>4, <2>3, <4>1, NegotiationAssumption DEF Sound, Linked, ContractNegotiationType
      <4> QED BY <1>3, <2>2, <2>3, <3>1, <4>2, StatesOfKinds, DistinctStates DEF Agreed
    <3>2. CASE call.kind \in {"request", "rejection"}
      BY <1>3, <2>2, <2>3, <3>2, StatesOfKinds, DistinctStates DEF Agreed
    <3> QED BY <1>2, <3>1, <3>2 DEF Kinds
  <2>6. /\ call.kind = "request" => n.state \in {REQUESTING, REQUESTED, ERROR}
        /\ call.kind = "rejection" => n.state \in Answers
    BY <2>3, StatesOfKinds, DistinctStates
  <2> QED BY <1>1, <1>7, <2>1, <2>2, <2>4, <2>5, <2>6, SavingAnswer
<1> QED BY <1>3, <1>5, <1>6, <1>7 DEF SendFails, Find

(* The callback saves: the request is answered, or is made again by nobody  *)
(* else.                                                                    *)
LEMMA SenderSavesAnswer ==
  ASSUME IndInv, AnswerInv, NEW call \in calls, SenderSaves(call)
  PROVE  AnswerInv' /\ Modes
<1> DEFINE next == [call EXCEPT !.sender = "gone", !.result = Null]
<1>1. /\ CallOK(call, DOMAIN store) /\ CallbackOK(call) /\ call.sender = "saving"
      /\ Save(call.result) /\ Continue(call, next) /\ UNCHANGED <<fetched, updates>>
  BY DEF IndInv, CallInv, AnswerInv, SenderSaves
<1>2. /\ next.id = call.id /\ next.kind = call.kind /\ next.to = call.to
      /\ next.sender = "gone" /\ next.receiver = call.receiver
      /\ next.received = call.received
  BY <1>1 DEF CallOK, CallType
<1> HIDE DEF next
<1>3. PICK n : n = call.result
  OBVIOUS
<1>4. n \in Pending /\ n.id = call.id
  BY <1>1, <1>3 DEF Pending, CallbackOK
<1>5. RecordOK(n, DOMAIN store) /\ n.id \in DOMAIN store /\ Agreed(n)
  BY <1>4, PendingOK DEF AnswerInv, RecordOK
<1>6. /\ leased' = leased \ {n.id} /\ Put(n)
      /\ DOMAIN store' = DOMAIN store
      /\ \A id \in DOMAIN store : store'[id] = IF id = n.id THEN n ELSE store[id]
  BY <1>1, <1>3, <1>5 DEF Save, Put
<1>7. /\ \A k \in calls' : k \in calls \/ k = next
      /\ call \in calls' => call = next
  BY <1>1, ContinueCalls
<1>8. \A m \in Pending' : m \in Pending
  <2>1. call.receiver = "handling" => call.received \in Pending
    BY DEF Pending
  <2> QED BY <1>1, <1>2, <1>7, <2>1, PendingStep
<1>9. ASSUME NEW c \in DOMAIN store \cap Consumers PROVE ModeKept(c)
  <2>1. CASE c # n.id
    BY <1>1, <1>2, <1>4, <1>6, <1>7, <2>1, ModeOf, ElsewhereCall
  <2>2. CASE c = n.id /\ HasRequested(c)
    <3>1. store'[c].state \in Answers
      BY <1>4, <1>6, <2>2 DEF HasRequested
    <3>2. \A k \in calls' : k.id = c /\ k.kind = "request" =>
            k.sender = "gone" \/ k \in calls
      BY <1>2, <1>7
    <3> QED BY <1>8, <2>2, <3>1, <3>2, HasKept
  <2>3. CASE c = n.id /\ ~HasRequested(c)
    <3>1. StillRequests(c) /\ CallbackRequests(call) /\ \A f \in fetched : f.n.id # c
      BY <1>1, <1>4, <2>3, CallbackMode
    <3>2. store'[c].state \in {REQUESTING, REQUESTED, ERROR}
      BY <1>1, <1>3, <1>6, <2>3, <3>1 DEF CallbackRequests
    <3>3. \A k \in calls' : k.id = c => k.sender = "gone"
      BY <1>2, <1>4, <1>7, <2>3, <3>1 DEF CallbackRequests
    <3>4. \A k \in calls' : /\ k.id = c => k.kind = "request"
                            /\ k.receiver = "handling" => k.received.id # c
      BY <1>2, <1>7, <3>1 DEF StillRequests
    <3>5. \A u \in updates' : u.n.id = c => u.n.state = ERROR
      BY <1>1, <3>1 DEF StillRequests
    <3>6. CASE store'[c].state \in {REQUESTING, ERROR}
      <4>1. StillRequests(c)'
        BY <1>1, <3>1, <3>3, <3>4, <3>5, <3>6 DEF StillRequests
      <4> QED BY <2>3, <4>1 DEF ModeKept, Answered
    <3>7. CASE store'[c].state = REQUESTED
      <4>1. \A k \in calls' : k.sender = "saving" => k.result.id = k.id
        BY <1>2, <1>7 DEF AnswerInv, CallbackOK
      <4>2. \A m \in Pending' : m.id = c => m.state \in Answers
        BY <1>1, <3>1, <3>3, <3>4, <3>5, <4>1, DistinctStates DEF Pending
      <4>3. HasRequested(c)'
        BY <3>3, <3>7, <4>2 DEF HasRequested
      <4> QED BY <2>3, <4>3 DEF ModeKept, Answered
    <3> QED BY <3>2, <3>6, <3>7
  <2> QED BY <2>1, <2>2, <2>3
<1>10. Modes
  BY <1>9 DEF Modes
<1>11. LinksKept
  BY <1>5, <1>6 DEF LinksKept, Agreed
<1>12. CallbackOK(next)'
  <2>1. CallbackOK(call)'
    BY <1>1, <1>10, <1>11, CallbackKept
  <2> QED BY <1>2, <2>1 DEF CallbackOK, AgreementCallOK
<1> QED BY <1>5, <1>6, <1>7, <1>8, <1>10, <1>12, PutAnswer

-----------------------------------------------------------------------------
(* The data management API *)

(* initiate: nobody has the new negotiation. *)
LEMMA InitiateAnswer ==
  ASSUME IndInv, AnswerInv, NEW id \in Consumers, Initiate(id)
  PROVE  AnswerInv' /\ Modes
<1> DEFINE new == [id |-> id, type |-> CONSUMER, correlationId |-> Null,
                   state |-> UNSAVED, stateCount |-> 0, agreement |-> NoAgreement]
<1>1. id \notin DOMAIN store /\ UNCHANGED <<fetched, calls, updates>>
  BY DEF Initiate
<1>2. PICK n : n = NewConsumerNegotiation(id)
  OBVIOUS
<1>3. new \in ContractNegotiationType
  BY DEF ContractNegotiationType, ContractNegotiationStates, NoAgreement
<1>4. n.id = id /\ n.type = CONSUMER /\ n.correlationId = Null /\ n.state = INITIAL
  BY <1>2, <1>3, TransitionFrame, DistinctStates DEF NewConsumerNegotiation
<1>5. /\ DOMAIN store' = DOMAIN store \cup {id} /\ store'[id] = n
      /\ \A i \in DOMAIN store : store'[i] = store[i]
      /\ leased' = leased \ {id}
  BY <1>1, <1>2, <1>4 DEF Initiate, Save, Put
<1>6. \A c \in DOMAIN store \cap Consumers : ModeKept(c)
  BY <1>1, <1>5, ModeOf, ElsewhereQuiet
<1>7. Modes /\ LinksKept
  BY <1>5, <1>6 DEF Modes, LinksKept
<1>8. /\ \A m \in Pending : m.id # id
      /\ \A call \in calls : call.id # id
  BY <1>1, PendingOK DEF RecordOK, IndInv, CallInv, CallOK
<1>9. /\ \A f \in fetched : f.n.id # id
      /\ \A u \in updates : u.n.id # id
      /\ \A call \in calls : call.receiver = "handling" => call.received.id # id
  BY <1>8 DEF Pending
<1>10. StillRequests(id)'
  BY <1>1, <1>4, <1>5, <1>8, <1>9 DEF StillRequests
<1>11. Agreed(n)'
  BY <1>4, <1>5, DistinctStates DEF Agreed, CONSUMER, PROVIDER
<1>12. \A i \in DOMAIN store' :
         (i \in DOMAIN store /\ store'[i] = store[i]) \/ Agreed(store[i])'
  BY <1>5, <1>11
<1>13. \A m \in Pending' : m \in Pending
  BY <1>1 DEF Pending
<1> QED BY <1>1, <1>5, <1>7, <1>10, <1>12, <1>13, StepAnswer

(* A copy that waits to be saved for the API: an answer, or the error of a  *)
(* cancel.                                                                  *)
LEMMA InterveneAnswer ==
  ASSUME IndInv, AnswerInv, NEW thread, NEW n, Intervene(thread, n),
         RecordOK(n, DOMAIN store), Agreed(n),
         n.id \in Consumers =>
           n.state = ERROR \/ (HasRequested(n.id) /\ n.state \in Answers)
  PROVE  AnswerInv' /\ Modes
<1>1. UNCHANGED <<store, leased, fetched, calls>>
  BY DEF Intervene
<1>2. \A u \in updates' : u \in updates \/ u.n = n
  BY DEF Intervene
<1>3. \A m \in Pending' : m \in Pending \/ m = n
  BY <1>1, <1>2 DEF Pending
<1>4. ASSUME NEW c \in DOMAIN store \cap Consumers PROVE ModeKept(c)
  <2>1. CASE c # n.id
    BY <1>1, <1>2, <2>1, ModeOf, ElsewhereQuiet
  <2>2. CASE c = n.id /\ HasRequested(c)
    BY <1>1, <1>3, <2>2, DistinctStates, HasKept
  <2>3. CASE c = n.id /\ ~HasRequested(c)
    <3>1. StillRequests(c) /\ n.state = ERROR
      BY <2>3, ModeOf
    <3>2. Protected(c) => Protected(c)'
      BY <1>1 DEF Protected
    <3>3. \A f \in fetched' : f.n.id = c => LoopRequests(f)'
      BY <1>1, <3>1, <3>2 DEF StillRequests, LoopRequests
    <3>4. \A k \in calls' : k.id = c /\ k.sender # "gone" => CallbackRequests(k)'
      BY <1>1, <3>1, <3>2 DEF StillRequests, CallbackRequests
    <3>5. StillRequests(c)'
      BY <1>1, <1>2, <3>1, <3>3, <3>4 DEF StillRequests
    <3> QED BY <2>3, <3>5 DEF ModeKept, Answered
  <2> QED BY <2>1, <2>2, <2>3
<1>5. Modes
  BY <1>4 DEF Modes
<1> QED BY <1>1, <1>3, <1>5, KeepAnswer

LEMMA CancelAnswer ==
  ASSUME IndInv, AnswerInv, NEW manager \in Managers, NEW id, Cancel(manager, id)
  PROVE  AnswerInv' /\ Modes
<1>1. PICK n : n = TransitionError(store[id])
  OBVIOUS
<1>2. id \in DOMAIN store /\ Intervene(manager, n)
  BY <1>1 DEF Cancel, Find
<1>3. RecordOK(store[id], DOMAIN store) /\ Sound(store[id]) /\ store[id].id = id
      /\ store[id] \in ContractNegotiationType
  BY <1>2, FoundOK, RecordType DEF Find
<1>4. Sound(n) /\ n.id = id /\ n.correlationId = store[id].correlationId /\ n.state = ERROR
  BY <1>1, <1>3, ErrorSound, ErrorFrame
<1>5. RecordOK(n, DOMAIN store)
  BY <1>3, <1>4, SameLinks
<1>6. Agreed(n)
  BY <1>4, DistinctStates DEF Agreed
<1> QED BY <1>2, <1>4, <1>5, <1>6, InterveneAnswer

LEMMA DeclineAnswer ==
  ASSUME IndInv, AnswerInv, NEW id, Decline(id)
  PROVE  AnswerInv' /\ Modes
<1>1. PICK n : n = Transition(store[id], DECLINED)
  OBVIOUS
<1>2. id \in DOMAIN store /\ ~Throws(store[id], DECLINED) /\ Intervene("api", n)
  BY <1>1 DEF Decline, Find
<1>3. RecordOK(store[id], DOMAIN store) /\ Linked(store[id]) /\ store[id].id = id
      /\ store[id] \in ContractNegotiationType
  BY <1>2, FoundOK, RecordType DEF Find, Sound
<1>4. Sound(n) /\ n.id = id /\ n.correlationId = store[id].correlationId
  BY <1>1, <1>3, DeclinedSound
<1>5. n.state = DECLINED
  <2>1. DECLINED \in ContractNegotiationStates
    BY DistinctStates
  <2> QED BY <1>1, <1>3, <2>1, TransitionFrame
<1>6. RecordOK(n, DOMAIN store)
  BY <1>3, <1>4, SameLinks
<1>7. Agreed(n)
  BY <1>4, <1>5, DistinctStates DEF Agreed
<1>8. id \in Consumers => HasRequested(id)
  BY <1>2, FoundHasRequested
<1> QED BY <1>2, <1>4, <1>5, <1>6, <1>7, <1>8, DistinctStates, InterveneAnswer

(* A cancel takes a consumer that still requests to ERROR, where every copy *)
(* of the request may be saved.                                             *)
LEMMA UpdateAnswer ==
  ASSUME IndInv, AnswerInv, NEW u \in updates, Update(u)
  PROVE  AnswerInv' /\ Modes
<1>1. Save(u.n) /\ updates' \subseteq updates /\ UNCHANGED <<fetched, calls>>
  BY DEF Update
<1>2. PICK n : n = u.n
  OBVIOUS
<1>3. n \in Pending
  BY <1>2 DEF Pending
<1>4. RecordOK(n, DOMAIN store) /\ n.id \in DOMAIN store /\ Agreed(n)
  BY <1>3, PendingOK DEF AnswerInv, RecordOK
<1>5. /\ leased' = leased \ {n.id} /\ Put(n)
      /\ DOMAIN store' = DOMAIN store
      /\ \A id \in DOMAIN store : store'[id] = IF id = n.id THEN n ELSE store[id]
  BY <1>1, <1>2, <1>4 DEF Save, Put
<1>6. Pending' \subseteq Pending
  BY <1>1, PendingQuiet
<1>7. ASSUME NEW c \in DOMAIN store \cap Consumers PROVE ModeKept(c)
  <2>1. CASE c # n.id
    BY <1>1, <1>5, <2>1, ModeOf, ElsewhereQuiet
  <2>2. CASE c = n.id /\ HasRequested(c)
    <3>1. store'[c].state \in Answers
      BY <1>3, <1>5, <2>2 DEF HasRequested
    <3> QED BY <1>1, <1>6, <2>2, <3>1, HasKept
  <2>3. CASE c = n.id /\ ~HasRequested(c)
    <3>1. StillRequests(c)
      BY <2>3, ModeOf
    <3>2. store'[c].state = ERROR
      BY <1>2, <1>5, <2>3, <3>1 DEF StillRequests
    <3>3. Protected(c)'
      BY <3>2 DEF Protected
    <3>4. \A f \in fetched' : f.n.id = c => LoopRequests(f)'
      BY <1>1, <3>1, <3>3 DEF StillRequests, LoopRequests
    <3>5. \A k \in calls' : k.id = c /\ k.sender # "gone" => CallbackRequests(k)'
      BY <1>1, <3>1, <3>3 DEF StillRequests, CallbackRequests
    <3>6. StillRequests(c)'
      BY <1>1, <3>1, <3>2, <3>4, <3>5 DEF StillRequests
    <3> QED BY <2>3, <3>6 DEF ModeKept, Answered
  <2> QED BY <2>1, <2>2, <2>3
<1>8. Modes
  BY <1>7 DEF Modes
<1> QED BY <1>1, <1>4, <1>5, <1>6, <1>8, PutAnswer

-----------------------------------------------------------------------------
(* Theorems *)

LEMMA InitAnswer == Init => AnswerInv
BY DEF Init, AnswerInv, Pending

(* Every step keeps the invariant, and no consumer falls back to requesting. *)
LEMMA NextAnswer ==
  ASSUME IndInv, AnswerInv, [Next]_vars
  PROVE  AnswerInv' /\ Modes
<1>1. CASE Api
  BY <1>1, InitiateAnswer, CancelAnswer, DeclineAnswer DEF Api
<1>2. ASSUME NEW u \in updates, Update(u) PROVE AnswerInv' /\ Modes
  BY <1>2, UpdateAnswer
<1>3. ASSUME NEW manager \in Managers, NEW side \in Managers, Loop(manager, side)
      PROVE  AnswerInv' /\ Modes
  <2>1. CASE \E state \in Processors(manager) : NextForState(manager, side, state)
    BY <2>1, NextForStateAnswer
  <2>2. CASE \E f \in OfLoop(manager, side) : Process(f)
    BY <2>2, ProcessInitialAnswer, DelayedAnswer, SendAnswer, SendThrowsAnswer
       DEF Process, OfLoop
  <2> QED BY <1>3, <2>1, <2>2 DEF Loop
<1>4. ASSUME NEW call \in calls, Receive(call) PROVE AnswerInv' /\ Modes
  BY <1>4, RequestedAnswer, ConfirmedAnswer, DeclinedByIdAnswer,
     DeclinedByCorrelationIdAnswer, DeclinedUnknownAnswer, ReceiverSavesAnswer DEF Receive
<1>5. ASSUME NEW call \in calls, Callback(call) PROVE AnswerInv' /\ Modes
  BY <1>5, SendSucceedsAnswer, SendFailsAnswer, SenderSavesAnswer DEF Callback
<1>6. ASSUME NEW call \in calls, Lost(call) PROVE AnswerInv' /\ Modes
  BY <1>6, LostAnswer
<1>7. CASE UNCHANGED vars
  <2>1. UNCHANGED <<store, leased, fetched, calls, updates>>
    BY <1>7 DEF vars
  <2>2. \A c \in DOMAIN store \cap Consumers : ModeKept(c)
    BY <2>1, ModeOf, ElsewhereQuiet
  <2>3. Modes
    BY <2>2 DEF Modes
  <2> QED BY <2>1, <2>3, PendingQuiet, KeepAnswer
<1> QED BY <1>1, <1>2, <1>3, <1>4, <1>5, <1>6, <1>7 DEF Next

(* One thread at a time requests a negotiation until it is answered, then   *)
(* every copy is an answer, and a positive response to an agreement means   *)
(* that the consumer has answered: in every reachable state of the two      *)
(* managers, their callbacks and the messages between them.                 *)
THEOREM AnswersHold == Spec => []AnswerInv
<1>1. IndInv /\ AnswerInv /\ [Next]_vars => AnswerInv'
  BY NextAnswer
<1> QED BY <1>1, InitAnswer, IndInvHolds, PTL DEF Spec

(* A provider's negotiation is CONFIRMED only if its consumer's is          *)
(* CONFIRMED, DECLINING, DECLINED or ERROR, however late or lost messages   *)
(* and answers are.                                                         *)
THEOREM ConfirmedOnBoth == Spec => []ConfirmedOnBothSides
<1>1. ASSUME IndInv, AnswerInv PROVE ConfirmedOnBothSides
  <2>1. ASSUME NEW p \in DOMAIN store \cap Providers, store[p].state = CONFIRMED
        PROVE  store[store[p].correlationId].state \in {CONFIRMED, DECLINING, DECLINED, ERROR}
    <3>1. store[p].type = PROVIDER
      BY <1>1, NegotiationAssumption
         DEF IndInv, StoreInv, RecordOK, Sound, Linked, ContractNegotiationType
    <3>2. Answered(store[p].correlationId)
      BY <1>1, <2>1, <3>1 DEF AnswerInv, Agreed
    <3> QED BY <3>2 DEF Answered, Answers
  <2> QED BY <2>1 DEF ConfirmedOnBothSides
<1> QED BY <1>1, AnswersHold, IndInvHolds, PTL

(* No step, however stale the copy it saves, takes a consumer negotiation   *)
(* whose request was answered back to INITIAL or REQUESTING.                *)
THEOREM RequestedOnce == Spec => NeverRequestedAgain
<1> DEFINE Step == \A c \in DOMAIN store \cap Consumers :
                     store[c].state \notin {INITIAL, REQUESTING, ERROR} =>
                       store'[c].state \notin {INITIAL, REQUESTING}
<1>1. ASSUME IndInv, AnswerInv, [Next]_vars PROVE Step
  <2>1. ASSUME NEW c \in DOMAIN store \cap Consumers,
               store[c].state \notin {INITIAL, REQUESTING, ERROR}
        PROVE  store'[c].state \notin {INITIAL, REQUESTING}
    <3>1. HasRequested(c)
      BY <1>1, <2>1, ModeOf DEF StillRequests
    <3>2. HasRequested(c)'
      BY <1>1, <2>1, <3>1, NextAnswer DEF Modes, ModeKept
    <3> QED BY <3>2, DistinctStates DEF HasRequested
  <2> QED BY <2>1
<1>2. IndInv /\ AnswerInv /\ [Next]_vars => [Step]_vars
  BY <1>1
<1>3. NeverRequestedAgain <=> [][Step]_vars
  BY DEF NeverRequestedAgain
<1> HIDE DEF Step
<1> QED BY <1>2, <1>3, AnswersHold, IndInvHolds, PTL DEF Spec
=============================================================================
