----------------------------- MODULE CosmosStore -----------------------------
(***************************************************************************)
(* The Cosmos DB stores of transfer processes and contract negotiations    *)
(* (extensions/azure/cosmos), shared by several connector runtimes.  The   *)
(* stored procedures nextForState.js and lease.js run atomically in the    *)
(* database; everything else is a sequence of separate database calls,     *)
(* each of which may fail, and any runtime may crash between two of them.  *)
(*                                                                         *)
(* A document is kept as the state its entity is in, as far as a loop      *)
(* asks for it ("due" or not), its lease, and its place in the order of    *)
(* stateTimestamp.  Time is kept as the age of each lease.                 *)
(*                                                                         *)
(* A lease is written with the name of the runtime, and all threads of a   *)
(* runtime (its loops, the callbacks, the API) use that one name.  The     *)
(* variable unguarded keeps, for each thread, the entities whose lease was *)
(* given back behind its back by such a thread, or by a first attempt of   *)
(* its own save: the store has no such record, and nothing reads it here   *)
(* but the properties.                                                     *)
(***************************************************************************)
EXTENDS Integers, FiniteSets

CONSTANTS
  Documents,      \* ids of entities
  Runtimes,       \* connector ids, the names leases are written with
  Loops,          \* the state machine loops
  Callbacks,      \* threads that serve a callback or a protocol message
  RuntimeOf,      \* the runtime a thread belongs to
  Crashing,       \* the runtimes that may crash
  BatchSize,      \* the limit nextForState is called with
  LeaseDuration,  \* leaseDuration, in ticks of the model's clock
  Null,           \* a null reference
  MaxFaults,      \* bound: database calls lost and runtimes crashed
  MaxCallbacks    \* bound: callbacks served

Threads == Loops \cup Callbacks

ASSUME CosmosAssumption ==
  /\ Loops \cap Callbacks = {}
  /\ RuntimeOf \in [Threads -> Runtimes]
  /\ Crashing \subseteq Runtimes
  /\ Null \notin Runtimes \cup Documents
  /\ BatchSize \in Nat \ {0}
  /\ LeaseDuration \in Nat \ {0}
  /\ MaxFaults \in Nat /\ MaxCallbacks \in Nat

VARIABLES
  docs,       \* the documents of the container
  older,      \* the pairs of documents whose stateTimestamps are in this order
  pc,         \* where a thread is in its work
  hand,       \* the entities a thread has read and not yet saved
  current,    \* the entity whose update is under way (pc "save" and "break")
  held,       \* ticks since nextForState handed an entity to the thread
  fresh,      \* the entities nobody has saved since nextForState handed them out
  unguarded,  \* the entities in hand whose lease was given back under the thread
  faults, callbacks

vars == <<docs, older, pc, hand, current, held, fresh, unguarded,
          faults, callbacks>>
threadVars == <<pc, hand, current, held, fresh, unguarded>>
bounds == <<faults, callbacks>>

Ages == 0 .. LeaseDuration + 1
Expired(age) == age > LeaseDuration

NotHeld == [d \in Documents |-> 0]

(* The lease is one object of the document: without it there is no holder   *)
(* and no leasedAt.                                                        *)
Document ==
  {document \in [state : {"absent", "due", "left"},
                 lease : Runtimes \cup {Null}, age : Ages] :
     document.lease = Null => document.age = 0}

TypeOK ==
  /\ docs \in [Documents -> Document]
  /\ older \subseteq Documents \X Documents
  /\ pc \in [Threads -> {"idle", "work", "save", "break", "down"}]
  /\ hand \in [Threads -> SUBSET Documents]
  /\ current \in [Threads -> Documents \cup {Null}]
  /\ held \in [Threads -> [Documents -> Ages]]
  /\ fresh \in [Threads -> SUBSET Documents]
  /\ unguarded \in [Threads -> SUBSET Documents]
  /\ faults \in 0 .. MaxFaults
  /\ callbacks \in 0 .. MaxCallbacks

Init ==
  /\ docs = [d \in Documents |-> [state |-> "absent", lease |-> Null, age |-> 0]]
  /\ older = {}
  /\ pc = [t \in Threads |-> "idle"]
  /\ hand = [t \in Threads |-> {}]
  /\ current = [t \in Threads |-> Null]
  /\ held = [t \in Threads |-> NotHeld]
  /\ fresh = [t \in Threads |-> {}]
  /\ unguarded = [t \in Threads |-> {}]
  /\ faults = 0
  /\ callbacks = 0

-----------------------------------------------------------------------------
(* The stored procedures *)

Leased(document, r) == [state |-> document.state, lease |-> r, age |-> 0]

(* Mutant: the stored procedure does not look at who has the lease. *)
LockedByAnotherNever(d, r) == FALSE

(* lease.js refuses a document leased by another connector, whatever the    *)
(* age of that lease.                                                      *)
LockedByAnother(d, r) == docs[d].lease \notin {Null, r}

(* Mutant: a lease is taken over in the moment it ends. *)
AvailableAtExpiry ==
  {d \in Documents : /\ docs[d].state = "due"
                     /\ docs[d].lease = Null \/ docs[d].age >= LeaseDuration}

(* Mutant: expired leases are not looked at. *)
AvailableUnleased ==
  {d \in Documents : docs[d].state = "due" /\ docs[d].lease = Null}

(* The WHERE clause of nextForState.js *)
Available ==
  {d \in Documents : /\ docs[d].state = "due"
                     /\ docs[d].lease = Null \/ Expired(docs[d].age)}

(* ORDER BY stateTimestamp OFFSET 0 LIMIT @limit *)
IsBatch(S) ==
  /\ S \subseteq Available
  /\ \A d \in S, e \in Available \ S : <<d, e>> \in older
  /\ Cardinality(S) <= BatchSize
  /\ S # Available => Cardinality(S) = BatchSize

(* A new entity, and a transition, have the stateTimestamp of now. *)
Newest(d) ==
  {p \in older : d \notin {p[1], p[2]}}
    \cup {<<e, d>> : e \in {e \in Documents \ {d} : docs[e].state # "absent"}}

LeaseAll(S, r) ==
  docs' = [d \in Documents |-> IF d \in S THEN Leased(docs[d], r) ELSE docs[d]]

-----------------------------------------------------------------------------
(* What a thread does next *)

(* An exception ends the iteration of a loop, or the handling of a          *)
(* callback: what is left of the batch is not processed.                   *)
Drop(T) ==
  /\ hand' = [t \in Threads |-> IF t \in T THEN {} ELSE hand[t]]
  /\ current' = [t \in Threads |-> IF t \in T THEN Null ELSE current[t]]
  /\ held' = [t \in Threads |-> IF t \in T THEN NotHeld ELSE held[t]]

Abandon(t) ==
  /\ pc' = [pc EXCEPT ![t] = "idle"]
  /\ Drop({t})
  /\ fresh' = [fresh EXCEPT ![t] = {}]
  /\ unguarded' = [unguarded EXCEPT ![t] = {}]

Fault == faults < MaxFaults /\ faults' = faults + 1 /\ UNCHANGED callbacks

(* The store's nextForState, called by a loop.  With nothing to hand out    *)
(* the loop waits.                                                         *)
NextForState(t) ==
  /\ pc[t] = "idle"
  /\ \E S \in SUBSET Available :
       /\ S # {} /\ IsBatch(S)
       /\ LeaseAll(S, RuntimeOf[t])
       /\ pc' = [pc EXCEPT ![t] = "work"]
       /\ hand' = [hand EXCEPT ![t] = S]
       /\ fresh' = [fresh EXCEPT ![t] = S]
       /\ unguarded' = [unguarded EXCEPT ![t] = {}]
       /\ held' = [held EXCEPT ![t] = NotHeld]
  /\ UNCHANGED <<older, current, bounds>>

(* The procedure ran and its answer is lost: after the retries the Fallback *)
(* turns the failure into an empty list.                                   *)
NextForStateLost(t) ==
  /\ pc[t] = "idle"
  /\ \E S \in SUBSET Available :
       S # {} /\ IsBatch(S) /\ LeaseAll(S, RuntimeOf[t])
  /\ Fault
  /\ UNCHANGED <<older, threadVars>>

(* A callback reads the entity with find, which takes no lease. *)
Find(t, d) ==
  /\ pc[t] = "idle" /\ docs[d].state # "absent"
  /\ callbacks < MaxCallbacks
  /\ callbacks' = callbacks + 1
  /\ pc' = [pc EXCEPT ![t] = "work"]
  /\ hand' = [hand EXCEPT ![t] = {d}]
  /\ UNCHANGED <<docs, older, current, held, fresh, unguarded, faults>>

(* create: the document is written without a lease. *)
Create(d) ==
  /\ docs[d].state = "absent"
  /\ docs' = [docs EXCEPT ![d] = [state |-> "due", lease |-> Null, age |-> 0]]
  /\ older' = Newest(d)
  /\ UNCHANGED <<threadVars, bounds>>

-----------------------------------------------------------------------------
(* update(process): acquireLease, saveItem, breakLease *)

AcquireLease(t, d) ==
  /\ pc[t] = "work" /\ d \in hand[t]
  /\ ~LockedByAnother(d, RuntimeOf[t])
  /\ docs' = [docs EXCEPT ![d] = Leased(@, RuntimeOf[t])]
  /\ pc' = [pc EXCEPT ![t] = "save"]
  /\ current' = [current EXCEPT ![t] = d]
  /\ unguarded' = [unguarded EXCEPT ![t] = @ \ {d}]
  /\ UNCHANGED <<older, hand, held, fresh, bounds>>

(* "Document is locked by another connector" *)
AcquireThrows(t, d) ==
  /\ pc[t] = "work" /\ d \in hand[t]
  /\ LockedByAnother(d, RuntimeOf[t])
  /\ Abandon(t)
  /\ UNCHANGED <<docs, older, bounds>>

(* The call fails, before or after the procedure ran. *)
AcquireFails(t, d) ==
  /\ pc[t] = "work" /\ d \in hand[t]
  /\ Fault
  /\ Abandon(t)
  /\ \/ UNCHANGED docs
     \/ /\ ~LockedByAnother(d, RuntimeOf[t])
        /\ docs' = [docs EXCEPT ![d] = Leased(@, RuntimeOf[t])]
  /\ UNCHANGED older

(* saveItem replaces the whole document by one that has no lease. *)
Saved(state) == [state |-> state, lease |-> Null, age |-> 0]

(* The lease that a save gives back was relied on by every thread of the    *)
(* runtime.  A save under a lease that was given back already may erase     *)
(* the lease of anyone.                                                    *)
TakesFrom(t, u) == RuntimeOf[u] = RuntimeOf[t] \/ current[t] \in unguarded[t]

SaveItem(t, state) ==
  /\ docs' = [docs EXCEPT ![current[t]] = Saved(state)]
  /\ fresh' = [u \in Threads |-> fresh[u] \ {current[t]}]
  /\ unguarded' = [u \in Threads |->
                     (IF TakesFrom(t, u) THEN unguarded[u] \cup {current[t]}
                      ELSE unguarded[u]) \cap hand'[u]]

Finish(t) ==
  /\ pc' = [pc EXCEPT ![t] = "break"]
  /\ hand' = [hand EXCEPT ![t] = @ \ {current[t]}]
  /\ held' = [held EXCEPT ![t][current[t]] = 0]

SaveTransition(t) ==
  /\ pc[t] = "save"
  /\ Finish(t)
  /\ \E state \in {"due", "left"} : SaveItem(t, state)
  /\ older' = Newest(current[t])
  /\ UNCHANGED <<current, bounds>>

(* The manager's breakLease of a delayed entity: saved as it was read. *)
SaveUnchanged(t) ==
  /\ pc[t] = "save" /\ t \in Loops
  /\ Finish(t)
  /\ SaveItem(t, "due")
  /\ UNCHANGED <<older, current, bounds>>

(* saveItem was applied and its answer is lost: the retry policy calls it   *)
(* again, without another acquireLease.                                    *)
SaveRepeats(t) ==
  /\ pc[t] = "save"
  /\ Fault
  /\ UNCHANGED <<pc, hand, current, held>>
  /\ \E state \in {"due", "left"} : SaveItem(t, state)
  /\ older' = Newest(current[t])

(* saveItem fails for good, before or after it was applied. *)
SaveFails(t) ==
  /\ pc[t] = "save"
  /\ Fault
  /\ pc' = [pc EXCEPT ![t] = "idle"]
  /\ Drop({t})
  /\ \/ /\ fresh' = [fresh EXCEPT ![t] = {}]
        /\ unguarded' = [unguarded EXCEPT ![t] = {}]
        /\ UNCHANGED <<docs, older>>
     \/ /\ \E state \in {"due", "left"} : SaveItem(t, state)
        /\ older' = Newest(current[t])

(* Mutant: only the holder's name is taken out of the lease. *)
BreakLeaseName(t) ==
  /\ pc[t] = "break"
  /\ docs' = [docs EXCEPT ![current[t]].lease = Null]
  /\ pc' = [pc EXCEPT ![t] = IF hand[t] = {} THEN "idle" ELSE "work"]
  /\ current' = [current EXCEPT ![t] = Null]
  /\ UNCHANGED <<older, hand, held, fresh, unguarded, bounds>>

(* Mutant: the lease is cleared in the database, whoever has it. *)
BreakLeaseAny(t) ==
  /\ pc[t] = "break"
  /\ docs' = [docs EXCEPT ![current[t]] = [@ EXCEPT !.lease = Null, !.age = 0]]
  /\ pc' = [pc EXCEPT ![t] = IF hand[t] = {} THEN "idle" ELSE "work"]
  /\ current' = [current EXCEPT ![t] = Null]
  /\ UNCHANGED <<older, hand, held, fresh, unguarded, bounds>>

(* breakLease runs lease.js with shouldLease false: the null lease is set   *)
(* on the copy the procedure read and is never written back.               *)
BreakLease(t) ==
  /\ pc[t] = "break"
  /\ ~LockedByAnother(current[t], RuntimeOf[t])
  /\ pc' = [pc EXCEPT ![t] = IF hand[t] = {} THEN "idle" ELSE "work"]
  /\ current' = [current EXCEPT ![t] = Null]
  /\ UNCHANGED <<docs, older, hand, held, fresh, unguarded, bounds>>

(* Another runtime leased the document after it was saved: update throws    *)
(* although it has saved.                                                  *)
BreakThrows(t) ==
  /\ pc[t] = "break"
  /\ LockedByAnother(current[t], RuntimeOf[t])
  /\ Abandon(t)
  /\ UNCHANGED <<docs, older, bounds>>

BreakFails(t) ==
  /\ pc[t] = "break"
  /\ Fault
  /\ Abandon(t)
  /\ UNCHANGED <<docs, older>>

-----------------------------------------------------------------------------
(* Crashes and time *)

ThreadsOf(r) == {t \in Threads : RuntimeOf[t] = r}

Crash(r) ==
  /\ \E t \in ThreadsOf(r) : pc[t] # "down"
  /\ Fault
  /\ pc' = [t \in Threads |-> IF t \in ThreadsOf(r) THEN "down" ELSE pc[t]]
  /\ Drop(ThreadsOf(r))
  /\ fresh' = [t \in Threads |-> IF t \in ThreadsOf(r) THEN {} ELSE fresh[t]]
  /\ unguarded' = [t \in Threads |->
                     IF t \in ThreadsOf(r) THEN {} ELSE unguarded[t]]
  /\ UNCHANGED <<docs, older>>

Restart(r) ==
  /\ \A t \in ThreadsOf(r) : pc[t] = "down"
  /\ pc' = [t \in Threads |-> IF t \in ThreadsOf(r) THEN "idle" ELSE pc[t]]
  /\ UNCHANGED <<docs, older, hand, current, held, fresh, unguarded, bounds>>

Aged(age) == IF Expired(age) THEN age ELSE age + 1

TimePasses ==
  /\ docs' = [d \in Documents |->
                IF docs[d].lease = Null THEN docs[d]
                ELSE [docs[d] EXCEPT !.age = Aged(@)]]
  /\ held' = [t \in Threads |-> [d \in Documents |->
                IF t \in Loops /\ d \in hand[t] THEN Aged(held[t][d])
                ELSE held[t][d]]]
  /\ UNCHANGED <<older, pc, hand, current, fresh, unguarded>>

(* Processing is "quicker than lease expiration" where it does not overrun, *)
(* and saveItem answers within a lease (60 s) of the acquireLease just      *)
(* before it: no later than the lease then taken, or renewed since, ends.   *)
UpdateInTime ==
  \A t \in Threads : pc[t] = "save" => docs[current[t]].age < LeaseDuration
WorkInTime == \A t \in Loops : \A d \in hand[t] : held[t][d] # LeaseDuration

Tick == UpdateInTime /\ WorkInTime /\ TimePasses /\ UNCHANGED bounds

(* A loop that is slow, or paused, still works on an entity when the lease  *)
(* runs out.                                                               *)
Overrun == UpdateInTime /\ ~WorkInTime /\ TimePasses /\ Fault

-----------------------------------------------------------------------------
(* The specification *)

Update(t) ==
  \/ \E d \in Documents : AcquireLease(t, d) \/ AcquireThrows(t, d)
  \/ SaveTransition(t) \/ SaveUnchanged(t)
  \/ BreakLease(t) \/ BreakThrows(t)

CallFails(t) ==
  \/ \E d \in Documents : AcquireFails(t, d)
  \/ SaveRepeats(t) \/ SaveFails(t) \/ BreakFails(t)

Next ==
  \/ \E d \in Documents : Create(d)
  \/ \E t \in Loops : NextForState(t) \/ NextForStateLost(t)
  \/ \E t \in Callbacks, d \in Documents : Find(t, d)
  \/ \E t \in Threads : Update(t) \/ CallFails(t)
  \/ \E r \in Crashing : Crash(r) \/ Restart(r)
  \/ Tick \/ Overrun

Spec == Init /\ [][Next]_vars

(* A loop is rescheduled after every iteration, a call that is under way    *)
(* ends, and time passes.  Nobody has to restart a runtime.                *)
Fairness ==
  /\ \A t \in Loops : WF_vars(NextForState(t))
  /\ \A t \in Threads : WF_vars(Update(t))
  /\ WF_vars(Tick)

FairSpec == Spec /\ Fairness

-----------------------------------------------------------------------------
(* Properties *)

(* saveItem replaces the document without looking at its lease.  Still, at  *)
(* the moment update calls it the lease is the caller's own and has not     *)
(* run out: no save erases the lease, or the work, of another runtime.      *)
(* The exception is a caller whose lease a thread of its own runtime, or an *)
(* earlier attempt of this save, has given back after acquireLease.         *)
SaveUnderOwnLease ==
  \A t \in Threads : pc[t] = "save" /\ current[t] \notin unguarded[t] =>
    /\ docs[current[t]].lease = RuntimeOf[t]
    /\ ~Expired(docs[current[t]].age)

(* A runtime that got an entity from nextForState and has had it for no     *)
(* longer than the lease lasts still holds its lease: no other runtime was  *)
(* given the entity, although it saves, crashes and loses answers itself.   *)
(* The exception is a lease given back by another thread of the runtime, or *)
(* erased by a save that had lost its own lease in that way.                *)
ExclusiveUntilExpiry ==
  \A t \in Loops : \A d \in hand[t] \ unguarded[t] :
    ~Expired(held[t][d]) => docs[d].lease = RuntimeOf[t]

(* An update is lost to another runtime only by a loop that took longer     *)
(* than its lease: while the lease lasts, the copy a loop works on is       *)
(* overwritten by a thread of its own runtime, or by a save that has lost   *)
(* its own lease to such a thread, and by nobody else.                      *)
StaleOnlyAfterExpiry ==
  [][\A t \in Loops : \A d \in hand[t] \cap hand'[t] :
       /\ d \in fresh[t] \ fresh'[t]
       /\ ~Expired(held[t][d])
       => \E u \in Threads :
            /\ pc[u] = "save" /\ current[u] = d
            /\ RuntimeOf[u] = RuntimeOf[t] \/ d \in unguarded[u]]_vars

(* docs/developer/state-machine.md: leases ensure that "an entity is        *)
(* processed by only one EDC instance at a time (assuming processing is     *)
(* quicker than lease expiration)".                                        *)
OneInstanceAtATime ==
  \A t, u \in Loops : \A d \in hand[t] \cap hand[u] :
    RuntimeOf[t] # RuntimeOf[u] => Expired(held[t][d]) \/ Expired(held[u][d])

(* A thread counts on the lease of an entity from nextForState until the    *)
(* lease ends, and from acquireLease until it has saved.                    *)
CountsOn(t, d) ==
  \/ t \in Loops /\ d \in hand[t] /\ ~Expired(held[t][d])
  \/ pc[t] = "save" /\ current[t] = d

Guarded(t, d) == CountsOn(t, d) /\ d \notin unguarded[t]
Misled(t, d) == CountsOn(t, d) /\ d \in unguarded[t]

(* The leases of the documents are leases in the sense of the module Lease: *)
(* granted when free, expired or one's own, given back by a thread of the   *)
(* runtime that holds them, and lost under another thread only if two       *)
(* threads of one runtime, or two attempts of one save, gave one back.      *)
Promise ==
  INSTANCE Lease WITH
    Items <- Documents, Users <- Threads, HolderOf <- RuntimeOf, Nobody <- Null,
    Holders <- Runtimes,
    holder <- [d \in Documents |-> docs[d].lease],
    expired <- {d \in Documents : docs[d].lease # Null /\ Expired(docs[d].age)},
    working <- {p \in Threads \X Documents : Guarded(p[1], p[2])},
    misled <- {p \in Threads \X Documents : Misled(p[1], p[2])}
ImplementsLease == Promise!LeaseSpec

(* An entity that is due is handed to a loop again and again, whoever held  *)
(* its lease: a runtime that crashed, a call whose answer was lost, a batch *)
(* given up because another entity of it could not be saved.                *)
HandedOut ==
  \A d \in Documents :
    (docs[d].state = "due") ~>
      (docs[d].state # "due" \/ \E t \in Loops : d \in hand[t])
=============================================================================
