-------------------------- MODULE CosmosStoreProofs --------------------------
(***************************************************************************)
(* Proofs about CosmosStore, for any number of documents, runtimes and     *)
(* threads, any batch size and lease duration, any number of faults, and   *)
(* any assignment of the threads to the runtimes.                          *)
(***************************************************************************)
EXTENDS CosmosStore, TLAPS

-----------------------------------------------------------------------------
(* The type invariant *)

LEMMA AgedType ==
  ASSUME NEW age \in Ages
  PROVE  /\ Aged(age) \in Ages
         /\ age <= Aged(age)
         /\ ~Expired(Aged(age)) => ~Expired(age) /\ Aged(age) = age + 1
  BY CosmosAssumption DEF Aged, Ages, Expired

LEMMA NotHeldType == NotHeld \in [Documents -> Ages]
  BY CosmosAssumption DEF NotHeld, Ages

LEMMA NewestType ==
  ASSUME NEW d \in Documents, older \subseteq Documents \X Documents
  PROVE  Newest(d) \subseteq Documents \X Documents
  BY DEF Newest

(* Where a thread is with its update, and what lies in its hand. *)
ControlInv ==
  /\ \A t \in Threads : pc[t] = "save" => current[t] \in hand[t]
  /\ \A t \in Threads : pc[t] = "break" => current[t] \in Documents
  /\ \A t \in Threads : pc[t] \in {"idle", "down"} => hand[t] = {}
  /\ \A t \in Threads : \A d \in hand[t] : docs[d].state # "absent"
  /\ \A d \in Documents : docs[d].state = "absent" => docs[d].lease = Null

LEMMA InitControl == Init => TypeOK /\ ControlInv
  BY CosmosAssumption, NotHeldType DEF Init, TypeOK, ControlInv, Document, Ages

LEMMA FaultType ==
  ASSUME TypeOK, Fault
  PROVE  faults' \in 0 .. MaxFaults /\ UNCHANGED callbacks
  BY CosmosAssumption DEF TypeOK, Fault

LEMMA DropType ==
  ASSUME TypeOK, NEW T \in SUBSET Threads, Drop(T)
  PROVE  /\ hand' \in [Threads -> SUBSET Documents]
         /\ current' \in [Threads -> Documents \cup {Null}]
         /\ held' \in [Threads -> [Documents -> Ages]]
  BY NotHeldType DEF TypeOK, Drop

LEMMA LeasedType ==
  ASSUME NEW document \in Document, NEW r \in Runtimes
  PROVE  /\ Leased(document, r) \in Document
         /\ Leased(document, r).state = document.state
         /\ Leased(document, r).lease = r
         /\ Leased(document, r).age = 0
  BY CosmosAssumption DEF Leased, Document, Ages

LEMMA SavedType ==
  ASSUME NEW state \in {"due", "left"}
  PROVE  Saved(state) \in Document
  BY CosmosAssumption DEF Saved, Document, Ages

LEMMA RuntimeType == ASSUME NEW t \in Threads PROVE RuntimeOf[t] \in Runtimes
  BY CosmosAssumption

LEMMA LeaseAllDocs ==
  ASSUME TypeOK, NEW S \in SUBSET Documents, NEW r \in Runtimes, LeaseAll(S, r)
  PROVE  /\ docs' \in [Documents -> Document]
         /\ \A d \in S : /\ docs'[d].state = docs[d].state
                         /\ docs'[d].lease = r
                         /\ docs'[d].age = 0
         /\ \A d \in Documents \ S : docs'[d] = docs[d]
  BY LeasedType DEF TypeOK, LeaseAll

LEMMA SaveItemDocs ==
  ASSUME TypeOK, NEW t \in Threads, current[t] \in Documents,
         NEW state \in {"due", "left"}, SaveItem(t, state)
  PROVE  /\ docs' \in [Documents -> Document]
         /\ docs'[current[t]] = Saved(state)
         /\ \A d \in Documents \ {current[t]} : docs'[d] = docs[d]
         /\ fresh' \in [Threads -> SUBSET Documents]
  BY SavedType DEF TypeOK, SaveItem

LEMMA SaveItemUnguarded ==
  ASSUME TypeOK, NEW t \in Threads, NEW state, SaveItem(t, state),
         hand' \in [Threads -> SUBSET Documents]
  PROVE  unguarded' \in [Threads -> SUBSET Documents]
  <1>1. \A u \in Threads : unguarded'[u] \subseteq hand'[u]
    BY DEF SaveItem
  <1>2. unguarded' = [u \in Threads |-> unguarded'[u]]
    BY DEF SaveItem
  <1>3. \A u \in Threads : unguarded'[u] \in SUBSET Documents
    BY <1>1
  <1> QED BY <1>2, <1>3

(* What happens to the documents when a thread acquires a lease *)
LEMMA AcquireDocs ==
  ASSUME TypeOK, NEW d \in Documents, NEW r \in Runtimes,
         docs' = [docs EXCEPT ![d] = Leased(@, r)]
  PROVE  LeaseAll({d}, r)
  BY LeasedType DEF TypeOK, LeaseAll

LEMMA TimePassesDocs ==
  ASSUME TypeOK, TimePasses
  PROVE  /\ docs' \in [Documents -> Document]
         /\ held' \in [Threads -> [Documents -> Ages]]
         /\ \A d \in Documents :
              /\ docs'[d].state = docs[d].state
              /\ docs'[d].lease = docs[d].lease
              /\ docs'[d].age = IF docs[d].lease = Null THEN docs[d].age
                                ELSE Aged(docs[d].age)
         /\ \A t \in Loops : \A d \in hand[t] : held'[t][d] = Aged(held[t][d])
  <1>1. \A d \in Documents :
          /\ docs'[d] \in Document
          /\ docs'[d].state = docs[d].state
          /\ docs'[d].lease = docs[d].lease
          /\ docs'[d].age = IF docs[d].lease = Null THEN docs[d].age
                            ELSE Aged(docs[d].age)
    BY AgedType DEF TypeOK, TimePasses, Document
  <1>2. docs' \in [Documents -> Document]
    BY <1>1 DEF TimePasses
  <1>3. \A t \in Threads : \A d \in Documents : held'[t][d] \in Ages
    BY AgedType DEF TypeOK, TimePasses
  <1>4. held' \in [Threads -> [Documents -> Ages]]
    BY <1>3 DEF TimePasses
  <1>5. \A t \in Loops : \A d \in hand[t] : held'[t][d] = Aged(held[t][d])
    BY DEF TypeOK, TimePasses, Threads
  <1> QED BY <1>1, <1>2, <1>4, <1>5

-----------------------------------------------------------------------------
(* The steps, in the few forms the proofs need *)

LEMMA AbandonStep ==
  ASSUME TypeOK, NEW t \in Threads, Abandon(t)
  PROVE  /\ pc' \in [Threads -> {"idle", "work", "save", "break", "down"}]
         /\ hand' \in [Threads -> SUBSET Documents]
         /\ current' \in [Threads -> Documents \cup {Null}]
         /\ held' \in [Threads -> [Documents -> Ages]]
         /\ fresh' \in [Threads -> SUBSET Documents]
         /\ unguarded' \in [Threads -> SUBSET Documents]
         /\ pc'[t] = "idle" /\ hand'[t] = {}
         /\ \A u \in Threads \ {t} :
              /\ hand'[u] = hand[u] /\ pc'[u] = pc[u] /\ current'[u] = current[u]
              /\ held'[u] = held[u] /\ fresh'[u] = fresh[u]
              /\ unguarded'[u] = unguarded[u]
  <1>1. Drop({t}) /\ {t} \in SUBSET Threads
    BY DEF Abandon
  <1>2. /\ hand' \in [Threads -> SUBSET Documents]
        /\ current' \in [Threads -> Documents \cup {Null}]
        /\ held' \in [Threads -> [Documents -> Ages]]
    BY <1>1, DropType
  <1>3. /\ hand'[t] = {}
        /\ \A u \in Threads \ {t} :
             hand'[u] = hand[u] /\ current'[u] = current[u] /\ held'[u] = held[u]
    BY <1>1 DEF Drop
  <1>4. /\ pc' \in [Threads -> {"idle", "work", "save", "break", "down"}]
        /\ pc'[t] = "idle"
        /\ \A u \in Threads \ {t} : pc'[u] = pc[u]
    BY DEF Abandon, TypeOK
  <1>5. /\ fresh' \in [Threads -> SUBSET Documents]
        /\ \A u \in Threads \ {t} : fresh'[u] = fresh[u]
    BY DEF Abandon, TypeOK
  <1>6. /\ unguarded' \in [Threads -> SUBSET Documents]
        /\ \A u \in Threads \ {t} : unguarded'[u] = unguarded[u]
    BY DEF Abandon, TypeOK
  <1> QED BY <1>2, <1>3, <1>4, <1>5, <1>6

LEMMA AbandonControl ==
  ASSUME TypeOK, ControlInv, NEW t \in Threads, Abandon(t),
         \A d \in Documents : docs'[d].state = docs[d].state,
         \A d \in Documents : docs[d].state = "absent" => docs'[d].lease = docs[d].lease
  PROVE  ControlInv'
  <1>1. /\ pc'[t] = "idle" /\ hand'[t] = {}
        /\ \A u \in Threads \ {t} :
             hand'[u] = hand[u] /\ pc'[u] = pc[u] /\ current'[u] = current[u]
    BY AbandonStep
  <1>2. \A u \in Threads : /\ pc'[u] = "save" => current'[u] \in hand'[u]
                           /\ pc'[u] = "break" => current'[u] \in Documents
                           /\ pc'[u] \in {"idle", "down"} => hand'[u] = {}
    BY <1>1 DEF ControlInv
  <1>3. \A u \in Threads : hand'[u] \subseteq hand[u] /\ hand[u] \subseteq Documents
    BY <1>1 DEF TypeOK
  <1>4. \A u \in Threads : \A d \in hand'[u] : docs'[d].state # "absent"
    BY <1>3 DEF ControlInv
  <1>5. \A d \in Documents : docs'[d].state = "absent" => docs'[d].lease = Null
    BY DEF ControlInv
  <1> QED BY <1>2, <1>4, <1>5 DEF ControlInv

(* saveItem: the entity leaves the hand of the thread that saved it. *)
LEMMA SaveHand ==
  ASSUME TypeOK, NEW t \in Threads, current[t] \in Documents,
         held' = [held EXCEPT ![t][current[t]] = 0],
         hand' = [hand EXCEPT ![t] = @ \ {current[t]}]
  PROVE  /\ held' \in [Threads -> [Documents -> Ages]]
         /\ hand' \in [Threads -> SUBSET Documents]
         /\ hand'[t] = hand[t] \ {current[t]}
         /\ \A u \in Threads \ {t} : hand'[u] = hand[u]
         /\ \A u \in Threads : \A d \in hand'[u] : held'[u][d] = held[u][d]
  BY CosmosAssumption DEF TypeOK, Ages

LEMMA SavedControl ==
  ASSUME TypeOK, ControlInv,
         \A d \in Documents :
           docs'[d] = docs[d] \/ docs'[d] \in {Saved("due"), Saved("left")}
  PROVE  /\ \A u \in Threads : \A d \in hand[u] : docs'[d].state # "absent"
         /\ \A d \in Documents : docs'[d].state = "absent" => docs'[d].lease = Null
  BY DEF TypeOK, ControlInv, Saved

LEMMA NextControl ==
  TypeOK /\ ControlInv /\ [Next]_vars => TypeOK' /\ ControlInv'
  <1> SUFFICES ASSUME TypeOK, ControlInv, [Next]_vars
               PROVE  TypeOK' /\ ControlInv'
    OBVIOUS
  <1>1. ASSUME NEW d \in Documents, Create(d)
        PROVE  TypeOK' /\ ControlInv'
    <2>1. older' \subseteq Documents \X Documents
      BY <1>1, NewestType DEF Create, TypeOK
    <2>2. /\ docs' \in [Documents -> Document]
          /\ docs'[d].state = "due"
          /\ \A e \in Documents \ {d} : docs'[e] = docs[e]
      BY <1>1, CosmosAssumption DEF Create, TypeOK, Document, Ages
    <2>3. UNCHANGED <<pc, hand, current, held, fresh, unguarded, faults, callbacks>>
      BY <1>1 DEF Create, threadVars, bounds
    <2>4. TypeOK'
      BY <2>1, <2>2, <2>3 DEF TypeOK
    <2>5. ControlInv'
      BY <2>2, <2>3 DEF TypeOK, ControlInv
    <2> QED BY <2>4, <2>5
  <1>2. ASSUME NEW t \in Loops, NextForState(t)
        PROVE  TypeOK' /\ ControlInv'
    <2>1. t \in Threads
      BY DEF Threads
    <2>2. PICK S \in SUBSET Available :
            /\ LeaseAll(S, RuntimeOf[t])
            /\ pc' = [pc EXCEPT ![t] = "work"]
            /\ hand' = [hand EXCEPT ![t] = S]
            /\ fresh' = [fresh EXCEPT ![t] = S]
            /\ unguarded' = [unguarded EXCEPT ![t] = {}]
            /\ held' = [held EXCEPT ![t] = NotHeld]
      BY <1>2 DEF NextForState
    <2>3. S \in SUBSET Documents /\ \A d \in S : docs[d].state = "due"
      BY DEF Available
    <2>4. UNCHANGED <<older, current, faults, callbacks>>
      BY <1>2 DEF NextForState, bounds
    <2>5. /\ docs' \in [Documents -> Document]
          /\ \A d \in S : docs'[d].state = docs[d].state
          /\ \A d \in Documents \ S : docs'[d] = docs[d]
      BY <2>1, <2>2, <2>3, LeaseAllDocs, RuntimeType
    <2>6. TypeOK'
      BY <2>1, <2>2, <2>3, <2>4, <2>5, NotHeldType DEF TypeOK
    <2>7. ControlInv'
      BY <2>1, <2>2, <2>3, <2>4, <2>5 DEF TypeOK, ControlInv
    <2> QED BY <2>6, <2>7
  <1>3. ASSUME NEW t \in Loops, NextForStateLost(t)
        PROVE  TypeOK' /\ ControlInv'
    <2>1. t \in Threads
      BY DEF Threads
    <2>2. PICK S \in SUBSET Available : LeaseAll(S, RuntimeOf[t])
      BY <1>3 DEF NextForStateLost
    <2>3. S \in SUBSET Documents /\ \A d \in S : docs[d].state = "due"
      BY DEF Available
    <2>4. UNCHANGED <<older, pc, hand, current, held, fresh, unguarded>> /\ Fault
      BY <1>3 DEF NextForStateLost, threadVars
    <2>5. /\ docs' \in [Documents -> Document]
          /\ \A d \in S : docs'[d].state = docs[d].state
          /\ \A d \in Documents \ S : docs'[d] = docs[d]
      BY <2>1, <2>2, <2>3, LeaseAllDocs, RuntimeType
    <2>6. TypeOK'
      BY <2>4, <2>5, FaultType DEF TypeOK
    <2>7. ControlInv'
      BY <2>1, <2>3, <2>4, <2>5 DEF TypeOK, ControlInv
    <2> QED BY <2>6, <2>7
  <1>4. ASSUME NEW t \in Callbacks, NEW d \in Documents, Find(t, d)
        PROVE  TypeOK' /\ ControlInv'
    <2>1. t \in Threads
      BY DEF Threads
    <2>2. TypeOK'
      BY <1>4, <2>1, CosmosAssumption DEF Find, TypeOK
    <2>3. ControlInv'
      BY <1>4, <2>1 DEF Find, TypeOK, ControlInv
    <2> QED BY <2>2, <2>3
  <1>5. ASSUME NEW t \in Threads, NEW d \in Documents, AcquireLease(t, d)
        PROVE  TypeOK' /\ ControlInv'
    <2>1. LeaseAll({d}, RuntimeOf[t])
      BY <1>5, AcquireDocs, RuntimeType DEF AcquireLease
    <2>2. /\ docs' \in [Documents -> Document]
          /\ docs'[d].state = docs[d].state
          /\ \A e \in Documents \ {d} : docs'[e] = docs[e]
      BY <2>1, LeaseAllDocs, RuntimeType
    <2>3. TypeOK'
      BY <1>5, <2>2 DEF AcquireLease, TypeOK, bounds
    <2>4. ControlInv'
      BY <1>5, <2>2 DEF AcquireLease, TypeOK, ControlInv
    <2> QED BY <2>3, <2>4
  <1>6. ASSUME NEW t \in Threads, NEW d \in Documents, AcquireThrows(t, d)
        PROVE  TypeOK' /\ ControlInv'
    <2>1. UNCHANGED <<docs, older, faults, callbacks>> /\ Abandon(t)
      BY <1>6 DEF AcquireThrows, bounds
    <2>2. TypeOK'
      BY <2>1, AbandonStep DEF TypeOK
    <2>3. ControlInv'
      BY <2>1, AbandonControl
    <2> QED BY <2>2, <2>3
  <1>7. ASSUME NEW t \in Threads, NEW d \in Documents, AcquireFails(t, d)
        PROVE  TypeOK' /\ ControlInv'
    <2>1. UNCHANGED older /\ Abandon(t) /\ Fault /\ d \in hand[t]
      BY <1>7 DEF AcquireFails
    <2>2. UNCHANGED docs \/ LeaseAll({d}, RuntimeOf[t])
      BY <1>7, AcquireDocs, RuntimeType DEF AcquireFails
    <2>3. /\ docs' \in [Documents -> Document]
          /\ docs'[d].state = docs[d].state
          /\ \A e \in Documents \ {d} : docs'[e] = docs[e]
      BY <2>2, LeaseAllDocs, RuntimeType DEF TypeOK
    <2>4. TypeOK'
      BY <2>1, <2>3, AbandonStep, FaultType DEF TypeOK
    <2>5. ControlInv'
      BY <2>1, <2>3, AbandonControl DEF ControlInv
    <2> QED BY <2>4, <2>5
  <1>8. ASSUME NEW t \in Threads, NEW state \in {"due", "left"},
               pc[t] = "save", Finish(t), SaveItem(t, state),
               older' \in {older, Newest(current[t])}, UNCHANGED <<current, bounds>>
        PROVE  TypeOK' /\ ControlInv'
    <2>1. current[t] \in Documents /\ current[t] \in hand[t]
      BY <1>8 DEF TypeOK, ControlInv
    <2>2. /\ docs' \in [Documents -> Document]
          /\ docs'[current[t]] = Saved(state)
          /\ \A d \in Documents \ {current[t]} : docs'[d] = docs[d]
          /\ fresh' \in [Threads -> SUBSET Documents]
      BY <1>8, <2>1, SaveItemDocs
    <2>3. /\ held' \in [Threads -> [Documents -> Ages]]
          /\ hand' \in [Threads -> SUBSET Documents]
      BY <1>8, <2>1, SaveHand DEF Finish
    <2>4. unguarded' \in [Threads -> SUBSET Documents]
      BY <1>8, <2>3, SaveItemUnguarded
    <2>5. older' \subseteq Documents \X Documents
      BY <1>8, <2>1, NewestType DEF TypeOK
    <2>6. pc' \in [Threads -> {"idle", "work", "save", "break", "down"}]
      BY <1>8 DEF Finish, TypeOK
    <2>7. TypeOK'
      BY <1>8, <2>2, <2>3, <2>4, <2>5, <2>6 DEF TypeOK, bounds
    <2>8. ControlInv'
      <3>1. \A d \in Documents :
              docs'[d] = docs[d] \/ docs'[d] \in {Saved("due"), Saved("left")}
        BY <2>2
      <3>2. /\ hand'[t] \subseteq hand[t] /\ pc'[t] = "break" /\ current'[t] \in Documents
            /\ \A u \in Threads \ {t} :
                 hand'[u] = hand[u] /\ pc'[u] = pc[u] /\ current'[u] = current[u]
        BY <1>8, <2>1 DEF Finish, TypeOK
      <3> QED BY <3>1, <3>2, SavedControl DEF ControlInv
    <2> QED BY <2>7, <2>8
  <1>9. ASSUME NEW t \in Threads, SaveRepeats(t)
        PROVE  TypeOK' /\ ControlInv'
    <2>1. current[t] \in Documents /\ current[t] \in hand[t]
      BY <1>9 DEF SaveRepeats, TypeOK, ControlInv
    <2>2. PICK state \in {"due", "left"} : SaveItem(t, state)
      BY <1>9 DEF SaveRepeats
    <2>3. /\ docs' \in [Documents -> Document]
          /\ docs'[current[t]] = Saved(state)
          /\ \A d \in Documents \ {current[t]} : docs'[d] = docs[d]
          /\ fresh' \in [Threads -> SUBSET Documents]
      BY <2>1, <2>2, SaveItemDocs
    <2>4. UNCHANGED <<pc, hand, current, held>> /\ Fault
      BY <1>9 DEF SaveRepeats
    <2>5. unguarded' \in [Threads -> SUBSET Documents]
      BY <2>2, <2>4, SaveItemUnguarded DEF TypeOK
    <2>6. older' \subseteq Documents \X Documents
      BY <1>9, <2>1, NewestType DEF SaveRepeats, TypeOK
    <2>7. TypeOK'
      BY <2>3, <2>4, <2>5, <2>6, FaultType DEF TypeOK
    <2>8. ControlInv'
      <3>1. \A d \in Documents :
              docs'[d] = docs[d] \/ docs'[d] \in {Saved("due"), Saved("left")}
        BY <2>3
      <3> QED BY <2>4, <3>1, SavedControl DEF ControlInv
    <2> QED BY <2>7, <2>8
  <1>10. ASSUME NEW t \in Threads, SaveFails(t)
         PROVE  TypeOK' /\ ControlInv'
    <2>1. current[t] \in Documents /\ current[t] \in hand[t]
      BY <1>10 DEF SaveFails, TypeOK, ControlInv
    <2>2. Fault /\ Drop({t}) /\ pc' = [pc EXCEPT ![t] = "idle"]
      BY <1>10 DEF SaveFails
    <2>3. /\ docs' \in [Documents -> Document]
          /\ \A d \in Documents :
               docs'[d] = docs[d] \/ docs'[d] \in {Saved("due"), Saved("left")}
          /\ fresh' \in [Threads -> SUBSET Documents]
          /\ unguarded' \in [Threads -> SUBSET Documents]
          /\ older' \subseteq Documents \X Documents
      <3>1. CASE /\ UNCHANGED <<docs, older>>
                 /\ fresh' = [fresh EXCEPT ![t] = {}]
                 /\ unguarded' = [unguarded EXCEPT ![t] = {}]
        BY <3>1 DEF TypeOK
      <3>2. CASE /\ \E state \in {"due", "left"} : SaveItem(t, state)
                 /\ older' = Newest(current[t])
        <4>1. PICK state \in {"due", "left"} : SaveItem(t, state)
          BY <3>2
        <4>2. older' \subseteq Documents \X Documents
          BY <3>2, <2>1, NewestType DEF TypeOK
        <4>3. unguarded' \in [Threads -> SUBSET Documents]
          BY <2>2, <4>1, DropType, SaveItemUnguarded
        <4> QED BY <4>1, <4>2, <4>3, <2>1, SaveItemDocs
      <3> QED BY <1>10, <3>1, <3>2 DEF SaveFails
    <2>4. TypeOK'
      BY <2>2, <2>3, DropType, FaultType DEF TypeOK
    <2>5. ControlInv'
      <3>1. /\ hand'[t] = {} /\ pc'[t] = "idle"
            /\ \A u \in Threads \ {t} :
                 hand'[u] = hand[u] /\ pc'[u] = pc[u] /\ current'[u] = current[u]
        BY <2>2 DEF Drop, TypeOK
      <3> QED BY <2>3, <3>1, SavedControl DEF ControlInv
    <2> QED BY <2>4, <2>5
  <1>11. ASSUME NEW t \in Threads, BreakLease(t)
         PROVE  TypeOK' /\ ControlInv'
    <2>1. TypeOK'
      BY <1>11 DEF BreakLease, TypeOK, bounds
    <2>2. ControlInv'
      BY <1>11 DEF BreakLease, TypeOK, ControlInv
    <2> QED BY <2>1, <2>2
  <1>12. ASSUME NEW t \in Threads, BreakThrows(t) \/ BreakFails(t)
         PROVE  TypeOK' /\ ControlInv'
    <2>1. /\ UNCHANGED <<docs, older, callbacks>>
          /\ Abandon(t) /\ faults' \in 0 .. MaxFaults
      BY <1>12, FaultType DEF BreakThrows, BreakFails, bounds, TypeOK
    <2>2. TypeOK'
      BY <2>1, AbandonStep DEF TypeOK
    <2>3. ControlInv'
      BY <2>1, AbandonControl
    <2> QED BY <2>2, <2>3
  <1>13. ASSUME NEW r \in Crashing, Crash(r)
         PROVE  TypeOK' /\ ControlInv'
    <2>1. ThreadsOf(r) \in SUBSET Threads /\ Drop(ThreadsOf(r)) /\ Fault
      BY <1>13 DEF Crash, ThreadsOf
    <2>2. TypeOK'
      BY <1>13, <2>1, DropType, FaultType DEF Crash, TypeOK
    <2>3. ControlInv'
      BY <1>13, <2>1 DEF Crash, TypeOK, ControlInv, Drop
    <2> QED BY <2>2, <2>3
  <1>14. ASSUME NEW r \in Crashing, Restart(r)
         PROVE  TypeOK' /\ ControlInv'
    <2>1. TypeOK'
      BY <1>14 DEF Restart, TypeOK, bounds
    <2>2. ControlInv'
      BY <1>14 DEF Restart, TypeOK, ControlInv, ThreadsOf
    <2> QED BY <2>1, <2>2
  <1>15. ASSUME TimePasses, UNCHANGED bounds \/ Fault
         PROVE  TypeOK' /\ ControlInv'
    <2>1. TypeOK'
      BY <1>15, TimePassesDocs, FaultType DEF TimePasses, TypeOK, bounds
    <2>2. ControlInv'
      BY <1>15, TimePassesDocs DEF TimePasses, TypeOK, ControlInv
    <2> QED BY <2>1, <2>2
  <1>16. CASE UNCHANGED vars
    BY <1>16 DEF vars, TypeOK, ControlInv
  <1> QED
    BY <1>1, <1>2, <1>3, <1>4, <1>5, <1>6, <1>7, <1>8, <1>9, <1>10, <1>11,
       <1>12, <1>13, <1>14, <1>15, <1>16
    DEF Next, Update, CallFails, Tick, Overrun, SaveTransition, SaveUnchanged

(* The type invariant of the Cosmos stores. *)
THEOREM TypeCorrect == Spec => []TypeOK
  <1>1. TypeOK /\ ControlInv /\ [Next]_vars => (TypeOK /\ ControlInv)'
    BY NextControl
  <1> QED BY InitControl, <1>1, PTL DEF Spec

-----------------------------------------------------------------------------
(* The steps, by what they do to the leases and to those who count on them *)

(* No copy that a thread keeps in hand becomes stale. *)
KeepsFresh ==
  \A u \in Threads : \A d \in hand[u] \cap hand'[u] : d \in fresh[u] => d \in fresh'[u]

(* A copy whose lease was given back is not the stored one. *)
FreshApart ==
  \A u \in Threads : fresh'[u] \cap unguarded'[u] \subseteq fresh[u] \cap unguarded[u]

(* Nobody starts to count on a lease, and nobody is misled. *)
Kept(u, d) == Guarded(u, d) /\ held'[u][d] = held[u][d]

NobodyMisled ==
  \A u \in Threads, d \in Documents : Misled(u, d)' => Misled(u, d)

(* The leases stay as they are. *)
QuietForm ==
  /\ \A d \in Documents :
       /\ docs'[d].lease = docs[d].lease
       /\ docs[d].lease # Null => docs'[d].age = docs[d].age
  /\ \A u \in Threads, d \in Documents : Guarded(u, d)' => Kept(u, d)
  /\ NobodyMisled
  /\ KeepsFresh
  /\ FreshApart

(* A stored procedure leases documents that are free, expired or one's own. *)
LeaseForm(t, S) ==
  /\ LeaseAll(S, RuntimeOf[t])
  /\ \A d \in S : docs[d].lease \in {Null, RuntimeOf[t]} \/ Expired(docs[d].age)
  /\ \A u \in Threads, d \in Documents :
       Guarded(u, d)' => Kept(u, d) \/ (u = t /\ d \in S)
  /\ NobodyMisled
  /\ KeepsFresh
  /\ FreshApart

(* saveItem writes a document without a lease. *)
SaveForm(t) ==
  /\ pc[t] = "save"
  /\ \E state \in {"due", "left"} : SaveItem(t, state)
  /\ \A u \in Threads :
       /\ hand'[u] \subseteq hand[u]
       /\ pc'[u] = "save" =>
            pc[u] = "save" /\ current'[u] = current[u] /\ current[u] \in hand'[u]
       /\ \A d \in hand'[u] : held'[u][d] = held[u][d]

LEMMA SameCounts ==
  ASSUME NEW u \in Threads, NEW d \in Documents,
         hand'[u] = hand[u], held'[u] = held[u], unguarded'[u] = unguarded[u],
         pc'[u] = "save" => pc[u] = "save" /\ current'[u] = current[u]
  PROVE  /\ Guarded(u, d)' => Kept(u, d)
         /\ Misled(u, d)' => Misled(u, d)
  BY DEF Guarded, Misled, Kept, CountsOn, Expired

LEMMA NoCounts ==
  ASSUME NEW u \in Threads, NEW d \in Documents,
         pc'[u] # "save", u \in Loops => hand'[u] = {}
  PROVE  ~Guarded(u, d)' /\ ~Misled(u, d)'
  BY DEF Guarded, Misled, CountsOn

LEMMA AbandonForm ==
  ASSUME TypeOK, NEW t \in Threads, Abandon(t)
  PROVE  /\ \A u \in Threads, d \in Documents : Guarded(u, d)' => Kept(u, d)
         /\ NobodyMisled
         /\ KeepsFresh /\ FreshApart
  <1>1. /\ pc'[t] = "idle" /\ hand'[t] = {}
        /\ \A u \in Threads \ {t} :
             /\ hand'[u] = hand[u] /\ pc'[u] = pc[u] /\ current'[u] = current[u]
             /\ held'[u] = held[u] /\ fresh'[u] = fresh[u]
             /\ unguarded'[u] = unguarded[u]
    BY AbandonStep
  <1>2. ASSUME NEW u \in Threads, NEW d \in Documents
        PROVE  (Guarded(u, d)' => Kept(u, d)) /\ (Misled(u, d)' => Misled(u, d))
    <2>1. CASE u = t
      BY <1>1, <2>1, NoCounts
    <2>2. CASE u # t
      BY <1>1, <2>2, SameCounts
    <2> QED BY <2>1, <2>2
  <1>3. fresh'[t] = {}
    BY DEF Abandon, TypeOK
  <1>4. KeepsFresh /\ FreshApart
    BY <1>1, <1>3 DEF KeepsFresh, FreshApart
  <1> QED BY <1>2, <1>4 DEF NobodyMisled

LEMMA AvailableLease ==
  ASSUME TypeOK, NEW S \in SUBSET Available, NEW r
  PROVE  /\ S \in SUBSET Documents
         /\ \A d \in S : docs[d].lease \in {Null, r} \/ Expired(docs[d].age)
  BY DEF Available

(* Every step has one of the forms, or is the passing of time. *)
LEMMA StepForms ==
  ASSUME TypeOK, ControlInv, [Next]_vars
  PROVE  \/ QuietForm
         \/ \E t \in Threads, S \in SUBSET Documents : LeaseForm(t, S)
         \/ \E t \in Threads : SaveForm(t)
         \/ TimePasses /\ UpdateInTime
  <1> DEFINE Form == \/ QuietForm
                     \/ \E t \in Threads, S \in SUBSET Documents : LeaseForm(t, S)
                     \/ \E t \in Threads : SaveForm(t)
                     \/ TimePasses /\ UpdateInTime
  <1>1. ASSUME NEW d \in Documents, Create(d)
        PROVE  Form
    <2>1. \A e \in Documents :
            /\ docs'[e].lease = docs[e].lease
            /\ docs[e].lease # Null => docs'[e].age = docs[e].age
      BY <1>1 DEF Create, ControlInv, TypeOK
    <2>2. UNCHANGED <<pc, hand, current, held, fresh, unguarded>>
      BY <1>1 DEF Create, threadVars
    <2>3. \A u \in Threads, e \in Documents :
            (Guarded(u, e)' => Kept(u, e)) /\ (Misled(u, e)' => Misled(u, e))
      BY <2>2, SameCounts
    <2> QED BY <2>1, <2>2, <2>3 DEF QuietForm, NobodyMisled, KeepsFresh, FreshApart
  <1>2. ASSUME NEW t \in Loops, NextForState(t)
        PROVE  Form
    <2>1. t \in Threads
      BY DEF Threads
    <2>2. PICK S \in SUBSET Available :
            /\ LeaseAll(S, RuntimeOf[t])
            /\ pc' = [pc EXCEPT ![t] = "work"]
            /\ hand' = [hand EXCEPT ![t] = S]
            /\ fresh' = [fresh EXCEPT ![t] = S]
            /\ unguarded' = [unguarded EXCEPT ![t] = {}]
            /\ held' = [held EXCEPT ![t] = NotHeld]
      BY <1>2 DEF NextForState
    <2>3. UNCHANGED current
      BY <1>2 DEF NextForState
    <2>4. /\ pc'[t] = "work" /\ hand'[t] = S /\ fresh'[t] = S /\ unguarded'[t] = {}
          /\ \A u \in Threads \ {t} :
               /\ hand'[u] = hand[u] /\ pc'[u] = pc[u] /\ current'[u] = current[u]
               /\ held'[u] = held[u] /\ fresh'[u] = fresh[u]
               /\ unguarded'[u] = unguarded[u]
      BY <2>1, <2>2, <2>3 DEF TypeOK
    <2>5. ASSUME NEW u \in Threads, NEW d \in Documents
          PROVE  /\ Guarded(u, d)' => Kept(u, d) \/ (u = t /\ d \in S)
                 /\ Misled(u, d)' => Misled(u, d)
      <3>1. CASE u = t
        BY <2>4, <3>1 DEF Guarded, Misled, CountsOn
      <3>2. CASE u # t
        BY <2>4, <3>2, SameCounts
      <3> QED BY <3>1, <3>2
    <2>6. KeepsFresh /\ FreshApart
      BY <2>4 DEF KeepsFresh, FreshApart
    <2>7. LeaseForm(t, S) /\ S \in SUBSET Documents
      BY <2>2, <2>5, <2>6, AvailableLease DEF LeaseForm, NobodyMisled
    <2> QED BY <2>1, <2>7
  <1>3. ASSUME NEW t \in Loops, NextForStateLost(t)
        PROVE  Form
    <2>1. t \in Threads
      BY DEF Threads
    <2>2. PICK S \in SUBSET Available : LeaseAll(S, RuntimeOf[t])
      BY <1>3 DEF NextForStateLost
    <2>3. UNCHANGED <<pc, hand, current, held, fresh, unguarded>>
      BY <1>3 DEF NextForStateLost, threadVars
    <2>4. \A u \in Threads, d \in Documents :
            (Guarded(u, d)' => Kept(u, d)) /\ (Misled(u, d)' => Misled(u, d))
      BY <2>3, SameCounts
    <2>5. LeaseForm(t, S) /\ S \in SUBSET Documents
      BY <2>2, <2>3, <2>4, AvailableLease DEF LeaseForm, NobodyMisled, KeepsFresh, FreshApart
    <2> QED BY <2>1, <2>5
  <1>4. ASSUME NEW t \in Callbacks, NEW d \in Documents, Find(t, d)
        PROVE  Form
    <2>1. t \in Threads /\ t \notin Loops
      BY CosmosAssumption DEF Threads
    <2>2. /\ UNCHANGED <<docs, current, held, fresh, unguarded>>
          /\ pc'[t] = "work"
          /\ \A u \in Threads \ {t} : hand'[u] = hand[u] /\ pc'[u] = pc[u]
      BY <1>4, <2>1 DEF Find, TypeOK
    <2>3. ASSUME NEW u \in Threads, NEW e \in Documents
          PROVE  (Guarded(u, e)' => Kept(u, e)) /\ (Misled(u, e)' => Misled(u, e))
      <3>1. CASE u = t
        BY <2>1, <2>2, <3>1, NoCounts
      <3>2. CASE u # t
        BY <2>2, <3>2, SameCounts
      <3> QED BY <3>1, <3>2
    <2> QED BY <2>2, <2>3 DEF QuietForm, NobodyMisled, KeepsFresh, FreshApart
  <1>5. ASSUME NEW t \in Threads, NEW d \in Documents, AcquireLease(t, d)
        PROVE  Form
    <2>1. LeaseAll({d}, RuntimeOf[t]) /\ {d} \in SUBSET Documents
      BY <1>5, AcquireDocs, RuntimeType DEF AcquireLease
    <2>2. \A e \in {d} : docs[e].lease \in {Null, RuntimeOf[t]} \/ Expired(docs[e].age)
      BY <1>5 DEF AcquireLease, LockedByAnother
    <2>3. /\ current'[t] = d /\ UNCHANGED <<hand, held, fresh>>
          /\ unguarded'[t] = unguarded[t] \ {d}
          /\ \A u \in Threads \ {t} :
               pc'[u] = pc[u] /\ current'[u] = current[u] /\ unguarded'[u] = unguarded[u]
      BY <1>5 DEF AcquireLease, TypeOK
    <2>4. ASSUME NEW u \in Threads, NEW e \in Documents
          PROVE  /\ Guarded(u, e)' => Kept(u, e) \/ (u = t /\ e \in {d})
                 /\ Misled(u, e)' => Misled(u, e)
      <3>1. CASE u = t
        BY <2>3, <3>1 DEF Guarded, Misled, CountsOn, Kept, Expired
      <3>2. CASE u # t
        BY <2>3, <3>2, SameCounts
      <3> QED BY <3>1, <3>2
    <2>5. LeaseForm(t, {d})
      BY <2>1, <2>2, <2>3, <2>4 DEF LeaseForm, NobodyMisled, KeepsFresh, FreshApart
    <2> QED BY <2>1, <2>5
  <1>6. ASSUME NEW t \in Threads, NEW d \in Documents, AcquireFails(t, d)
        PROVE  Form
    <2>1. Abandon(t)
      BY <1>6 DEF AcquireFails
    <2>2. CASE UNCHANGED docs
      BY <2>1, <2>2, AbandonForm DEF QuietForm
    <2>3. CASE /\ ~LockedByAnother(d, RuntimeOf[t])
               /\ docs' = [docs EXCEPT ![d] = Leased(@, RuntimeOf[t])]
      <3>1. LeaseAll({d}, RuntimeOf[t]) /\ {d} \in SUBSET Documents
        BY <2>3, AcquireDocs, RuntimeType
      <3>2. \A e \in {d} : docs[e].lease \in {Null, RuntimeOf[t]} \/ Expired(docs[e].age)
        BY <2>3 DEF LockedByAnother
      <3>3. LeaseForm(t, {d})
        BY <2>1, <3>1, <3>2, AbandonForm DEF LeaseForm
      <3> QED BY <3>1, <3>3
    <2> QED BY <1>6, <2>2, <2>3 DEF AcquireFails
  <1>7. ASSUME NEW t \in Threads, Abandon(t), UNCHANGED docs
        PROVE  Form
    BY <1>7, AbandonForm DEF QuietForm
  <1>8. ASSUME NEW t \in Threads, NEW state \in {"due", "left"},
               pc[t] = "save", Finish(t), SaveItem(t, state), UNCHANGED current
        PROVE  Form
    <2>1. current[t] \in Documents
      BY <1>8 DEF TypeOK, ControlInv
    <2>2. /\ hand'[t] = hand[t] \ {current[t]}
          /\ \A u \in Threads \ {t} : hand'[u] = hand[u]
          /\ \A u \in Threads : \A d \in hand'[u] : held'[u][d] = held[u][d]
      BY <1>8, <2>1, SaveHand DEF Finish
    <2>3. pc'[t] = "break" /\ \A u \in Threads \ {t} : pc'[u] = pc[u]
      BY <1>8 DEF Finish, TypeOK
    <2>4. \A u \in Threads : pc'[u] = "save" =>
            pc[u] = "save" /\ current'[u] = current[u] /\ current[u] \in hand'[u]
      BY <1>8, <2>2, <2>3 DEF ControlInv
    <2>5. SaveForm(t)
      BY <1>8, <2>2, <2>4 DEF SaveForm
    <2> QED BY <2>5
  <1>9. ASSUME NEW t \in Threads, SaveRepeats(t)
        PROVE  Form
    <2>1. SaveForm(t)
      BY <1>9 DEF SaveRepeats, SaveForm, ControlInv
    <2> QED BY <2>1
  <1>10. ASSUME NEW t \in Threads, SaveFails(t)
         PROVE  Form
    <2>1. /\ pc[t] = "save" /\ pc'[t] = "idle" /\ hand'[t] = {}
          /\ \A u \in Threads \ {t} :
               hand'[u] = hand[u] /\ pc'[u] = pc[u] /\ current'[u] = current[u] /\ held'[u] = held[u]
      BY <1>10 DEF SaveFails, Drop, TypeOK
    <2>2. CASE /\ UNCHANGED docs
               /\ fresh' = [fresh EXCEPT ![t] = {}]
               /\ unguarded' = [unguarded EXCEPT ![t] = {}]
      <3>1. /\ fresh'[t] = {}
            /\ \A u \in Threads \ {t} : fresh'[u] = fresh[u] /\ unguarded'[u] = unguarded[u]
        BY <2>2 DEF TypeOK
      <3>2. ASSUME NEW u \in Threads, NEW d \in Documents
            PROVE  (Guarded(u, d)' => Kept(u, d)) /\ (Misled(u, d)' => Misled(u, d))
        <4>1. CASE u = t
          BY <2>1, <4>1, NoCounts
        <4>2. CASE u # t
          BY <2>1, <3>1, <4>2, SameCounts
        <4> QED BY <4>1, <4>2
      <3>3. KeepsFresh /\ FreshApart
        BY <2>1, <3>1 DEF KeepsFresh, FreshApart
      <3> QED BY <2>2, <3>2, <3>3 DEF QuietForm, NobodyMisled
    <2>3. CASE \E state \in {"due", "left"} : SaveItem(t, state)
      <3>1. \A u \in Threads :
              /\ hand'[u] \subseteq hand[u]
              /\ pc'[u] = "save" =>
                   pc[u] = "save" /\ current'[u] = current[u] /\ current[u] \in hand'[u]
              /\ \A d \in hand'[u] : held'[u][d] = held[u][d]
        BY <2>1 DEF ControlInv
      <3>2. SaveForm(t)
        BY <2>1, <2>3, <3>1 DEF SaveForm
      <3> QED BY <3>2
    <2> QED BY <1>10, <2>2, <2>3 DEF SaveFails
  <1>11. ASSUME UNCHANGED <<docs, hand, held, fresh, unguarded>>,
                \A u \in Threads : pc'[u] = "save" => pc[u] = "save" /\ current'[u] = current[u]
         PROVE  Form
    <2>1. \A u \in Threads, d \in Documents :
            (Guarded(u, d)' => Kept(u, d)) /\ (Misled(u, d)' => Misled(u, d))
      BY <1>11, SameCounts
    <2> QED BY <1>11, <2>1 DEF QuietForm, NobodyMisled, KeepsFresh, FreshApart
  <1>12. ASSUME NEW t \in Threads, BreakLease(t)
         PROVE  Form
    <2>1. \A u \in Threads : pc'[u] = "save" => pc[u] = "save" /\ current'[u] = current[u]
      BY <1>12 DEF BreakLease, TypeOK
    <2> QED BY <1>12, <2>1, <1>11 DEF BreakLease
  <1>13. ASSUME NEW r \in Crashing, Crash(r)
         PROVE  Form
    <2>1. /\ UNCHANGED docs
          /\ \A u \in ThreadsOf(r) : pc'[u] = "down" /\ hand'[u] = {} /\ fresh'[u] = {}
          /\ \A u \in Threads \ ThreadsOf(r) :
               /\ hand'[u] = hand[u] /\ pc'[u] = pc[u] /\ current'[u] = current[u]
               /\ held'[u] = held[u] /\ fresh'[u] = fresh[u]
               /\ unguarded'[u] = unguarded[u]
      BY <1>13 DEF Crash, Drop, ThreadsOf
    <2>2. ASSUME NEW u \in Threads, NEW d \in Documents
          PROVE  (Guarded(u, d)' => Kept(u, d)) /\ (Misled(u, d)' => Misled(u, d))
      <3>1. CASE u \in ThreadsOf(r)
        BY <2>1, <3>1, NoCounts
      <3>2. CASE u \notin ThreadsOf(r)
        BY <2>1, <3>2, SameCounts
      <3> QED BY <3>1, <3>2
    <2>3. KeepsFresh /\ FreshApart
      BY <2>1 DEF KeepsFresh, FreshApart
    <2> QED BY <2>1, <2>2, <2>3 DEF QuietForm, NobodyMisled
  <1>14. ASSUME NEW r \in Crashing, Restart(r)
         PROVE  Form
    <2>1. \A u \in Threads : pc'[u] = "save" => pc[u] = "save" /\ current'[u] = current[u]
      BY <1>14 DEF Restart, TypeOK
    <2> QED BY <1>14, <2>1, <1>11 DEF Restart
  <1>15. ASSUME UNCHANGED vars
         PROVE  Form
    <2>1. UNCHANGED <<docs, pc, hand, current, held, fresh, unguarded>>
      BY <1>15 DEF vars
    <2> QED BY <2>1, <1>11
  <1>16. ASSUME NEW t \in Threads, SaveTransition(t) \/ SaveUnchanged(t)
         PROVE  Form
    BY <1>16, <1>8 DEF SaveTransition, SaveUnchanged
  <1>17. ASSUME NEW t \in Threads,
                \/ \E d \in Documents : AcquireThrows(t, d)
                \/ BreakThrows(t) \/ BreakFails(t)
         PROVE  Form
    BY <1>17, <1>7 DEF AcquireThrows, BreakThrows, BreakFails
  <1>18. ASSUME Tick \/ Overrun
         PROVE  Form
    BY <1>18 DEF Tick, Overrun
  <1> HIDE DEF Form
  <1>19. Form
    BY <1>1, <1>2, <1>3, <1>4, <1>5, <1>6, <1>9, <1>10, <1>12, <1>13, <1>14,
       <1>15, <1>16, <1>17, <1>18
    DEF Next, Update, CallFails
  <1> QED BY <1>19 DEF Form

-----------------------------------------------------------------------------
(* Exclusion *)

(* Whoever counts on a lease that was not given back has it, and a loop's   *)
(* lease is no older than the time the loop has had the entity.             *)
CoverInv ==
  /\ \A t \in Threads, d \in Documents : Guarded(t, d) =>
       docs[d].lease = RuntimeOf[t] /\ ~Expired(docs[d].age)
  /\ \A t \in Loops : \A d \in hand[t] \ unguarded[t] :
       ~Expired(held[t][d]) => docs[d].age <= held[t][d]

(* A copy whose lease was given back under it was saved by somebody.        *)
FreshInv == \A t \in Threads : fresh[t] \cap unguarded[t] = {}

IndInv == TypeOK /\ ControlInv /\ CoverInv /\ FreshInv

LEMMA InitCover == Init => CoverInv /\ FreshInv
  BY DEF Init, CoverInv, FreshInv, Guarded, CountsOn, Threads

LEMMA ZeroNotExpired == 0 \in Ages /\ ~Expired(0)
  BY CosmosAssumption DEF Expired, Ages

LEMMA GuardedInHand ==
  ASSUME ControlInv, NEW t \in Threads, NEW d \in Documents, Guarded(t, d)
  PROVE  d \in hand[t] \ unguarded[t]
  BY DEF ControlInv, Guarded, CountsOn

LEMMA NewlyCovered ==
  ASSUME IndInv, TypeOK',
         \A u \in Threads, d \in Documents : Guarded(u, d)' =>
           \/ /\ Kept(u, d)
              /\ docs'[d].lease = docs[d].lease
              /\ docs'[d].age = docs[d].age
           \/ docs'[d].lease = RuntimeOf[u] /\ docs'[d].age = 0
  PROVE  CoverInv'
  <1>1. ASSUME NEW u \in Threads, NEW d \in Documents, Guarded(u, d)'
        PROVE  docs'[d].lease = RuntimeOf[u] /\ ~Expired(docs'[d].age)
    BY <1>1, ZeroNotExpired DEF IndInv, CoverInv, Kept
  <1>2. ASSUME NEW u \in Loops, NEW d \in hand'[u] \ unguarded'[u], ~Expired(held'[u][d])
        PROVE  docs'[d].age <= held'[u][d]
    <2>1. u \in Threads /\ d \in Documents /\ held'[u][d] \in Ages
      BY DEF TypeOK, Threads
    <2>2. Guarded(u, d)'
      BY <1>2 DEF Guarded, CountsOn, Expired
    <2>3. CASE /\ Kept(u, d)
               /\ docs'[d].age = docs[d].age
      <3>1. d \in hand[u] \ unguarded[u]
        BY <2>1, <2>3, GuardedInHand DEF IndInv, Kept
      <3>2. ~Expired(held[u][d])
        BY <1>2, <2>3 DEF Kept
      <3>3. docs[d].age <= held[u][d]
        BY <3>1, <3>2 DEF IndInv, CoverInv
      <3> QED BY <2>3, <3>3 DEF Kept
    <2>4. CASE docs'[d].age = 0
      BY <2>1, <2>4, CosmosAssumption DEF Ages
    <2> QED BY <2>1, <2>2, <2>3, <2>4
  <1> QED BY <1>1, <1>2 DEF CoverInv, Expired

(* A save leaves nobody guarded who counted on the lease it gave back. *)
LEMMA SaveGuards ==
  ASSUME IndInv, NEW t \in Threads, SaveForm(t)
  PROVE  /\ current[t] \in Documents
         /\ docs' \in [Documents -> Document]
         /\ docs'[current[t]].lease = Null
         /\ \A d \in Documents \ {current[t]} : docs'[d] = docs[d]
         /\ \A u \in Threads, d \in Documents : Guarded(u, d)' =>
              Kept(u, d) /\ d # current[t]
         /\ \A u \in Threads, d \in Documents : Misled(u, d)' =>
              Misled(u, d) \/ (Guarded(u, d) /\ d = current[t])
  <1>1. /\ pc[t] = "save" /\ current[t] \in hand[t]
        /\ current[t] \in Documents /\ TypeOK /\ ControlInv
    BY DEF SaveForm, IndInv, ControlInv, TypeOK
  <1>2. PICK state \in {"due", "left"} : SaveItem(t, state)
    BY DEF SaveForm
  <1>3. /\ docs' \in [Documents -> Document]
        /\ docs'[current[t]].lease = Null
        /\ \A d \in Documents \ {current[t]} : docs'[d] = docs[d]
    BY <1>1, <1>2, SaveItemDocs DEF Saved
  <1>4. \A u \in Threads :
          unguarded'[u] = (IF TakesFrom(t, u) THEN unguarded[u] \cup {current[t]}
                           ELSE unguarded[u]) \cap hand'[u]
    BY <1>2 DEF SaveItem
  <1>5. ASSUME NEW u \in Threads, NEW d \in Documents, CountsOn(u, d)'
        PROVE  CountsOn(u, d) /\ d \in hand'[u] /\ held'[u][d] = held[u][d]
    BY <1>5 DEF SaveForm, CountsOn, Expired
  <1>6. ASSUME NEW u \in Threads, NEW d \in Documents, Guarded(u, d)'
        PROVE  Kept(u, d) /\ d # current[t]
    <2>1. CountsOn(u, d) /\ d \in hand'[u] /\ d \notin unguarded'[u] /\ held'[u][d] = held[u][d]
      BY <1>5, <1>6 DEF Guarded
    <2>2. d \notin unguarded[u] /\ (TakesFrom(t, u) => d # current[t])
      BY <1>4, <2>1
    <2>3. Guarded(u, d) /\ Kept(u, d)
      BY <2>1, <2>2 DEF Guarded, Kept
    <2>4. ASSUME ~TakesFrom(t, u), d = current[t]
          PROVE  FALSE
      <3>1. RuntimeOf[u] # RuntimeOf[t] /\ Guarded(t, current[t])
        BY <1>1, <2>4 DEF TakesFrom, Guarded, CountsOn
      <3>2. docs[d].lease = RuntimeOf[u] /\ docs[d].lease = RuntimeOf[t]
        BY <1>1, <2>3, <2>4, <3>1 DEF IndInv, CoverInv
      <3> QED BY <3>1, <3>2
    <2> QED BY <2>2, <2>3, <2>4
  <1>7. ASSUME NEW u \in Threads, NEW d \in Documents, Misled(u, d)'
        PROVE  Misled(u, d) \/ (Guarded(u, d) /\ d = current[t])
    <2>1. CountsOn(u, d) /\ d \in unguarded'[u]
      BY <1>5, <1>7 DEF Misled
    <2>2. d \in unguarded[u] \/ d = current[t]
      BY <1>4, <2>1
    <2> QED BY <2>1, <2>2 DEF Misled, Guarded
  <1> QED BY <1>1, <1>3, <1>6, <1>7

LEMMA NextCover ==
  ASSUME IndInv, [Next]_vars
  PROVE  CoverInv'
  <1>0. TypeOK /\ ControlInv /\ TypeOK'
    BY NextControl DEF IndInv
  <1>1. CASE QuietForm
    <2>1. ASSUME NEW u \in Threads, NEW d \in Documents, Guarded(u, d)'
          PROVE  /\ Kept(u, d)
                 /\ docs'[d].lease = docs[d].lease
                 /\ docs'[d].age = docs[d].age
      <3>1. Kept(u, d)
        BY <1>1, <2>1 DEF QuietForm
      <3>2. docs[d].lease = RuntimeOf[u]
        BY <3>1 DEF Kept, IndInv, CoverInv
      <3>3. docs[d].lease # Null
        BY <3>2, RuntimeType, CosmosAssumption
      <3> QED BY <1>1, <3>1, <3>3 DEF QuietForm
    <2> QED BY <1>0, <2>1, NewlyCovered
  <1>2. ASSUME NEW t \in Threads, NEW S \in SUBSET Documents, LeaseForm(t, S)
        PROVE  CoverInv'
    <2>1. /\ \A d \in S : docs'[d].lease = RuntimeOf[t] /\ docs'[d].age = 0
          /\ \A d \in Documents \ S : docs'[d] = docs[d]
      BY <1>0, <1>2, LeaseAllDocs, RuntimeType DEF LeaseForm
    <2>2. ASSUME NEW u \in Threads, NEW d \in Documents, Guarded(u, d)'
          PROVE  \/ Kept(u, d) /\ d \notin S
                 \/ d \in S /\ RuntimeOf[t] = RuntimeOf[u]
      <3>1. CASE u = t /\ d \in S
        BY <3>1
      <3>2. CASE Kept(u, d) /\ d \in S
        <4>1. docs[d].lease = RuntimeOf[u] /\ ~Expired(docs[d].age)
          BY <3>2 DEF Kept, IndInv, CoverInv
        <4>2. docs[d].lease \in {Null, RuntimeOf[t]}
          BY <1>2, <3>2, <4>1 DEF LeaseForm
        <4> QED BY <3>2, <4>1, <4>2, RuntimeType, CosmosAssumption
      <3> QED BY <1>2, <2>2, <3>1, <3>2 DEF LeaseForm
    <2> QED BY <1>0, <2>1, <2>2, NewlyCovered
  <1>3. ASSUME NEW t \in Threads, SaveForm(t)
        PROVE  CoverInv'
    BY <1>0, <1>3, SaveGuards, NewlyCovered
  <1>4. CASE TimePasses /\ UpdateInTime
    <2>1. UNCHANGED <<pc, hand, current, unguarded>>
      BY <1>4 DEF TimePasses
    <2>2. ASSUME NEW u \in Loops, NEW d \in hand[u] \ unguarded[u], ~Expired(held'[u][d])
          PROVE  /\ docs'[d].lease = RuntimeOf[u]
                 /\ docs'[d].age <= held'[u][d]
                 /\ ~Expired(docs'[d].age)
      <3>1. u \in Threads /\ d \in Documents /\ held[u][d] \in Ages /\ docs[d].age \in Ages
        BY <1>0 DEF Threads, TypeOK, Document
      <3>2. held'[u][d] = Aged(held[u][d])
        BY <1>0, <1>4, <3>1, TimePassesDocs
      <3>3. ~Expired(held[u][d]) /\ held'[u][d] = held[u][d] + 1
        BY <2>2, <3>1, <3>2, AgedType
      <3>4. Guarded(u, d)
        BY <3>3 DEF Guarded, CountsOn
      <3>5. docs[d].lease = RuntimeOf[u] /\ docs[d].age <= held[u][d]
        BY <3>1, <3>3, <3>4 DEF IndInv, CoverInv
      <3>6. docs'[d].lease = docs[d].lease /\ docs'[d].age = Aged(docs[d].age)
        BY <1>0, <1>4, <3>1, <3>5, TimePassesDocs, RuntimeType, CosmosAssumption
      <3>7. docs'[d].age <= held'[u][d] /\ docs'[d].age \in Ages /\ held'[u][d] \in Ages
        BY <3>1, <3>2, <3>3, <3>5, <3>6, AgedType, CosmosAssumption DEF Aged, Ages, Expired
      <3>8. ~Expired(docs'[d].age)
        BY <2>2, <3>7, CosmosAssumption DEF Expired, Ages
      <3> QED BY <3>5, <3>6, <3>7, <3>8
    <2>3. ASSUME NEW u \in Threads, pc[u] = "save", current[u] \notin unguarded[u]
          PROVE  /\ docs'[current[u]].lease = RuntimeOf[u]
                 /\ ~Expired(docs'[current[u]].age)
      <3>1. current[u] \in Documents /\ Guarded(u, current[u])
        BY <1>0, <2>3 DEF ControlInv, TypeOK, Guarded, CountsOn
      <3>2. /\ docs[current[u]].lease = RuntimeOf[u]
            /\ docs[current[u]].age < LeaseDuration
            /\ docs[current[u]].age \in Ages
        BY <1>0, <1>4, <2>3, <3>1 DEF IndInv, CoverInv, UpdateInTime, TypeOK, Document
      <3>3. /\ docs'[current[u]].lease = RuntimeOf[u]
            /\ docs'[current[u]].age = Aged(docs[current[u]].age)
        BY <1>0, <1>4, <3>1, <3>2, TimePassesDocs, RuntimeType, CosmosAssumption
      <3>4. ~Expired(Aged(docs[current[u]].age))
        BY <3>2, CosmosAssumption DEF Aged, Expired, Ages
      <3> QED BY <3>3, <3>4
    <2>4. ASSUME NEW u \in Threads, NEW d \in Documents, Guarded(u, d)'
          PROVE  docs'[d].lease = RuntimeOf[u] /\ ~Expired(docs'[d].age)
      <3>1. CASE u \in Loops /\ d \in hand'[u] /\ ~Expired(held'[u][d])
        BY <2>1, <2>2, <2>4, <3>1 DEF Guarded
      <3>2. CASE pc'[u] = "save" /\ current'[u] = d
        BY <2>1, <2>3, <2>4, <3>2 DEF Guarded
      <3> QED BY <2>4, <3>1, <3>2 DEF Guarded, CountsOn, Expired
    <2> QED BY <2>1, <2>2, <2>4 DEF CoverInv, Expired
  <1> QED BY <1>0, <1>1, <1>2, <1>3, <1>4, StepForms

LEMMA NextFresh ==
  ASSUME IndInv, [Next]_vars
  PROVE  FreshInv'
  <1>1. CASE FreshApart
    BY <1>1 DEF FreshApart, IndInv, FreshInv
  <1>2. ASSUME NEW t \in Threads, SaveForm(t)
        PROVE  FreshInv'
    <2>1. PICK state \in {"due", "left"} : SaveItem(t, state)
      BY <1>2 DEF SaveForm
    <2>2. ASSUME NEW u \in Threads
          PROVE  /\ fresh'[u] = fresh[u] \ {current[t]}
                 /\ unguarded'[u] \subseteq unguarded[u] \cup {current[t]}
      BY <2>1 DEF SaveItem
    <2> QED BY <2>2 DEF IndInv, FreshInv
  <1>3. CASE TimePasses
    BY <1>3 DEF TimePasses, IndInv, FreshInv
  <1> QED BY <1>1, <1>2, <1>3, StepForms DEF IndInv, QuietForm, LeaseForm

LEMMA Inductive == Spec => []IndInv
  <1>1. Init => IndInv
    BY InitControl, InitCover DEF IndInv
  <1>2. IndInv /\ [Next]_vars => IndInv'
    BY NextControl, NextCover, NextFresh DEF IndInv
  <1> QED BY <1>1, <1>2, PTL DEF Spec

(* saveItem looks at no lease, and still overwrites nobody's: the caller    *)
(* has it and it has not run out, unless a thread of the same runtime or an *)
(* earlier attempt of the same save gave it back.                           *)
THEOREM SavesAreCovered == Spec => []SaveUnderOwnLease
  <1>1. IndInv => SaveUnderOwnLease
    BY DEF IndInv, CoverInv, ControlInv, TypeOK, SaveUnderOwnLease, Guarded, CountsOn
  <1> QED BY Inductive, <1>1, PTL

(* What nextForState handed out stays leased to that runtime until the      *)
(* lease runs out, unless it was given back under the loop.                 *)
THEOREM Exclusive == Spec => []ExclusiveUntilExpiry
  <1>1. IndInv => ExclusiveUntilExpiry
    BY DEF IndInv, CoverInv, TypeOK, ExclusiveUntilExpiry, Guarded, CountsOn, Threads
  <1> QED BY Inductive, <1>1, PTL

(* Whoever overwrites what a loop works on within its lease is a thread of  *)
(* its own runtime, or one whose own lease was given back under it.         *)
THEOREM NeverStale == Spec => StaleOnlyAfterExpiry
  <1> DEFINE Overwritten(t, d) ==
        \E u \in Threads : /\ pc[u] = "save" /\ current[u] = d
                           /\ RuntimeOf[u] = RuntimeOf[t] \/ d \in unguarded[u]
             Step == \A t \in Loops : \A d \in hand[t] \cap hand'[t] :
                       /\ d \in fresh[t] \ fresh'[t]
                       /\ ~Expired(held[t][d])
                       => Overwritten(t, d)
  <1>1. ASSUME IndInv, IndInv', [Next]_vars
        PROVE  Step
    <2> SUFFICES ASSUME NEW t \in Loops, NEW d \in hand[t] \cap hand'[t],
                        d \in fresh[t] \ fresh'[t], ~Expired(held[t][d])
                 PROVE  Overwritten(t, d)
      OBVIOUS
    <2>0. t \in Threads /\ d \in Documents /\ TypeOK /\ ControlInv
      BY <1>1 DEF Threads, IndInv, TypeOK
    <2>1. ~KeepsFresh
      BY <2>0 DEF KeepsFresh
    <2>2. ~TimePasses
      BY DEF TimePasses
    <2>3. PICK u \in Threads : SaveForm(u)
      BY <1>1, <2>0, <2>1, <2>2, StepForms DEF QuietForm, LeaseForm
    <2>4. PICK state \in {"due", "left"} : SaveItem(u, state)
      BY <2>3 DEF SaveForm
    <2>5. fresh'[t] = fresh[t] \ {current[u]}
      BY <2>0, <2>4 DEF SaveItem
    <2>6. pc[u] = "save" /\ current[u] = d
      BY <2>3, <2>5 DEF SaveForm
    <2>7. ASSUME RuntimeOf[u] # RuntimeOf[t], d \notin unguarded[u]
          PROVE  FALSE
      <3>1. Guarded(u, d)
        BY <2>6, <2>7 DEF Guarded, CountsOn
      <3>2. d \notin unguarded[t]
        BY <1>1, <2>0 DEF IndInv, FreshInv
      <3>3. Guarded(t, d)
        BY <3>2 DEF Guarded, CountsOn
      <3> QED BY <1>1, <2>0, <2>7, <3>1, <3>3 DEF IndInv, CoverInv
    <2> QED BY <2>6, <2>7
  <1> QED BY <1>1, Inductive, PTL DEF Spec, StaleOnlyAfterExpiry

-----------------------------------------------------------------------------
(* Refinement of Lease *)

(* The abstract variables *)
LeaseHolder == [d \in Documents |-> docs[d].lease]
RunOut == {d \in Documents : docs[d].lease # Null /\ Expired(docs[d].age)}
Working == {p \in Threads \X Documents : Guarded(p[1], p[2])}
MisledPairs == {p \in Threads \X Documents : Misled(p[1], p[2])}

(* The actions of Lease, in terms of the abstract variables *)
LEMMA GrantStep ==
  ASSUME NEW S \in SUBSET Documents, NEW t \in Threads,
         \A d \in S : LeaseHolder[d] \in {Null, RuntimeOf[t]} \/ d \in RunOut,
         LeaseHolder' = [d \in Documents |-> IF d \in S THEN RuntimeOf[t] ELSE LeaseHolder[d]],
         RunOut' = RunOut \ S,
         Working' \subseteq Working \cup ({t} \X S),
         MisledPairs' \subseteq MisledPairs
  PROVE  Promise!LeaseNext
  <1>1. Promise!Grant(S, t)
    BY DEF Promise!Grant, Promise!MayLease, LeaseHolder, RunOut, Working, MisledPairs,
           Guarded, Misled, CountsOn, Expired
  <1> QED BY <1>1 DEF Promise!LeaseNext

LEMMA GiveBackStep ==
  ASSUME NEW i \in Documents, NEW t \in Threads,
         <<t, i>> \in Working \cup MisledPairs,
         LeaseHolder' = [LeaseHolder EXCEPT ![i] = Null],
         RunOut' = RunOut \ {i},
         Working' \subseteq Working \ {p \in Working : p[2] = i},
         MisledPairs' \subseteq MisledPairs \cup {p \in Working : p[2] = i}
  PROVE  Promise!LeaseNext
  <1>1. Promise!GiveBack(i)
    BY DEF Promise!GiveBack, Promise!On, LeaseHolder, RunOut, Working, MisledPairs,
           Guarded, Misled, CountsOn, Expired
  <1>2. Promise!Release(i, t) \/ Promise!Trample(i, t)
    BY <1>1 DEF Promise!Release, Promise!Trample, Working, MisledPairs
  <1> QED BY <1>2 DEF Promise!LeaseNext

LEMMA ExpireStep ==
  ASSUME NEW S \in SUBSET {d \in Documents : LeaseHolder[d] # Null},
         LeaseHolder' = LeaseHolder,
         RunOut' = RunOut \cup S,
         Working' \subseteq {p \in Working : p[2] \notin RunOut'},
         MisledPairs' \subseteq MisledPairs
  PROVE  Promise!LeaseNext
  <1>1. Promise!Expire(S)
    BY DEF Promise!Expire, LeaseHolder, RunOut, Working, MisledPairs,
           Guarded, Misled, CountsOn, Expired
  <1> QED BY <1>1 DEF Promise!LeaseNext, LeaseHolder

LEMMA GiveUpStep ==
  ASSUME LeaseHolder' = LeaseHolder, RunOut' = RunOut,
         Working' \subseteq Working, MisledPairs' \subseteq MisledPairs
  PROVE  Promise!LeaseNext
  <1>1. Promise!GiveUp
    BY DEF Promise!GiveUp, LeaseHolder, RunOut, Working, MisledPairs,
           Guarded, Misled, CountsOn, Expired
  <1> QED BY <1>1 DEF Promise!LeaseNext

LEMMA MisledShrinks ==
  ASSUME NobodyMisled
  PROVE  MisledPairs' \subseteq MisledPairs
  BY DEF NobodyMisled, MisledPairs

LEMMA StepSimulation ==
  ASSUME IndInv, IndInv', [Next]_vars
  PROVE  Promise!LeaseNext
  <1>0. TypeOK /\ ControlInv /\ TypeOK' /\ CoverInv'
    BY DEF IndInv
  <1>1. CASE QuietForm
    <2>1. LeaseHolder' = LeaseHolder
      BY <1>1 DEF QuietForm, LeaseHolder
    <2>2. RunOut' = RunOut
      BY <1>1 DEF QuietForm, RunOut, Expired
    <2>3. Working' \subseteq Working
      BY <1>1 DEF QuietForm, Working, Kept
    <2> QED BY <1>1, <2>1, <2>2, <2>3, MisledShrinks, GiveUpStep DEF QuietForm
  <1>2. ASSUME NEW t \in Threads, NEW S \in SUBSET Documents, LeaseForm(t, S)
        PROVE  Promise!LeaseNext
    <2>1. /\ \A d \in S : docs'[d].lease = RuntimeOf[t] /\ docs'[d].age = 0
          /\ \A d \in Documents \ S : docs'[d] = docs[d]
      BY <1>0, <1>2, LeaseAllDocs, RuntimeType DEF LeaseForm
    <2>2. \A d \in S : LeaseHolder[d] \in {Null, RuntimeOf[t]} \/ d \in RunOut
      BY <1>2 DEF LeaseForm, LeaseHolder, RunOut
    <2>3. LeaseHolder' = [d \in Documents |-> IF d \in S THEN RuntimeOf[t] ELSE LeaseHolder[d]]
      BY <2>1 DEF LeaseHolder
    <2>4. RunOut' = RunOut \ S
      BY <2>1, ZeroNotExpired DEF RunOut
    <2>5. Working' \subseteq Working \cup ({t} \X S)
      BY <1>2 DEF LeaseForm, Working, Kept
    <2> QED BY <1>2, <2>2, <2>3, <2>4, <2>5, MisledShrinks, GrantStep DEF LeaseForm
  <1>3. ASSUME NEW t \in Threads, SaveForm(t)
        PROVE  Promise!LeaseNext
    <2>1. /\ current[t] \in Documents
          /\ docs'[current[t]].lease = Null
          /\ \A d \in Documents \ {current[t]} : docs'[d] = docs[d]
          /\ \A u \in Threads, d \in Documents : Guarded(u, d)' =>
               Kept(u, d) /\ d # current[t]
          /\ \A u \in Threads, d \in Documents : Misled(u, d)' =>
               Misled(u, d) \/ (Guarded(u, d) /\ d = current[t])
      BY <1>3, SaveGuards
    <2>2. <<t, current[t]>> \in Working \cup MisledPairs
      BY <1>3, <2>1 DEF SaveForm, Working, MisledPairs, Guarded, Misled, CountsOn
    <2>3. LeaseHolder' = [LeaseHolder EXCEPT ![current[t]] = Null]
      BY <2>1 DEF LeaseHolder
    <2>4. RunOut' = RunOut \ {current[t]}
      BY <2>1 DEF RunOut
    <2>5. Working' \subseteq Working \ {p \in Working : p[2] = current[t]}
      BY <2>1 DEF Working, Kept
    <2>6. MisledPairs' \subseteq MisledPairs \cup {p \in Working : p[2] = current[t]}
      BY <2>1 DEF Working, MisledPairs
    <2> QED BY <2>1, <2>2, <2>3, <2>4, <2>5, <2>6, GiveBackStep
  <1>4. CASE TimePasses /\ UpdateInTime
    <2>1. \A d \in Documents :
            /\ docs'[d].lease = docs[d].lease
            /\ docs[d].lease # Null => docs'[d].age = Aged(docs[d].age)
            /\ docs[d].age \in Ages
      BY <1>0, <1>4, TimePassesDocs DEF TypeOK, Document
    <2>2. LeaseHolder' = LeaseHolder
      BY <2>1 DEF LeaseHolder
    <2>3. RunOut' = RunOut \cup RunOut'
      BY <2>1 DEF RunOut, Aged
    <2>4. RunOut' \in SUBSET {d \in Documents : LeaseHolder[d] # Null}
      BY <2>1 DEF RunOut, LeaseHolder
    <2>5. ASSUME NEW u \in Threads, NEW d \in Documents, CountsOn(u, d)'
          PROVE  CountsOn(u, d)
      <3>1. CASE u \in Loops /\ d \in hand'[u] /\ ~Expired(held'[u][d])
        <4>1. d \in hand[u] /\ held[u][d] \in Ages
          BY <1>0, <1>4, <3>1 DEF TimePasses, TypeOK
        <4>2. held'[u][d] = Aged(held[u][d])
          BY <1>0, <1>4, <3>1, <4>1, TimePassesDocs
        <4>3. ~Expired(held[u][d])
          BY <3>1, <4>1, <4>2, AgedType
        <4> QED BY <3>1, <4>1, <4>3 DEF CountsOn
      <3>2. CASE pc'[u] = "save" /\ current'[u] = d
        BY <1>4, <3>2 DEF TimePasses, CountsOn
      <3> QED BY <2>5, <3>1, <3>2 DEF CountsOn, Expired
    <2>6. UNCHANGED unguarded
      BY <1>4 DEF TimePasses
    <2>7. Working' \subseteq {p \in Working : p[2] \notin RunOut'}
      <3>1. ASSUME NEW u \in Threads, NEW d \in Documents, Guarded(u, d)'
            PROVE  Guarded(u, d) /\ d \notin RunOut'
        <4>1. Guarded(u, d)
          BY <2>5, <2>6, <3>1 DEF Guarded
        <4>2. ~Expired(docs'[d].age)
          BY <1>0, <3>1 DEF CoverInv, Expired
        <4> QED BY <4>1, <4>2 DEF RunOut, Expired
      <3> QED BY <3>1 DEF Working
    <2>8. MisledPairs' \subseteq MisledPairs
      BY <2>5, <2>6 DEF MisledPairs, Misled
    <2> QED BY <2>2, <2>3, <2>4, <2>7, <2>8, ExpireStep
  <1> QED BY <1>0, <1>1, <1>2, <1>3, <1>4, StepForms

(* The documents' leases are leases as the module Lease promises them, for  *)
(* all the threads of all the runtimes: granted when free, expired or one's *)
(* own, given back by a thread that has them, and trampled on only by one   *)
(* that counts on a lease given back under it.                              *)
THEOREM LeasesRefine == Spec => ImplementsLease
  <1>1. Init => Promise!LeaseInit
    BY DEF Init, Promise!LeaseInit, Guarded, Misled, CountsOn
  <1>2. IndInv /\ IndInv' /\ [Next]_vars => [Promise!LeaseNext]_(Promise!vars)
    BY StepSimulation
  <1> QED
    BY Inductive, <1>1, <1>2, PTL DEF Spec, ImplementsLease, Promise!LeaseSpec
=============================================================================
