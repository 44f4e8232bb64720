---------------------------- MODULE LeaseProofs ------------------------------
(***************************************************************************)
(* What follows from the promise alone, whatever the store.                *)
(***************************************************************************)
EXTENDS Lease, TLAPS

(* Whoever works on an item under a lease has it. *)
LeaseInv ==
  /\ holder \in [Items -> Holders \cup {Nobody}]
  /\ expired \subseteq Items
  /\ working \subseteq Users \X Items
  /\ WorkUnderLease

(* In every store that keeps the promise, whoever works on an entity under  *)
(* a lease that was not given back does so in the name of its holder: two   *)
(* such threads that work on one entity are threads of one runtime.         *)
THEOREM LeaseExcludes ==
  ASSUME Nobody \notin Holders, HolderOf \in [Users -> Holders]
  PROVE  LeaseSpec => []WorkUnderLease
  <1>1. LeaseInit => LeaseInv
    BY DEF LeaseInit, LeaseInv, WorkUnderLease
  <1>2. LeaseInv /\ [LeaseNext]_vars => LeaseInv'
    <2> SUFFICES ASSUME LeaseInv, [LeaseNext]_vars
                 PROVE  LeaseInv'
      OBVIOUS
    <2> USE DEF LeaseInv, WorkUnderLease
    <2>1. ASSUME NEW S \in SUBSET Items, NEW u \in Users, Grant(S, u)
          PROVE  LeaseInv'
      <3>1. /\ holder' \in [Items -> Holders \cup {Nobody}]
            /\ \A i \in S : holder'[i] = HolderOf[u]
            /\ \A i \in Items \ S : holder'[i] = holder[i]
            /\ expired' = expired \ S
        BY <2>1 DEF Grant
      <3>2. working' \subseteq working \cup ({u} \X S) /\ working' \subseteq Users \X Items
        BY <2>1 DEF Grant
      <3>3. ASSUME NEW p \in working'
            PROVE  holder'[p[2]] = HolderOf[p[1]] /\ p[2] \notin expired'
        <4>1. CASE p \in {u} \X S
          BY <3>1, <4>1
        <4>2. CASE p \in working
          <5>1. /\ holder[p[2]] = HolderOf[p[1]] /\ p[2] \notin expired
                /\ p[1] \in Users /\ p[2] \in Items /\ HolderOf[p[1]] \in Holders
            BY <4>2
          <5>2. p[2] \in S => HolderOf[p[1]] = HolderOf[u]
            BY <2>1, <5>1 DEF Grant, MayLease
          <5> QED BY <3>1, <5>1, <5>2
        <4> QED BY <3>2, <4>1, <4>2
      <3> QED BY <3>1, <3>2, <3>3
    <2>2. ASSUME NEW i \in Items, GiveBack(i)
          PROVE  LeaseInv'
      <3>1. /\ holder' \in [Items -> Holders \cup {Nobody}]
            /\ \A j \in Items \ {i} : holder'[j] = holder[j]
            /\ expired' = expired \ {i}
        BY <2>2 DEF GiveBack
      <3>2. ASSUME NEW p \in working'
            PROVE  holder'[p[2]] = HolderOf[p[1]] /\ p[2] \notin expired'
        <4>1. /\ p \in working /\ p[2] # i /\ p \in Users \X Items
              /\ holder[p[2]] = HolderOf[p[1]] /\ p[2] \notin expired
          BY <2>2 DEF GiveBack, On
        <4> QED BY <3>1, <4>1
      <3>3. working' \subseteq working
        BY <2>2 DEF GiveBack
      <3> QED BY <3>1, <3>2, <3>3
    <2>3. ASSUME NEW S \in SUBSET {i \in Items : holder[i] # Nobody}, Expire(S)
          PROVE  LeaseInv'
      BY <2>3 DEF Expire
    <2>4. CASE GiveUp
      BY <2>4 DEF GiveUp
    <2>5. CASE UNCHANGED vars
      BY <2>5 DEF vars
    <2> QED BY <2>1, <2>2, <2>3, <2>4, <2>5 DEF LeaseNext, Release, Trample
  <1>3. LeaseInv => WorkUnderLease
    BY DEF LeaseInv
  <1> QED BY <1>1, <1>2, <1>3, PTL DEF LeaseSpec
=============================================================================
