------------------------------- MODULE Lease --------------------------------
(***************************************************************************)
(* What the stores promise about leases (spi/core-spi, StateEntityStore    *)
(* and LeaseContext): a holder that leases an item works on it alone until *)
(* it gives the lease back or the lease expires.  A holder is known by its *)
(* name, and several users, the threads of a runtime, work in one name:    *)
(* what one of them gives back is lost to the others, who do not notice.   *)
(* The stores differ in how they keep the lease; CosmosStore implements    *)
(* this specification.                                                     *)
(***************************************************************************)

CONSTANTS
  Items,     \* the entities that can be leased
  Users,     \* the threads
  Holders,   \* the runtimes
  HolderOf,  \* the runtime a thread belongs to
  Nobody     \* no holder

VARIABLES
  holder,    \* who has the lease of an item
  expired,   \* the items whose lease has run out and was not renewed
  working,   \* the users and items that are covered by a lease, as pairs
  misled     \* those that count on a lease that somebody has given back

vars == <<holder, expired, working, misled>>

LeaseInit ==
  /\ holder = [i \in Items |-> Nobody]
  /\ expired = {}
  /\ working = {}
  /\ misled = {}

MayLease(i, u) == holder[i] \in {Nobody, HolderOf[u]} \/ i \in expired

(* nextForState leases a batch, acquireLease one item.  The user starts to   *)
(* work on them, or never learns that they are leased.                      *)
Grant(S, u) ==
  /\ \A i \in S : MayLease(i, u)
  /\ holder' = [i \in Items |-> IF i \in S THEN HolderOf[u] ELSE holder[i]]
  /\ expired' = expired \ S
  /\ working' \subseteq working \cup ({u} \X S)
  /\ misled' \subseteq misled

On(i) == {p \in working : p[2] = i}

GiveBack(i) ==
  /\ holder' = [holder EXCEPT ![i] = Nobody]
  /\ expired' = expired \ {i}
  /\ working' \subseteq working \ On(i)
  /\ misled' \subseteq misled \cup On(i)

(* Saving an entity, or breakLease, by a user that works on the item: the   *)
(* lease is gone, also for the other users of the same holder.              *)
Release(i, u) == <<u, i>> \in working /\ GiveBack(i)

(* A user whose lease was given back under it saves all the same, and takes *)
(* the lease from whoever has it by now.                                    *)
Trample(i, u) == <<u, i>> \in misled /\ GiveBack(i)

(* Time passes: some leases run out.  Nobody may rely on them any longer.   *)
Expire(S) ==
  /\ expired' = expired \cup S
  /\ working' \subseteq {p \in working : p[2] \notin expired'}
  /\ misled' \subseteq misled
  /\ holder' = holder

(* A user stops working without giving the lease back, or crashes. *)
GiveUp ==
  /\ working' \subseteq working
  /\ misled' \subseteq misled
  /\ UNCHANGED <<holder, expired>>

LeaseNext ==
  \/ GiveUp
  \/ \E i \in Items, u \in Users : Release(i, u) \/ Trample(i, u)
  \/ \E S \in SUBSET {i \in Items : holder[i] # Nobody} : Expire(S)
  \/ \E S \in SUBSET Items, u \in Users : Grant(S, u)

LeaseSpec == LeaseInit /\ [][LeaseNext]_vars

(* What a lease is for: whoever works on an item under a lease that was not *)
(* given back works in the name of its holder, and the lease has not run    *)
(* out.  So no two holders work on one item.                                *)
WorkUnderLease ==
  \A p \in working : holder[p[2]] = HolderOf[p[1]] /\ p[2] \notin expired
=============================================================================
