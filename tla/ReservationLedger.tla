------------------------- MODULE ReservationLedger -------------------------
(***************************************************************************)
(* tos::ReservationLedger (src/core/reservation.cpp).                      *)
(*                                                                         *)
(* The ledger is sharded by execution domain; every method locks one shard *)
(* for its whole body, so each method is one action here.  A call that     *)
(* returns a failure without touching the shard is a stuttering step and   *)
(* has no disjunct of its own; acquire() is the exception, because it      *)
(* advances the shard's counter before it can run out of identities.       *)
(*                                                                         *)
(* DomainAccounting is split into one function per field.  Its five        *)
(* counters are one function of the reservation state they count.          *)
(***************************************************************************)
EXTENDS Integers, FiniteSets

CONSTANTS
    Domain,         \* execution domains
    Kind,           \* resource kinds (kResourceKindCount of them)
    Shard,          \* shards of the ledger
    ShardOf,        \* shard_for_domain: Domain -> Shard
    Stamp,          \* (domain, capability, policy) generation triples
    Capacities,     \* capacity vectors that may be published
    Requests,       \* amount vectors that may be requested
    Word,           \* 2^64: the modulus of std::uint64_t
    IdSpace,        \* 2^kShardShift: identities per shard
    CounterBound    \* bound of the model on a shard's counter

Vector == [Kind -> 0 .. Word - 1]

ASSUME ShardAssumption == ShardOf \in [Domain -> Shard]
ASSUME WordAssumption == Word \in Nat \ {0} /\ IdSpace \in Nat /\ CounterBound \in Nat
ASSUME VectorAssumption == Capacities \subseteq Vector /\ Requests \subseteq Vector

VARIABLES
    reservations,   \* the shards' maps: reservation id -> Reservation
    counter,        \* Shard::counter
    capacity, reserved, committed,  \* DomainAccounting: Domain -> Kind -> word
    count           \* DomainAccounting: Domain -> ReservationState -> Nat

vars == <<reservations, counter, capacity, reserved, committed, count>>

Held == {"Active", "Committed"}
Closed == {"Released", "RolledBack", "Invalidated"}
ReservationState == Held \union Closed

\* A reservation id carries its shard in its top byte (shard_prefix,
\* shard_for_id) and the shard's counter below it.
Id == Shard \X Nat
Reservation == [domain: Domain, stamp: Stamp, amounts: Vector, state: ReservationState]

\* std::uint64_t arithmetic on the sum or difference of two words.
Wrap(x) == IF x < 0 THEN x + Word ELSE IF x >= Word THEN x - Word ELSE x
Add(f, g) == [k \in Kind |-> Wrap(f[k] + g[k])]
Sub(f, g) == [k \in Kind |-> Wrap(f[k] - g[k])]

\* The reservations of domain d in state s, and what a set of reservations
\* adds up to in kind k: one <<id, unit>> pair per unit it holds.
In(d, s) == {i \in DOMAIN reservations : reservations[i].domain = d /\ reservations[i].state = s}
Units(f, ids, k) == {u \in ids \X (1 .. Word) : u[2] <= f[u[1]].amounts[k]}
Total(ids, k) == Cardinality(Units(reservations, ids, k))

Init ==
    /\ reservations = [i \in {} |-> 0]
    /\ counter = [s \in Shard |-> 0]
    /\ capacity = [d \in Domain |-> [k \in Kind |-> 0]]
    /\ reserved = [d \in Domain |-> [k \in Kind |-> 0]]
    /\ committed = [d \in Domain |-> [k \in Kind |-> 0]]
    /\ count = [d \in Domain |-> [s \in ReservationState |-> 0]]

-----------------------------------------------------------------------------
(* Operations *)

\* Variant: the capacity is replaced without looking at what is held.
set_capacity_Unchecked(d, c) ==
    /\ capacity' = [capacity EXCEPT ![d] = c]
    /\ UNCHANGED <<reservations, counter, reserved, committed, count>>

set_capacity(d, c) ==
    /\ \A k \in Kind : Wrap(reserved[d][k] + committed[d][k]) <= c[k]
    /\ capacity' = [capacity EXCEPT ![d] = c]
    /\ UNCHANGED <<reservations, counter, reserved, committed, count>>

\* Variant: held + want > capacity, which wraps for a large request.
has_capacity_Wrapping(d, amounts) ==
    \A k \in Kind :
        Wrap(Wrap(reserved[d][k] + committed[d][k]) + amounts[k]) <= capacity[d][k]

has_capacity(d, amounts) ==
    \A k \in Kind :
        \/ amounts[k] = 0
        \/ /\ amounts[k] <= capacity[d][k]
           /\ Wrap(reserved[d][k] + committed[d][k]) <= capacity[d][k] - amounts[k]

NewId(d) == <<ShardOf[d], counter[ShardOf[d]] + 1>>

acquire(d, stamp, amounts) ==
    /\ has_capacity(d, amounts)
    /\ counter' = [counter EXCEPT ![ShardOf[d]] = @ + 1]
    /\ IF counter[ShardOf[d]] + 1 >= IdSpace
       THEN UNCHANGED <<reservations, reserved, count>>     \* id_space_exhausted
       ELSE /\ LET r == [domain |-> d, stamp |-> stamp, amounts |-> amounts, state |-> "Active"]
               IN  reservations' = [i \in DOMAIN reservations \union {NewId(d)} |->
                                       IF i = NewId(d) THEN r ELSE reservations[i]]
            /\ reserved' = [reserved EXCEPT ![d] = Add(@, amounts)]
            /\ count' = [count EXCEPT ![d]["Active"] = @ + 1]
    /\ UNCHANGED <<capacity, committed>>

\* Move reservation id from the state it is in to state s.
SetState(id, s) == reservations' = [reservations EXCEPT ![id].state = s]

commit(id, stamp) ==
    LET r == reservations[id] IN
    /\ id \in DOMAIN reservations
    /\ r.state = "Active"
    /\ r.stamp = stamp
    /\ reserved' = [reserved EXCEPT ![r.domain] = Sub(@, r.amounts)]
    /\ committed' = [committed EXCEPT ![r.domain] = Add(@, r.amounts)]
    /\ count' = [count EXCEPT ![r.domain]["Active"] = @ - 1, ![r.domain]["Committed"] = @ + 1]
    /\ SetState(id, "Committed")
    /\ UNCHANGED <<counter, capacity>>

\* Variant: a second release of the same reservation is let through.
release_Twice(id) ==
    LET r == reservations[id] IN
    /\ id \in DOMAIN reservations
    /\ IF r.state = "Active"
       THEN reserved' = [reserved EXCEPT ![r.domain] = Sub(@, r.amounts)] /\ UNCHANGED committed
       ELSE committed' = [committed EXCEPT ![r.domain] = Sub(@, r.amounts)] /\ UNCHANGED reserved
    /\ count' = [count EXCEPT ![r.domain][r.state] = @ - 1, ![r.domain]["Released"] = @ + 1]
    /\ SetState(id, "Released")
    /\ UNCHANGED <<counter, capacity>>

release(id) ==
    LET r == reservations[id] IN
    /\ id \in DOMAIN reservations
    /\ \/ /\ r.state = "Active"
          /\ reserved' = [reserved EXCEPT ![r.domain] = Sub(@, r.amounts)]
          /\ UNCHANGED committed
       \/ /\ r.state = "Committed"
          /\ committed' = [committed EXCEPT ![r.domain] = Sub(@, r.amounts)]
          /\ UNCHANGED reserved
    /\ count' = [count EXCEPT ![r.domain][r.state] = @ - 1, ![r.domain]["Released"] = @ + 1]
    /\ SetState(id, "Released")
    /\ UNCHANGED <<counter, capacity>>

\* Variant: a committed reservation can be rolled back as if it were active.
rollback_Committed(id) ==
    LET r == reservations[id] IN
    /\ id \in DOMAIN reservations
    /\ r.state \in Held
    /\ reserved' = [reserved EXCEPT ![r.domain] = Sub(@, r.amounts)]
    /\ count' = [count EXCEPT ![r.domain]["Active"] = @ - 1, ![r.domain]["RolledBack"] = @ + 1]
    /\ SetState(id, "RolledBack")
    /\ UNCHANGED <<counter, capacity, committed>>

rollback(id) ==
    LET r == reservations[id] IN
    /\ id \in DOMAIN reservations
    /\ r.state = "Active"
    /\ reserved' = [reserved EXCEPT ![r.domain] = Sub(@, r.amounts)]
    /\ count' = [count EXCEPT ![r.domain]["Active"] = @ - 1, ![r.domain]["RolledBack"] = @ + 1]
    /\ SetState(id, "RolledBack")
    /\ UNCHANGED <<counter, capacity, committed>>

\* Variant: the loop forgets to skip reservations that are already closed.
invalidate_domain_All(d) ==
    LET ids == {i \in DOMAIN reservations : reservations[i].domain = d} IN
    /\ reserved' = [reserved EXCEPT ![d] = [k \in Kind |-> Wrap(@[k] - Total(In(d, "Active"), k))]]
    /\ committed' = [committed EXCEPT ![d] = [k \in Kind |-> Wrap(@[k] - Total(In(d, "Committed"), k))]]
    /\ count' = [count EXCEPT ![d]["Active"] = 0, ![d]["Committed"] = 0,
                              ![d]["Invalidated"] = @ + Cardinality(ids)]
    /\ reservations' = [i \in DOMAIN reservations |->
                           IF i \in ids THEN [reservations[i] EXCEPT !.state = "Invalidated"]
                                        ELSE reservations[i]]
    /\ UNCHANGED <<counter, capacity>>

\* The loop over the shard's reservations, as one step: it runs under the
\* shard's mutex.
invalidate_domain(d) ==
    LET active == In(d, "Active")
        bound  == In(d, "Committed")
    IN
    /\ reserved' = [reserved EXCEPT ![d] = [k \in Kind |-> Wrap(@[k] - Total(active, k))]]
    /\ committed' = [committed EXCEPT ![d] = [k \in Kind |-> Wrap(@[k] - Total(bound, k))]]
    /\ count' = [count EXCEPT ![d]["Active"] = @ - Cardinality(active),
                              ![d]["Committed"] = @ - Cardinality(bound),
                              ![d]["Invalidated"] = @ + Cardinality(active \union bound)]
    /\ reservations' = [i \in DOMAIN reservations |->
                           IF i \in active \union bound
                           THEN [reservations[i] EXCEPT !.state = "Invalidated"]
                           ELSE reservations[i]]
    /\ UNCHANGED <<counter, capacity>>

\* Variant: the counter is set to the adopted identity even when that lowers it.
adopt_ids_Lower(s, n) ==
    /\ counter' = [counter EXCEPT ![s] = n]
    /\ UNCHANGED <<reservations, capacity, reserved, committed, count>>

\* Recovery raises a shard's counter to an identity found in saved state.
adopt_ids(s, n) ==
    /\ n > counter[s]
    /\ counter' = [counter EXCEPT ![s] = n]
    /\ UNCHANGED <<reservations, capacity, reserved, committed, count>>

Next ==
    \/ \E d \in Domain, c \in Capacities : set_capacity(d, c)
    \/ \E d \in Domain, t \in Stamp, a \in Requests :
          counter[ShardOf[d]] < CounterBound /\ acquire(d, t, a)
    \/ \E i \in DOMAIN reservations, t \in Stamp : commit(i, t)
    \/ \E i \in DOMAIN reservations : release(i)
    \/ \E i \in DOMAIN reservations : rollback(i)
    \/ \E d \in Domain : invalidate_domain(d)
    \/ \E s \in Shard, n \in 1 .. IdSpace - 1 : adopt_ids(s, n)

Spec == Init /\ [][Next]_vars

-----------------------------------------------------------------------------
(* Properties *)

\* The state has the shape the C++ types give it: every accounting field is a
\* word, and the id of a reservation names the shard of its domain and a value
\* the shard's counter has already passed.
TypeOK ==
    /\ DOMAIN reservations \subseteq Id
    /\ IsFiniteSet(DOMAIN reservations)
    /\ reservations \in [DOMAIN reservations -> Reservation]
    /\ \A i \in DOMAIN reservations :
          i[1] = ShardOf[reservations[i].domain] /\ i[2] <= counter[i[1]]
    /\ counter \in [Shard -> Nat]
    /\ capacity \in [Domain -> Vector]
    /\ reserved \in [Domain -> Vector]
    /\ committed \in [Domain -> Vector]
    /\ count \in [Domain -> [ReservationState -> Nat]]

\* set_capacity and acquire together never overcommit a domain: what is held
\* in a kind, as an integer and not as a wrapped word, is within its capacity.
NoOvercommit ==
    \A d \in Domain, k \in Kind : reserved[d][k] + committed[d][k] <= capacity[d][k]

\* ReservationLedger::audit never finds a row that disagrees with the records:
\* the running totals and the two outstanding counts are what a recomputation
\* over the shard's reservations gives, whatever calls came before.
AuditConsistent ==
    \A d \in Domain :
        /\ \A k \in Kind : /\ reserved[d][k] = Total(In(d, "Active"), k)
                           /\ committed[d][k] = Total(In(d, "Committed"), k)
        /\ \A s \in Held : count[d][s] = Cardinality(In(d, s))

\* "must close their accounting exactly once" (reservation.hpp): the closing
\* counters count each closed reservation once, under the way it was closed.
ClosedExactlyOnce ==
    \A d \in Domain, s \in Closed : count[d][s] = Cardinality(In(d, s))

\* A reservation that was released, rolled back or invalidated is never touched
\* again: no later call reopens it, closes it another way or reuses its id.
ClosedForever ==
    [][\A i \in DOMAIN reservations :
          reservations[i].state \in Closed =>
              i \in DOMAIN reservations' /\ reservations'[i] = reservations[i]]_vars

\* The ledger implements the capacity lease it promises its callers: a held
\* reservation is a live lease, and binding one to a dispatch is invisible.
LeaseView ==
    [i \in DOMAIN reservations |->
        [domain |-> reservations[i].domain, amounts |-> reservations[i].amounts,
         live |-> reservations[i].state \in Held]]
Lease == INSTANCE CapacityLease WITH limit <- capacity, leases <- LeaseView
ImplementsLease == Lease!Spec
=============================================================================
