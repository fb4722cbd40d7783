---------------------- MODULE ReservationLedgerProofs ----------------------
(***************************************************************************)
(* Proofs about ReservationLedger for every number of domains, kinds,      *)
(* shards and reservations and every word size.                            *)
(***************************************************************************)
EXTENDS ReservationLedger, FiniteSetTheorems, TLAPS

-----------------------------------------------------------------------------
(* What a set of reservations adds up to *)

\* A finite set of reservations holds finitely many units.
LEMMA UnitsFinite ==
  ASSUME NEW f, NEW ids, IsFiniteSet(ids), NEW k
  PROVE  IsFiniteSet(Units(f, ids, k)) /\ Cardinality(Units(f, ids, k)) \in Nat
<1>1. IsFiniteSet(1 .. Word)
  BY WordAssumption, FS_Interval
<1>2. IsFiniteSet(ids \X (1 .. Word))
  BY <1>1, FS_Product
<1>3. Units(f, ids, k) \subseteq ids \X (1 .. Word)
  BY DEF Units
<1>4. IsFiniteSet(Units(f, ids, k))
  BY <1>2, <1>3, FS_Subset
<1> QED
  BY <1>4, FS_CardinalityType

\* One reservation holds as many units of a kind as its amount says.
LEMMA UnitsOfOne ==
  ASSUME NEW f, NEW i, NEW k, NEW n \in 0 .. Word - 1, f[i].amounts[k] = n
  PROVE  Cardinality(Units(f, {i}, k)) = n
<1>1. n \in Nat /\ n < Word
  BY WordAssumption
<1>2. Units(f, {i}, k) = {i} \X (1 .. n)
  <2> SUFFICES \A u : u \in {i} \X (1 .. Word) /\ u[2] <= f[u[1]].amounts[k] <=> u \in {i} \X (1 .. n)
    BY DEF Units
  <2> QED
    BY <1>1, WordAssumption
<1>3. IsFiniteSet(1 .. n) /\ Cardinality(1 .. n) = n
  BY <1>1, FS_Interval
<1>4. IsFiniteSet({i}) /\ Cardinality({i}) = 1
  BY FS_Singleton
<1>5. Cardinality({i} \X (1 .. n)) = Cardinality({i}) * Cardinality(1 .. n)
  BY <1>3, <1>4, FS_Product
<1>6. 1 * n = n
  BY <1>1
<1> QED
  BY <1>2, <1>3, <1>4, <1>5, <1>6

\* Adding one reservation to a set adds its amount to the total.
LEMMA UnitsAdd ==
  ASSUME NEW f, NEW ids, IsFiniteSet(ids), NEW i, i \notin ids, NEW k,
         NEW n \in 0 .. Word - 1, f[i].amounts[k] = n, NEW all, all = ids \union {i}
  PROVE  Cardinality(Units(f, all, k)) = Cardinality(Units(f, ids, k)) + n
<1> DEFINE A == Units(f, ids, k)
           B == Units(f, {i}, k)
<1>1. Units(f, all, k) = A \union B
  BY DEF Units
<1>2. A \intersect B = {}
  BY DEF Units
<1>3. IsFiniteSet(A) /\ Cardinality(A) \in Nat
  BY UnitsFinite
<1>4. IsFiniteSet(B)
  BY UnitsFinite, FS_Singleton
<1>5. Cardinality(B) = n
  BY UnitsOfOne
<1> HIDE DEF A, B
<1>6. Cardinality(A \union B) = Cardinality(A) + Cardinality(B) - 0
  BY <1>2, <1>3, <1>4, FS_Union, FS_EmptySet
<1>7. Cardinality(A \union B) = Cardinality(A) + n
  BY <1>3, <1>5, <1>6, WordAssumption
<1> QED
  BY <1>1, <1>7 DEF A

\* Taking one reservation out of a set takes its amount off the total.
LEMMA UnitsRemove ==
  ASSUME NEW f, NEW ids, IsFiniteSet(ids), NEW i \in ids, NEW k,
         NEW n \in 0 .. Word - 1, f[i].amounts[k] = n
  PROVE  Cardinality(Units(f, ids \ {i}, k)) = Cardinality(Units(f, ids, k)) - n
<1>1. IsFiniteSet(ids \ {i})
  BY FS_RemoveElement
<1>2. (ids \ {i}) \union {i} = ids /\ i \notin ids \ {i}
  OBVIOUS
<1>3. Cardinality(Units(f, ids, k)) = Cardinality(Units(f, ids \ {i}, k)) + n
  BY <1>1, <1>2, UnitsAdd
<1>4. Cardinality(Units(f, ids \ {i}, k)) \in Nat
  BY <1>1, UnitsFinite
<1> QED
  BY <1>2, <1>3, <1>4, WordAssumption

\* The total depends on nothing but the amounts.
LEMMA UnitsSame ==
  ASSUME NEW f, NEW g, NEW ids, NEW k,
         \A i \in ids : f[i].amounts = g[i].amounts
  PROVE  Units(f, ids, k) = Units(g, ids, k)
BY DEF Units

-----------------------------------------------------------------------------
(* How the sets In(d, s) move *)

\* The part of TypeOK that is about the reservations themselves.
RecordsOK ==
    /\ DOMAIN reservations \subseteq Id
    /\ IsFiniteSet(DOMAIN reservations)
    /\ reservations \in [DOMAIN reservations -> Reservation]
    /\ \A i \in DOMAIN reservations :
          i[1] = ShardOf[reservations[i].domain] /\ i[2] <= counter[i[1]]
    /\ counter \in [Shard -> Nat]

\* The reservations of a domain in one state are finitely many, and their
\* amounts are words.
LEMMA InFinite ==
  ASSUME RecordsOK, NEW d, NEW s
  PROVE  /\ IsFiniteSet(In(d, s))
         /\ Cardinality(In(d, s)) \in Nat
         /\ \A k \in Kind : Total(In(d, s), k) \in Nat
         /\ \A i \in In(d, s), k \in Kind : reservations[i].amounts[k] \in 0 .. Word - 1
<1>1. In(d, s) \subseteq DOMAIN reservations /\ IsFiniteSet(DOMAIN reservations)
  BY DEF In, RecordsOK
<1>2. IsFiniteSet(In(d, s)) /\ Cardinality(In(d, s)) \in Nat
  BY <1>1, FS_Subset, FS_CardinalityType
<1>3. \A k \in Kind : Total(In(d, s), k) \in Nat
  BY <1>2, UnitsFinite DEF Total
<1>4. \A i \in In(d, s), k \in Kind : reservations[i].amounts[k] \in 0 .. Word - 1
  BY <1>1 DEF RecordsOK, Reservation, Vector
<1> QED
  BY <1>2, <1>3, <1>4

\* What SetState(i, t) does to the reservations of domain d in state s: it moves
\* one between two sets and its amount between two totals.
Moved(i, t, d, s) ==
    LET r == reservations[i] IN
    /\ d = r.domain /\ s = r.state =>
          /\ Cardinality(In(d, s))' = Cardinality(In(d, s)) - 1
          /\ \A k \in Kind : Total(In(d, s), k)' = Total(In(d, s), k) - r.amounts[k]
    /\ d = r.domain /\ s = t =>
          /\ Cardinality(In(d, s))' = Cardinality(In(d, s)) + 1
          /\ \A k \in Kind : Total(In(d, s), k)' = Total(In(d, s), k) + r.amounts[k]
    /\ ~(d = r.domain /\ s \in {t, r.state}) =>
          /\ Cardinality(In(d, s))' = Cardinality(In(d, s))
          /\ \A k \in Kind : Total(In(d, s), k)' = Total(In(d, s), k)
    /\ Cardinality(In(d, s))' \in Nat
    /\ \A k \in Kind : Total(In(d, s), k)' \in Nat

\* SetState moves the reservation and nothing else.
LEMMA MoveOne ==
  ASSUME RecordsOK, NEW i \in DOMAIN reservations, NEW t \in ReservationState,
         t # reservations[i].state, SetState(i, t)
  PROVE  \A d \in Domain, s \in ReservationState : Moved(i, t, d, s)
<1> DEFINE r == reservations[i]
<1>0. /\ DOMAIN reservations' = DOMAIN reservations
      /\ reservations'[i] = [r EXCEPT !.state = t]
      /\ \A j \in DOMAIN reservations : j # i => reservations'[j] = reservations[j]
  BY DEF SetState
<1>1. /\ r \in Reservation
      /\ reservations'[i].domain = r.domain /\ reservations'[i].state = t
      /\ reservations'[i].amounts = r.amounts
  BY <1>0 DEF RecordsOK, Reservation
<1>2. \A j \in DOMAIN reservations :
         /\ reservations'[j].amounts = reservations[j].amounts
         /\ reservations'[j].domain = reservations[j].domain
         /\ j # i => reservations'[j].state = reservations[j].state
  BY <1>0, <1>1
<1> SUFFICES ASSUME NEW d \in Domain, NEW s \in ReservationState
             PROVE  Moved(i, t, d, s)
  OBVIOUS
<1>3. /\ IsFiniteSet(In(d, s)) /\ Cardinality(In(d, s)) \in Nat
      /\ In(d, s) \subseteq DOMAIN reservations
  <2>1. In(d, s) \subseteq DOMAIN reservations
    BY DEF In
  <2> QED
    BY <2>1, InFinite
<1>4. \A k \in Kind, S \in SUBSET DOMAIN reservations :
         Cardinality(Units(reservations', S, k)) = Cardinality(Units(reservations, S, k))
  BY <1>2, UnitsSame
<1>5. \A k \in Kind : r.amounts[k] \in 0 .. Word - 1
  BY <1>1 DEF Reservation, Vector
<1>6. CASE d = r.domain /\ s = r.state
  <2>1. i \in In(d, s) /\ In(d, s)' = In(d, s) \ {i}
    BY <1>0, <1>1, <1>2, <1>6 DEF In
  <2>2. Cardinality(In(d, s))' = Cardinality(In(d, s)) - 1
    BY <1>3, <2>1, FS_RemoveElement
  <2>3. \A k \in Kind : Total(In(d, s), k)' = Total(In(d, s), k) - r.amounts[k]
    <3> TAKE k \in Kind
    <3>1. PICK n \in 0 .. Word - 1 : reservations[i].amounts[k] = n
      BY <1>5
    <3>2. Cardinality(Units(reservations, In(d, s) \ {i}, k)) =
             Cardinality(Units(reservations, In(d, s), k)) - n
      BY <1>3, <2>1, <3>1, UnitsRemove
    <3>3. In(d, s) \ {i} \in SUBSET DOMAIN reservations
      BY <1>3
    <3> QED
      BY <1>4, <2>1, <3>1, <3>2, <3>3 DEF Total
  <2>4. IsFiniteSet(In(d, s)')
    BY <1>3, <2>1, FS_RemoveElement
  <2>5. Cardinality(In(d, s))' \in Nat /\ \A k \in Kind : Total(In(d, s), k)' \in Nat
    BY <2>4, FS_CardinalityType, UnitsFinite DEF Total
  <2> QED
    BY <1>6, <2>2, <2>3, <2>5 DEF Moved
<1>7. CASE d = r.domain /\ s = t
  <2>1. i \notin In(d, s)
    BY <1>7 DEF In
  <2>2a. \A j : j \in In(d, s)' <=> j \in In(d, s) \union {i}
    BY <1>0, <1>1, <1>2, <1>7 DEF In
  <2>2b. In(d, s)' = In(d, s) \union {i}
    BY <2>2a
  <2>2. Cardinality(In(d, s))' = Cardinality(In(d, s)) + 1
    BY <1>3, <2>1, <2>2b, FS_AddElement
  <2>3. \A k \in Kind : Total(In(d, s), k)' = Total(In(d, s), k) + r.amounts[k]
    <3> TAKE k \in Kind
    <3>1. PICK n \in 0 .. Word - 1 : reservations[i].amounts[k] = n
      BY <1>5
    <3>2. Cardinality(Units(reservations, In(d, s)', k)) =
             Cardinality(Units(reservations, In(d, s), k)) + n
      BY <1>3, <2>1, <2>2b, <3>1, UnitsAdd
    <3>3. In(d, s) \union {i} \in SUBSET DOMAIN reservations
      BY <1>3
    <3> QED
      BY <1>4, <2>2b, <3>1, <3>2, <3>3 DEF Total
  <2>4. IsFiniteSet(In(d, s)')
    BY <1>3, <2>2b, FS_AddElement
  <2>5. Cardinality(In(d, s))' \in Nat /\ \A k \in Kind : Total(In(d, s), k)' \in Nat
    BY <2>4, FS_CardinalityType, UnitsFinite DEF Total
  <2> QED
    BY <1>7, <2>2, <2>3, <2>5 DEF Moved
<1>8. CASE ~(d = r.domain /\ s \in {t, r.state})
  <2>1. In(d, s)' = In(d, s)
    BY <1>0, <1>1, <1>2, <1>8 DEF In
  <2>2. \A k \in Kind : Total(In(d, s), k)' = Total(In(d, s), k)
    BY <1>3, <1>4, <2>1 DEF Total
  <2>4. IsFiniteSet(In(d, s)')
    BY <1>3, <2>1
  <2>5. Cardinality(In(d, s))' \in Nat /\ \A k \in Kind : Total(In(d, s), k)' \in Nat
    BY <2>4, FS_CardinalityType, UnitsFinite DEF Total
  <2> QED
    BY <1>8, <2>1, <2>2, <2>5 DEF Moved
<1> QED
  BY <1>6, <1>7, <1>8

-----------------------------------------------------------------------------
(* The inductive invariant *)

\* NoOvercommit needs AuditConsistent: a release gives capacity back without
\* wrapping only because the totals are at least the released amount.
\* AuditConsistent needs NoOvercommit: a commit adds to a total without wrapping
\* only because what is held is within a capacity, which is a word.
IInv == TypeOK /\ NoOvercommit /\ AuditConsistent /\ ClosedExactlyOnce

\* Wrapping leaves a word as it is.
LEMMA WrapInRange ==
  ASSUME NEW x \in Nat, x < Word
  PROVE  Wrap(x) = x
BY WordAssumption DEF Wrap

\* The counts of the invariant, for held and closed states together.
LEMMA CountsExact ==
  (AuditConsistent /\ ClosedExactlyOnce) =>
     \A d \in Domain, s \in ReservationState : count[d][s] = Cardinality(In(d, s))
BY DEF AuditConsistent, ClosedExactlyOnce, ReservationState

\* Every method that closes or binds one reservation preserves the invariant.
LEMMA MoveStep ==
  ASSUME IInv,
         NEW i \in DOMAIN reservations, NEW t \in ReservationState,
         reservations[i].state \in Held, t # reservations[i].state, t # "Active",
         SetState(i, t),
         reserved' = IF reservations[i].state = "Active"
                     THEN [reserved EXCEPT ![reservations[i].domain] = Sub(@, reservations[i].amounts)]
                     ELSE reserved,
         committed' = IF reservations[i].state = "Committed"
                      THEN [committed EXCEPT ![reservations[i].domain] = Sub(@, reservations[i].amounts)]
                      ELSE IF t = "Committed"
                      THEN [committed EXCEPT ![reservations[i].domain] = Add(@, reservations[i].amounts)]
                      ELSE committed,
         count' = [count EXCEPT ![reservations[i].domain][reservations[i].state] = @ - 1,
                                ![reservations[i].domain][t] = @ + 1],
         UNCHANGED <<counter, capacity>>
  PROVE  IInv'
<1> DEFINE r == reservations[i]
<1>1. RecordsOK /\ TypeOK
  BY DEF IInv, TypeOK, RecordsOK
<1>2. /\ r \in Reservation /\ r.domain \in Domain /\ r.state \in ReservationState
      /\ r.amounts \in Vector
  BY <1>1 DEF RecordsOK, Reservation
<1>3. \A d \in Domain, s \in ReservationState : Moved(i, t, d, s)
  BY <1>1, MoveOne
<1>4. RecordsOK'
  <2>1. /\ DOMAIN reservations' = DOMAIN reservations
        /\ \A j \in DOMAIN reservations :
              /\ reservations'[j] \in Reservation
              /\ reservations'[j].domain = reservations[j].domain
    BY <1>1, <1>2 DEF SetState, RecordsOK, Reservation
  <2>2. reservations' \in [DOMAIN reservations' -> Reservation]
    BY <1>1, <2>1 DEF SetState, RecordsOK
  <2> QED
    BY <1>1, <2>1, <2>2 DEF RecordsOK
<1>5. \A d \in Domain, k \in Kind :
         /\ reserved[d][k] = Total(In(d, "Active"), k) /\ reserved[d][k] \in Nat
         /\ committed[d][k] = Total(In(d, "Committed"), k) /\ committed[d][k] \in Nat
         /\ capacity[d][k] \in Nat /\ capacity[d][k] < Word
         /\ reserved[d][k] + committed[d][k] <= capacity[d][k]
  BY <1>1, WordAssumption DEF IInv, TypeOK, AuditConsistent, NoOvercommit, Vector
<1>6. \A k \in Kind : r.amounts[k] \in Nat /\ r.amounts[k] < Word
  BY <1>2, WordAssumption DEF Vector
<1>7. \A d \in Domain, k \in Kind :
         /\ reserved'[d][k] = Total(In(d, "Active"), k)'
         /\ reserved'[d][k] \in 0 .. Word - 1
         /\ committed'[d][k] = Total(In(d, "Committed"), k)'
         /\ committed'[d][k] \in 0 .. Word - 1
         /\ reserved'[d][k] + committed'[d][k] <= capacity'[d][k]
  <2> SUFFICES ASSUME NEW d \in Domain, NEW k \in Kind
               PROVE  /\ reserved'[d][k] = Total(In(d, "Active"), k)'
                      /\ reserved'[d][k] \in 0 .. Word - 1
                      /\ committed'[d][k] = Total(In(d, "Committed"), k)'
                      /\ committed'[d][k] \in 0 .. Word - 1
                      /\ reserved'[d][k] + committed'[d][k] <= capacity'[d][k]
    OBVIOUS
  <2>1. Moved(i, t, d, "Active") /\ Moved(i, t, d, "Committed")
    BY <1>3 DEF ReservationState, Held
  <2>2. reserved \in [Domain -> Vector] /\ committed \in [Domain -> Vector]
    BY <1>1 DEF TypeOK
  <2>3. CASE d # r.domain
    BY <1>5, <2>1, <2>2, <2>3, WordAssumption DEF Moved
  <2>4. CASE d = r.domain /\ r.state = "Active"
    <3>1. Total(In(d, "Active"), k)' = reserved[d][k] - r.amounts[k]
      BY <1>5, <2>1, <2>4 DEF Moved
    <3>2. reserved[d][k] - r.amounts[k] \in Nat
      BY <2>1, <3>1 DEF Moved
    <3>3. reserved'[d][k] = Wrap(reserved[d][k] - r.amounts[k])
      BY <1>2, <2>2, <2>4 DEF Sub
    <3>4. reserved'[d][k] = reserved[d][k] - r.amounts[k]
      BY <1>5, <1>6, <3>2, <3>3, WrapInRange, WordAssumption
    <3>5. CASE t = "Committed"
      <4>1. Total(In(d, "Committed"), k)' = committed[d][k] + r.amounts[k]
        BY <1>5, <2>1, <2>4, <3>5 DEF Moved
      <4>2. committed'[d][k] = Wrap(committed[d][k] + r.amounts[k])
        BY <1>2, <2>2, <2>4, <3>5 DEF Add
      <4>3. committed'[d][k] = committed[d][k] + r.amounts[k]
        BY <1>5, <1>6, <3>2, <4>2, WrapInRange, WordAssumption
      <4> QED
        BY <1>5, <1>6, <3>1, <3>2, <3>4, <4>1, <4>3, WordAssumption
    <3>6. CASE t # "Committed"
      <4>1. Total(In(d, "Committed"), k)' = committed[d][k]
        BY <1>5, <2>1, <2>4, <3>6 DEF Moved
      <4>2. committed'[d][k] = committed[d][k]
        BY <2>4, <3>6
      <4> QED
        BY <1>5, <1>6, <3>1, <3>2, <3>4, <4>1, <4>2, WordAssumption
    <3> QED
      BY <3>5, <3>6
  <2>5. CASE d = r.domain /\ r.state = "Committed"
    <3>1. Total(In(d, "Committed"), k)' = committed[d][k] - r.amounts[k]
      BY <1>5, <2>1, <2>5 DEF Moved
    <3>2. committed[d][k] - r.amounts[k] \in Nat
      BY <2>1, <3>1 DEF Moved
    <3>3. committed'[d][k] = Wrap(committed[d][k] - r.amounts[k])
      BY <1>2, <2>2, <2>5 DEF Sub
    <3>4. committed'[d][k] = committed[d][k] - r.amounts[k]
      BY <1>5, <1>6, <3>2, <3>3, WrapInRange, WordAssumption
    <3>5. Total(In(d, "Active"), k)' = reserved[d][k] /\ reserved'[d][k] = reserved[d][k]
      BY <1>5, <2>1, <2>5 DEF Moved
    <3> QED
      BY <1>5, <1>6, <3>1, <3>2, <3>4, <3>5, WordAssumption
  <2> QED
    BY <2>3, <2>4, <2>5 DEF Held
<1>8. \A d \in Domain, s \in ReservationState :
         count'[d][s] = Cardinality(In(d, s))' /\ count'[d][s] \in Nat
  <2> SUFFICES ASSUME NEW d \in Domain, NEW s \in ReservationState
               PROVE  count'[d][s] = Cardinality(In(d, s))' /\ count'[d][s] \in Nat
    OBVIOUS
  <2>1. count[d][s] = Cardinality(In(d, s)) /\ count[d][s] \in Nat
    BY <1>1, CountsExact DEF IInv, TypeOK
  <2>2. Moved(i, t, d, s)
    BY <1>3
  <2>3. count \in [Domain -> [ReservationState -> Nat]]
    BY <1>1 DEF TypeOK
  <2>4. count'[d][s] = IF d # r.domain THEN count[d][s]
                       ELSE IF s = t THEN count[d][s] + 1
                       ELSE IF s = r.state THEN count[d][s] - 1
                       ELSE count[d][s]
    BY <1>2, <2>3
  <2> QED
    BY <2>1, <2>2, <2>4 DEF Moved
<1>9. /\ reserved' \in [Domain -> [Kind -> 0 .. Word - 1]]
      /\ committed' \in [Domain -> [Kind -> 0 .. Word - 1]]
      /\ count' \in [Domain -> [ReservationState -> Nat]]
  <2>1. /\ reserved' \in [Domain -> [Kind -> 0 .. Word - 1]]
        /\ committed' \in [Domain -> [Kind -> 0 .. Word - 1]]
    <3>1. /\ DOMAIN reserved' = Domain /\ DOMAIN committed' = Domain
          /\ reserved' = [d \in Domain |-> reserved'[d]]
          /\ committed' = [d \in Domain |-> committed'[d]]
          /\ \A d \in Domain : /\ reserved'[d] = [k \in Kind |-> reserved'[d][k]]
                               /\ committed'[d] = [k \in Kind |-> committed'[d][k]]
      BY <1>1, <1>2 DEF TypeOK, Vector, Sub, Add
    <3>2. \A d \in Domain : reserved'[d] \in [Kind -> 0 .. Word - 1]
      BY <1>7, <3>1
    <3>3. \A d \in Domain : committed'[d] \in [Kind -> 0 .. Word - 1]
      BY <1>7, <3>1
    <3> QED
      BY <3>1, <3>2, <3>3
  <2>2. count' \in [Domain -> [ReservationState -> Nat]]
    <3>1. /\ count' = [d \in Domain |-> count'[d]]
          /\ \A d \in Domain : count'[d] = [s \in ReservationState |-> count'[d][s]]
      BY <1>1, <1>2 DEF TypeOK
    <3> QED
      BY <1>8, <3>1
  <2> QED
    BY <2>1, <2>2
<1>10. TypeOK'
  BY <1>1, <1>4, <1>9 DEF TypeOK, RecordsOK, Vector
<1>11. NoOvercommit' /\ AuditConsistent' /\ ClosedExactlyOnce'
  BY <1>7, <1>8 DEF NoOvercommit, AuditConsistent, ClosedExactlyOnce, ReservationState
<1> QED
  BY <1>10, <1>11 DEF IInv

\* A request that fits leaves the totals within the capacity.
LEMMA FitsInCapacity ==
  ASSUME IInv, NEW d \in Domain, NEW a \in Vector, has_capacity(d, a), NEW k \in Kind
  PROVE  /\ reserved[d][k] + committed[d][k] + a[k] <= capacity[d][k]
         /\ reserved[d][k] \in Nat /\ committed[d][k] \in Nat /\ a[k] \in Nat
         /\ capacity[d][k] \in Nat /\ capacity[d][k] < Word
<1>1. /\ reserved[d][k] \in Nat /\ committed[d][k] \in Nat /\ a[k] \in Nat
      /\ capacity[d][k] \in Nat /\ capacity[d][k] < Word
  BY WordAssumption DEF IInv, TypeOK, Vector
<1>2. reserved[d][k] + committed[d][k] <= capacity[d][k]
  BY DEF IInv, NoOvercommit
<1>3. Wrap(reserved[d][k] + committed[d][k]) = reserved[d][k] + committed[d][k]
  BY <1>1, <1>2, WrapInRange, WordAssumption
<1> QED
  BY <1>1, <1>2, <1>3 DEF has_capacity

\* acquire() preserves the invariant: the new identity is fresh because every
\* identity of the shard is at most its counter.
LEMMA AcquireStep ==
  ASSUME IInv, NEW d \in Domain, NEW t \in Stamp, NEW a \in Requests, acquire(d, t, a)
  PROVE  IInv'
<1> DEFINE id == NewId(d)
           r == [domain |-> d, stamp |-> t, amounts |-> a, state |-> "Active"]
<1>1. RecordsOK /\ TypeOK /\ a \in Vector /\ ShardOf[d] \in Shard /\ d \in Domain
  BY ShardAssumption, VectorAssumption DEF IInv, TypeOK, RecordsOK
<1>2. CASE counter[ShardOf[d]] + 1 >= IdSpace
  <2>1. /\ UNCHANGED <<reservations, capacity, reserved, committed, count>>
        /\ counter' \in [Shard -> Nat]
        /\ \A s \in Shard : counter[s] <= counter'[s]
    BY <1>1, <1>2 DEF acquire, RecordsOK
  <2>2. \A i \in DOMAIN reservations :
           i[1] = ShardOf[reservations[i].domain] /\ i[2] <= counter'[i[1]]
    BY <1>1, <2>1 DEF RecordsOK, Id
  <2>3. TypeOK'
    BY <1>1, <2>1, <2>2 DEF TypeOK
  <2>4. NoOvercommit' /\ AuditConsistent' /\ ClosedExactlyOnce'
    BY <2>1 DEF IInv, NoOvercommit, AuditConsistent, ClosedExactlyOnce, Total, In
  <2> QED
    BY <2>3, <2>4 DEF IInv
<1>3. CASE ~(counter[ShardOf[d]] + 1 >= IdSpace)
  <2>0. /\ has_capacity(d, a)
        /\ counter' = [counter EXCEPT ![ShardOf[d]] = @ + 1]
        /\ reservations' = [i \in DOMAIN reservations \union {id} |->
                               IF i = id THEN r ELSE reservations[i]]
        /\ reserved' = [reserved EXCEPT ![d] = Add(@, a)]
        /\ count' = [count EXCEPT ![d]["Active"] = @ + 1]
        /\ capacity' = capacity /\ committed' = committed
    BY <1>3 DEF acquire
  <2>1. id \in Id /\ id[1] = ShardOf[d] /\ id[2] = counter[ShardOf[d]] + 1
    BY <1>1 DEF NewId, Id, RecordsOK
  <2>2. id \notin DOMAIN reservations
    BY <1>1, <2>1 DEF RecordsOK
  <2>3. /\ r \in Reservation /\ r.domain = d /\ r.amounts = a /\ r.state = "Active"
    BY <1>1 DEF Reservation, ReservationState, Held
  <2> HIDE DEF id, r
  <2>4. /\ DOMAIN reservations' = DOMAIN reservations \union {id}
        /\ reservations'[id] = r
        /\ \A i \in DOMAIN reservations : reservations'[i] = reservations[i]
    BY <2>0, <2>2
  <2>5. RecordsOK'
    <3>1. reservations' \in [DOMAIN reservations' -> Reservation]
      BY <1>1, <2>0, <2>3, <2>4 DEF RecordsOK
    <3>2. DOMAIN reservations' \subseteq Id /\ IsFiniteSet(DOMAIN reservations')
      BY <1>1, <2>1, <2>4, FS_AddElement DEF RecordsOK
    <3>3. counter' \in [Shard -> Nat] /\ \A s \in Shard : counter[s] <= counter'[s]
      BY <1>1, <2>0 DEF RecordsOK
    <3>4. \A i \in DOMAIN reservations :
             i[1] = ShardOf[reservations'[i].domain] /\ i[2] <= counter'[i[1]]
      BY <1>1, <2>4, <3>3 DEF RecordsOK, Id
    <3>5. id[1] = ShardOf[reservations'[id].domain] /\ id[2] <= counter'[id[1]]
      BY <1>1, <2>0, <2>1, <2>3, <2>4 DEF RecordsOK
    <3> QED
      BY <2>4, <3>1, <3>2, <3>3, <3>4, <3>5 DEF RecordsOK
  <2>6. \A e \in Domain, s \in ReservationState :
           ~(e = d /\ s = "Active") =>
              /\ In(e, s)' = In(e, s)
              /\ \A k \in Kind : Total(In(e, s), k)' = Total(In(e, s), k)
    <3> SUFFICES ASSUME NEW e \in Domain, NEW s \in ReservationState, ~(e = d /\ s = "Active")
                 PROVE  /\ In(e, s)' = In(e, s)
                        /\ \A k \in Kind : Total(In(e, s), k)' = Total(In(e, s), k)
      OBVIOUS
    <3>1. \A j : j \in In(e, s)' <=> j \in In(e, s)
      BY <2>2, <2>3, <2>4 DEF In
    <3>2. In(e, s)' = In(e, s)
      BY <3>1
    <3>3. \A i \in In(e, s) : reservations'[i].amounts = reservations[i].amounts
      BY <2>4 DEF In
    <3>4. \A k \in Kind : Units(reservations', In(e, s), k) = Units(reservations, In(e, s), k)
      BY <3>3, UnitsSame
    <3> QED
      BY <3>2, <3>4 DEF Total
  <2>7. /\ IsFiniteSet(In(d, "Active"))
        /\ Cardinality(In(d, "Active"))' = Cardinality(In(d, "Active")) + 1
        /\ \A k \in Kind : Total(In(d, "Active"), k)' = Total(In(d, "Active"), k) + a[k]
    <3>1. id \notin In(d, "Active") /\ IsFiniteSet(In(d, "Active"))
      <4>1. id \notin In(d, "Active")
        BY <2>2 DEF In
      <4> QED
        BY <1>1, <4>1, InFinite
    <3>2. \A j : j \in In(d, "Active")' <=> j \in In(d, "Active") \union {id}
      BY <2>2, <2>3, <2>4 DEF In
    <3>3. In(d, "Active")' = In(d, "Active") \union {id}
      BY <3>2
    <3>4. Cardinality(In(d, "Active"))' = Cardinality(In(d, "Active")) + 1
      BY <3>1, <3>3, FS_AddElement
    <3>5. \A i \in In(d, "Active") : reservations'[i].amounts = reservations[i].amounts
      BY <2>4 DEF In
    <3>6. ASSUME NEW k \in Kind
          PROVE  Total(In(d, "Active"), k)' = Total(In(d, "Active"), k) + a[k]
      <4>1. Units(reservations', In(d, "Active"), k) = Units(reservations, In(d, "Active"), k)
        BY <3>5, UnitsSame
      <4>2. PICK n \in 0 .. Word - 1 : a[k] = n
        BY <1>1 DEF Vector
      <4>3. reservations'[id].amounts[k] = n
        BY <2>3, <2>4, <4>2
      <4>4. Cardinality(Units(reservations', In(d, "Active")', k)) =
               Cardinality(Units(reservations', In(d, "Active"), k)) + n
        BY <3>1, <3>3, <4>3, UnitsAdd
      <4> QED
        BY <4>1, <4>2, <4>4 DEF Total
    <3> QED
      BY <3>1, <3>4, <3>6
  <2>8. \A k \in Kind : /\ reserved'[d][k] = reserved[d][k] + a[k]
                        /\ reserved'[d][k] \in 0 .. Word - 1
                        /\ reserved'[d][k] + committed[d][k] <= capacity[d][k]
    <3> SUFFICES ASSUME NEW k \in Kind
                 PROVE  /\ reserved'[d][k] = reserved[d][k] + a[k]
                        /\ reserved'[d][k] \in 0 .. Word - 1
                        /\ reserved'[d][k] + committed[d][k] <= capacity[d][k]
      OBVIOUS
    <3>1. reserved'[d][k] = Wrap(reserved[d][k] + a[k])
      BY <1>1, <2>0 DEF TypeOK, Add
    <3>2. /\ reserved[d][k] + committed[d][k] + a[k] <= capacity[d][k]
          /\ reserved[d][k] \in Nat /\ committed[d][k] \in Nat /\ a[k] \in Nat
          /\ capacity[d][k] \in Nat /\ capacity[d][k] < Word
      BY <1>1, <2>0, FitsInCapacity
    <3>3. Wrap(reserved[d][k] + a[k]) = reserved[d][k] + a[k]
      BY <3>2, WrapInRange, WordAssumption
    <3> QED
      BY <3>1, <3>2, <3>3, WordAssumption
  <2>9. TypeOK'
    <3>1. Add(reserved[d], a) \in Vector
      <4>1. Add(reserved[d], a) = [k \in Kind |-> reserved'[d][k]]
        BY <1>1, <2>0 DEF TypeOK, Add
      <4> QED
        BY <2>8, <4>1 DEF Vector
    <3>2. reserved' \in [Domain -> Vector]
      BY <1>1, <2>0, <3>1 DEF TypeOK
    <3>3. count' \in [Domain -> [ReservationState -> Nat]]
      <4>1. count \in [Domain -> [ReservationState -> Nat]]
        BY <1>1 DEF TypeOK
      <4>2. [count[d] EXCEPT !["Active"] = @ + 1] \in [ReservationState -> Nat]
        BY <4>1 DEF ReservationState, Held
      <4> QED
        BY <2>0, <4>1, <4>2
    <3> QED
      BY <1>1, <2>0, <2>5, <3>2, <3>3 DEF TypeOK, RecordsOK
  <2>10. NoOvercommit'
    BY <1>1, <2>0, <2>8 DEF IInv, NoOvercommit, TypeOK
  <2>11. \A e \in Domain, k \in Kind : /\ reserved'[e][k] = Total(In(e, "Active"), k)'
                                       /\ committed'[e][k] = Total(In(e, "Committed"), k)'
    <3> SUFFICES ASSUME NEW e \in Domain, NEW k \in Kind
                 PROVE  /\ reserved'[e][k] = Total(In(e, "Active"), k)'
                        /\ committed'[e][k] = Total(In(e, "Committed"), k)'
      OBVIOUS
    <3>1. /\ reserved[e][k] = Total(In(e, "Active"), k)
          /\ committed[e][k] = Total(In(e, "Committed"), k)
      BY DEF IInv, AuditConsistent
    <3>2. e # d => reserved'[e] = reserved[e]
      BY <1>1, <2>0 DEF TypeOK
    <3> QED
      BY <2>0, <2>6, <2>7, <2>8, <3>1, <3>2 DEF ReservationState, Held
  <2>12. \A e \in Domain, s \in ReservationState : count'[e][s] = Cardinality(In(e, s))'
    <3> SUFFICES ASSUME NEW e \in Domain, NEW s \in ReservationState
                 PROVE  count'[e][s] = Cardinality(In(e, s))'
      OBVIOUS
    <3>1. count[e][s] = Cardinality(In(e, s))
      BY CountsExact DEF IInv
    <3>2. count'[e][s] = IF e = d /\ s = "Active" THEN count[e][s] + 1 ELSE count[e][s]
      BY <1>1, <2>0 DEF TypeOK
    <3> QED
      BY <2>6, <2>7, <3>1, <3>2
  <2> QED
    BY <2>9, <2>10, <2>11, <2>12
       DEF IInv, AuditConsistent, ClosedExactlyOnce, ReservationState
<1> QED
  BY <1>2, <1>3

\* invalidate_domain() preserves the invariant: it empties the held sets of the
\* domain and takes exactly their totals off the accounting.
LEMMA InvalidateStep ==
  ASSUME IInv, NEW d \in Domain, invalidate_domain(d)
  PROVE  IInv'
<1> DEFINE A == In(d, "Active")
           B == In(d, "Committed")
           held == A \union B
<1>1. RecordsOK /\ TypeOK
  BY DEF IInv, TypeOK, RecordsOK
<1>2. /\ reserved' = [reserved EXCEPT ![d] = [k \in Kind |-> Wrap(@[k] - Total(A, k))]]
      /\ committed' = [committed EXCEPT ![d] = [k \in Kind |-> Wrap(@[k] - Total(B, k))]]
      /\ count' = [count EXCEPT ![d]["Active"] = @ - Cardinality(A),
                                ![d]["Committed"] = @ - Cardinality(B),
                                ![d]["Invalidated"] = @ + Cardinality(held)]
      /\ reservations' = [i \in DOMAIN reservations |->
                             IF i \in held THEN [reservations[i] EXCEPT !.state = "Invalidated"]
                             ELSE reservations[i]]
      /\ counter' = counter /\ capacity' = capacity
  BY DEF invalidate_domain
<1>3. /\ DOMAIN reservations' = DOMAIN reservations
      /\ \A i \in DOMAIN reservations :
            /\ reservations'[i] \in Reservation
            /\ reservations'[i].domain = reservations[i].domain
            /\ reservations'[i].amounts = reservations[i].amounts
            /\ reservations'[i].state = IF i \in held THEN "Invalidated" ELSE reservations[i].state
  BY <1>1, <1>2 DEF RecordsOK, Reservation, ReservationState, Closed
<1>4. RecordsOK'
  <2>1. reservations' \in [DOMAIN reservations' -> Reservation]
    BY <1>2, <1>3
  <2> QED
    BY <1>1, <1>2, <1>3, <2>1 DEF RecordsOK
<1>5. /\ IsFiniteSet(A) /\ IsFiniteSet(B) /\ Cardinality(A) \in Nat /\ Cardinality(B) \in Nat
      /\ IsFiniteSet(held) /\ Cardinality(held) = Cardinality(A) + Cardinality(B)
  <2>1. IsFiniteSet(A) /\ IsFiniteSet(B) /\ Cardinality(A) \in Nat /\ Cardinality(B) \in Nat
    BY <1>1, InFinite
  <2>2. A \intersect B = {}
    BY DEF In
  <2> HIDE DEF A, B
  <2>3. IsFiniteSet(held) /\ Cardinality(held) = Cardinality(A) + Cardinality(B) - Cardinality({})
    BY <2>1, <2>2, FS_Union
  <2>4. Cardinality({}) = 0
    BY FS_EmptySet
  <2> QED
    BY <2>1, <2>3, <2>4
<1>6. In(d, "Active")' = {} /\ In(d, "Committed")' = {}
  BY <1>3 DEF In
<1>7. \A k \in Kind : Total(In(d, "Active"), k)' = 0 /\ Total(In(d, "Committed"), k)' = 0
  <2>1. \A k \in Kind : Units(reservations', {}, k) = {}
    BY DEF Units
  <2> QED
    BY <1>6, <2>1, FS_EmptySet DEF Total
<1>8. \A e \in Domain, s \in ReservationState : e # d =>
         In(e, s)' = In(e, s) /\ \A k \in Kind : Total(In(e, s), k)' = Total(In(e, s), k)
  <2> SUFFICES ASSUME NEW e \in Domain, NEW s \in ReservationState, e # d
               PROVE  In(e, s)' = In(e, s) /\ \A k \in Kind : Total(In(e, s), k)' = Total(In(e, s), k)
    OBVIOUS
  <2>1. \A j : j \in In(e, s)' <=> j \in In(e, s)
    BY <1>3 DEF In
  <2>2. In(e, s)' = In(e, s)
    BY <2>1
  <2>3. \A i \in In(e, s) : reservations'[i].amounts = reservations[i].amounts
    BY <1>3 DEF In
  <2>4. \A k \in Kind : Units(reservations', In(e, s), k) = Units(reservations, In(e, s), k)
    BY <2>3, UnitsSame
  <2> QED
    BY <2>2, <2>4 DEF Total
<1>9. /\ In(d, "Released")' = In(d, "Released") /\ In(d, "RolledBack")' = In(d, "RolledBack")
      /\ Cardinality(In(d, "Invalidated"))' = Cardinality(In(d, "Invalidated")) + Cardinality(held)
  <2>1. \A j : j \in In(d, "Released")' <=> j \in In(d, "Released")
    BY <1>3 DEF In
  <2>2. \A j : j \in In(d, "RolledBack")' <=> j \in In(d, "RolledBack")
    BY <1>3 DEF In
  <2>3. \A j : j \in In(d, "Invalidated")' <=> j \in In(d, "Invalidated") \union held
    BY <1>3 DEF In
  <2>4. In(d, "Invalidated")' = In(d, "Invalidated") \union held
    BY <2>3
  <2>5. In(d, "Invalidated") \intersect held = {}
    BY DEF In
  <2>6. IsFiniteSet(In(d, "Invalidated")) /\ Cardinality(In(d, "Invalidated")) \in Nat
    BY <1>1, InFinite
  <2>7. Cardinality(held) \in Nat
    BY <1>5
  <2> HIDE DEF held
  <2>8. Cardinality(In(d, "Invalidated")') =
           Cardinality(In(d, "Invalidated")) + Cardinality(held) - Cardinality({})
    BY <1>5, <2>4, <2>5, <2>6, FS_Union
  <2>9. Cardinality(In(d, "Invalidated")') = Cardinality(In(d, "Invalidated")) + Cardinality(held)
    BY <2>6, <2>7, <2>8, FS_EmptySet
  <2> QED
    BY <2>1, <2>2, <2>9
<1>10. \A k \in Kind : reserved[d][k] = Total(A, k) /\ committed[d][k] = Total(B, k)
  BY DEF IInv, AuditConsistent
<1> HIDE DEF A, B, held
<1>11. \A k \in Kind : Wrap(reserved[d][k] - Total(A, k)) = 0 /\ Wrap(committed[d][k] - Total(B, k)) = 0
  <2> TAKE k \in Kind
  <2>1. reserved[d][k] \in 0 .. Word - 1 /\ committed[d][k] \in 0 .. Word - 1
    BY <1>1 DEF TypeOK, Vector
  <2>2. reserved[d][k] - Total(A, k) = 0 /\ committed[d][k] - Total(B, k) = 0 /\ 0 < Word
    BY <1>10, <2>1, WordAssumption
  <2> QED
    BY <2>2, WrapInRange
<1>12. /\ reserved' = [reserved EXCEPT ![d] = [k \in Kind |-> 0]]
       /\ committed' = [committed EXCEPT ![d] = [k \in Kind |-> 0]]
  BY <1>1, <1>2, <1>11 DEF TypeOK
<1>13. \A e \in Domain, s \in ReservationState :
          count'[e][s] = Cardinality(In(e, s))' /\ count'[e][s] \in Nat
  <2> SUFFICES ASSUME NEW e \in Domain, NEW s \in ReservationState
               PROVE  count'[e][s] = Cardinality(In(e, s))' /\ count'[e][s] \in Nat
    OBVIOUS
  <2>1. count[e][s] = Cardinality(In(e, s)) /\ count[e][s] \in Nat
    BY <1>1, CountsExact DEF IInv, TypeOK
  <2>2. CASE e # d
    BY <1>1, <1>2, <1>8, <2>1, <2>2 DEF TypeOK
  <2>3. CASE e = d
    <3>1. count'[d][s] = IF s \in {"Active", "Committed"}
                         THEN count[d][s] - Cardinality(In(d, s))
                         ELSE IF s = "Invalidated" THEN count[d][s] + Cardinality(held)
                         ELSE count[d][s]
      BY <1>1, <1>2 DEF TypeOK, A, B
    <3>2. Cardinality(held) \in Nat
      BY <1>5
    <3>3. CASE s \in {"Active", "Committed"}
      <4>1. Cardinality(In(d, s)') = 0
        BY <1>6, <3>3, FS_EmptySet
      <4> QED
        BY <2>1, <2>3, <3>1, <3>3, <4>1
    <3>4. CASE s = "Invalidated"
      BY <1>9, <2>1, <2>3, <3>1, <3>2, <3>4
    <3>5. CASE s \in {"Released", "RolledBack"}
      BY <1>9, <2>1, <2>3, <3>1, <3>5
    <3> QED
      BY <3>3, <3>4, <3>5 DEF ReservationState, Held, Closed
  <2> QED
    BY <2>2, <2>3
<1>14. TypeOK'
  <2>1. [k \in Kind |-> 0] \in Vector
    BY WordAssumption DEF Vector
  <2>2. reserved' \in [Domain -> Vector] /\ committed' \in [Domain -> Vector]
    BY <1>1, <1>12, <2>1 DEF TypeOK
  <2>3. /\ count' = [e \in Domain |-> count'[e]]
        /\ \A e \in Domain : count'[e] = [s \in ReservationState |-> count'[e][s]]
    BY <1>1, <1>2 DEF TypeOK
  <2>4. count' \in [Domain -> [ReservationState -> Nat]]
    BY <1>13, <2>3
  <2> QED
    BY <1>1, <1>2, <1>4, <2>2, <2>4 DEF TypeOK, RecordsOK
<1>15. \A e \in Domain, k \in Kind : /\ reserved'[e][k] = Total(In(e, "Active"), k)'
                                     /\ committed'[e][k] = Total(In(e, "Committed"), k)'
                                     /\ reserved'[e][k] + committed'[e][k] <= capacity'[e][k]
  <2> SUFFICES ASSUME NEW e \in Domain, NEW k \in Kind
               PROVE  /\ reserved'[e][k] = Total(In(e, "Active"), k)'
                      /\ committed'[e][k] = Total(In(e, "Committed"), k)'
                      /\ reserved'[e][k] + committed'[e][k] <= capacity'[e][k]
    OBVIOUS
  <2>1. /\ reserved[e][k] = Total(In(e, "Active"), k)
        /\ committed[e][k] = Total(In(e, "Committed"), k)
        /\ reserved[e][k] + committed[e][k] <= capacity[e][k]
    BY DEF IInv, AuditConsistent, NoOvercommit
  <2>2. capacity[e][k] \in 0 .. Word - 1
    BY <1>1 DEF TypeOK, Vector
  <2>3. CASE e = d
    BY <1>1, <1>2, <1>7, <1>12, <2>2, <2>3, WordAssumption DEF TypeOK
  <2>4. CASE e # d
    BY <1>1, <1>2, <1>8, <1>12, <2>1, <2>4 DEF TypeOK, ReservationState, Held
  <2> QED
    BY <2>3, <2>4
<1> QED
  BY <1>13, <1>14, <1>15
     DEF IInv, NoOvercommit, AuditConsistent, ClosedExactlyOnce, ReservationState

\* An empty ledger satisfies the invariant.
LEMMA InitInv == Init => IInv
<1> SUFFICES ASSUME Init PROVE IInv
  OBVIOUS
<1> USE DEF Init
<1>1. \A d \in Domain : [k \in Kind |-> 0] \in Vector
  BY WordAssumption DEF Vector
<1>2. DOMAIN reservations = {} /\ \A d, s : In(d, s) = {}
  BY DEF In
<1>3. \A k : Total({}, k) = 0
  <2>1. \A k : Units(reservations, {}, k) = {}
    BY DEF Units
  <2> QED
    BY <2>1, FS_EmptySet DEF Total
<1>4. TypeOK
  BY <1>1, <1>2, FS_EmptySet DEF TypeOK, Id
<1>5. AuditConsistent /\ ClosedExactlyOnce
  BY <1>2, <1>3, FS_EmptySet DEF AuditConsistent, ClosedExactlyOnce, ReservationState
<1>6. NoOvercommit
  BY DEF NoOvercommit
<1> QED
  BY <1>4, <1>5, <1>6 DEF IInv

\* set_capacity() preserves the invariant: it refuses less than is held.
LEMMA SetCapacityStep ==
  ASSUME IInv, NEW d \in Domain, NEW c \in Capacities, set_capacity(d, c)
  PROVE  IInv'
<1>1. TypeOK /\ c \in Vector
  BY VectorAssumption DEF IInv
<1>2. TypeOK'
  BY <1>1 DEF TypeOK, set_capacity
<1>3. ASSUME NEW k \in Kind PROVE reserved[d][k] + committed[d][k] <= c[k]
  <2>1. /\ reserved[d][k] \in Nat /\ committed[d][k] \in Nat
        /\ capacity[d][k] \in Nat /\ capacity[d][k] < Word
    BY <1>1, WordAssumption DEF TypeOK, Vector
  <2>2. reserved[d][k] + committed[d][k] <= capacity[d][k]
    BY DEF IInv, NoOvercommit
  <2>3. Wrap(reserved[d][k] + committed[d][k]) = reserved[d][k] + committed[d][k]
    BY <2>1, <2>2, WrapInRange, WordAssumption
  <2> QED
    BY <2>3 DEF set_capacity
<1>4. NoOvercommit'
  BY <1>1, <1>3 DEF IInv, NoOvercommit, TypeOK, set_capacity
<1>5. AuditConsistent' /\ ClosedExactlyOnce'
  BY DEF IInv, AuditConsistent, ClosedExactlyOnce, Total, In, set_capacity
<1> QED
  BY <1>2, <1>4, <1>5 DEF IInv

\* adopt_ids() only raises the counters.
LEMMA AdoptStep ==
  ASSUME IInv, NEW s \in Shard, NEW n \in 1 .. IdSpace - 1, adopt_ids(s, n)
  PROVE  IInv'
<1>1. TypeOK
  BY DEF IInv
<1>2. counter' \in [Shard -> Nat] /\ \A x \in Shard : counter[x] <= counter'[x]
  BY <1>1, WordAssumption DEF TypeOK, adopt_ids
<1>3. \A i \in DOMAIN reservations :
         i[1] = ShardOf[reservations[i].domain] /\ i[2] <= counter'[i[1]]
  BY <1>1, <1>2 DEF TypeOK, Id
<1>4. TypeOK'
  BY <1>1, <1>2, <1>3 DEF TypeOK, adopt_ids
<1>5. NoOvercommit' /\ AuditConsistent' /\ ClosedExactlyOnce'
  BY DEF IInv, NoOvercommit, AuditConsistent, ClosedExactlyOnce, Total, In, adopt_ids
<1> QED
  BY <1>4, <1>5 DEF IInv

\* IInv is inductive.
LEMMA StepInv == IInv /\ [Next]_vars => IInv'
<1> SUFFICES ASSUME IInv, [Next]_vars PROVE IInv'
  OBVIOUS
<1>1. ASSUME NEW d \in Domain, NEW c \in Capacities, set_capacity(d, c) PROVE IInv'
  BY <1>1, SetCapacityStep
<1>2. ASSUME NEW d \in Domain, NEW t \in Stamp, NEW a \in Requests, acquire(d, t, a) PROVE IInv'
  BY <1>2, AcquireStep
<1>3. ASSUME NEW i \in DOMAIN reservations, NEW t \in Stamp, commit(i, t) PROVE IInv'
  BY <1>3, MoveStep DEF commit, ReservationState, Held
<1>4. ASSUME NEW i \in DOMAIN reservations, release(i) PROVE IInv'
  <2>1. "Released" \in ReservationState /\ "Released" \notin Held
    BY DEF ReservationState, Held, Closed
  <2>2. CASE reservations[i].state = "Active"
    BY <1>4, <2>1, <2>2, MoveStep DEF release, Held
  <2>3. CASE reservations[i].state = "Committed"
    BY <1>4, <2>1, <2>3, MoveStep DEF release, Held
  <2> QED
    BY <1>4, <2>2, <2>3 DEF release
<1>5. ASSUME NEW i \in DOMAIN reservations, rollback(i) PROVE IInv'
  BY <1>5, MoveStep DEF rollback, ReservationState, Held, Closed
<1>6. ASSUME NEW d \in Domain, invalidate_domain(d) PROVE IInv'
  BY <1>6, InvalidateStep
<1>7. ASSUME NEW s \in Shard, NEW n \in 1 .. IdSpace - 1, adopt_ids(s, n) PROVE IInv'
  BY <1>7, AdoptStep
<1>8. CASE UNCHANGED vars
  <2>1. TypeOK' /\ NoOvercommit'
    BY <1>8 DEF vars, IInv, TypeOK, NoOvercommit
  <2>2. AuditConsistent' /\ ClosedExactlyOnce'
    BY <1>8 DEF vars, IInv, AuditConsistent, ClosedExactlyOnce, Total, In
  <2> QED
    BY <2>1, <2>2 DEF IInv
<1> QED
  BY <1>1, <1>2, <1>3, <1>4, <1>5, <1>6, <1>7, <1>8 DEF Next

\* The ledger's state keeps its type, no domain is ever overcommitted, and
\* audit() always finds the accounting equal to the records, for any number of
\* domains, kinds, shards and reservations and any word size.
THEOREM LedgerInvariant ==
  Spec => [](TypeOK /\ NoOvercommit /\ AuditConsistent /\ ClosedExactlyOnce)
<1>1. IInv => TypeOK /\ NoOvercommit /\ AuditConsistent /\ ClosedExactlyOnce
  BY DEF IInv
<1> QED
  BY <1>1, InitInv, StepInv, PTL DEF Spec

-----------------------------------------------------------------------------
(* Closed reservations, and the refinement *)

\* What each step does to the reservations that exist before it: nothing, or a
\* change of state of some that are held.
LEMMA StepRecords ==
  ASSUME IInv, [Next]_vars
  PROVE  /\ DOMAIN reservations \subseteq DOMAIN reservations'
         /\ \A i \in DOMAIN reservations :
               reservations[i].state \in Closed => reservations'[i] = reservations[i]
<1> USE DEF Held, Closed
<1>1. ASSUME NEW d \in Domain, NEW c \in Capacities, set_capacity(d, c)
      PROVE  reservations' = reservations
  BY <1>1 DEF set_capacity
<1>2. ASSUME NEW d \in Domain, NEW t \in Stamp, NEW a \in Requests, acquire(d, t, a)
      PROVE  /\ DOMAIN reservations \subseteq DOMAIN reservations'
             /\ \A i \in DOMAIN reservations : reservations'[i] = reservations[i]
  <2>1. NewId(d) \notin DOMAIN reservations
    BY ShardAssumption DEF NewId, IInv, TypeOK
  <2> QED
    BY <1>2, <2>1 DEF acquire
<1>3. ASSUME NEW i \in DOMAIN reservations, NEW t \in Stamp, commit(i, t)
      PROVE  /\ DOMAIN reservations \subseteq DOMAIN reservations'
             /\ \A j \in DOMAIN reservations :
                   reservations[j].state \in Closed => reservations'[j] = reservations[j]
  BY <1>3 DEF commit, SetState
<1>4. ASSUME NEW i \in DOMAIN reservations, release(i) \/ rollback(i)
      PROVE  /\ DOMAIN reservations \subseteq DOMAIN reservations'
             /\ \A j \in DOMAIN reservations :
                   reservations[j].state \in Closed => reservations'[j] = reservations[j]
  BY <1>4 DEF release, rollback, SetState
<1>5. ASSUME NEW d \in Domain, invalidate_domain(d)
      PROVE  /\ DOMAIN reservations \subseteq DOMAIN reservations'
             /\ \A j \in DOMAIN reservations :
                   reservations[j].state \in Closed => reservations'[j] = reservations[j]
  BY <1>5 DEF invalidate_domain, In
<1>6. ASSUME NEW s \in Shard, NEW n \in 1 .. IdSpace - 1, adopt_ids(s, n)
      PROVE  reservations' = reservations
  BY <1>6 DEF adopt_ids
<1>7. CASE UNCHANGED vars
  BY <1>7 DEF vars
<1> QED
  BY <1>1, <1>2, <1>3, <1>4, <1>5, <1>6, <1>7 DEF Next

\* A reservation that was released, rolled back or invalidated is never
\* reopened, closed a second time or overwritten by a new one.
THEOREM ClosedStaysClosed == Spec => ClosedForever
<1>1. IInv /\ [Next]_vars =>
        [\A i \in DOMAIN reservations :
           reservations[i].state \in Closed =>
              i \in DOMAIN reservations' /\ reservations'[i] = reservations[i]]_vars
  BY StepRecords
<1> QED
  BY <1>1, InitInv, StepInv, PTL DEF Spec, ClosedForever

SumsMatch ==
  \A d \in Domain, k \in Kind :
     Lease!Sum(LeaseView, d, k) = reserved[d][k] + committed[d][k]

\* The live leases of a domain add up to what its accounting says is held.
LEMMA LeaseSum == IInv => SumsMatch
<1> SUFFICES ASSUME IInv, NEW d \in Domain, NEW k \in Kind
             PROVE  Lease!Sum(LeaseView, d, k) = reserved[d][k] + committed[d][k]
  BY DEF SumsMatch
<1> DEFINE A == Units(reservations, In(d, "Active"), k)
           B == Units(reservations, In(d, "Committed"), k)
<1>1. RecordsOK
  BY DEF IInv, TypeOK, RecordsOK
<1>2. Lease!Live(LeaseView, d) = In(d, "Active") \union In(d, "Committed")
  BY DEF Lease!Live, LeaseView, In, Held
<1>3. \A i \in DOMAIN reservations : LeaseView[i].amounts = reservations[i].amounts
  BY DEF LeaseView
<1>4. In(d, "Active") \subseteq DOMAIN reservations /\ In(d, "Committed") \subseteq DOMAIN reservations
  BY DEF In
<1>5. {u \in (In(d, "Active") \union In(d, "Committed")) \X (1 .. Word) :
          u[2] <= LeaseView[u[1]].amounts[k]} = A \union B
  BY <1>3, <1>4 DEF Units
<1>6. Lease!Sum(LeaseView, d, k) = Cardinality(A \union B)
  <2>1. Lease!Sum(LeaseView, d, k) =
           Cardinality({u \in Lease!Live(LeaseView, d) \X (1 .. Word) :
                          u[2] <= LeaseView[u[1]].amounts[k]})
    BY DEF Lease!Sum, Lease!Cardinality, Cardinality
  <2> HIDE DEF A, B
  <2> QED
    BY <1>2, <1>5, <2>1
<1>7. A \intersect B = {}
  <2>1. In(d, "Active") \intersect In(d, "Committed") = {}
    BY DEF In
  <2> QED
    BY <2>1 DEF Units
<1>8. IsFiniteSet(A) /\ IsFiniteSet(B) /\ Cardinality(A) \in Nat /\ Cardinality(B) \in Nat
  BY <1>1, InFinite, UnitsFinite
<1>9. Cardinality(A) = reserved[d][k] /\ Cardinality(B) = committed[d][k]
  BY DEF IInv, AuditConsistent, Total
<1> HIDE DEF A, B
<1>10. Cardinality(A \union B) = Cardinality(A) + Cardinality(B) - Cardinality({})
  BY <1>7, <1>8, FS_Union
<1> QED
  BY <1>6, <1>8, <1>9, <1>10, FS_EmptySet

\* Closing reservations ends their leases.
LEMMA EndLeases ==
  ASSUME IInv, NEW d \in Domain, NEW S,
         S \subseteq In(d, "Active") \union In(d, "Committed"),
         DOMAIN reservations' = DOMAIN reservations,
         \A i \in DOMAIN reservations :
            /\ reservations'[i].domain = reservations[i].domain
            /\ reservations'[i].amounts = reservations[i].amounts
            /\ i \in S => reservations'[i].state \in Closed
            /\ i \notin S => reservations'[i].state = reservations[i].state,
         capacity' = capacity
  PROVE  Lease!End(d)
<1>1. S \in SUBSET Lease!Live(LeaseView, d)
  BY DEF Lease!Live, LeaseView, In, Held
<1>2. LeaseView' = [i \in DOMAIN LeaseView |->
                      IF i \in S THEN [LeaseView[i] EXCEPT !.live = FALSE] ELSE LeaseView[i]]
  <2>1. DOMAIN LeaseView' = DOMAIN reservations /\ DOMAIN LeaseView = DOMAIN reservations
    BY DEF LeaseView
  <2>2. ASSUME NEW i \in DOMAIN reservations
        PROVE  LeaseView'[i] = IF i \in S THEN [LeaseView[i] EXCEPT !.live = FALSE] ELSE LeaseView[i]
    <3>1. LeaseView'[i] = [domain |-> reservations[i].domain, amounts |-> reservations[i].amounts,
                           live |-> reservations'[i].state \in Held]
      BY DEF LeaseView
    <3>2. LeaseView[i] = [domain |-> reservations[i].domain, amounts |-> reservations[i].amounts,
                          live |-> reservations[i].state \in Held]
      BY DEF LeaseView
    <3>3. i \in S => (reservations'[i].state \in Held) = FALSE
      BY DEF Held, Closed
    <3>4. i \notin S => (reservations'[i].state \in Held) = (reservations[i].state \in Held)
      OBVIOUS
    <3>5. CASE i \in S
      <4>1. LeaseView'[i] = [domain |-> reservations[i].domain, amounts |-> reservations[i].amounts,
                             live |-> FALSE]
        BY <3>1, <3>3, <3>5, Zenon
      <4> DEFINE live == reservations[i].state \in Held
      <4>2. LeaseView[i] = [domain |-> reservations[i].domain, amounts |-> reservations[i].amounts,
                            live |-> live]
        BY <3>2
      <4> HIDE DEF live
      <4>3. [LeaseView[i] EXCEPT !.live = FALSE] =
               [domain |-> reservations[i].domain, amounts |-> reservations[i].amounts, live |-> FALSE]
        <5> DEFINE dead == FALSE
        <5> HIDE DEF dead
        <5>1. [LeaseView[i] EXCEPT !.live = dead] =
                 [domain |-> reservations[i].domain, amounts |-> reservations[i].amounts, live |-> dead]
          BY <4>2
        <5> QED
          BY <5>1, Zenon DEF dead
      <4> QED
        BY <3>5, <4>1, <4>3, Zenon
    <3>6. CASE i \notin S
      <4>1. LeaseView'[i] = LeaseView[i]
        BY <3>1, <3>2, <3>4, <3>6, Zenon
      <4> QED
        BY <3>6, <4>1
    <3> QED
      BY <3>5, <3>6
  <2>3. LeaseView' = [i \in DOMAIN reservations |-> LeaseView'[i]]
    BY <2>1 DEF LeaseView
  <2> QED
    BY <2>1, <2>2, <2>3
<1> QED
  BY <1>1, <1>2 DEF Lease!End

\* LeaseSum in the next state.
LEMMA LeaseSumNext == IInv' => SumsMatch'
BY LeaseSum, PTL

\* Every step of the ledger is a step of the lease, or invisible to it.
LEMMA StepLease == IInv /\ IInv' /\ [Next]_vars => [Lease!Next]_<<capacity, LeaseView>>
<1> SUFFICES ASSUME IInv, IInv', [Next]_vars
             PROVE  Lease!Next \/ UNCHANGED <<capacity, LeaseView>>
  OBVIOUS
<1>0. TypeOK
  BY DEF IInv
<1>1. ASSUME NEW d \in Domain, NEW c \in Capacities, set_capacity(d, c)
      PROVE  Lease!Next
  <2>1. c \in [Kind -> 0 .. Word - 1]
    BY VectorAssumption DEF Vector
  <2>2. UNCHANGED <<LeaseView, reserved, committed>> /\ capacity' = [capacity EXCEPT ![d] = c]
    BY <1>1 DEF set_capacity, LeaseView
  <2>3. \A k \in Kind : reserved[d][k] + committed[d][k] <= c[k]
    <3>1. \A k \in Kind : (reserved[d][k] + committed[d][k] <= capacity[d][k])'
      BY DEF IInv, NoOvercommit
    <3>2. capacity'[d] = c
      BY <1>0, <2>2 DEF TypeOK
    <3> QED
      BY <2>2, <3>1, <3>2
  <2>4. Lease!Covers(c, LeaseView, d)
    BY <2>3, LeaseSum DEF Lease!Covers, SumsMatch
  <2>5. Lease!Resize(d)
    BY <2>1, <2>2, <2>4 DEF Lease!Resize
  <2> QED
    BY <2>5 DEF Lease!Next
<1>2. ASSUME NEW d \in Domain, NEW t \in Stamp, NEW a \in Requests, acquire(d, t, a)
      PROVE  Lease!Next \/ UNCHANGED <<capacity, LeaseView>>
  <2>1. CASE counter[ShardOf[d]] + 1 >= IdSpace
    BY <1>2, <2>1 DEF acquire, LeaseView
  <2>2. CASE ~(counter[ShardOf[d]] + 1 >= IdSpace)
    <3> DEFINE id == NewId(d)
    <3>1. id \notin DOMAIN reservations
      BY ShardAssumption, <1>0 DEF NewId, TypeOK
    <3>2. /\ DOMAIN reservations' = DOMAIN reservations \union {id}
          /\ reservations'[id].domain = d /\ reservations'[id].state = "Active"
          /\ \A i \in DOMAIN reservations : reservations'[i] = reservations[i]
          /\ capacity' = capacity
      BY <1>2, <2>2, <3>1 DEF acquire
    <3> HIDE DEF id
    <3>3. /\ DOMAIN LeaseView' = DOMAIN LeaseView \union {id} /\ id \notin DOMAIN LeaseView
          /\ LeaseView'[id].domain = d /\ LeaseView'[id].live
          /\ \A j \in DOMAIN LeaseView : LeaseView'[j] = LeaseView[j]
      BY <3>1, <3>2 DEF LeaseView, Held
    <3>4. \A k \in Kind : (reserved[d][k] + committed[d][k])' <= capacity[d][k]
      BY <3>2 DEF IInv, NoOvercommit
    <3>5. Lease!Covers(capacity[d], LeaseView', d)
      BY <3>4, LeaseSumNext DEF Lease!Covers, SumsMatch
    <3>6. Lease!Grant(d)
      BY <3>2, <3>3, <3>5 DEF Lease!Grant
    <3> QED
      BY <3>6 DEF Lease!Next
  <2> QED
    BY <2>1, <2>2
<1>3. ASSUME NEW i \in DOMAIN reservations, NEW t \in Stamp, commit(i, t)
      PROVE  UNCHANGED <<capacity, LeaseView>>
  BY <1>0, <1>3 DEF commit, SetState, LeaseView, Held, TypeOK, Reservation
<1>4. ASSUME NEW i \in DOMAIN reservations, release(i) \/ rollback(i)
      PROVE  Lease!Next
  <2>1. reservations[i].state \in Held /\ reservations[i].domain \in Domain
    BY <1>0, <1>4 DEF release, rollback, TypeOK, Reservation, Held
  <2>2. {i} \subseteq In(reservations[i].domain, "Active") \union In(reservations[i].domain, "Committed")
    BY <2>1 DEF In, Held
  <2>3. /\ DOMAIN reservations' = DOMAIN reservations /\ capacity' = capacity
        /\ \A j \in DOMAIN reservations :
              /\ reservations'[j].domain = reservations[j].domain
              /\ reservations'[j].amounts = reservations[j].amounts
              /\ j \in {i} => reservations'[j].state \in Closed
              /\ j \notin {i} => reservations'[j].state = reservations[j].state
    BY <1>0, <1>4 DEF release, rollback, SetState, TypeOK, Reservation, Closed
  <2>4. Lease!End(reservations[i].domain)
    BY <2>1, <2>2, <2>3, EndLeases
  <2> QED
    BY <2>1, <2>4 DEF Lease!Next
<1>5. ASSUME NEW d \in Domain, invalidate_domain(d)
      PROVE  Lease!Next
  <2> DEFINE S == In(d, "Active") \union In(d, "Committed")
  <2>1. /\ DOMAIN reservations' = DOMAIN reservations /\ capacity' = capacity
        /\ \A j \in DOMAIN reservations :
              /\ reservations'[j].domain = reservations[j].domain
              /\ reservations'[j].amounts = reservations[j].amounts
              /\ j \in S => reservations'[j].state \in Closed
              /\ j \notin S => reservations'[j].state = reservations[j].state
    BY <1>0, <1>5 DEF invalidate_domain, TypeOK, Reservation, Closed
  <2> HIDE DEF S
  <2>2. Lease!End(d)
    BY <2>1, EndLeases DEF S
  <2> QED
    BY <2>2 DEF Lease!Next
<1>6. ASSUME NEW s \in Shard, NEW n \in 1 .. IdSpace - 1, adopt_ids(s, n)
      PROVE  UNCHANGED <<capacity, LeaseView>>
  BY <1>6 DEF adopt_ids, LeaseView
<1>7. CASE UNCHANGED vars
  BY <1>7 DEF vars, LeaseView
<1> QED
  BY <1>1, <1>2, <1>3, <1>4, <1>5, <1>6, <1>7 DEF Next

\* The sharded, word-arithmetic ledger implements the capacity lease: leases are
\* granted whole under fresh identities, end once, and never exceed the limit.
THEOREM LedgerImplementsLease == Spec => ImplementsLease
<1>1. Init => Lease!Init
  BY DEF Init, Lease!Init, LeaseView
<1> QED
  BY <1>1, InitInv, StepInv, StepLease, PTL DEF Spec, ImplementsLease, Lease!Spec
=============================================================================
