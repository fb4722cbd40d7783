--------------------------- MODULE CapacityLease ---------------------------
(***************************************************************************)
(* What the reservation ledger promises: leases on the capacity of a       *)
(* domain.  A lease is granted whole or not at all, under an identity that *)
(* was never used before; it ends once; and the live leases of a domain    *)
(* never add up to more than the domain's limit, which can only be changed *)
(* to a value that still covers them.                                      *)
(***************************************************************************)
EXTENDS Integers, FiniteSets

CONSTANTS Domain, Kind, Word

VARIABLES limit,    \* Domain -> Kind -> word
          leases    \* every lease ever granted: id -> [domain, amounts, live]

Live(f, d) == {i \in DOMAIN f : f[i].domain = d /\ f[i].live}
Sum(f, d, k) == Cardinality({u \in Live(f, d) \X (1 .. Word) : u[2] <= f[u[1]].amounts[k]})
Covers(l, f, d) == \A k \in Kind : Sum(f, d, k) <= l[k]

Init ==
    /\ limit = [d \in Domain |-> [k \in Kind |-> 0]]
    /\ leases = [i \in {} |-> 0]

Resize(d) ==
    /\ \E l \in [Kind -> 0 .. Word - 1] :
          Covers(l, leases, d) /\ limit' = [limit EXCEPT ![d] = l]
    /\ UNCHANGED leases

\* One new lease appears, on a domain whose limit still covers its leases.
Grant(d) ==
    /\ \E i \in DOMAIN leases' \ DOMAIN leases :
          /\ DOMAIN leases' = DOMAIN leases \union {i}
          /\ leases'[i].domain = d
          /\ leases'[i].live
    /\ \A j \in DOMAIN leases : leases'[j] = leases[j]
    /\ Covers(limit[d], leases', d)
    /\ UNCHANGED limit

\* Some live leases of one domain end, for good.
End(d) ==
    /\ \E S \in SUBSET Live(leases, d) :
          leases' = [i \in DOMAIN leases |->
                        IF i \in S THEN [leases[i] EXCEPT !.live = FALSE] ELSE leases[i]]
    /\ UNCHANGED limit

Next == \E d \in Domain : Resize(d) \/ Grant(d) \/ End(d)

Spec == Init /\ [][Next]_<<limit, leases>>
=============================================================================
