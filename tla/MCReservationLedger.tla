------------------------ MODULE MCReservationLedger ------------------------
(* A small ledger: 2-bit words, so that a request can be as large as a word *)
(* and sums can wrap, and identity spaces that run out.                     *)
EXTENDS ReservationLedger, TLC

CONSTANTS d1, d2, k1, k2, g1, g2

MCShardOf == [d \in {d1, d2} |-> 0]
Vec(a, b) == [k \in {k1, k2} |-> IF k = k1 THEN a ELSE b]
MCCapacities == {Vec(1, 1), Vec(3, 2)}
MCRequests == {Vec(1, 0), Vec(3, 1)}
Sym == Permutations({d1, d2}) \union Permutations({g1, g2})
=============================================================================
