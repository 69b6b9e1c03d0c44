-------------------------- MODULE MCTenantOccupancy --------------------------
(* Model values and bounds for TenantOccupancy: two instances of one slot, *)
(* so that a reap in one meets updates of the other, one session in one    *)
(* conference and two coroutines.                                          *)
EXTENDS TenantOccupancy, TLC

CONSTANTS i1, i2, s1, c0, p1, w1, w2

MCInstance == {i1, i2}
MCSession  == {s1}
MCConf     == {c0}
MCPool     == {p1}
MCWorker   == {w1, w2}
MCMax      == [i \in Instance |-> 1]

\* Instances and coroutines are interchangeable.
Symmetry == Permutations(MCInstance) \cup Permutations(MCWorker)

=============================================================================
