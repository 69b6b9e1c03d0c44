------------------------- MODULE MCInstanceSemaphore -------------------------
(* Model values and bounds for InstanceSemaphore.                          *)
EXTENDS InstanceSemaphore, TLC

CONSTANTS i1, s1, s2, c1, c2, p1, p2

MCInstance   == {i1}
MCSession    == {s1, s2}
MCConference == {c1, c2}
MCPool       == {p1, p2}
MCMax        == [i \in MCInstance |-> 2]

\* Sessions, conferences and pools are interchangeable.
Symmetry == Permutations(MCSession) \cup Permutations(MCConference)
              \cup Permutations(MCPool)
=============================================================================
