---------------------------- MODULE MCSessionClose ----------------------------
(* Model values and bounds for SessionClose: one contact, up to three      *)
(* instances of one slot each, the contact's own routing and two invites.  *)
EXTENDS SessionClose, TLC

CONSTANTS i1, i2, i3, s1, c0, c1, c2, p1

MCSession     == {s1}
MCPool        == {p1}
MCInstance2   == {i1, i2}
MCInstance3   == {i1, i2, i3}
MCConference2 == {c0, c1}
MCConference3 == {c0, c1, c2}
MCMax         == [i \in Instance |-> 1]

\* Instances and invites are interchangeable.
Symmetry == Permutations(MCInstance3) \cup Permutations({c1, c2})
=============================================================================
