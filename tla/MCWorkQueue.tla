----------------------------- MODULE MCWorkQueue -----------------------------
(* Model values and bounds for WorkQueue: two agents of one slot each, so  *)
(* that with two items a claim can meet a full agent and roll back.        *)
EXTENDS WorkQueue, TLC

CONSTANTS i1, i2, i3, x1, x2

MCAgent2 == {i1, i2}
MCAgent3 == {i1, i2, i3}
MCItem1  == {x1}
MCItem2  == {x1, x2}
MCMax    == [i \in Agent |-> 1]

Symmetry == Permutations(MCAgent2) \cup Permutations(MCItem2)
=============================================================================
