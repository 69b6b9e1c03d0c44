----------------------------- MODULE SlotScripts -----------------------------
(***************************************************************************)
(* The Lua scripts of the routing engine's slot semaphore, as operators on *)
(* the Redis set "{tenant}:instance:{id}:sessions" of one agent instance.  *)
(* A member of the set is one slot in use:                                 *)
(*                                                                         *)
(*   - an occupant  "{session}::{conference}::{pool}", a contact the       *)
(*     instance is serving, tagged with the pool that consumed the slot;   *)
(*   - a hold  "__wrapup_hold__::{origin}::{pool}::{expires_at_ms}", the   *)
(*     slot kept for the wrap-up that follows a contact, which expires     *)
(*     passively.                                                          *)
(*                                                                         *)
(* SMEMBERS returns the members in no particular order, so an operator     *)
(* returns the SET of contents a script may leave.                         *)
(***************************************************************************)
EXTENDS Integers, FiniteSets

Occ(s, c, p)    == [kind |-> "occupant", s |-> s, c |-> c, p |-> p]
Held(s, p, exp) == [kind |-> "hold", s |-> s, p |-> p, exp |-> exp]

IsOccupant(m) == m.kind = "occupant"
IsHold(m)     == m.kind = "hold"

Slots(M, s, c)    == {m \in M : IsOccupant(m) /\ m.s = s /\ m.c = c}
LiveHolds(M, t)   == {m \in M : IsHold(m) /\ m.exp > t}

MutantSlotsOf(M, s) == {m \in M : m.s = s}
SlotsOf(M, s)       == {m \in M : IsOccupant(m) /\ m.s = s}

-----------------------------------------------------------------------------
\* The holds that have expired leave.
Sweep(M, t) == {m \in M : IsHold(m) => m.exp > t}

\* Same identity already there: re-tag it with the pool that claims now.
\* The holds are not swept on this path.
MutantRetagged(M, s, c, p) == {M \cup {Occ(s, c, p)}}
Retagged(M, s, c, p) == {(M \ {m}) \cup {Occ(s, c, p)} : m \in Slots(M, s, c)}

\* A claim that may inherit takes the place of a live hold.
Inherited(M, s, c, p, t) ==
    {(Sweep(M, t) \ {h}) \cup {Occ(s, c, p)} : h \in LiveHolds(M, t)}

\* A new slot, after the sweep of the expired holds, if there is room.
MutantGranted(M, s, c, p, t, max) ==
    {N \in {Sweep(M, t) \cup {Occ(s, c, p)}} : Cardinality(Sweep(M, t)) <= max}
Granted(M, s, c, p, t, max) ==
    {N \in {Sweep(M, t) \cup {Occ(s, c, p)}} : Cardinality(Sweep(M, t)) < max}

\* What a claim may leave; the empty set when it answers -1.
ClaimOutcomes(M, s, c, p, inherits, t, max) ==
    IF Slots(M, s, c) # {} THEN Retagged(M, s, c, p)
    ELSE IF inherits /\ LiveHolds(M, t) # {} THEN Inherited(M, s, c, p, t)
    ELSE Granted(M, s, c, p, t, max)

\* Every slot of the session leaves; the holds stay.
Released(M, s) == M \ SlotsOf(M, s)

\* The session's slots leave and ONE hold takes their place, tagged with the
\* pool of one of them; no slot, no hold.
MutantSwapOutcomes(M, s, exp) ==
    IF SlotsOf(M, s) = {} THEN {M}
    ELSE {M \cup {Held(s, m.p, exp)} : m \in SlotsOf(M, s)}
SwapOutcomes(M, s, exp) ==
    IF SlotsOf(M, s) = {} THEN {M}
    ELSE {Released(M, s) \cup {Held(s, m.p, exp)} : m \in SlotsOf(M, s)}

=============================================================================
