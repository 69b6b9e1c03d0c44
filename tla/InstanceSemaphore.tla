-------------------------- MODULE InstanceSemaphore --------------------------
(***************************************************************************)
(* The slot semaphore of the agent instances of a tenant (registry.py of   *)
(* the routing engine): who holds a slot of whom.                          *)
(*                                                                         *)
(* Each Lua script is one atomic step; the Python around a script is not:  *)
(* the clock is read before a script runs, and the reaper of orphan slots  *)
(* reads the members, asks for each one whether its session is closed, and *)
(* only then removes, one Redis call at a time.                            *)
(***************************************************************************)
EXTENDS SlotScripts

CONSTANTS
    Instance,       \* agent instances of one tenant
    Session,        \* contact (and work item) sessions
    Conference,     \* conference ids, the empty one included
    Pool,           \* pool tags, the empty (untagged) one included
    Max,            \* max_concurrent_sessions of each instance
    HoldTtl,        \* hold_ttl_s, in clock ticks
    ReapCooldown,   \* _REAP_COOLDOWN_S, in clock ticks
    Lag,            \* how old the clock value read before a claim may be
    MaxTime         \* bound on the clock (model bound)

ASSUME MaxAssumption  == Max \in [Instance -> Nat \ {0}]
ASSUME TimeAssumption == /\ HoldTtl \in Nat
                         /\ ReapCooldown \in Nat
                         /\ Lag \in Nat
                         /\ MaxTime \in Nat

VARIABLES
    slots,      \* instance -> members of its sessions set
    closed,     \* sessions whose "session:{sid}:closed" marker is set
    now,        \* wall clock
    reap,       \* instance -> the reap in progress: members still to be
                \* looked up, and those found stale
    cooldown    \* instance -> time at which the reap_cooldown key expires

vars == <<slots, closed, now, reap, cooldown>>

Occupant == [kind : {"occupant"}, s : Session, c : Conference, p : Pool]
Hold     == [kind : {"hold"}, s : Session, p : Pool, exp : Nat]
Member   == Occupant \cup Hold

Idle == [on |-> FALSE, todo |-> {}, stale |-> {}]

-----------------------------------------------------------------------------
Init ==
    /\ slots = [i \in Instance |-> {}]
    /\ closed = {}
    /\ now = 0
    /\ reap = [i \in Instance |-> Idle]
    /\ cooldown = [i \in Instance |-> 0]

\* claim_instance.  The clock value t was read before the script ran.
Claim(i, s, c, p, inherits, t) ==
    /\ t <= now /\ now <= t + Lag
    /\ LET outcomes == ClaimOutcomes(slots[i], s, c, p, inherits, t, Max[i]) IN
          \/ /\ outcomes # {}
             /\ \E N \in outcomes : slots' = [slots EXCEPT ![i] = N]
          \/ /\ outcomes = {}
             /\ slots' = [slots EXCEPT ![i] = Sweep(slots[i], t)]
    /\ UNCHANGED <<closed, now, reap, cooldown>>

\* release_instance.
Release(i, s) ==
    /\ slots' = [slots EXCEPT ![i] = Released(slots[i], s)]
    /\ UNCHANGED <<closed, now, reap, cooldown>>

\* swap_to_hold.  The expiry, too, is computed before the script runs.
Swap(i, s, t) ==
    /\ t <= now /\ now <= t + Lag
    /\ \E N \in SwapOutcomes(slots[i], s, t + HoldTtl) :
          slots' = [slots EXCEPT ![i] = N]
    /\ UNCHANGED <<closed, now, reap, cooldown>>

\* SET NX EX on the cooldown key, then SMEMBERS.  A reap starts when the
\* instance looks full, to a claim or to the (possibly stale) count of its
\* record, so it may start in any state.
MutantReapScan(i) ==
    /\ ~reap[i].on
    /\ cooldown[i] <= now
    /\ cooldown' = [cooldown EXCEPT ![i] = now + ReapCooldown]
    /\ reap' = [reap EXCEPT ![i] = [on |-> TRUE, todo |-> slots[i], stale |-> {}]]
    /\ UNCHANGED <<slots, closed, now>>

ReapScan(i) ==
    /\ ~reap[i].on
    /\ cooldown[i] <= now
    /\ cooldown' = [cooldown EXCEPT ![i] = now + ReapCooldown]
    /\ reap' = [reap EXCEPT ![i] =
          [on |-> TRUE, todo |-> {m \in slots[i] : IsOccupant(m)}, stale |-> {}]]
    /\ UNCHANGED <<slots, closed, now>>

\* EXISTS on the closed marker of one member's session.
ReapLookup(i, m) ==
    /\ m \in reap[i].todo
    /\ reap' = [reap EXCEPT
          ![i].todo  = @ \ {m},
          ![i].stale = IF m.s \in closed THEN @ \cup {m} ELSE @]
    /\ UNCHANGED <<slots, closed, now, cooldown>>

\* SREM of the members found stale, by name.
ReapRemove(i) ==
    /\ reap[i].on /\ reap[i].todo = {}
    /\ slots' = [slots EXCEPT ![i] = @ \ reap[i].stale]
    /\ reap' = [reap EXCEPT ![i] = Idle]
    /\ UNCHANGED <<closed, now, cooldown>>

\* The marker "session:{sid}:closed" is set when a contact closes and when an
\* agent of it is done; the bridge deletes it again when other agents remain.
MarkClosed(s) ==
    /\ closed' = closed \cup {s}
    /\ UNCHANGED <<slots, now, reap, cooldown>>

UndoClosed(s) ==
    /\ s \in closed
    /\ closed' = closed \ {s}
    /\ UNCHANGED <<slots, now, reap, cooldown>>

Tick ==
    /\ now < MaxTime
    /\ now' = now + 1
    /\ UNCHANGED <<slots, closed, reap, cooldown>>

Next ==
    \/ \E i \in Instance, s \in Session :
          \/ \E c \in Conference, p \in Pool, inherits \in BOOLEAN, t \in 0..now :
                Claim(i, s, c, p, inherits, t)
          \/ Release(i, s)
          \/ \E t \in 0..now : Swap(i, s, t)
    \/ \E i \in Instance :
          \/ ReapScan(i)
          \/ \E m \in reap[i].todo : ReapLookup(i, m)
          \/ ReapRemove(i)
    \/ \E s \in Session : MarkClosed(s) \/ UndoClosed(s)
    \/ Tick

Spec == Init /\ [][Next]_vars

-----------------------------------------------------------------------------
TypeOK ==
    /\ slots \in [Instance -> SUBSET Member]
    /\ closed \in SUBSET Session
    /\ now \in Nat
    /\ reap \in [Instance -> [on : BOOLEAN, todo : SUBSET Occupant, stale : SUBSET Occupant]]
    /\ cooldown \in [Instance -> Nat]

\* An instance never has more slots in use, holds included, than its
\* max_concurrent_sessions, whatever claims, swaps, releases, sweeps and reaps
\* interleave (the claim script's check-and-add, _CLAIM_INSTANCE_LUA).
Capacity == \A i \in Instance :
    IsFiniteSet(slots[i]) /\ Cardinality(slots[i]) <= Max[i]

\* A (session, conference) pair holds one slot of an instance at most: a
\* second claim by another pool re-tags, it does not add a member.
OneSlotPerIdentity == \A i \in Instance : \A m, n \in slots[i] :
    IsOccupant(m) /\ IsOccupant(n) /\ m.s = n.s /\ m.c = n.c => m = n

\* A hold that has not expired leaves only by being inherited: some occupant
\* enters in the same step, so no other contact sees the slot free.
HoldIsHandedOver == [][\A i \in Instance : \A h \in LiveHolds(slots[i], now) :
    h \notin slots'[i] => \E m \in slots'[i] : IsOccupant(m) /\ m \notin slots[i]]_vars

\* A hold is born only of a slot of its own session, which leaves in the same
\* step: a redelivered agent_done cannot resurrect a consumed hold.
HoldReplacesSlot == [][\A i \in Instance : \A h \in slots'[i] \ slots[i] :
    IsHold(h) => \E m \in slots[i] \ slots'[i] : IsOccupant(m) /\ m.s = h.s]_vars

\* The semaphore implements the ledger: every script, and every interleaving
\* of the reaper with them, is a take, a stop or a lapse, or changes nothing.
Ledger == INSTANCE SlotLedger WITH
    Request  <- Session \X Conference,
    serving  <- [i \in Instance |->
                    {<<m.s, m.c>> : m \in {n \in slots[i] : IsOccupant(n)}}],
    reserved <- [i \in Instance |-> Cardinality({m \in slots[i] : IsHold(m)})]

LedgerSpec == Ledger!Spec

=============================================================================
