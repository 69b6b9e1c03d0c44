--------------------------- MODULE TenantOccupancy ---------------------------
(***************************************************************************)
(* The occupancy of a tenant: a mirror of the slot semaphore, kept outside *)
(* of it (registry.py, "Ocupação do TENANT").  A ZSET has the occupancy of *)
(* each busy instance, and a counter their total; one Lua script updates   *)
(* both.  claim_instance, release_instance and swap_to_hold run it AFTER   *)
(* their own script, with the occupancy that script returned, in a second  *)
(* call to Redis; the reaper of orphan slots does not run it at all.       *)
(***************************************************************************)
EXTENDS InstanceSemaphore, Functions

CONSTANTS
    Worker,     \* coroutines of the routing engine
    NoSync      \* a worker that has nothing to mirror

ASSUME WorkerAssumption == NoSync \notin [i : Instance, n : Nat]

VARIABLES
    mirror,     \* the ZSET: instance -> its score, 0 when it is not a member
    total,      \* the counter
    pending,    \* worker -> the occupancy it is about to mirror
    reading,    \* what a reconciliation has read: the sum and the counter
    astray      \* instances with an update lost, bypassed or in a race (ghost)

ovars == <<mirror, total, pending, reading, astray>>
mirrorvars == <<slots, closed, now, reap, cooldown, mirror, total, pending, reading, astray>>

Plus(a, b) == a + b
Sum == FoldFunction(Plus, 0, mirror)
Occupancy(i) == Cardinality(slots[i])
Unread == [on |-> FALSE, sum |-> 0, counter |-> 0]

OccupancyInit ==
    /\ Init
    /\ mirror = [i \in Instance |-> 0] /\ total = 0
    /\ pending = [w \in Worker |-> NoSync]
    /\ reading = Unread
    /\ astray = {}

\* A worker calls into the semaphore for instance i; another one may still have
\* an occupancy of the same instance to mirror, and mirror it last.
Enter(w, i) ==
    /\ pending[w] = NoSync
    /\ astray' = IF \E v \in Worker : pending[v] # NoSync /\ pending[v].i = i
                   THEN astray \cup {i} ELSE astray

Owes(w, i) == pending' = [pending EXCEPT ![w] = [i |-> i, n |-> Cardinality(slots'[i])]]

\* A granted claim is mirrored; a refused one (-1) is not.
OccupyClaim(w, i, s, c, p, inherits, t) ==
    /\ Enter(w, i)
    /\ Claim(i, s, c, p, inherits, t)
    /\ IF ClaimOutcomes(slots[i], s, c, p, inherits, t, Max[i]) # {}
         THEN Owes(w, i)
         ELSE UNCHANGED pending
    /\ UNCHANGED <<mirror, total, reading>>

MutantOccupyRelease(w, i, s) ==
    /\ Enter(w, i)
    /\ Release(i, s)
    /\ UNCHANGED <<mirror, total, pending, reading>>

OccupyRelease(w, i, s) ==
    /\ Enter(w, i)
    /\ Release(i, s) /\ Owes(w, i)
    /\ UNCHANGED <<mirror, total, reading>>

OccupySwap(w, i, s, t) ==
    /\ Enter(w, i)
    /\ Swap(i, s, t) /\ Owes(w, i)
    /\ UNCHANGED <<mirror, total, reading>>

\* _sync_tenant_occupancy: the score is replaced, and the counter moves by the
\* difference.
MutantSync(w) ==
    /\ pending[w] # NoSync
    /\ LET i == pending[w].i IN
          /\ mirror' = [mirror EXCEPT ![i] = pending[w].n]
          /\ total' = IF mirror[i] = pending[w].n THEN total ELSE total + pending[w].n
    /\ pending' = [pending EXCEPT ![w] = NoSync]
    /\ UNCHANGED <<slots, closed, now, reap, cooldown, reading, astray>>

Sync(w) ==
    /\ pending[w] # NoSync
    /\ mirror' = [mirror EXCEPT ![pending[w].i] = pending[w].n]
    /\ total' = total + pending[w].n - mirror[pending[w].i]
    /\ pending' = [pending EXCEPT ![w] = NoSync]
    /\ UNCHANGED <<slots, closed, now, reap, cooldown, reading, astray>>

\* The process dies, or Redis fails, between the two scripts.
LoseSync(w) ==
    /\ pending[w] # NoSync
    /\ pending' = [pending EXCEPT ![w] = NoSync]
    /\ astray' = astray \cup {pending[w].i}
    /\ UNCHANGED <<slots, closed, now, reap, cooldown, mirror, total, reading>>

\* reconcile_tenant_occupancy, once a minute: one script reads the sum of the
\* scores and the counter; if they differ, the counter is set to the sum.
ReconcileRead ==
    /\ ~reading.on
    /\ reading' = [on |-> TRUE, sum |-> Sum, counter |-> total]
    /\ UNCHANGED <<slots, closed, now, reap, cooldown, mirror, total, pending, astray>>

ReconcileSet ==
    /\ reading.on
    /\ total' = IF reading.sum # reading.counter THEN reading.sum ELSE total
    /\ reading' = Unread
    /\ UNCHANGED <<slots, closed, now, reap, cooldown, mirror, pending, astray>>

\* The reaper frees slots, and mirrors none of it.
Unmirrored(i) ==
    /\ \/ ReapScan(i)
       \/ \E m \in reap[i].todo : ReapLookup(i, m)
       \/ ReapRemove(i)
    /\ astray' = IF slots'[i] # slots[i] THEN astray \cup {i} ELSE astray
    /\ UNCHANGED <<mirror, total, pending, reading>>

Elsewhere ==
    /\ Tick \/ \E s \in Session : MarkClosed(s) \/ UndoClosed(s)
    /\ UNCHANGED ovars

OccupancyNext ==
    \/ \E w \in Worker :
          \/ \E i \in Instance, s \in Session :
                \/ \E c \in Conference, p \in Pool, inherits \in BOOLEAN, t \in 0..now :
                      OccupyClaim(w, i, s, c, p, inherits, t)
                \/ OccupyRelease(w, i, s)
                \/ \E t \in 0..now : OccupySwap(w, i, s, t)
          \/ Sync(w) \/ LoseSync(w)
    \/ ReconcileRead \/ ReconcileSet
    \/ \E i \in Instance : Unmirrored(i)
    \/ Elsewhere

OccupancySpec == OccupancyInit /\ [][OccupancyNext]_mirrorvars

-----------------------------------------------------------------------------
OccupancyTypeOK ==
    /\ TypeOK
    /\ mirror \in [Instance -> Nat] /\ total \in Int
    /\ \A w \in Worker : pending[w] # NoSync => pending[w] \in [i : Instance, n : Nat]
    /\ reading \in [on : BOOLEAN, sum : Nat, counter : Int]
    /\ astray \subseteq Instance

AtRest(i) == \A w \in Worker : pending[w] # NoSync => pending[w].i # i
Drifts(i) == mirror[i] # Occupancy(i)

\* The counter is the sum of the scores in every state, lost and reordered
\* updates, concurrent reconciliations and reaps included: the difference that
\* the script adds is taken in the script.
CounterIsSum == total = Sum

\* The mirror of an instance is exact whenever no call is between its two scripts,
\* if no update of it was lost, raced or bypassed: retagged, inherited and swapped
\* slots, and grants that swept expired holds, included.
RestIsExact == \A i \in Instance : AtRest(i) /\ i \notin astray => ~Drifts(i)

\* _sync_tenant_occupancy's docstring: an update lost between the two scripts
\* leaves a drift, which is exactly what the reconciliation exists to find.  It
\* finds a drift if what it compares differs.
DriftIsFound == (\E i \in Instance : AtRest(i) /\ Drifts(i)) => total # Sum

=============================================================================
