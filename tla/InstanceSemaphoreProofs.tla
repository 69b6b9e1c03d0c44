----------------------- MODULE InstanceSemaphoreProofs -----------------------
(***************************************************************************)
(* Proofs about the slot semaphore, for any instances, sessions, pools and *)
(* capacities.  Every step of the system either leaves the members of all  *)
(* instances alone or runs ONE script on ONE instance (lemma StepIsScript),*)
(* so that each property is proved script by script on a set of members.   *)
(***************************************************************************)
EXTENDS InstanceSemaphore, FiniteSetTheorems, TLAPS

\* What one step may make of the members M of an instance of capacity max, when
\* the clock shows t at most.
ScriptOutcome(M, N, time, max) ==
    \/ \E s \in Session, c \in Conference, p \in Pool, inherits \in BOOLEAN, t \in 0..time :
          N \in ClaimOutcomes(M, s, c, p, inherits, t, max)
    \/ \E t \in 0..time : N = Sweep(M, t)
    \/ \E s \in Session : N = Released(M, s)
    \/ \E s \in Session, t \in 0..time : N \in SwapOutcomes(M, s, t + HoldTtl)
    \/ \E R \in SUBSET Occupant : N = M \ R

-----------------------------------------------------------------------------
(* The scripts on a set of members.                                        *)

\* One member in the place of another: no slot more.
LEMMA ReplaceOne ==
    ASSUME NEW M, IsFiniteSet(M), NEW x \in M, NEW y
    PROVE  /\ IsFiniteSet((M \ {x}) \cup {y})
           /\ Cardinality((M \ {x}) \cup {y}) <= Cardinality(M)
<1>1. IsFiniteSet(M \ {x}) /\ Cardinality(M \ {x}) = Cardinality(M) - 1
  BY FS_RemoveElement
<1>2. /\ IsFiniteSet((M \ {x}) \cup {y})
      /\ Cardinality((M \ {x}) \cup {y}) =
            IF y \in M \ {x} THEN Cardinality(M \ {x}) ELSE Cardinality(M \ {x}) + 1
  BY <1>1, FS_AddElement
<1>3. Cardinality(M) \in Nat
  BY FS_CardinalityType
<1> QED  BY <1>1, <1>2, <1>3

\* The sweep of expired holds, the release and the reap only remove.
LEMMA RemovalFits ==
    ASSUME NEW M, NEW max \in Nat, IsFiniteSet(M), Cardinality(M) <= max,
           NEW N, N \subseteq M
    PROVE  IsFiniteSet(N) /\ Cardinality(N) <= max
<1>1. IsFiniteSet(N) /\ Cardinality(N) <= Cardinality(M)
  BY FS_Subset
<1>2. Cardinality(N) \in Nat /\ Cardinality(M) \in Nat
  BY <1>1, FS_CardinalityType
<1> QED  BY <1>1, <1>2

\* A claim keeps some of the members and adds its own.
LEMMA ClaimAddsOne ==
    ASSUME NEW M, NEW s, NEW c, NEW p, NEW inherits, NEW t, NEW max,
           NEW N \in ClaimOutcomes(M, s, c, p, inherits, t, max)
    PROVE  \E K \in SUBSET M : N = K \cup {Occ(s, c, p)}
BY DEF ClaimOutcomes, Retagged, Inherited, Granted, Sweep

\* A claim fits: it re-tags, inherits, or adds to fewer than max members.
LEMMA ClaimFits ==
    ASSUME NEW M, NEW max \in Nat, IsFiniteSet(M), Cardinality(M) <= max,
           NEW s, NEW c, NEW p, NEW inherits, NEW t,
           NEW N \in ClaimOutcomes(M, s, c, p, inherits, t, max)
    PROVE  IsFiniteSet(N) /\ Cardinality(N) <= max
<1> DEFINE K == Sweep(M, t)
<1>1. IsFiniteSet(K) /\ Cardinality(K) <= max
  BY K \subseteq M, RemovalFits DEF Sweep
<1>2. Cardinality(K) \in Nat /\ Cardinality(M) \in Nat
  BY <1>1, FS_CardinalityType
<1>3. CASE N \in Retagged(M, s, c, p)
  <2>1. PICK m \in M : N = (M \ {m}) \cup {Occ(s, c, p)}
    BY <1>3 DEF Retagged, Slots
  <2>2. IsFiniteSet(N) /\ Cardinality(N) <= Cardinality(M)
    BY <2>1, ReplaceOne
  <2>3. Cardinality(N) \in Nat
    BY <2>2, FS_CardinalityType
  <2> QED  BY <2>2, <2>3, <1>2
<1>4. CASE N \in Inherited(M, s, c, p, t)
  <2>1. PICK h \in K : N = (K \ {h}) \cup {Occ(s, c, p)}
    BY <1>4 DEF Inherited, LiveHolds, Sweep
  <2>2. IsFiniteSet(N) /\ Cardinality(N) <= Cardinality(K)
    BY <2>1, <1>1, ReplaceOne
  <2>3. Cardinality(N) \in Nat
    BY <2>2, FS_CardinalityType
  <2> QED  BY <2>2, <2>3, <1>1, <1>2
<1>5. CASE N \in Granted(M, s, c, p, t, max)
  <2>1. N = K \cup {Occ(s, c, p)} /\ Cardinality(K) < max
    BY <1>5 DEF Granted
  <2>2. /\ IsFiniteSet(N)
        /\ Cardinality(N) = IF Occ(s, c, p) \in K THEN Cardinality(K) ELSE Cardinality(K) + 1
    BY <2>1, <1>1, FS_AddElement
  <2> QED  BY <2>1, <2>2, <1>2
<1> QED  BY <1>3, <1>4, <1>5 DEF ClaimOutcomes

\* A swap fits: one hold in the place of at least one slot.
LEMMA SwapFits ==
    ASSUME NEW M, NEW max \in Nat, IsFiniteSet(M), Cardinality(M) <= max,
           NEW s, NEW exp, NEW N \in SwapOutcomes(M, s, exp)
    PROVE  IsFiniteSet(N) /\ Cardinality(N) <= max
<1>1. CASE SlotsOf(M, s) = {}
  BY <1>1 DEF SwapOutcomes
<1>2. CASE SlotsOf(M, s) # {}
  <2>1. PICK m \in SlotsOf(M, s) : N = Released(M, s) \cup {Held(s, m.p, exp)}
    BY <1>2 DEF SwapOutcomes
  <2>2. m \in M /\ Released(M, s) \subseteq M \ {m}
    BY DEF SlotsOf, Released
  <2>3. N \subseteq (M \ {m}) \cup {Held(s, m.p, exp)}
    BY <2>1, <2>2
  <2> DEFINE R == (M \ {m}) \cup {Held(s, m.p, exp)}
  <2>4. IsFiniteSet(R) /\ Cardinality(R) <= Cardinality(M)
    BY <2>2, ReplaceOne
  <2>5. Cardinality(R) \in Nat /\ Cardinality(M) \in Nat
    BY <2>4, FS_CardinalityType
  <2>6. Cardinality(R) <= max
    BY <2>4, <2>5
  <2> HIDE DEF R
  <2> QED  BY <2>3, <2>4, <2>6, RemovalFits DEF R
<1> QED  BY <1>1, <1>2

\* The slots a session has under one conference are the same slot.
OneSlot(M) == \A m, n \in M :
    IsOccupant(m) /\ IsOccupant(n) /\ m.s = n.s /\ m.c = n.c => m = n

\* Whatever a script does, an identity keeps one slot at most.
LEMMA ScriptKeepsOneSlot ==
    ASSUME NEW M, NEW time \in Nat, NEW max, OneSlot(M),
           NEW N, ScriptOutcome(M, N, time, max)
    PROVE  OneSlot(N)
<1>1. ASSUME N \subseteq M  PROVE OneSlot(N)
  BY <1>1 DEF OneSlot
<1>2. ASSUME NEW s \in Session, NEW c \in Conference, NEW p \in Pool,
             NEW inherits \in BOOLEAN, NEW t \in 0..time,
             N \in ClaimOutcomes(M, s, c, p, inherits, t, max)
      PROVE  OneSlot(N)
  <2>1. CASE Slots(M, s, c) # {}
    <3>1. PICK x \in Slots(M, s, c) : N = (M \ {x}) \cup {Occ(s, c, p)}
      BY <1>2, <2>1 DEF ClaimOutcomes, Retagged
    <3>2. \A m \in M \ {x} : IsOccupant(m) => ~(m.s = s /\ m.c = c)
      BY <3>1 DEF OneSlot, Slots
    <3> QED  BY <3>1, <3>2 DEF OneSlot, Occ
  <2>2. CASE Slots(M, s, c) = {}
    <3>1. PICK K \in SUBSET M : N = K \cup {Occ(s, c, p)}
      BY <1>2, ClaimAddsOne
    <3>2. \A m \in M : IsOccupant(m) => ~(m.s = s /\ m.c = c)
      BY <2>2 DEF Slots
    <3> QED  BY <3>1, <3>2 DEF OneSlot, Occ
  <2> QED  BY <2>1, <2>2
<1>3. ASSUME NEW s \in Session, NEW t \in 0..time, N \in SwapOutcomes(M, s, t + HoldTtl)
      PROVE  OneSlot(N)
  <2>1. \A n \in N : IsOccupant(n) => n \in M
    BY <1>3 DEF SwapOutcomes, Released, Held, IsOccupant
  <2> QED  BY <2>1 DEF OneSlot
<1> QED  BY <1>1, <1>2, <1>3 DEF ScriptOutcome, Sweep, Released

-----------------------------------------------------------------------------
(* The steps of the system.                                                *)

\* Every step keeps the types.
LEMMA TypeStep == TypeOK /\ [Next]_vars => TypeOK'
<1> SUFFICES ASSUME TypeOK, [Next]_vars  PROVE TypeOK'
  OBVIOUS
<1> USE TimeAssumption DEF TypeOK
<1>1. ASSUME NEW i \in Instance, NEW s \in Session, NEW c \in Conference, NEW p \in Pool,
             NEW inherits \in BOOLEAN, NEW t \in 0..now, Claim(i, s, c, p, inherits, t)
      PROVE  TypeOK'
  <2>1. Occ(s, c, p) \in Member
    BY DEF Occ, Member, Occupant
  <2>2. \A N \in ClaimOutcomes(slots[i], s, c, p, inherits, t, Max[i]) : N \subseteq Member
    BY <2>1 DEF ClaimOutcomes, Retagged, Inherited, Granted, Sweep, Slots, LiveHolds
  <2>3. Sweep(slots[i], t) \subseteq Member
    BY DEF Sweep
  <2> QED  BY <1>1, <2>2, <2>3 DEF Claim
<1>2. ASSUME NEW i \in Instance, NEW s \in Session, Release(i, s)  PROVE TypeOK'
  BY <1>2 DEF Release, Released
<1>3. ASSUME NEW i \in Instance, NEW s \in Session, NEW t \in 0..now, Swap(i, s, t)
      PROVE  TypeOK'
  <2>1. \A m \in SlotsOf(slots[i], s) : Held(s, m.p, t + HoldTtl) \in Member
    BY DEF SlotsOf, IsOccupant, Held, Member, Occupant, Hold
  <2>2. \A N \in SwapOutcomes(slots[i], s, t + HoldTtl) : N \subseteq Member
    BY <2>1 DEF SwapOutcomes, Released
  <2> QED  BY <1>3, <2>2 DEF Swap
<1>4. ASSUME NEW i \in Instance, ReapScan(i)  PROVE TypeOK'
  <2>1. {m \in slots[i] : IsOccupant(m)} \subseteq Occupant
    BY DEF IsOccupant, Member, Occupant, Hold
  <2> QED  BY <1>4, <2>1 DEF ReapScan
<1>5. ASSUME NEW i \in Instance, NEW m \in reap[i].todo, ReapLookup(i, m)  PROVE TypeOK'
  BY <1>5 DEF ReapLookup
<1>6. ASSUME NEW i \in Instance, ReapRemove(i)  PROVE TypeOK'
  BY <1>6 DEF ReapRemove, Idle
<1>7. ASSUME NEW s \in Session, MarkClosed(s) \/ UndoClosed(s)  PROVE TypeOK'
  BY <1>7 DEF MarkClosed, UndoClosed
<1>8. CASE Tick
  BY <1>8 DEF Tick
<1>9. CASE UNCHANGED vars
  BY <1>9 DEF vars
<1> QED  BY <1>1, <1>2, <1>3, <1>4, <1>5, <1>6, <1>7, <1>8, <1>9 DEF Next

\* Whatever interleaves, a sessions set has occupants and holds only, and a reap
\* in progress looks at occupants only: it never removes a hold.
THEOREM TypeCorrect == Spec => []TypeOK
<1>1. Init => TypeOK
  BY DEF Init, TypeOK, Idle
<1> QED  BY <1>1, TypeStep, PTL DEF Spec

\* A step leaves all members alone or runs one script on one instance.
LEMMA StepIsScript ==
    ASSUME TypeOK, [Next]_vars
    PROVE  \/ slots' = slots
           \/ \E i \in Instance : \E N :
                 /\ slots' = [slots EXCEPT ![i] = N]
                 /\ ScriptOutcome(slots[i], N, now, Max[i])
<1> DEFINE Script == \E i \in Instance : \E N :
                 /\ slots' = [slots EXCEPT ![i] = N]
                 /\ ScriptOutcome(slots[i], N, now, Max[i])
<1>1. ASSUME NEW i \in Instance, NEW s \in Session, NEW c \in Conference, NEW p \in Pool,
             NEW inherits \in BOOLEAN, NEW t \in 0..now, Claim(i, s, c, p, inherits, t)
      PROVE  Script
  BY <1>1 DEF Claim, ScriptOutcome
<1>2. ASSUME NEW i \in Instance, NEW s \in Session, Release(i, s)  PROVE Script
  BY <1>2 DEF Release, ScriptOutcome
<1>3. ASSUME NEW i \in Instance, NEW s \in Session, NEW t \in 0..now, Swap(i, s, t)
      PROVE  Script
  BY <1>3 DEF Swap, ScriptOutcome
<1>4. ASSUME NEW i \in Instance, ReapRemove(i)  PROVE Script
  BY <1>4 DEF ReapRemove, ScriptOutcome, TypeOK
<1> QED  BY <1>1, <1>2, <1>3, <1>4
         DEF Next, ReapScan, ReapLookup, MarkClosed, UndoClosed, Tick, vars

\* No step makes an instance lend more slots than it has.
LEMMA CapacityStep == TypeOK /\ Capacity /\ [Next]_vars => Capacity'
<1> SUFFICES ASSUME TypeOK, Capacity, [Next]_vars  PROVE Capacity'
  OBVIOUS
<1>1. CASE slots' = slots
  BY <1>1 DEF Capacity
<1>2. ASSUME NEW i \in Instance, NEW N, slots' = [slots EXCEPT ![i] = N],
             ScriptOutcome(slots[i], N, now, Max[i])
      PROVE  Capacity'
  <2>1. Max[i] \in Nat /\ IsFiniteSet(slots[i]) /\ Cardinality(slots[i]) <= Max[i]
    BY MaxAssumption DEF Capacity
  <2>2. IsFiniteSet(N) /\ Cardinality(N) <= Max[i]
    <3>1. CASE N \subseteq slots[i]
      BY <2>1, <3>1, RemovalFits
    <3>2. CASE \E s \in Session, c \in Conference, p \in Pool, inherits \in BOOLEAN, t \in 0..now :
                  N \in ClaimOutcomes(slots[i], s, c, p, inherits, t, Max[i])
      BY <2>1, <3>2, ClaimFits
    <3>3. CASE \E s \in Session, t \in 0..now : N \in SwapOutcomes(slots[i], s, t + HoldTtl)
      BY <2>1, <3>3, SwapFits
    <3> QED  BY <1>2, <3>1, <3>2, <3>3 DEF ScriptOutcome, Sweep, Released
  <2> QED  BY <1>2, <2>2 DEF Capacity, TypeOK
<1> QED  BY <1>1, <1>2, StepIsScript

\* An instance never lends more slots than it has.
THEOREM CapacityHolds == Spec => []Capacity
<1>1. Init => Capacity
  BY MaxAssumption, FS_EmptySet DEF Init, Capacity
<1> QED  BY <1>1, CapacityStep, TypeCorrect, PTL DEF Spec

\* A session holds one slot per conference of an instance, however often and by
\* however many pools it is claimed.
THEOREM OneSlotHolds == Spec => []OneSlotPerIdentity
<1>1. Init => OneSlotPerIdentity
  BY DEF Init, OneSlotPerIdentity
<1>2. TypeOK /\ OneSlotPerIdentity /\ [Next]_vars => OneSlotPerIdentity'
  <2> SUFFICES ASSUME TypeOK, OneSlotPerIdentity, [Next]_vars  PROVE OneSlotPerIdentity'
    OBVIOUS
  <2>1. CASE slots' = slots
    BY <2>1 DEF OneSlotPerIdentity
  <2>2. ASSUME NEW i \in Instance, NEW N, slots' = [slots EXCEPT ![i] = N],
               ScriptOutcome(slots[i], N, now, Max[i])
        PROVE  OneSlotPerIdentity'
    <3>1. OneSlot(slots[i]) /\ now \in Nat
      BY DEF OneSlotPerIdentity, OneSlot, TypeOK
    <3>2. OneSlot(N)
      BY <2>2, <3>1, ScriptKeepsOneSlot
    <3> QED  BY <2>2, <3>2 DEF OneSlotPerIdentity, OneSlot, TypeOK
  <2> QED  BY <2>1, <2>2, StepIsScript
<1> QED  BY <1>1, <1>2, TypeCorrect, PTL DEF Spec

\* A hold is born only of a slot of its own session.
THEOREM HoldsReplaceSlots == Spec => HoldReplacesSlot
<1> DEFINE Replaced == \A i \in Instance : \A h \in slots'[i] \ slots[i] :
        IsHold(h) => \E m \in slots[i] \ slots'[i] : IsOccupant(m) /\ m.s = h.s
<1>1. TypeOK /\ [Next]_vars => Replaced
  <2> SUFFICES ASSUME TypeOK, [Next]_vars  PROVE Replaced
    OBVIOUS
  <2>1. CASE slots' = slots
    BY <2>1
  <2>2. ASSUME NEW i \in Instance, NEW N, slots' = [slots EXCEPT ![i] = N],
               ScriptOutcome(slots[i], N, now, Max[i])
        PROVE  Replaced
    <3> SUFFICES ASSUME NEW h \in N \ slots[i], IsHold(h)
                 PROVE  \E m \in slots[i] \ N : IsOccupant(m) /\ m.s = h.s
      BY <2>2 DEF TypeOK
    <3>1. PICK s \in Session, t \in 0..now : N \in SwapOutcomes(slots[i], s, t + HoldTtl)
      <4>1. \A s \in Session, c \in Conference, p \in Pool, inherits \in BOOLEAN, t \in 0..now :
               N \notin ClaimOutcomes(slots[i], s, c, p, inherits, t, Max[i])
        BY ClaimAddsOne DEF Occ, IsHold
      <4>2. ~(N \subseteq slots[i])
        OBVIOUS
      <4> QED  BY <2>2, <4>1, <4>2 DEF ScriptOutcome, Sweep, Released
    <3>2. PICK m \in SlotsOf(slots[i], s) :
             N = Released(slots[i], s) \cup {Held(s, m.p, t + HoldTtl)}
      BY <3>1 DEF SwapOutcomes
    <3>3. h = Held(s, m.p, t + HoldTtl)
      BY <3>2 DEF Released
    <3>4. m \in slots[i] \ N /\ IsOccupant(m) /\ m.s = s
      BY <3>2 DEF SlotsOf, Released, Held, IsOccupant
    <3> QED  BY <3>3, <3>4 DEF Held
  <2> QED  BY <2>1, <2>2, StepIsScript
<1> QED  BY <1>1, TypeCorrect, PTL DEF Spec, HoldReplacesSlot

\* A live hold leaves only for an occupant that enters in the same step.
THEOREM HoldsAreHandedOver == Spec => HoldIsHandedOver
<1> DEFINE HandedOver == \A i \in Instance : \A h \in LiveHolds(slots[i], now) :
        h \notin slots'[i] => \E m \in slots'[i] : IsOccupant(m) /\ m \notin slots[i]
<1>1. TypeOK /\ [Next]_vars => HandedOver
  <2> SUFFICES ASSUME TypeOK, [Next]_vars  PROVE HandedOver
    OBVIOUS
  <2>1. CASE slots' = slots
    BY <2>1 DEF LiveHolds
  <2>2. ASSUME NEW i \in Instance, NEW N, slots' = [slots EXCEPT ![i] = N],
               ScriptOutcome(slots[i], N, now, Max[i])
        PROVE  HandedOver
    <3> SUFFICES ASSUME NEW h \in LiveHolds(slots[i], now), h \notin N
                 PROVE  \E m \in N : IsOccupant(m) /\ m \notin slots[i]
      BY <2>2 DEF TypeOK, LiveHolds
    <3>1. /\ h \in slots[i] /\ IsHold(h) /\ ~IsOccupant(h)
          /\ h \in Hold
      BY DEF LiveHolds, IsHold, IsOccupant, TypeOK, Member, Occupant
    <3>2. \A t \in 0..now : h.exp > t
      BY <3>1 DEF LiveHolds, Hold, TypeOK
    <3>3. \A t \in 0..now : h \in Sweep(slots[i], t)
      BY <3>1, <3>2 DEF Sweep
    <3>4. PICK s \in Session, c \in Conference, p \in Pool, inherits \in BOOLEAN, t \in 0..now :
             N \in ClaimOutcomes(slots[i], s, c, p, inherits, t, Max[i])
      <4>1. \A s \in Session : h \in Released(slots[i], s)
        BY <3>1 DEF Released, SlotsOf
      <4>2. \A s \in Session, t \in 0..now : N \notin SwapOutcomes(slots[i], s, t + HoldTtl)
        BY <4>1, <3>1 DEF SwapOutcomes
      <4>3. \A R \in SUBSET Occupant : N # slots[i] \ R
        BY <3>1 DEF Occupant, IsOccupant
      <4> QED  BY <2>2, <3>3, <4>1, <4>2, <4>3 DEF ScriptOutcome
    <3>5. Slots(slots[i], s, c) = {} /\ Occ(s, c, p) \in N
      BY <3>1, <3>3, <3>4 DEF ClaimOutcomes, Retagged, Inherited, Granted, Slots
    <3>6. IsOccupant(Occ(s, c, p)) /\ Occ(s, c, p) \notin slots[i]
      BY <3>5 DEF Slots, Occ, IsOccupant
    <3> QED  BY <3>5, <3>6
  <2> QED  BY <2>1, <2>2, StepIsScript
<1> QED  BY <1>1, TypeCorrect, PTL DEF Spec, HoldIsHandedOver

-----------------------------------------------------------------------------
(* The semaphore implements the ledger.  What a set of members means to    *)
(* the ledger is the requests it serves and the number of holds it has;    *)
(* each script is a lapse (or nothing), a take or a stop on these two.     *)

Occupants(M) == {n \in M : IsOccupant(n)}
Holds(M)     == {m \in M : IsHold(m)}
Serving(M)   == {<<m.s, m.c>> : m \in Occupants(M)}
Reserved(M)  == Cardinality(Holds(M))

LapseStep(M, N) ==
    Serving(N) = Serving(M) /\ Reserved(N) \in 0..Reserved(M)

TakeStep(M, N, max) == \E q \in Session \X Conference :
    /\ q \notin Serving(M)
    /\ Serving(N) = Serving(M) \cup {q}
    /\ Reserved(N) \in 0..Reserved(M)
    /\ Cardinality(Serving(M)) + Reserved(N) < max

StopStep(M, N) == \E Q \in SUBSET Serving(M), kept \in {0, 1} :
    /\ Q # {}
    /\ Serving(N) = Serving(M) \ Q
    /\ Reserved(N) = Reserved(M) + kept

-----------------------------------------------------------------------------
\* Requests are served by occupants.
LEMMA ServedByOccupant ==
    ASSUME NEW M, NEW q
    PROVE  q \in Serving(M) <=> \E m \in M : IsOccupant(m) /\ q = <<m.s, m.c>>
BY DEF Serving, Occupants

\* Serving and reserved together never exceed the members.
LEMMA LedgerCounts ==
    ASSUME NEW M, IsFiniteSet(M)
    PROVE  /\ Cardinality(M) \in Nat
           /\ Cardinality(Serving(M)) \in Nat /\ Reserved(M) \in Nat
           /\ Cardinality(Serving(M)) + Reserved(M) <= Cardinality(M)
<1>1. /\ IsFiniteSet(Occupants(M)) /\ IsFiniteSet(Holds(M)) /\ IsFiniteSet(Occupants(M) \cup Holds(M))
      /\ Cardinality(Occupants(M) \cup Holds(M)) <= Cardinality(M)
  BY FS_Subset DEF Occupants, Holds
<1>2. Occupants(M) \cap Holds(M) = {}
  BY DEF Occupants, Holds, IsOccupant, IsHold
<1>3. Cardinality(Occupants(M) \cup Holds(M)) =
         Cardinality(Occupants(M)) + Cardinality(Holds(M)) - Cardinality({})
  BY <1>1, <1>2, FS_Union
<1>4. Cardinality({}) = 0
  BY FS_EmptySet
<1>5. IsFiniteSet(Serving(M)) /\ Cardinality(Serving(M)) <= Cardinality(Occupants(M))
  <2> DEFINE f == [m \in Occupants(M) |-> <<m.s, m.c>>]
  <2>1. f \in Surjection(Occupants(M), Serving(M))
    BY DEF Serving, Surjection
  <2> QED  BY <2>1, <1>1, FS_Surjection
<1>6. /\ Cardinality(M) \in Nat /\ Cardinality(Serving(M)) \in Nat
      /\ Cardinality(Occupants(M)) \in Nat /\ Cardinality(Holds(M)) \in Nat
  BY <1>1, <1>5, FS_CardinalityType
<1> QED  BY <1>1, <1>3, <1>4, <1>5, <1>6 DEF Reserved

\* The holds a step keeps are no more than there were.
LEMMA FewerHolds ==
    ASSUME NEW M, NEW N, IsFiniteSet(M), Holds(N) \subseteq Holds(M)
    PROVE  Reserved(N) \in 0..Reserved(M)
<1>1. IsFiniteSet(Holds(M)) /\ Cardinality(Holds(M)) \in Nat
  BY FS_Subset, FS_CardinalityType DEF Holds
<1>2. /\ IsFiniteSet(Holds(N)) /\ Cardinality(Holds(N)) <= Cardinality(Holds(M))
      /\ Cardinality(Holds(N)) \in Nat
  BY <1>1, FS_Subset, FS_CardinalityType
<1> QED  BY <1>1, <1>2 DEF Reserved

\* Only occupants leave: a stop, or nothing.
LEMMA OccupantsLeave ==
    ASSUME NEW M, NEW N \in SUBSET M, IsFiniteSet(M), Holds(N) = Holds(M)
    PROVE  LapseStep(M, N) \/ StopStep(M, N)
<1>1. Reserved(N) = Reserved(M) /\ Reserved(M) \in Nat
  BY LedgerCounts DEF Reserved
<1>2. Serving(N) \subseteq Serving(M)
  BY ServedByOccupant
<1>3. CASE Serving(N) = Serving(M)
  BY <1>1, <1>3 DEF LapseStep
<1>4. CASE Serving(N) # Serving(M)
  <2> DEFINE Q == Serving(M) \ Serving(N)
  <2>1. Q # {} /\ Q \in SUBSET Serving(M) /\ Serving(N) = Serving(M) \ Q
    BY <1>2, <1>4
  <2>2. Reserved(N) = Reserved(M) + 0
    BY <1>1
  <2> HIDE DEF Q
  <2> QED  BY <2>1, <2>2 DEF StopStep
<1> QED  BY <1>3, <1>4

\* A claim re-tags (nothing), or takes.
LEMMA ClaimIsTake ==
    ASSUME NEW M, IsFiniteSet(M), NEW max \in Nat, Cardinality(M) <= max,
           NEW s \in Session, NEW c \in Conference, NEW p, NEW inherits, NEW t,
           NEW N \in ClaimOutcomes(M, s, c, p, inherits, t, max)
    PROVE  LapseStep(M, N) \/ TakeStep(M, N, max)
<1> DEFINE K == Sweep(M, t)
           o == Occ(s, c, p)
<1>1. /\ IsOccupant(o) /\ ~IsHold(o) /\ o.s = s /\ o.c = c
  BY DEF Occ, IsOccupant, IsHold
<1>2. /\ K \subseteq M /\ IsFiniteSet(K) /\ Serving(K) = Serving(M)
  BY FS_Subset DEF Sweep, Serving, Occupants, IsOccupant, IsHold
<1>3. /\ Cardinality(K) \in Nat /\ Cardinality(M) \in Nat /\ Reserved(M) \in Nat
      /\ Cardinality(Serving(M)) \in Nat /\ Reserved(K) \in Nat
      /\ Cardinality(Serving(M)) + Reserved(K) <= Cardinality(K)
      /\ Cardinality(K) <= Cardinality(M)
  BY <1>2, LedgerCounts, FS_Subset
<1> HIDE DEF o, K
<1>4. CASE Slots(M, s, c) # {}
  <2>1. PICK x \in Slots(M, s, c) : N = (M \ {x}) \cup {o}
    BY <1>4 DEF ClaimOutcomes, Retagged, o
  <2>2. x \in M /\ IsOccupant(x) /\ ~IsHold(x) /\ x.s = s /\ x.c = c
    BY DEF Slots, IsOccupant, IsHold
  <2>3. Holds(N) = Holds(M)
    BY <1>1, <2>1, <2>2 DEF Holds
  <2>4. \A q : q \in Serving(N) <=> q \in Serving(M)
    BY <1>1, <2>1, <2>2, ServedByOccupant
  <2>5. Serving(N) = Serving(M) /\ Reserved(N) = Reserved(M)
    BY <2>3, <2>4 DEF Reserved
  <2> QED  BY <1>3, <2>5 DEF LapseStep
<1>5. CASE Slots(M, s, c) = {}
  <2>1. <<s, c>> \notin Serving(M)
    BY <1>5, ServedByOccupant DEF Slots
  <2>2. CASE N \in Inherited(M, s, c, p, t)
    <3>1. PICK h \in K : IsHold(h) /\ N = (K \ {h}) \cup {o}
      BY <2>2 DEF Inherited, LiveHolds, Sweep, K, o
    <3>2. ~IsOccupant(h)
      BY <3>1 DEF IsHold, IsOccupant
    <3>3. \A q : q \in Serving(N) <=> q \in Serving(K) \cup {<<s, c>>}
      BY <1>1, <3>1, <3>2, ServedByOccupant
    <3>4. Holds(N) = Holds(K) \ {h} /\ h \in Holds(K)
      BY <1>1, <3>1 DEF Holds
    <3>5. Reserved(N) = Reserved(K) - 1
      <4>1. IsFiniteSet(Holds(K))
        BY <1>2, FS_Subset DEF Holds
      <4> QED  BY <4>1, <3>4, FS_RemoveElement DEF Reserved
    <3>6. Reserved(N) \in 0..Reserved(M)
      BY <1>2, <3>4, FewerHolds DEF Holds
    <3>7. Serving(N) = Serving(M) \cup {<<s, c>>}
      BY <1>2, <3>3
    <3>8. Cardinality(Serving(M)) + Reserved(N) < max
      BY <1>3, <3>5
    <3> QED  BY <2>1, <3>6, <3>7, <3>8 DEF TakeStep
  <2>3. CASE N \in Granted(M, s, c, p, t, max)
    <3>1. N = K \cup {o} /\ Cardinality(K) < max
      BY <2>3 DEF Granted, K, o
    <3>2. \A q : q \in Serving(N) <=> q \in Serving(K) \cup {<<s, c>>}
      BY <1>1, <3>1, ServedByOccupant
    <3>3. Holds(N) = Holds(K)
      BY <1>1, <3>1 DEF Holds
    <3>4. Reserved(N) \in 0..Reserved(M)
      BY <1>2, <3>3, FewerHolds DEF Holds
    <3>5. Cardinality(Serving(M)) + Reserved(N) < max
      BY <1>3, <3>1, <3>3 DEF Reserved
    <3> QED  BY <1>2, <2>1, <3>2, <3>4, <3>5 DEF TakeStep
  <2> QED  BY <1>5, <2>2, <2>3 DEF ClaimOutcomes
<1> QED  BY <1>4, <1>5

\* A swap stops the requests of a session and keeps one slot in reserve.
LEMMA SwapIsStop ==
    ASSUME NEW M, IsFiniteSet(M), NEW s, NEW exp, NEW N \in SwapOutcomes(M, s, exp)
    PROVE  LapseStep(M, N) \/ StopStep(M, N)
<1>1. Reserved(M) \in Nat
  BY LedgerCounts
<1>2. CASE SlotsOf(M, s) = {}
  BY <1>1, <1>2 DEF SwapOutcomes, LapseStep
<1>3. CASE SlotsOf(M, s) # {}
  <2>1. PICK m \in SlotsOf(M, s) : N = Released(M, s) \cup {Held(s, m.p, exp)}
    BY <1>3 DEF SwapOutcomes
  <2> DEFINE h == Held(s, m.p, exp)
             Q == Serving(M) \ Serving(N)
  <2>2. IsHold(h) /\ ~IsOccupant(h)
    BY DEF Held, IsHold, IsOccupant
  <2>3. m \in M /\ IsOccupant(m) /\ m.s = s
    BY DEF SlotsOf
  <2> HIDE DEF h
  <2>4. N = Released(M, s) \cup {h}
    BY <2>1 DEF h
  <2>5. \A n \in N : IsOccupant(n) => n \in M /\ n.s # s
    BY <2>2, <2>4 DEF Released, SlotsOf
  <2>6. Serving(N) \subseteq Serving(M) /\ <<m.s, m.c>> \in Q
    BY <2>3, <2>5, ServedByOccupant
  <2>7. Holds(N) = Holds(M) \cup {h}
    BY <2>2, <2>4 DEF Holds, Released, SlotsOf, IsHold, IsOccupant
  <2>8. PICK kept \in {0, 1} : Reserved(N) = Reserved(M) + kept
    <3>1. IsFiniteSet(Holds(M))
      BY FS_Subset DEF Holds
    <3>2. Cardinality(Holds(N)) =
             IF h \in Holds(M) THEN Cardinality(Holds(M)) ELSE Cardinality(Holds(M)) + 1
      BY <2>7, <3>1, FS_AddElement
    <3> QED  BY <1>1, <3>2 DEF Reserved
  <2>9. Serving(N) = Serving(M) \ Q
    BY <2>6
  <2> QED  BY <2>6, <2>8, <2>9 DEF StopStep
<1> QED  BY <1>2, <1>3

\* Every script is a lapse (or nothing), a take or a stop.
LEMMA ScriptIsLedgerStep ==
    ASSUME NEW M, IsFiniteSet(M), NEW max \in Nat, Cardinality(M) <= max,
           NEW time \in Nat, NEW N, ScriptOutcome(M, N, time, max)
    PROVE  LapseStep(M, N) \/ TakeStep(M, N, max) \/ StopStep(M, N)
<1>1. ASSUME NEW t \in 0..time, N = Sweep(M, t)  PROVE LapseStep(M, N)
  <2>1. Serving(N) = Serving(M)
    BY <1>1 DEF Sweep, Serving, Occupants, IsOccupant, IsHold
  <2>2. Holds(N) \subseteq Holds(M)
    BY <1>1 DEF Sweep, Holds
  <2> QED  BY <2>1, <2>2, FewerHolds DEF LapseStep
<1>2. ASSUME NEW s \in Session, N = Released(M, s)
      PROVE  LapseStep(M, N) \/ StopStep(M, N)
  <2>1. Holds(N) = Holds(M) /\ N \in SUBSET M
    BY <1>2 DEF Released, SlotsOf, Holds, IsHold, IsOccupant
  <2> QED  BY <2>1, OccupantsLeave
<1>3. ASSUME NEW R \in SUBSET Occupant, N = M \ R
      PROVE  LapseStep(M, N) \/ StopStep(M, N)
  <2>1. Holds(N) = Holds(M) /\ N \in SUBSET M
    BY <1>3 DEF Holds, IsHold, Occupant
  <2> QED  BY <2>1, OccupantsLeave
<1> QED  BY <1>1, <1>2, <1>3, ClaimIsTake, SwapIsStop DEF ScriptOutcome

-----------------------------------------------------------------------------
\* The cardinality of the ledger's own FiniteSets is the cardinality.
LEMMA SameCardinality == ASSUME NEW S  PROVE Ledger!Cardinality(S) = Cardinality(S)
BY DEF Ledger!Cardinality, Cardinality

\* Whatever the claims, releases, swaps and reaps of the tenant interleave, an
\* observer of requests and reserves sees the ledger and nothing else.
THEOREM ImplementsLedger == Spec => LedgerSpec
<1> DEFINE serving  == [i \in Instance |-> {<<m.s, m.c>> : m \in {n \in slots[i] : IsOccupant(n)}}]
           reserved == [i \in Instance |-> Cardinality({m \in slots[i] : IsHold(m)})]
<1>1. Init => Ledger!Init
  <2>1. Cardinality({}) = 0
    BY FS_EmptySet
  <2> QED  BY <2>1 DEF Init, Ledger!Init
<1>2. TypeOK /\ Capacity /\ [Next]_vars => [Ledger!Next]_(Ledger!vars)
  <2> SUFFICES ASSUME TypeOK, Capacity, [Next]_vars  PROVE [Ledger!Next]_(Ledger!vars)
    OBVIOUS
  <2>1. CASE slots' = slots
    BY <2>1 DEF Ledger!vars
  <2>2. ASSUME NEW i \in Instance, NEW N, slots' = [slots EXCEPT ![i] = N],
               ScriptOutcome(slots[i], N, now, Max[i])
        PROVE  Ledger!Next
    <3> DEFINE M == slots[i]
    <3>1. /\ now \in Nat /\ Max[i] \in Nat
          /\ IsFiniteSet(M) /\ Cardinality(M) <= Max[i]
      BY MaxAssumption DEF TypeOK, Capacity
    <3>2. LapseStep(M, N) \/ TakeStep(M, N, Max[i]) \/ StopStep(M, N)
      BY <2>2, <3>1, ScriptIsLedgerStep
    <3>3. /\ serving[i] = Serving(M) /\ reserved[i] = Reserved(M)
          /\ serving' = [serving EXCEPT ![i] = Serving(N)]
          /\ reserved' = [reserved EXCEPT ![i] = Reserved(N)]
      BY <2>2 DEF Serving, Reserved, Occupants, Holds, TypeOK
    <3>4. CASE LapseStep(M, N)
      <4>1. Ledger!Lapse(i)
        BY <3>3, <3>4 DEF Ledger!Lapse, LapseStep
      <4> QED  BY <4>1 DEF Ledger!Next
    <3>5. CASE TakeStep(M, N, Max[i])
      <4>1. PICK q \in Session \X Conference :
               /\ q \notin Serving(M) /\ Serving(N) = Serving(M) \cup {q}
               /\ Reserved(N) \in 0..Reserved(M)
               /\ Cardinality(Serving(M)) + Reserved(N) < Max[i]
        BY <3>5 DEF TakeStep
      <4>2. Ledger!Take(i, q)
        BY <3>3, <4>1, SameCardinality DEF Ledger!Take
      <4> QED  BY <4>2 DEF Ledger!Next
    <3>6. CASE StopStep(M, N)
      <4>1. PICK Q \in SUBSET Serving(M), kept \in {0, 1} :
               Q # {} /\ Serving(N) = Serving(M) \ Q /\ Reserved(N) = Reserved(M) + kept
        BY <3>6 DEF StopStep
      <4>2. Ledger!Stop(i, Q)
        BY <3>3, <4>1 DEF Ledger!Stop
      <4> QED  BY <3>3, <4>2 DEF Ledger!Next
    <3> QED  BY <3>2, <3>4, <3>5, <3>6
  <2> QED  BY <2>1, <2>2, StepIsScript
<1> QED  BY <1>1, <1>2, TypeCorrect, CapacityHolds, PTL DEF Spec, LedgerSpec, Ledger!Spec

=============================================================================
