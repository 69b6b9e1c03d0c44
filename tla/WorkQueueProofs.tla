---------------------------- MODULE WorkQueueProofs ----------------------------
(***************************************************************************)
(* Proofs about the pull queue, for any agents, items and capacities.  An  *)
(* item is a token: in the queue, or in the hands of one agent.  What an   *)
(* agent's stage in a call says of the lease, the record and the slot is   *)
(* what makes the token exclusive, since whoever puts an item back has to  *)
(* have taken everything that was its own away.                            *)
(***************************************************************************)
EXTENDS WorkQueue, TLAPS

\* A slot of the item: all members of a sessions set look like this.
Slot(x) == Occ(x, Conf, Tag)

\* Nothing names the agent as an owner of the item.
Free(i, x) == lease[x] # i /\ record[x] # i /\ Slot(x) \notin slots[i]

\* An agent has won the item and is claiming, or has asked for its release and
\* not put it back.
InClaim(i, x)   == claim[i].x = x /\ claim[i].at \in {"won", "full", "slot", "leased"}
InRelease(i, x) == giveback[i].x = x /\
    giveback[i].at \in {"asked", "unleased", "disowned", "freed", "read"}
Has(i, x) == <<i, x>> \in working \/ InClaim(i, x) \/ InRelease(i, x)

\* A call under way is on an item that was posted, with the contact it read.
CallsOK ==
    /\ had \subseteq Agent \X posted
    /\ \A i \in Agent :
          IF claim[i].at = "none" THEN claim[i] = NoClaim
          ELSE claim[i].x \in posted /\ claim[i].own.stored
    /\ \A i \in Agent :
          IF giveback[i].at = "none" THEN giveback[i] = NoRelease
          ELSE <<i, giveback[i].x>> \in had
    /\ \A i \in Agent : giveback[i].at = "read" => giveback[i].own.stored
    /\ \A x \in Item \ posted :
          ~Ended(x) /\ ~json[x].stored /\ lease[x] = NoOne /\ record[x] = NoOne
    /\ \A x \in Item : ~json[x].stored => json[x].to = NoOne

TypeInv == TypeOK /\ CallsOK

\* An agent has an item in one way: it works on it, or claims it, or gives it back.
OneWay(i, x) ==
    /\ <<i, x>> \in working => ~InClaim(i, x) /\ ~InRelease(i, x)
    /\ InClaim(i, x) => ~InRelease(i, x)

\* Nobody has an item of the queue in hand, and no two agents have the same one.
OneHolder == \A x \in Item :
    /\ x \in queued => \A i \in Agent : ~Has(i, x)
    /\ \A i, j \in Agent : Has(i, x) /\ Has(j, x) => i = j

\* Who has not got the item owns nothing of it while it is in the queue or in
\* somebody else's hands.
Traceless == \A x \in Item :
    /\ x \in queued => \A i \in Agent : Free(i, x)
    /\ \A i, j \in Agent : Has(j, x) /\ i # j => Free(i, x)

\* What the stage of a call says of the caller's own lease, record and slot.
Staged(i, x) ==
    /\ InClaim(i, x) =>
          /\ record[x] # i
          /\ claim[i].at # "leased" => lease[x] # i
          /\ claim[i].at \in {"won", "full"} => Slot(x) \notin slots[i]
    /\ InRelease(i, x) =>
          /\ giveback[i].at # "asked" => lease[x] # i
          /\ giveback[i].at \in {"disowned", "freed", "read"} => record[x] # i
          /\ giveback[i].at \in {"freed", "read"} => Slot(x) \notin slots[i]

TokenInv ==
    /\ OneHolder /\ Traceless
    /\ \A i \in Agent, x \in Item : OneWay(i, x) /\ Staged(i, x)

\* No call of an agent is on an item whose release by it is still under way.
NoLeftovers(i, x) ==
    claim[i].x = x \/ <<i, x>> \in working => giveback[i].x # x /\ <<i, x>> \notin late

\* Until the item is over, who claims it has the slot it took, and who works on
\* it has the record too.
Keeps(i, x) == ~Ended(x) =>
    /\ InClaim(i, x) /\ claim[i].at \in {"slot", "leased"} => Slot(x) \in slots[i]
    /\ <<i, x>> \in working => Slot(x) \in slots[i] /\ record[x] = i

WorkInv == \A i \in Agent, x \in Item : NoLeftovers(i, x) /\ Keeps(i, x)

\* An item that is over was in its worker's hands, and what is left of it is what
\* work_task_expire has still to remove.
Gone(x) == Ended(x) =>
    /\ x \notin queued /\ \A i \in Agent : ~Has(i, x)
    /\ expiry[x].at # "found" => ~json[x].stored
    /\ expiry[x].at \notin {"found", "dequeued"} => lease[x] = NoOne /\ record[x] = NoOne
    /\ \A i \in Agent : expiry[x].at = "done" \/ expiry[x].i # i => Slot(x) \notin slots[i]

EndInv == \A x \in Item : Gone(x)

\* An item that was posted and is not over is stored, and in the queue or in hands.
NoneLost == \A x \in posted : ~Ended(x) =>
    /\ json[x].stored
    /\ x \in queued \/ \E i \in Agent : Has(i, x)

-----------------------------------------------------------------------------
(* The slot of an item in the sessions set of an agent.                    *)

LEMMA SlotsDiffer == ASSUME NEW x, NEW y, Slot(x) = Slot(y)  PROVE x = y
BY DEF Slot, Occ

\* Every member is the slot of an item.
LEMMA MemberIsSlot ==
    ASSUME TypeOK, NEW i \in Agent, NEW m \in slots[i]
    PROVE  \E y \in posted : m = Slot(y)
BY DEF TypeOK, Slot

\* A claim adds the slot of its item, or re-tags it with the same tag.
LEMMA ClaimAddsSlot ==
    ASSUME TypeOK, NEW i \in Agent, NEW x,
           NEW N \in ClaimOutcomes(slots[i], x, Conf, Tag, FALSE, 0, Max[i])
    PROVE  N = slots[i] \cup {Slot(x)}
<1>1. \A m \in slots[i] : IsOccupant(m) /\ ~IsHold(m)
  BY MemberIsSlot DEF Slot, Occ, IsOccupant, IsHold
<1>2. \A m \in Slots(slots[i], x, Conf) : m = Slot(x)
  BY MemberIsSlot DEF Slots, Slot, Occ
<1>3. Sweep(slots[i], 0) = slots[i]
  BY <1>1 DEF Sweep
<1> QED  BY <1>2, <1>3 DEF ClaimOutcomes, Retagged, Granted, Slots, Slot

\* A release removes the slot of its item and no other.
LEMMA ReleaseRemovesSlot ==
    ASSUME TypeOK, NEW i \in Agent, NEW x
    PROVE  Released(slots[i], x) = slots[i] \ {Slot(x)}
<1>1. SlotsOf(slots[i], x) = slots[i] \cap {Slot(x)}
  BY MemberIsSlot DEF SlotsOf, Slot, Occ, IsOccupant
<1> QED  BY <1>1 DEF Released

\* Who find_occupant_instance finds.
LEMMA OccupantHasSlot ==
    ASSUME TypeOK, NEW i \in Agent, NEW x
    PROVE  i \in OccupantOf(x) <=> Slot(x) \in slots[i]
<1>1. \A m \in Slots(slots[i], x, Conf) : m = Slot(x)
  BY MemberIsSlot DEF Slots, Slot, Occ
<1>2. Slot(x) \in slots[i] => Slot(x) \in Slots(slots[i], x, Conf) /\ Slot(x).p = Tag
  BY DEF Slots, Slot, Occ, IsOccupant
<1> QED  BY <1>1, <1>2 DEF OccupantOf, Slots

-----------------------------------------------------------------------------
(* What a move of a call makes of its state.                               *)

LEMMA Stages ==
    /\ NoClaim \in ClaimState /\ NoRelease \in ReleaseState /\ NoExpiry \in ExpiryState
    /\ Absent \in Contact /\ \A o \in Owner : Stored(o) \in Contact
BY DEF NoClaim, NoRelease, NoExpiry, ClaimState, ReleaseState, ExpiryState, Absent, Stored,
   Contact, Owner

LEMMA ClaimGoes ==
    ASSUME TypeOK, NEW i \in Agent, NEW at \in {"won", "full", "slot", "leased"}, ClaimGoTo(i, at)
    PROVE  /\ claim' \in [Agent -> ClaimState]
           /\ claim'[i].at = at /\ claim'[i].x = claim[i].x /\ claim'[i].own = claim[i].own
           /\ \A j \in Agent \ {i} : claim'[j] = claim[j]
<1> DEFINE t == [claim[i] EXCEPT !.at = at]
<1>1. claim[i] \in ClaimState
  BY DEF TypeOK
<1>2. t \in ClaimState /\ t.at = at /\ t.x = claim[i].x /\ t.own = claim[i].own
  BY <1>1 DEF ClaimState
<1>3. claim' = [claim EXCEPT ![i] = t]
  BY DEF ClaimGoTo
<1> QED  BY <1>2, <1>3 DEF TypeOK

LEMMA ClaimEnds ==
    ASSUME TypeOK, NEW i \in Agent, ClaimOver(i)
    PROVE  /\ claim' \in [Agent -> ClaimState]
           /\ claim'[i] = NoClaim
           /\ \A j \in Agent \ {i} : claim'[j] = claim[j]
BY Stages DEF ClaimOver, TypeOK

LEMMA ClaimStarts ==
    ASSUME TypeOK, NEW i \in Agent, NEW x \in Item, ClaimRead(i, x)
    PROVE  /\ claim' \in [Agent -> ClaimState]
           /\ claim'[i].at = "read" /\ claim'[i].x = x /\ claim'[i].own = json[x]
           /\ \A j \in Agent \ {i} : claim'[j] = claim[j]
<1> DEFINE t == [at |-> "read", x |-> x, own |-> json[x]]
<1>1. t \in ClaimState
  BY DEF ClaimState, TypeOK
<1>2. claim' = [claim EXCEPT ![i] = t]
  BY DEF ClaimRead
<1> QED  BY <1>1, <1>2 DEF TypeOK

LEMMA ReleaseStarts ==
    ASSUME TypeOK, NEW i \in Agent, NEW x \in Item, NEW reserve \in BOOLEAN,
           GiveBack(i, x, reserve)
    PROVE  /\ giveback' \in [Agent -> ReleaseState]
           /\ giveback'[i].at = "asked" /\ giveback'[i].x = x /\ giveback'[i].reserve = reserve
           /\ giveback[i].at = "none" /\ claim[i].x # x
           /\ working' = working \ {<<i, x>>}
           /\ \A j \in Agent \ {i} : giveback'[j] = giveback[j]
<1> DEFINE t == [at |-> "asked", x |-> x, reserve |-> reserve, own |-> Absent]
<1>1. t \in ReleaseState
  BY Stages DEF ReleaseState
<1>2. giveback' = [giveback EXCEPT ![i] = t]
  BY DEF GiveBack
<1> QED  BY <1>1, <1>2 DEF TypeOK, GiveBack

LEMMA ReleaseGoes ==
    ASSUME TypeOK, NEW i \in Agent, NEW at \in {"unleased", "disowned", "freed", "answered"},
           ReleaseGoTo(i, at)
    PROVE  /\ giveback' \in [Agent -> ReleaseState]
           /\ giveback'[i].at = at /\ giveback'[i].x = giveback[i].x
           /\ giveback'[i].reserve = giveback[i].reserve /\ giveback'[i].own = giveback[i].own
           /\ \A j \in Agent \ {i} : giveback'[j] = giveback[j]
<1> DEFINE t == [giveback[i] EXCEPT !.at = at]
<1>1. giveback[i] \in ReleaseState
  BY DEF TypeOK
<1>2. /\ t \in ReleaseState /\ t.at = at /\ t.x = giveback[i].x
      /\ t.reserve = giveback[i].reserve /\ t.own = giveback[i].own
  BY <1>1 DEF ReleaseState
<1>3. giveback' = [giveback EXCEPT ![i] = t]
  BY DEF ReleaseGoTo
<1> QED  BY <1>2, <1>3 DEF TypeOK

LEMMA ReleaseReads ==
    ASSUME TypeOK, NEW i \in Agent, giveback[i].x \in Item, ReleaseRead(i)
    PROVE  /\ giveback' \in [Agent -> ReleaseState]
           /\ giveback'[i].x = giveback[i].x /\ giveback'[i].reserve = giveback[i].reserve
           /\ \/ /\ giveback'[i].at = "read" /\ json[giveback[i].x].stored
                 /\ giveback'[i].own = json[giveback[i].x]
              \/ giveback'[i].at = "answered" /\ ~json[giveback[i].x].stored
           /\ \A j \in Agent \ {i} : giveback'[j] = giveback[j]
<1> DEFINE x == giveback[i].x
           t == [giveback[i] EXCEPT !.at = "read", !.own = json[x]]
<1>1. giveback[i] \in ReleaseState /\ json[x] \in Contact
  BY DEF TypeOK
<1>2. /\ t \in ReleaseState /\ t.at = "read" /\ t.x = x
      /\ t.reserve = giveback[i].reserve /\ t.own = json[x]
  BY <1>1 DEF ReleaseState
<1>3. CASE json[x].stored
  <2>1. giveback' = [giveback EXCEPT ![i] = t]
    BY <1>3 DEF ReleaseRead
  <2> QED  BY <2>1, <1>2, <1>3 DEF TypeOK
<1>4. CASE ~json[x].stored
  BY <1>4, ReleaseGoes DEF ReleaseRead
<1> QED  BY <1>3, <1>4

LEMMA ReleaseEnds ==
    ASSUME TypeOK, NEW i \in Agent, giveback' = [giveback EXCEPT ![i] = NoRelease]
    PROVE  /\ giveback' \in [Agent -> ReleaseState]
           /\ giveback'[i] = NoRelease
           /\ \A j \in Agent \ {i} : giveback'[j] = giveback[j]
BY Stages DEF TypeOK

LEMMA ExpiryStarts ==
    ASSUME TypeOK, NEW x \in Item, StartExpiry(x)
    PROVE  /\ expiry' \in [Item -> ExpiryState]
           /\ expiry[x].at = "none" /\ expiry'[x].at = "found"
           /\ expiry'[x].i \in ExpireOwners(x)
           /\ \A y \in Item \ {x} : expiry'[y] = expiry[y]
<1>1. PICK i \in ExpireOwners(x) : expiry' = [expiry EXCEPT ![x] = [at |-> "found", i |-> i]]
  BY DEF StartExpiry
<1>2. i \in Owner
  BY DEF ExpireOwners, Holder, OccupantOf, Owner, TypeOK
<1> DEFINE t == [at |-> "found", i |-> i]
<1>3. t \in ExpiryState
  BY <1>2 DEF ExpiryState
<1> QED  BY <1>1, <1>3 DEF StartExpiry, TypeOK

LEMMA ExpiryGoes ==
    ASSUME TypeOK, NEW x \in Item, NEW at \in {"dequeued", "disowned", "done"}, ExpireGoTo(x, at)
    PROVE  /\ expiry' \in [Item -> ExpiryState]
           /\ expiry'[x].at = at /\ expiry'[x].i = expiry[x].i
           /\ \A y \in Item \ {x} : expiry'[y] = expiry[y]
<1> DEFINE t == [expiry[x] EXCEPT !.at = at]
<1>1. expiry[x] \in ExpiryState
  BY DEF TypeOK
<1>2. t \in ExpiryState /\ t.at = at /\ t.i = expiry[x].i
  BY <1>1 DEF ExpiryState
<1>3. expiry' = [expiry EXCEPT ![x] = t]
  BY DEF ExpireGoTo
<1> QED  BY <1>2, <1>3 DEF TypeOK

-----------------------------------------------------------------------------
(* Types.                                                                  *)

LEMMA InitTypeInv == Init => TypeInv
<1> SUFFICES ASSUME Init  PROVE TypeInv
  OBVIOUS
<1>1. TypeOK
  BY Stages DEF Init, TypeOK, Owner
<1>2. CallsOK
  BY DEF Init, CallsOK, NoClaim, NoRelease, NoExpiry, Absent, Ended
<1> QED  BY <1>1, <1>2 DEF TypeInv

LEMMA ClaimKeepsTypes ==
    ASSUME TypeInv, NEW i \in Agent,
           (\E x \in Item : ClaimRead(i, x)) \/ Claiming(i)
    PROVE  TypeInv'
<1> USE DEF TypeInv, CallsOK
<1>1. ASSUME NEW x \in Item, ClaimRead(i, x)  PROVE TypeInv'
  <2>1. TypeOK'
    BY <1>1, ClaimStarts, Stages DEF ClaimRead, TypeOK
  <2> QED  BY <1>1, <2>1, ClaimStarts DEF ClaimRead, Ended, Eligible
<1>2. CASE ClaimDequeue(i)
  <2>1. TypeOK'
    BY <1>2, ClaimGoes, ClaimEnds, Stages DEF ClaimDequeue, TypeOK
  <2> QED  BY <1>2, <2>1, ClaimGoes, ClaimEnds DEF ClaimDequeue, Ended, NoClaim
<1>3. CASE ClaimSlot(i)
  <2>1. claim[i].x \in posted
    BY <1>3 DEF ClaimSlot
  <2> DEFINE S == {Occ(x, Conf, Tag) : x \in posted}
  <2>2. Slot(claim[i].x) \in S
    BY <2>1 DEF Slot
  <2>3. /\ claim' \in [Agent -> ClaimState]
        /\ claim'[i].at # "none" /\ claim'[i].x = claim[i].x /\ claim'[i].own = claim[i].own
        /\ \A j \in Agent \ {i} : claim'[j] = claim[j]
    <3>1. ClaimGoTo(i, "full") \/ ClaimGoTo(i, "slot")
      BY <1>3 DEF ClaimSlot
    <3> QED  BY <3>1, ClaimGoes
  <2>4. slots' \in [Agent -> SUBSET S]
    <3>1. slots' = slots \/ slots' = [slots EXCEPT ![i] = slots[i] \cup {Slot(claim[i].x)}]
      BY <1>3, ClaimAddsSlot DEF ClaimSlot
    <3>2. slots \in [Agent -> SUBSET S]
      BY DEF TypeOK
    <3> HIDE DEF S
    <3> QED  BY <2>2, <3>1, <3>2
  <2>5. TypeOK'
    BY <1>3, <2>3, <2>4 DEF ClaimSlot, TypeOK
  <2> QED  BY <1>3, <2>3, <2>5 DEF ClaimSlot, Ended
<1>4. CASE ClaimRollback(i)
  <2>1. /\ claim[i].own \in Contact /\ claim[i].own.stored
        /\ claim[i].x \in posted /\ claim[i].x \in Item
    BY <1>4 DEF ClaimRollback, TypeOK, ClaimState
  <2>2. TypeOK'
    BY <1>4, <2>1, ClaimEnds DEF ClaimRollback, TypeOK
  <2> QED  BY <1>4, <2>1, <2>2, ClaimEnds DEF ClaimRollback, Ended, NoClaim, TypeOK
<1>5. CASE ClaimLease(i)
  <2>1. TypeOK'
    BY <1>5, ClaimGoes, Stages DEF ClaimLease, Owner, TypeOK
  <2> QED  BY <1>5, <2>1, ClaimGoes DEF ClaimLease, Owner, Ended
<1>6. CASE ClaimRecord(i)
  <2>1. TypeOK'
    BY <1>6, ClaimEnds, Stages DEF ClaimRecord, Owner, TypeOK
  <2> QED  BY <1>6, <2>1, ClaimEnds DEF ClaimRecord, Owner, Ended, NoClaim
<1> QED  BY <1>1, <1>2, <1>3, <1>4, <1>5, <1>6 DEF Claiming

LEMMA ReleaseKeepsTypes ==
    ASSUME TypeInv, NEW i \in Agent,
           (\E x \in Item : Return(i, x) \/ Drop(i, x) \/ LateReleased(i, x)) \/ Releasing(i)
    PROVE  TypeInv'
<1> USE DEF TypeInv, CallsOK
<1>0. giveback[i].at # "none" => <<i, giveback[i].x>> \in had /\ giveback[i].x \in posted
  OBVIOUS
<1>1. ASSUME NEW x \in Item, Return(i, x)  PROVE TypeInv'
  <2>1. <<i, x>> \in had
    BY <1>1 DEF Return, TypeOK
  <2>2. /\ giveback' \in [Agent -> ReleaseState]
        /\ giveback'[i].at = "asked" /\ giveback'[i].x = x
        /\ working' = working \ {<<i, x>>}
        /\ \A j \in Agent \ {i} : giveback'[j] = giveback[j]
    BY <1>1, ReleaseStarts DEF Return
  <2>3. TypeOK'
    BY <1>1, <2>1, <2>2 DEF Return, TypeOK
  <2> QED  BY <1>1, <2>1, <2>2, <2>3 DEF Return, Ended
<1>2. ASSUME NEW x \in Item, Drop(i, x)  PROVE TypeInv'
  <2>1. <<i, x>> \in had
    BY <1>2 DEF Drop, TypeOK
  <2>2. /\ giveback' \in [Agent -> ReleaseState]
        /\ giveback'[i].at = "asked" /\ giveback'[i].x = x
        /\ working' = working \ {<<i, x>>}
        /\ \A j \in Agent \ {i} : giveback'[j] = giveback[j]
    BY <1>2, ReleaseStarts DEF Drop
  <2>3. TypeOK'
    BY <1>2, <2>1, <2>2 DEF Drop, TypeOK
  <2> QED  BY <1>2, <2>1, <2>2, <2>3 DEF Drop, Ended
<1>3. ASSUME NEW x \in Item, LateReleased(i, x)  PROVE TypeInv'
  <2>1. TypeOK'
    BY <1>3, ReleaseRemovesSlot, Stages DEF LateReleased, TypeOK
  <2> QED  BY <1>3, <2>1, ReleaseRemovesSlot DEF LateReleased, Ended
<1>4. CASE ReleaseLease(i)
  <2>1. TypeOK'
    BY <1>4, ReleaseGoes, Stages DEF ReleaseLease, Owner, TypeOK
  <2> QED  BY <1>4, <2>1, ReleaseGoes DEF ReleaseLease, Owner, Ended
<1>5. CASE ReleaseRecord(i)
  <2>1. TypeOK'
    BY <1>5, ReleaseGoes, Stages DEF ReleaseRecord, Owner, TypeOK
  <2> QED  BY <1>5, <2>1, ReleaseGoes DEF ReleaseRecord, Owner, Ended
<1>6. CASE ReleaseSlot(i)
  <2>1. TypeOK'
    BY <1>6, ReleaseGoes, ReleaseRemovesSlot, Stages DEF ReleaseSlot, TypeOK
  <2> QED  BY <1>6, <2>1, ReleaseGoes, ReleaseRemovesSlot DEF ReleaseSlot, Ended
<1>7. CASE ReleaseRead(i)
  <2>0. giveback[i].x \in Item
    BY <1>0, <1>7 DEF ReleaseRead, TypeOK
  <2>1. TypeOK'
    BY <1>7, <2>0, ReleaseReads DEF ReleaseRead, TypeOK
  <2>2. giveback'[i].at \in {"read", "answered"} /\ <<i, giveback'[i].x>> \in had
    BY <1>0, <1>7, <2>0, ReleaseReads DEF ReleaseRead
  <2> QED  BY <1>7, <2>0, <2>1, <2>2, ReleaseReads DEF ReleaseRead, Ended
<1>8. CASE ReleaseRequeue(i)
  <2>1. /\ giveback[i].x \in posted
        /\ giveback[i].own \in Contact /\ Stored(i) \in Contact /\ Stored(i).stored
        /\ giveback[i].own.stored
    BY <1>0, <1>8, Stages DEF ReleaseRequeue, TypeOK, ReleaseState, Owner, Stored
  <2> DEFINE x == giveback[i].x
  <2>2. /\ json' \in [Item -> Contact]
        /\ \A y \in Item : IF json'[y].stored THEN y \in posted ELSE json'[y].to = NoOne
    BY <1>8, <2>1 DEF ReleaseRequeue, TypeOK
  <2>3. TypeOK'
    BY <1>8, <2>1, <2>2, ReleaseGoes DEF ReleaseRequeue, TypeOK
  <2> QED  BY <1>8, <2>2, <2>3, ReleaseGoes DEF ReleaseRequeue, Ended
<1>9. CASE ReleaseAnswered(i)
  <2>1. TypeOK'
    BY <1>9, <1>0, ReleaseEnds, Stages DEF ReleaseAnswered, TypeOK
  <2> QED  BY <1>9, <2>1, <1>0, ReleaseEnds DEF ReleaseAnswered, Ended, NoRelease
<1> QED  BY <1>1, <1>2, <1>3, <1>4, <1>5, <1>6, <1>7, <1>8, <1>9 DEF Releasing

LEMMA OtherKeepsTypes ==
    ASSUME TypeInv, NEW x \in Item,
           \/ \E o \in Owner : Enqueue(x, o)
           \/ Lapse(x) \/ LeaseExpires(x) \/ Expire(x) \/ Expiring(x)
           \/ \E i \in Agent : Submit(i, x)
    PROVE  TypeInv'
<1> USE DEF TypeInv, CallsOK
<1>1. ASSUME NEW o \in Owner, Enqueue(x, o)  PROVE TypeInv'
  <2>1. slots' \in [Agent -> SUBSET {Occ(y, Conf, Tag) : y \in posted'}]
    BY <1>1 DEF Enqueue, TypeOK
  <2>2. TypeOK'
    BY <1>1, <2>1, Stages DEF Enqueue, TypeOK
  <2> QED  BY <1>1, <2>2 DEF Enqueue, TypeOK, Ended, Stored
<1>2. CASE Lapse(x)
  <2>1. x \in posted
    BY <1>2 DEF Lapse, TypeOK
  <2> QED  BY <1>2, <2>1 DEF Lapse, TypeOK, Ended
<1>3. CASE LeaseExpires(x)
  <2>1. TypeOK'
    BY <1>3, Stages DEF LeaseExpires, Owner, TypeOK
  <2> QED  BY <1>3, <2>1 DEF LeaseExpires, Owner, Ended
<1>4. CASE Expire(x)
  <2>1. TypeOK'
    BY <1>4, ExpiryStarts, Stages DEF Expire, TypeOK
  <2> QED  BY <1>4, <2>1, ExpiryStarts DEF Expire, Ended
<1>5. ASSUME NEW i \in Agent, Submit(i, x)  PROVE TypeInv'
  <2>1. x \in posted
    BY <1>5 DEF Submit, TypeOK
  <2>2. TypeOK'
    BY <1>5, ExpiryStarts DEF Submit, TypeOK
  <2> QED  BY <1>5, <2>1, <2>2, ExpiryStarts DEF Submit, Ended
<1>6. CASE ExpireDequeue(x)
  <2>1. TypeOK'
    BY <1>6, ExpiryGoes, Stages DEF ExpireDequeue, TypeOK
  <2> QED  BY <1>6, <2>1, ExpiryGoes DEF ExpireDequeue, Ended, Absent, TypeOK
<1>7. CASE ExpireDisown(x)
  <2>1. TypeOK'
    BY <1>7, ExpiryGoes, Stages DEF ExpireDisown, Owner, TypeOK
  <2> QED  BY <1>7, <2>1, ExpiryGoes DEF ExpireDisown, Owner, Ended
<1>8. CASE ExpireSlot(x)
  <2>1. TypeOK'
    BY <1>8, ExpiryGoes, ReleaseRemovesSlot, Stages DEF ExpireSlot, ExpiryState, Owner, TypeOK
  <2> QED  BY <1>8, <2>1, ExpiryGoes, ReleaseRemovesSlot DEF ExpireSlot, ExpiryState, Owner, Ended
<1> QED  BY <1>1, <1>2, <1>3, <1>4, <1>5, <1>6, <1>7, <1>8 DEF Expiring

LEMMA StepKeepsTypes == TypeInv /\ [Next]_vars => TypeInv'
<1>1. TypeInv /\ UNCHANGED vars => TypeInv'
  BY DEF TypeInv, TypeOK, CallsOK, vars, Ended
<1> QED  BY <1>1, ClaimKeepsTypes, ReleaseKeepsTypes, OtherKeepsTypes DEF Next

\* What each record of an item holds; a slot, a claim, a release or an expiry is of
\* an item that was posted, a release or an agent_released of one that was claimed.
THEOREM WorkQueueTypeCorrect == Spec => []TypeOK
<1>1. TypeInv => TypeOK
  BY DEF TypeInv
<1> QED  BY <1>1, InitTypeInv, StepKeepsTypes, PTL DEF Spec

-----------------------------------------------------------------------------
(* The token.                                                              *)

\* What a step may do to an agent's part in an item without more ado: it loses the
\* item, or what it owns of it.
Loses(i, x) ==
    /\ <<i, x>> \in working' => <<i, x>> \in working
    /\ InClaim(i, x)' => InClaim(i, x) /\ claim'[i].at = claim[i].at
    /\ InRelease(i, x)' => InRelease(i, x) /\ giveback'[i].at = giveback[i].at
    /\ lease'[x] = i => lease[x] = i
    /\ record'[x] = i => record[x] = i
    /\ Slot(x) \in slots'[i] => Slot(x) \in slots[i]

LEMMA LosingIsSafe ==
    ASSUME NEW i \in Agent, NEW x \in Item, Loses(i, x)
    PROVE  /\ Has(i, x)' => Has(i, x)
           /\ Free(i, x) => Free(i, x)'
           /\ OneWay(i, x) => OneWay(i, x)'
           /\ Staged(i, x) => Staged(i, x)'
BY DEF Loses, Has, Free, OneWay, Staged

\* A step in which everybody may lose.
LEMMA LossKeepsToken ==
    ASSUME TokenInv, queued' \subseteq queued, \A i \in Agent, x \in Item : Loses(i, x)
    PROVE  TokenInv'
<1>1. OneHolder'
  BY LosingIsSafe DEF TokenInv, OneHolder
<1>2. Traceless'
  BY LosingIsSafe DEF TokenInv, Traceless
<1>3. \A i \in Agent, x \in Item : OneWay(i, x)' /\ Staged(i, x)'
  BY LosingIsSafe DEF TokenInv
<1> QED  BY <1>1, <1>2, <1>3 DEF TokenInv

\* A step of one agent on an item that it has, or that is in the queue.
LEMMA MoveKeepsToken ==
    ASSUME TokenInv, NEW i \in Agent, NEW x \in Item, Has(i, x) \/ x \in queued,
           queued' \ {x} \subseteq queued,
           \A j \in Agent, y \in Item : <<j, y>> # <<i, x>> => Loses(j, y),
           OneWay(i, x)', Staged(i, x)',
           x \in queued' => ~Has(i, x)' /\ Free(i, x)'
    PROVE  TokenInv'
<1>1. \A j \in Agent : j # i => ~Has(j, x) /\ Free(j, x)
  BY DEF TokenInv, OneHolder, Traceless
<1>2. \A j \in Agent : j # i => ~Has(j, x)' /\ Free(j, x)'
  BY <1>1, LosingIsSafe
<1>3. \A j \in Agent, y \in Item : y # x =>
         (Has(j, y)' => Has(j, y)) /\ (Free(j, y) => Free(j, y)')
  BY LosingIsSafe
<1>4. OneHolder'
  BY <1>2, <1>3 DEF TokenInv, OneHolder
<1>5. Traceless'
  BY <1>2, <1>3 DEF TokenInv, Traceless
<1>6. \A j \in Agent, y \in Item : OneWay(j, y)' /\ Staged(j, y)'
  BY LosingIsSafe DEF TokenInv
<1> QED  BY <1>4, <1>5, <1>6 DEF TokenInv

LEMMA InitTokenInv == Init => TokenInv
<1> SUFFICES ASSUME Init  PROVE TokenInv
  OBVIOUS
<1>1. \A i \in Agent, x \in Item : ~InClaim(i, x) /\ ~InRelease(i, x) /\ ~Has(i, x)
  BY DEF Init, InClaim, InRelease, Has, NoClaim, NoRelease
<1> QED  BY <1>1 DEF Init, TokenInv, OneHolder, Traceless, OneWay, Staged

\* A call with an item under way is on an item that was posted.
LEMMA CallIsOnItem ==
    ASSUME TypeInv, NEW i \in Agent
    PROVE  /\ Claiming(i) => claim[i].x \in posted /\ claim[i].x \in Item
           /\ Releasing(i) => giveback[i].x \in posted /\ giveback[i].x \in Item
<1>1. claim[i].at # "none" => claim[i].x \in posted
  BY DEF TypeInv, CallsOK
<1>2. giveback[i].at # "none" => giveback[i].x \in posted
  BY DEF TypeInv, CallsOK, TypeOK
<1>3. posted \subseteq Item
  BY DEF TypeInv, TypeOK
<1> QED
  BY <1>1, <1>2, <1>3
     DEF Claiming, ClaimDequeue, ClaimSlot, ClaimRollback, ClaimLease, ClaimRecord, Releasing,
         ReleaseLease, ReleaseRecord, ReleaseSlot, ReleaseRead, ReleaseRequeue, ReleaseAnswered

LEMMA ClaimReadKeepsToken ==
    ASSUME TypeInv, TokenInv, NEW i \in Agent, NEW x \in Item, ClaimRead(i, x)
    PROVE  TokenInv'
<1>1. \A j \in Agent, y \in Item : Loses(j, y)
  BY ClaimStarts DEF TypeInv, ClaimRead, Loses, InClaim, InRelease
<1> QED  BY <1>1, LossKeepsToken DEF ClaimRead

LEMMA ClaimingKeepsToken ==
    ASSUME TypeInv, TokenInv, NEW i \in Agent, NEW x \in Item, claim[i].x = x, Claiming(i)
    PROVE  TokenInv'
<1> USE DEF TypeInv
<1>2. CASE ClaimDequeue(i)
  <2>1. CASE x \notin queued
    <3>1. \A j \in Agent, y \in Item : Loses(j, y)
      BY <1>2, <2>1, ClaimEnds DEF ClaimDequeue, Loses, InClaim, InRelease, NoClaim
    <3> QED  BY <1>2, <3>1, LossKeepsToken DEF ClaimDequeue
  <2>2. CASE x \in queued
    <3>1. /\ claim'[i].at = "won" /\ claim'[i].x = x /\ x \in Item
          /\ \A j \in Agent \ {i} : claim'[j] = claim[j]
      BY <1>2, <2>2, ClaimGoes DEF ClaimDequeue, TypeOK
    <3>2. \A j \in Agent, y \in Item : <<j, y>> # <<i, x>> => Loses(j, y)
      BY <1>2, <3>1 DEF ClaimDequeue, Loses, InClaim, InRelease
    <3>3. ~Has(i, x) /\ Free(i, x)
      BY <2>2, <3>1 DEF TokenInv, OneHolder, Traceless
    <3>4. OneWay(i, x)' /\ Staged(i, x)'
      BY <1>2, <3>1, <3>3 DEF ClaimDequeue, OneWay, Staged, Has, Free, InClaim, InRelease
    <3> QED  BY <1>2, <2>2, <3>1, <3>2, <3>4, MoveKeepsToken DEF ClaimDequeue
  <2> QED  BY <2>1, <2>2
<1>1. claim[i].at \in {"won", "full", "slot", "leased"} =>
         InClaim(i, x) /\ Has(i, x) /\ OneWay(i, x) /\ Staged(i, x) /\ x \notin queued
  BY DEF InClaim, Has, TokenInv, OneHolder
<1>3. CASE ClaimSlot(i)
  <2>1. InClaim(i, x) /\ Has(i, x) /\ OneWay(i, x) /\ Staged(i, x) /\ x \notin queued /\ queued' = queued
    BY <1>1, <1>3 DEF ClaimSlot
  <2>2. /\ claim'[i].x = x /\ \A j \in Agent \ {i} : claim'[j] = claim[j]
        /\ \A j \in Agent : j # i => slots'[j] = slots[j]
        /\ \/ claim'[i].at = "full" /\ slots'[i] = slots[i]
           \/ claim'[i].at = "slot" /\ slots'[i] = slots[i] \cup {Slot(x)}
    BY <1>3, ClaimGoes, ClaimAddsSlot DEF ClaimSlot, TypeOK
  <2>3. \A j \in Agent, y \in Item : <<j, y>> # <<i, x>> => Loses(j, y)
    BY <1>3, <2>2, SlotsDiffer DEF ClaimSlot, Loses, InClaim, InRelease
  <2>4. OneWay(i, x)' /\ Staged(i, x)'
    BY <1>3, <2>1, <2>2 DEF ClaimSlot, OneWay, Staged, InClaim, InRelease
  <2> QED  BY <2>1, <2>3, <2>4, MoveKeepsToken
<1>4. CASE ClaimRollback(i)
  <2>1. InClaim(i, x) /\ Has(i, x) /\ OneWay(i, x) /\ Staged(i, x) /\ queued' = queued \cup {x}
    BY <1>1, <1>4 DEF ClaimRollback
  <2>2. claim'[i] = NoClaim /\ \A j \in Agent \ {i} : claim'[j] = claim[j]
    BY <1>4, ClaimEnds DEF ClaimRollback
  <2>3. \A j \in Agent, y \in Item : <<j, y>> # <<i, x>> => Loses(j, y)
    BY <1>4, <2>2 DEF ClaimRollback, Loses, InClaim, InRelease, NoClaim
  <2>4. OneWay(i, x)' /\ Staged(i, x)' /\ ~Has(i, x)' /\ Free(i, x)'
    BY <1>4, <2>1, <2>2
       DEF ClaimRollback, OneWay, Staged, Has, Free, InClaim, InRelease, NoClaim
  <2> QED  BY <2>1, <2>3, <2>4, MoveKeepsToken
<1>5. CASE ClaimLease(i)
  <2>1. InClaim(i, x) /\ Has(i, x) /\ OneWay(i, x) /\ Staged(i, x) /\ x \notin queued /\ queued' = queued
    BY <1>1, <1>5 DEF ClaimLease
  <2>2. /\ claim'[i].x = x /\ claim'[i].at = "leased"
        /\ \A j \in Agent \ {i} : claim'[j] = claim[j]
    BY <1>5, ClaimGoes DEF ClaimLease
  <2>3. \A j \in Agent, y \in Item : <<j, y>> # <<i, x>> => Loses(j, y)
    BY <1>5, <2>2 DEF ClaimLease, Loses, InClaim, InRelease, TypeOK
  <2>4. OneWay(i, x)' /\ Staged(i, x)'
    BY <1>5, <2>1, <2>2 DEF ClaimLease, OneWay, Staged, InClaim, InRelease
  <2> QED  BY <2>1, <2>3, <2>4, MoveKeepsToken
<1>6. CASE ClaimRecord(i)
  <2>1. InClaim(i, x) /\ Has(i, x) /\ OneWay(i, x) /\ Staged(i, x) /\ x \notin queued /\ queued' = queued
    BY <1>1, <1>6 DEF ClaimRecord
  <2>2. claim'[i] = NoClaim /\ \A j \in Agent \ {i} : claim'[j] = claim[j]
    BY <1>6, ClaimEnds DEF ClaimRecord
  <2>3. \A j \in Agent, y \in Item : <<j, y>> # <<i, x>> => Loses(j, y)
    BY <1>6, <2>2 DEF ClaimRecord, Loses, InClaim, InRelease, NoClaim, TypeOK
  <2>4. OneWay(i, x)' /\ Staged(i, x)'
    BY <1>6, <2>1, <2>2 DEF ClaimRecord, OneWay, Staged, InClaim, InRelease, NoClaim
  <2> QED  BY <2>1, <2>3, <2>4, MoveKeepsToken
<1> QED  BY <1>2, <1>3, <1>4, <1>5, <1>6 DEF Claiming

\* An agent that gives back what it works on has it until it has put it back.
LEMMA GiveBackKeepsToken ==
    ASSUME TypeInv, TokenInv, NEW i \in Agent, NEW x \in Item, ~Hazard("stale_release"),
           Return(i, x) \/ Drop(i, x)
    PROVE  TokenInv'
<1> USE DEF TypeInv
<1>1. /\ <<i, x>> \in working /\ <<i, x>> \notin working'
      /\ giveback'[i].at = "asked" /\ giveback'[i].x = x
      /\ \A j \in Agent \ {i} : giveback'[j] = giveback[j]
      /\ working' \subseteq working /\ giveback[i].at = "none"
  BY ReleaseStarts DEF Return, Drop
<1>2. Has(i, x) /\ OneWay(i, x) /\ Staged(i, x) /\ x \notin queued
  BY <1>1 DEF Has, TokenInv, OneHolder
<1>3. \A j \in Agent, y \in Item : <<j, y>> # <<i, x>> => Loses(j, y)
  BY <1>1 DEF Return, Drop, Loses, InClaim, InRelease
<1>4. OneWay(i, x)' /\ Staged(i, x)'
  BY <1>1, <1>2 DEF Return, Drop, OneWay, Staged, InClaim, InRelease
<1>5. queued' = queued
  BY DEF Return, Drop
<1> QED  BY <1>2, <1>3, <1>4, <1>5, MoveKeepsToken

LEMMA ReleasingKeepsToken ==
    ASSUME TypeInv, TokenInv, NEW i \in Agent, NEW x \in Item, giveback[i].x = x, Releasing(i)
    PROVE  TokenInv'
<1> USE DEF TypeInv
<1>1. giveback[i].at \in {"asked", "unleased", "disowned", "freed", "read"} =>
         InRelease(i, x) /\ Has(i, x) /\ OneWay(i, x) /\ Staged(i, x) /\ x \notin queued
  BY DEF InRelease, Has, TokenInv, OneHolder
<1>2. CASE ReleaseLease(i)
  <2>1. /\ giveback[i].at = "asked" /\ queued' = queued
        /\ InRelease(i, x) /\ Has(i, x) /\ OneWay(i, x) /\ Staged(i, x) /\ x \notin queued
    BY <1>1, <1>2 DEF ReleaseLease
  <2>2. /\ giveback'[i].x = x /\ giveback'[i].at = "unleased"
        /\ \A j \in Agent \ {i} : giveback'[j] = giveback[j]
    BY <1>2, ReleaseGoes DEF ReleaseLease
  <2>3. \A j \in Agent, y \in Item : <<j, y>> # <<i, x>> => Loses(j, y)
    BY <1>2, <2>2, AgentAssumption DEF ReleaseLease, Loses, InClaim, InRelease, TypeOK
  <2>4. OneWay(i, x)' /\ Staged(i, x)'
    BY <1>2, <2>1, <2>2, AgentAssumption
       DEF ReleaseLease, OneWay, Staged, InClaim, InRelease, TypeOK
  <2> QED  BY <2>1, <2>3, <2>4, MoveKeepsToken
<1>3. CASE ReleaseRecord(i)
  <2>1. /\ giveback[i].at = "unleased" /\ queued' = queued
        /\ InRelease(i, x) /\ Has(i, x) /\ OneWay(i, x) /\ Staged(i, x) /\ x \notin queued
    BY <1>1, <1>3 DEF ReleaseRecord
  <2>2. /\ giveback'[i].x = x /\ giveback'[i].at = "disowned"
        /\ \A j \in Agent \ {i} : giveback'[j] = giveback[j]
    BY <1>3, ReleaseGoes DEF ReleaseRecord
  <2>3. \A j \in Agent, y \in Item : <<j, y>> # <<i, x>> => Loses(j, y)
    BY <1>3, <2>2, AgentAssumption DEF ReleaseRecord, Loses, InClaim, InRelease, TypeOK
  <2>4. OneWay(i, x)' /\ Staged(i, x)'
    BY <1>3, <2>1, <2>2, AgentAssumption
       DEF ReleaseRecord, OneWay, Staged, InClaim, InRelease, TypeOK
  <2> QED  BY <2>1, <2>3, <2>4, MoveKeepsToken
<1>4. CASE ReleaseSlot(i)
  <2>1. /\ giveback[i].at = "disowned" /\ queued' = queued
        /\ InRelease(i, x) /\ Has(i, x) /\ OneWay(i, x) /\ Staged(i, x) /\ x \notin queued
    BY <1>1, <1>4 DEF ReleaseSlot
  <2>2. /\ giveback'[i].x = x /\ giveback'[i].at = "freed"
        /\ \A j \in Agent \ {i} : giveback'[j] = giveback[j]
    BY <1>4, ReleaseGoes DEF ReleaseSlot
  <2>3. /\ slots'[i] = slots[i] \ {Slot(x)}
        /\ \A j \in Agent \ {i} : slots'[j] = slots[j]
    BY <1>4, ReleaseRemovesSlot DEF ReleaseSlot, TypeOK
  <2>4. \A j \in Agent, y \in Item : <<j, y>> # <<i, x>> => Loses(j, y)
    BY <1>4, <2>2, <2>3, AgentAssumption DEF ReleaseSlot, Loses, InClaim, InRelease, TypeOK
  <2>5. OneWay(i, x)' /\ Staged(i, x)'
    BY <1>4, <2>1, <2>2, <2>3, AgentAssumption
       DEF ReleaseSlot, OneWay, Staged, InClaim, InRelease, TypeOK
  <2> QED  BY <2>1, <2>4, <2>5, MoveKeepsToken
<1>5. CASE ReleaseRead(i)
  <2>1. /\ giveback[i].at = "freed" /\ queued' = queued
        /\ InRelease(i, x) /\ Has(i, x) /\ OneWay(i, x) /\ Staged(i, x) /\ x \notin queued
    BY <1>1, <1>5 DEF ReleaseRead
  <2>2. /\ giveback'[i].x = x /\ giveback'[i].at \in {"read", "answered"}
        /\ \A j \in Agent \ {i} : giveback'[j] = giveback[j]
    BY <1>5, ReleaseReads DEF ReleaseRead
  <2>3. \A j \in Agent, y \in Item : <<j, y>> # <<i, x>> => Loses(j, y)
    BY <1>5, <2>2 DEF ReleaseRead, Loses, InClaim, InRelease
  <2>4. OneWay(i, x)' /\ Staged(i, x)'
    BY <1>5, <2>1, <2>2 DEF ReleaseRead, OneWay, Staged, InClaim, InRelease
  <2> QED  BY <2>1, <2>3, <2>4, MoveKeepsToken
<1>6. CASE ReleaseRequeue(i)
  <2>1. /\ giveback[i].at = "read" /\ queued' = queued \cup {x}
        /\ InRelease(i, x) /\ Has(i, x) /\ OneWay(i, x) /\ Staged(i, x) /\ x \notin queued
    BY <1>1, <1>6 DEF ReleaseRequeue
  <2>2. /\ giveback'[i].x = x /\ giveback'[i].at = "answered"
        /\ \A j \in Agent \ {i} : giveback'[j] = giveback[j]
    BY <1>6, ReleaseGoes DEF ReleaseRequeue
  <2>3. \A j \in Agent, y \in Item : <<j, y>> # <<i, x>> => Loses(j, y)
    BY <1>6, <2>2 DEF ReleaseRequeue, Loses, InClaim, InRelease
  <2>4. OneWay(i, x)' /\ Staged(i, x)' /\ ~Has(i, x)' /\ Free(i, x)'
    BY <1>6, <2>1, <2>2 DEF ReleaseRequeue, OneWay, Staged, Has, Free, InClaim, InRelease
  <2> QED  BY <2>1, <2>3, <2>4, MoveKeepsToken
<1>7. CASE ReleaseAnswered(i)
  <2>1. \A j \in Agent, y \in Item : Loses(j, y)
    BY <1>7, ReleaseEnds DEF ReleaseAnswered, Loses, InClaim, InRelease, NoRelease
  <2> QED  BY <1>7, <2>1, LossKeepsToken DEF ReleaseAnswered
<1> QED  BY <1>2, <1>3, <1>4, <1>5, <1>6, <1>7 DEF Releasing

\* What the clock, the events and the closing of an item take away.
LEMMA OtherKeepsToken ==
    ASSUME TypeInv, TokenInv, NEW x \in Item,
           \/ \E o \in Owner : Enqueue(x, o)
           \/ Lapse(x) \/ LeaseExpires(x) \/ Expire(x) \/ Expiring(x)
           \/ \E i \in Agent : Submit(i, x) \/ LateReleased(i, x)
    PROVE  TokenInv'
<1> USE AgentAssumption DEF TypeInv
<1>1. ASSUME NEW o \in Owner, Enqueue(x, o)  PROVE TokenInv'
  <2>1. \A j \in Agent, y \in Item : Loses(j, y)
    BY <1>1 DEF Enqueue, Loses, InClaim, InRelease
  <2>2. \A i \in Agent : ~Has(i, x) /\ Free(i, x)
    <3>1. x \in Item \ posted
      BY <1>1 DEF Enqueue
    <3>2. \A i \in Agent : ~Has(i, x)
      BY <3>1 DEF Has, InClaim, InRelease, CallsOK, TypeOK
    <3>3. \A i \in Agent : Slot(x) \notin slots[i]
      BY <3>1, SlotsDiffer DEF Slot, TypeOK
    <3> QED  BY <3>1, <3>2, <3>3 DEF Free, CallsOK
  <2>3. queued' = queued \cup {x}
    BY <1>1 DEF Enqueue
  <2>4. OneHolder'
    BY <2>1, <2>2, <2>3, LosingIsSafe DEF TokenInv, OneHolder
  <2>5. Traceless'
    BY <2>1, <2>2, <2>3, LosingIsSafe DEF TokenInv, Traceless
  <2>6. \A i \in Agent, y \in Item : OneWay(i, y)' /\ Staged(i, y)'
    BY <2>1, LosingIsSafe DEF TokenInv
  <2> QED  BY <2>4, <2>5, <2>6 DEF TokenInv
<1>2. CASE Lapse(x)
  <2>1. \A j \in Agent, y \in Item : Loses(j, y)
    BY <1>2 DEF Lapse, Loses, InClaim, InRelease
  <2> QED  BY <1>2, <2>1, LossKeepsToken DEF Lapse
<1>3. CASE LeaseExpires(x)
  <2>1. \A j \in Agent, y \in Item : Loses(j, y)
    BY <1>3 DEF LeaseExpires, Loses, InClaim, InRelease, TypeOK
  <2> QED  BY <1>3, <2>1, LossKeepsToken DEF LeaseExpires
<1>4. CASE Expire(x)
  <2>1. \A j \in Agent, y \in Item : Loses(j, y)
    BY <1>4 DEF Expire, Loses, InClaim, InRelease
  <2> QED  BY <1>4, <2>1, LossKeepsToken DEF Expire
<1>5. ASSUME NEW i \in Agent, Submit(i, x)  PROVE TokenInv'
  <2>1. \A j \in Agent, y \in Item : Loses(j, y)
    BY <1>5 DEF Submit, Loses, InClaim, InRelease
  <2> QED  BY <1>5, <2>1, LossKeepsToken DEF Submit
<1>6. ASSUME NEW i \in Agent, LateReleased(i, x)  PROVE TokenInv'
  <2>1. \A j \in Agent, y \in Item : Loses(j, y)
    BY <1>6, ReleaseRemovesSlot DEF LateReleased, Loses, InClaim, InRelease, TypeOK
  <2> QED  BY <1>6, <2>1, LossKeepsToken DEF LateReleased
<1>7. CASE ExpireDequeue(x)
  <2>1. \A j \in Agent, y \in Item : Loses(j, y)
    BY <1>7 DEF ExpireDequeue, Loses, InClaim, InRelease
  <2> QED  BY <1>7, <2>1, LossKeepsToken DEF ExpireDequeue
<1>8. CASE ExpireDisown(x)
  <2>1. \A j \in Agent, y \in Item : Loses(j, y)
    BY <1>8 DEF ExpireDisown, Loses, InClaim, InRelease, TypeOK
  <2> QED  BY <1>8, <2>1, LossKeepsToken DEF ExpireDisown
<1>9. CASE ExpireSlot(x)
  <2>1. \A j \in Agent, y \in Item : Loses(j, y)
    BY <1>9, ReleaseRemovesSlot DEF ExpireSlot, Loses, InClaim, InRelease, TypeOK, ExpiryState, Owner
  <2> QED  BY <1>9, <2>1, LossKeepsToken DEF ExpireSlot
<1> QED  BY <1>1, <1>2, <1>3, <1>4, <1>5, <1>6, <1>7, <1>8, <1>9 DEF Expiring

LEMMA StepKeepsToken ==
    ASSUME "stale_release" \notin Faults
    PROVE  TypeInv /\ TokenInv /\ [Next]_vars => TokenInv'
<1> SUFFICES ASSUME TypeInv, TokenInv, [Next]_vars  PROVE TokenInv'
  OBVIOUS
<1>1. CASE UNCHANGED vars
  <2>1. \A i \in Agent, x \in Item : Loses(i, x)
    BY <1>1 DEF vars, Loses, InClaim, InRelease
  <2> QED  BY <1>1, <2>1, LossKeepsToken DEF vars
<1>2. ASSUME NEW i \in Agent, Claiming(i)  PROVE TokenInv'
  BY <1>2, CallIsOnItem, ClaimingKeepsToken
<1>3. ASSUME NEW i \in Agent, Releasing(i)  PROVE TokenInv'
  BY <1>3, CallIsOnItem, ReleasingKeepsToken
<1>4. ASSUME NEW i \in Agent, NEW x \in Item, ClaimRead(i, x) \/ Return(i, x) \/ Drop(i, x)
      PROVE  TokenInv'
  BY <1>4, ClaimReadKeepsToken, GiveBackKeepsToken DEF Hazard
<1> QED  BY <1>1, <1>2, <1>3, <1>4, OtherKeepsToken DEF Next

\* The queue's items have no owner: no lease or record names anybody, and no agent's
\* semaphore has a slot of theirs, unless stale releases happen.
THEOREM QueuedIsFree ==
    ASSUME "stale_release" \notin Faults
    PROVE  Spec => []QueuedHasNoOwner
<1>1. TypeInv /\ TokenInv => QueuedHasNoOwner
  <2> SUFFICES ASSUME TypeInv, TokenInv, NEW x \in queued
               PROVE  Holder(x) = NoOne /\ OccupantOf(x) = {}
    BY DEF QueuedHasNoOwner
  <2>1. x \in Item /\ lease[x] \in Owner /\ record[x] \in Owner
    BY DEF TypeInv, TypeOK
  <2>2. \A i \in Agent : Free(i, x)
    BY <2>1 DEF TokenInv, Traceless
  <2>3. OccupantOf(x) = {}
    <3>1. \A i \in Agent : i \notin OccupantOf(x)
      BY <2>2, OccupantHasSlot DEF TypeInv, Free
    <3> QED  BY <3>1 DEF OccupantOf
  <2> QED  BY <2>1, <2>2, <2>3 DEF Holder, Free, Owner
<1> QED
  BY <1>1, InitTypeInv, StepKeepsTypes, InitTokenInv, StepKeepsToken, PTL DEF Spec

-----------------------------------------------------------------------------
(* Who works on an item.                                                   *)

\* A step that leaves the part of an agent in an item as it is, or smaller, but for
\* what is the item's end.
Spares(i, x) ==
    /\ claim'[i].x = x \/ <<i, x>> \in working' => claim[i].x = x \/ <<i, x>> \in working
    /\ giveback'[i].x = x => giveback[i].x = x
    /\ <<i, x>> \in late' => <<i, x>> \in late
    /\ Ended(x) => Ended(x)'
    /\ InClaim(i, x)' => InClaim(i, x) /\ claim'[i].at = claim[i].at
    /\ <<i, x>> \in working' => <<i, x>> \in working
    /\ Slot(x) \in slots[i] => Ended(x)' \/ Slot(x) \in slots'[i]
    /\ record[x] = i => Ended(x)' \/ record'[x] = i

LEMMA SparingIsSafe ==
    ASSUME NEW i \in Agent, NEW x \in Item, Spares(i, x), NoLeftovers(i, x), Keeps(i, x)
    PROVE  NoLeftovers(i, x)' /\ Keeps(i, x)'
<1>1. NoLeftovers(i, x)'
  BY DEF Spares, NoLeftovers
<1>2. Keeps(i, x)'
  BY DEF Spares, Keeps
<1> QED  BY <1>1, <1>2

LEMMA InitWorkInv == Init => WorkInv
BY AgentAssumption DEF Init, WorkInv, NoLeftovers, Keeps, InClaim, NoClaim

LEMMA ClaimReadKeepsWork ==
    ASSUME TypeInv, WorkInv, NEW i \in Agent, NEW x \in Item, ~Hazard("reclaim"), ClaimRead(i, x)
    PROVE  WorkInv'
<1> USE AgentAssumption DEF TypeInv
<1>1. /\ claim'[i].at = "read" /\ claim'[i].x = x /\ claim[i].at = "none"
      /\ \A j \in Agent \ {i} : claim'[j] = claim[j]
  BY ClaimStarts DEF ClaimRead
<1>2. giveback[i].x # x /\ <<i, x>> \notin late
  BY DEF ClaimRead, CallsOK, NoRelease
<1>3. \A j \in Agent, y \in Item : <<j, y>> # <<i, x>> => Spares(j, y)
  BY <1>1 DEF ClaimRead, Spares, InClaim, Ended
<1>4. NoLeftovers(i, x)' /\ Keeps(i, x)'
  BY <1>1, <1>2 DEF ClaimRead, WorkInv, NoLeftovers, Keeps, InClaim, Ended
<1> QED  BY <1>3, <1>4, SparingIsSafe DEF WorkInv

LEMMA ClaimingKeepsWork ==
    ASSUME TypeInv, TokenInv, WorkInv, NEW i \in Agent, NEW x \in Item, claim[i].x = x, Claiming(i)
    PROVE  WorkInv'
<1> USE AgentAssumption DEF TypeInv
<1>1. NoLeftovers(i, x) /\ Keeps(i, x)
  BY DEF WorkInv
<1>2. CASE ClaimDequeue(i)
  <2>1. /\ \/ claim'[i].at = "won" /\ claim'[i].x = x
           \/ claim'[i] = NoClaim
        /\ \A j \in Agent \ {i} : claim'[j] = claim[j]
    BY <1>2, ClaimGoes, ClaimEnds DEF ClaimDequeue
  <2>2. \A j \in Agent, y \in Item : <<j, y>> # <<i, x>> => Spares(j, y)
    BY <1>2, <2>1 DEF ClaimDequeue, Spares, InClaim, NoClaim, Ended
  <2>3. NoLeftovers(i, x)' /\ Keeps(i, x)'
    BY <1>1, <1>2, <2>1 DEF ClaimDequeue, NoLeftovers, Keeps, InClaim, NoClaim, Ended
  <2> QED  BY <2>2, <2>3, SparingIsSafe DEF WorkInv
<1>3. CASE ClaimSlot(i)
  <2>1. /\ claim'[i].x = x /\ \A j \in Agent \ {i} : claim'[j] = claim[j]
        /\ \A j \in Agent : j # i => slots'[j] = slots[j]
        /\ \/ claim'[i].at = "full" /\ slots'[i] = slots[i]
           \/ claim'[i].at = "slot" /\ slots'[i] = slots[i] \cup {Slot(x)}
    BY <1>3, ClaimGoes, ClaimAddsSlot DEF ClaimSlot, TypeOK
  <2>2. \A j \in Agent, y \in Item : <<j, y>> # <<i, x>> => Spares(j, y)
    BY <1>3, <2>1 DEF ClaimSlot, Spares, InClaim, Ended
  <2>3. NoLeftovers(i, x)' /\ Keeps(i, x)'
    BY <1>1, <1>3, <2>1 DEF ClaimSlot, NoLeftovers, Keeps, InClaim, Ended
  <2> QED  BY <2>2, <2>3, SparingIsSafe DEF WorkInv
<1>4. CASE ClaimRollback(i)
  <2>1. /\ claim'[i] = NoClaim
        /\ \A j \in Agent \ {i} : claim'[j] = claim[j]
    BY <1>4, ClaimEnds DEF ClaimRollback
  <2>2. \A j \in Agent, y \in Item : <<j, y>> # <<i, x>> => Spares(j, y)
    BY <1>4, <2>1 DEF ClaimRollback, Spares, InClaim, NoClaim, Ended
  <2>3. NoLeftovers(i, x)' /\ Keeps(i, x)'
    BY <1>1, <1>4, <2>1 DEF ClaimRollback, NoLeftovers, Keeps, InClaim, NoClaim, Ended
  <2> QED  BY <2>2, <2>3, SparingIsSafe DEF WorkInv
<1>5. CASE ClaimLease(i)
  <2>1. /\ claim'[i].at = "leased" /\ claim'[i].x = x /\ claim[i].at = "slot"
        /\ \A j \in Agent \ {i} : claim'[j] = claim[j]
    BY <1>5, ClaimGoes DEF ClaimLease
  <2>2. \A j \in Agent, y \in Item : <<j, y>> # <<i, x>> => Spares(j, y)
    BY <1>5, <2>1 DEF ClaimLease, Spares, InClaim, NoClaim, Ended
  <2>3. NoLeftovers(i, x)' /\ Keeps(i, x)'
    BY <1>1, <1>5, <2>1 DEF ClaimLease, NoLeftovers, Keeps, InClaim, NoClaim, Ended
  <2> QED  BY <2>2, <2>3, SparingIsSafe DEF WorkInv
<1>6. CASE ClaimRecord(i)
  <2>1. /\ claim'[i] = NoClaim /\ \A j \in Agent \ {i} : claim'[j] = claim[j]
        /\ claim[i].at = "leased" /\ record' = [record EXCEPT ![x] = i]
        /\ working' = working \cup {<<i, x>>}
    BY <1>6, ClaimEnds DEF ClaimRecord
  <2>2. InClaim(i, x) /\ Has(i, x)
    BY <2>1 DEF InClaim, Has
  <2>3. \A j \in Agent : j # i => Free(j, x)
    BY <2>2 DEF TokenInv, Traceless
  <2>4. \A j \in Agent, y \in Item : <<j, y>> # <<i, x>> => Spares(j, y)
    BY <1>6, <2>1, <2>3 DEF ClaimRecord, Spares, InClaim, NoClaim, Ended, Free, TypeOK
  <2>5. NoLeftovers(i, x)' /\ Keeps(i, x)'
    BY <1>1, <1>6, <2>1, <2>2
       DEF ClaimRecord, NoLeftovers, Keeps, InClaim, NoClaim, Ended, TypeOK
  <2> QED  BY <2>4, <2>5, SparingIsSafe DEF WorkInv
<1> QED  BY <1>2, <1>3, <1>4, <1>5, <1>6 DEF Claiming

LEMMA GiveBackKeepsWork ==
    ASSUME TypeInv, WorkInv, NEW i \in Agent, NEW x \in Item, Return(i, x) \/ Drop(i, x)
    PROVE  WorkInv'
<1> USE DEF TypeInv
<1>1. /\ <<i, x>> \notin working' /\ working' \subseteq working
      /\ giveback'[i].x = x /\ claim[i].x # x
      /\ \A j \in Agent \ {i} : giveback'[j] = giveback[j]
      /\ late' \subseteq late \cup {<<i, x>>}
  BY ReleaseStarts DEF Return, Drop
<1>2. \A j \in Agent, y \in Item : <<j, y>> # <<i, x>> => Spares(j, y)
  BY <1>1 DEF Return, Drop, Spares, InClaim, Ended
<1>3. NoLeftovers(i, x)' /\ Keeps(i, x)'
  BY <1>1 DEF Return, Drop, NoLeftovers, Keeps, InClaim, Ended
<1> QED  BY <1>2, <1>3, SparingIsSafe DEF WorkInv

LEMMA ReleasingKeepsWork ==
    ASSUME TypeInv, TokenInv, WorkInv, NEW i \in Agent, NEW x \in Item, giveback[i].x = x,
           Releasing(i)
    PROVE  WorkInv'
<1> USE AgentAssumption DEF TypeInv
<1>0. claim[i].x # x /\ <<i, x>> \notin working /\ ~InClaim(i, x)
  BY DEF WorkInv, NoLeftovers, InClaim
<1>1. giveback[i].at \in {"asked", "unleased", "disowned", "freed", "read"} =>
         \A j \in Agent : <<j, x>> \notin working
  BY <1>0 DEF InRelease, Has, TokenInv, OneHolder
<1>2. CASE ReleaseLease(i)
  <2>1. /\ giveback'[i].x = x /\ \A j \in Agent \ {i} : giveback'[j] = giveback[j]
    BY <1>2, ReleaseGoes DEF ReleaseLease
  <2>2. \A j \in Agent, y \in Item : Spares(j, y)
    BY <1>2, <2>1 DEF ReleaseLease, Spares, InClaim, Ended
  <2> QED  BY <2>2, SparingIsSafe DEF WorkInv
<1>3. CASE ReleaseRecord(i)
  <2>1. /\ giveback'[i].x = x /\ \A j \in Agent \ {i} : giveback'[j] = giveback[j]
    BY <1>3, ReleaseGoes DEF ReleaseRecord
  <2>2. \A j \in Agent, y \in Item : NoLeftovers(j, y)'
    BY <1>3, <2>1 DEF ReleaseRecord, WorkInv, NoLeftovers
  <2>3. \A j \in Agent, y \in Item : Keeps(j, y)'
    BY <1>1, <1>3, <2>1 DEF ReleaseRecord, WorkInv, Keeps, InClaim, Ended, TypeOK
  <2> QED  BY <2>2, <2>3 DEF WorkInv
<1>4. CASE ReleaseSlot(i)
  <2>1. /\ giveback'[i].x = x /\ \A j \in Agent \ {i} : giveback'[j] = giveback[j]
        /\ slots'[i] = slots[i] \ {Slot(x)} /\ \A j \in Agent \ {i} : slots'[j] = slots[j]
    BY <1>4, ReleaseGoes, ReleaseRemovesSlot DEF ReleaseSlot, TypeOK
  <2>2. \A j \in Agent, y \in Item : <<j, y>> # <<i, x>> => Spares(j, y)
    BY <1>4, <2>1, SlotsDiffer DEF ReleaseSlot, Spares, InClaim, Ended
  <2>3. NoLeftovers(i, x)' /\ Keeps(i, x)'
    BY <1>0, <1>4 DEF ReleaseSlot, NoLeftovers, Keeps, InClaim, Ended
  <2> QED  BY <2>2, <2>3, SparingIsSafe DEF WorkInv
<1>5. CASE ReleaseRead(i)
  <2>1. /\ giveback'[i].x = x /\ \A j \in Agent \ {i} : giveback'[j] = giveback[j]
    BY <1>5, ReleaseReads DEF ReleaseRead
  <2>2. \A j \in Agent, y \in Item : Spares(j, y)
    BY <1>5, <2>1 DEF ReleaseRead, Spares, InClaim, Ended
  <2> QED  BY <2>2, SparingIsSafe DEF WorkInv
<1>6. CASE ReleaseRequeue(i)
  <2>1. /\ giveback'[i].x = x /\ \A j \in Agent \ {i} : giveback'[j] = giveback[j]
    BY <1>6, ReleaseGoes DEF ReleaseRequeue
  <2>2. \A j \in Agent, y \in Item : Spares(j, y)
    BY <1>6, <2>1 DEF ReleaseRequeue, Spares, InClaim, Ended
  <2> QED  BY <2>2, SparingIsSafe DEF WorkInv
<1>7. CASE ReleaseAnswered(i)
  <2>1. /\ giveback'[i] = NoRelease /\ \A j \in Agent \ {i} : giveback'[j] = giveback[j]
        /\ late' \subseteq late \cup {<<i, x>>}
    BY <1>7, ReleaseEnds DEF ReleaseAnswered
  <2>2. \A j \in Agent, y \in Item : <<j, y>> # <<i, x>> => Spares(j, y)
    BY <1>7, <2>1 DEF ReleaseAnswered, Spares, InClaim, Ended, NoRelease
  <2>3. NoLeftovers(i, x)' /\ Keeps(i, x)'
    BY <1>0, <1>7 DEF ReleaseAnswered, NoLeftovers, Keeps, InClaim, Ended
  <2> QED  BY <2>2, <2>3, SparingIsSafe DEF WorkInv
<1> QED  BY <1>2, <1>3, <1>4, <1>5, <1>6, <1>7 DEF Releasing

LEMMA OtherKeepsWork ==
    ASSUME TypeInv, WorkInv, NEW x \in Item,
           \/ \E o \in Owner : Enqueue(x, o)
           \/ Lapse(x) \/ LeaseExpires(x) \/ Expire(x) \/ Expiring(x)
           \/ \E i \in Agent : Submit(i, x) \/ LateReleased(i, x)
           \/ UNCHANGED vars
    PROVE  WorkInv'
<1> USE DEF TypeInv
<1>1. ASSUME \A j \in Agent, y \in Item : Spares(j, y)  PROVE WorkInv'
  BY <1>1, SparingIsSafe DEF WorkInv
<1>2. ASSUME NEW o \in Owner, Enqueue(x, o)  PROVE WorkInv'
  BY <1>1, <1>2 DEF Enqueue, Spares, InClaim, Ended
<1>3. CASE Lapse(x)
  BY <1>1, <1>3 DEF Lapse, Spares, InClaim, Ended
<1>4. CASE LeaseExpires(x)
  BY <1>1, <1>4 DEF LeaseExpires, Spares, InClaim, Ended
<1>5. CASE Expire(x)
  BY <1>1, <1>5, ExpiryStarts DEF Expire, Spares, InClaim, Ended
<1>6. ASSUME NEW i \in Agent, Submit(i, x)  PROVE WorkInv'
  BY <1>1, <1>6, ExpiryStarts DEF Submit, Spares, InClaim, Ended
<1>7. CASE ExpireDequeue(x)
  BY <1>1, <1>7, ExpiryGoes DEF ExpireDequeue, Spares, InClaim, Ended
<1>8. CASE ExpireDisown(x)
  BY <1>1, <1>8, ExpiryGoes DEF ExpireDisown, Spares, InClaim, Ended, TypeOK
<1>9. CASE ExpireSlot(x)
  <2>1. \A y \in Item : Ended(y) => Ended(y)'
    BY <1>9, ExpiryGoes DEF ExpireSlot, Ended
  <2>2. Ended(x)'
    BY <1>9, ExpiryGoes DEF ExpireSlot, Ended
  <2>3. \A j \in Agent, y \in Item : y # x /\ Slot(y) \in slots[j] => Slot(y) \in slots'[j]
    BY <1>9, ReleaseRemovesSlot, SlotsDiffer DEF ExpireSlot, TypeOK, ExpiryState, Owner
  <2> QED  BY <1>1, <1>9, <2>1, <2>2, <2>3 DEF ExpireSlot, Spares, InClaim
<1>10. ASSUME NEW i \in Agent, LateReleased(i, x)  PROVE WorkInv'
  <2>1. slots'[i] = slots[i] \ {Slot(x)} /\ \A j \in Agent \ {i} : slots'[j] = slots[j]
    BY <1>10, ReleaseRemovesSlot DEF LateReleased, TypeOK
  <2>2. \A j \in Agent, y \in Item : <<j, y>> # <<i, x>> => Spares(j, y)
    BY <1>10, <2>1, SlotsDiffer DEF LateReleased, Spares, InClaim, Ended
  <2>3. NoLeftovers(i, x)' /\ Keeps(i, x)'
    BY <1>10 DEF LateReleased, WorkInv, NoLeftovers, Keeps, InClaim, Ended
  <2> QED  BY <2>2, <2>3, SparingIsSafe DEF WorkInv
<1>11. CASE UNCHANGED vars
  BY <1>1, <1>11 DEF vars, Spares, InClaim, Ended
<1> QED
  BY <1>2, <1>3, <1>4, <1>5, <1>6, <1>7, <1>8, <1>9, <1>10, <1>11 DEF Expiring

LEMMA StepKeepsWork ==
    ASSUME Faults \cap {"reclaim", "stale_release"} = {}
    PROVE  TypeInv /\ TokenInv /\ WorkInv /\ [Next]_vars => WorkInv'
<1> SUFFICES ASSUME TypeInv, TokenInv, WorkInv, [Next]_vars  PROVE WorkInv'
  OBVIOUS
<1>1. ASSUME NEW i \in Agent, Claiming(i)  PROVE WorkInv'
  BY <1>1, CallIsOnItem, ClaimingKeepsWork
<1>2. ASSUME NEW i \in Agent, Releasing(i)  PROVE WorkInv'
  BY <1>2, CallIsOnItem, ReleasingKeepsWork
<1>3. ASSUME NEW i \in Agent, NEW x \in Item, ClaimRead(i, x) \/ Return(i, x) \/ Drop(i, x)
      PROVE  WorkInv'
  BY <1>3, ClaimReadKeepsWork, GiveBackKeepsWork DEF Hazard
<1>4. CASE UNCHANGED vars
  <2>1. \A j \in Agent, y \in Item : Spares(j, y)
    BY <1>4 DEF vars, Spares, InClaim, Ended
  <2> QED  BY <2>1, SparingIsSafe DEF WorkInv
<1> QED  BY <1>1, <1>2, <1>3, <1>4, OtherKeepsWork DEF Next

\* Who works on a live item has its slot and its record, unless an agent claims again
\* what it has just given back or a stale release takes it away.
THEOREM WorkerHolds ==
    ASSUME Faults \cap {"reclaim", "stale_release"} = {}
    PROVE  Spec => []WorkerIsHolder
<1>1. TypeInv /\ WorkInv => WorkerIsHolder
  BY OccupantHasSlot DEF TypeInv, TypeOK, WorkInv, Keeps, WorkerIsHolder
<1>2. "stale_release" \notin Faults
  OBVIOUS
<1> QED
  BY <1>1, <1>2, InitTypeInv, StepKeepsTypes, InitTokenInv, StepKeepsToken, InitWorkInv,
     StepKeepsWork, PTL DEF Spec

-----------------------------------------------------------------------------
(* What is over.                                                           *)

\* A step that is not of the closing of an item, and gives an item that is over
\* nothing back.
Fades(x) ==
    /\ expiry'[x] = expiry[x]
    /\ Ended(x) =>
          /\ x \notin queued' /\ \A i \in Agent : ~Has(i, x)'
          /\ json'[x].stored => json[x].stored
          /\ lease'[x] \in {lease[x], NoOne} /\ record'[x] \in {record[x], NoOne}
          /\ \A i \in Agent : Slot(x) \in slots'[i] => Slot(x) \in slots[i]

LEMMA FadingIsSafe ==
    ASSUME NEW x \in Item, Fades(x), Gone(x)
    PROVE  Gone(x)'
BY DEF Fades, Gone, Ended

LEMMA InitEndInv == Init => EndInv
BY DEF Init, EndInv, Gone, Ended, NoExpiry

LEMMA ClaimReadKeepsEnd ==
    ASSUME TypeInv, EndInv, NEW i \in Agent, NEW x \in Item, ClaimRead(i, x)
    PROVE  EndInv'
<1>1. /\ claim'[i].at = "read" /\ claim'[i].x = x
      /\ \A j \in Agent \ {i} : claim'[j] = claim[j]
  BY ClaimStarts DEF TypeInv
<1>2. \A j \in Agent, y \in Item : Has(j, y)' => Has(j, y)
  BY <1>1 DEF ClaimRead, Has, InClaim, InRelease
<1>3. \A y \in Item : Fades(y)
  BY <1>2 DEF ClaimRead, Fades, EndInv, Gone
<1> QED  BY <1>3, FadingIsSafe DEF EndInv

LEMMA ClaimingKeepsEnd ==
    ASSUME TypeInv, EndInv, NEW i \in Agent, NEW x \in Item, claim[i].x = x, Claiming(i)
    PROVE  EndInv'
<1> USE DEF TypeInv
<1>1. claim[i].at \in {"won", "full", "slot", "leased"} => ~Ended(x)
  BY DEF InClaim, Has, EndInv, Gone
<1>2. CASE ClaimDequeue(i)
  <2>1. /\ claim'[i] = NoClaim \/ (claim'[i].x = x /\ x \in queued)
        /\ \A j \in Agent \ {i} : claim'[j] = claim[j]
    BY <1>2, ClaimGoes, ClaimEnds DEF ClaimDequeue
  <2>2. \A j \in Agent, y \in Item : Has(j, y)' => Has(j, y) \/ y \in queued
    BY <1>2, <2>1 DEF ClaimDequeue, Has, InClaim, InRelease, NoClaim
  <2>3. \A y \in Item : Fades(y)
    BY <1>2, <2>2 DEF ClaimDequeue, Fades, EndInv, Gone
  <2> QED  BY <2>3, FadingIsSafe DEF EndInv
<1>3. CASE ClaimSlot(i)
  <2>1. /\ ~Ended(x) /\ claim'[i].x = x
        /\ \A j \in Agent \ {i} : claim'[j] = claim[j]
        /\ \A j \in Agent : j # i => slots'[j] = slots[j]
        /\ slots'[i] \subseteq slots[i] \cup {Slot(x)}
    <3>1. \/ slots' = slots
          \/ \E N \in ClaimOutcomes(slots[i], x, Conf, Tag, FALSE, 0, Max[i]) :
                slots' = [slots EXCEPT ![i] = N]
      BY <1>3 DEF ClaimSlot
    <3>2. slots' = slots \/ slots' = [slots EXCEPT ![i] = slots[i] \cup {Slot(x)}]
      BY <3>1, ClaimAddsSlot
    <3>3. ~Ended(x)
      BY <1>1, <1>3 DEF ClaimSlot
    <3>4. claim'[i].x = x /\ \A j \in Agent \ {i} : claim'[j] = claim[j]
      BY <1>3, ClaimGoes DEF ClaimSlot
    <3> QED  BY <3>2, <3>3, <3>4 DEF TypeOK
  <2>2. \A j \in Agent, y \in Item : y # x /\ Has(j, y)' => Has(j, y)
    BY <1>3, <2>1 DEF ClaimSlot, Has, InClaim, InRelease
  <2>3. \A y \in Item : Fades(y)
    BY <1>3, <2>1, <2>2, SlotsDiffer DEF ClaimSlot, Fades, EndInv, Gone
  <2> QED  BY <2>3, FadingIsSafe DEF EndInv
<1>4. CASE ClaimRollback(i)
  <2>1. /\ ~Ended(x) /\ (claim'[i] = NoClaim)
        /\ \A j \in Agent \ {i} : claim'[j] = claim[j]
    BY <1>1, <1>4, ClaimEnds DEF ClaimRollback
  <2>2. \A j \in Agent, y \in Item : y # x /\ Has(j, y)' => Has(j, y)
    BY <1>4, <2>1 DEF ClaimRollback, Has, InClaim, InRelease, NoClaim
  <2>3. \A y \in Item : Fades(y)
    BY <1>4, <2>1, <2>2 DEF ClaimRollback, Fades, EndInv, Gone, TypeOK
  <2> QED  BY <2>3, FadingIsSafe DEF EndInv
<1>5. CASE ClaimLease(i)
  <2>1. /\ ~Ended(x) /\ (claim'[i].x = x)
        /\ \A j \in Agent \ {i} : claim'[j] = claim[j]
    BY <1>1, <1>5, ClaimGoes DEF ClaimLease
  <2>2. \A j \in Agent, y \in Item : y # x /\ Has(j, y)' => Has(j, y)
    BY <1>5, <2>1 DEF ClaimLease, Has, InClaim, InRelease, NoClaim
  <2>3. \A y \in Item : Fades(y)
    BY <1>5, <2>1, <2>2 DEF ClaimLease, Fades, EndInv, Gone, TypeOK
  <2> QED  BY <2>3, FadingIsSafe DEF EndInv
<1>6. CASE ClaimRecord(i)
  <2>1. /\ ~Ended(x) /\ (claim'[i] = NoClaim)
        /\ \A j \in Agent \ {i} : claim'[j] = claim[j]
    BY <1>1, <1>6, ClaimEnds DEF ClaimRecord
  <2>2. \A j \in Agent, y \in Item : y # x /\ Has(j, y)' => Has(j, y)
    BY <1>6, <2>1 DEF ClaimRecord, Has, InClaim, InRelease, NoClaim
  <2>3. \A y \in Item : Fades(y)
    BY <1>6, <2>1, <2>2 DEF ClaimRecord, Fades, EndInv, Gone, TypeOK
  <2> QED  BY <2>3, FadingIsSafe DEF EndInv
<1> QED  BY <1>2, <1>3, <1>4, <1>5, <1>6 DEF Claiming

LEMMA GiveBackKeepsEnd ==
    ASSUME TypeInv, EndInv, NEW i \in Agent, NEW x \in Item, ~Hazard("stale_release"),
           Return(i, x) \/ Drop(i, x)
    PROVE  EndInv'
<1>1. /\ <<i, x>> \in working /\ working' \subseteq working /\ giveback'[i].x = x
      /\ \A j \in Agent \ {i} : giveback'[j] = giveback[j]
  BY ReleaseStarts DEF Return, Drop, TypeInv
<1>2. ~Ended(x)
  BY <1>1 DEF EndInv, Gone, Has
<1>3. \A j \in Agent, y \in Item : y # x /\ Has(j, y)' => Has(j, y)
  BY <1>1 DEF Return, Drop, Has, InClaim, InRelease
<1>4. \A y \in Item : Fades(y)
  BY <1>2, <1>3 DEF Return, Drop, Fades, EndInv, Gone
<1> QED  BY <1>4, FadingIsSafe DEF EndInv

LEMMA ReleasingKeepsEnd ==
    ASSUME TypeInv, EndInv, NEW i \in Agent, NEW x \in Item, giveback[i].x = x, Releasing(i)
    PROVE  EndInv'
<1> USE DEF TypeInv
<1>1. giveback[i].at \in {"asked", "unleased", "disowned", "freed", "read"} => ~Ended(x)
  BY DEF InRelease, Has, EndInv, Gone
<1>2. CASE ReleaseLease(i)
  <2>1. ~Ended(x) /\ giveback'[i].x = x /\ \A j \in Agent \ {i} : giveback'[j] = giveback[j]
    BY <1>1, <1>2, ReleaseGoes DEF ReleaseLease
  <2>2. \A j \in Agent, y \in Item : y # x /\ Has(j, y)' => Has(j, y)
    BY <1>2, <2>1 DEF ReleaseLease, Has, InClaim, InRelease
  <2>3. \A y \in Item : Fades(y)
    BY <1>2, <2>1, <2>2 DEF ReleaseLease, Fades, EndInv, Gone, TypeOK
  <2> QED  BY <2>3, FadingIsSafe DEF EndInv
<1>3. CASE ReleaseRecord(i)
  <2>1. ~Ended(x) /\ giveback'[i].x = x /\ \A j \in Agent \ {i} : giveback'[j] = giveback[j]
    BY <1>1, <1>3, ReleaseGoes DEF ReleaseRecord
  <2>2. \A j \in Agent, y \in Item : y # x /\ Has(j, y)' => Has(j, y)
    BY <1>3, <2>1 DEF ReleaseRecord, Has, InClaim, InRelease
  <2>3. \A y \in Item : Fades(y)
    BY <1>3, <2>1, <2>2 DEF ReleaseRecord, Fades, EndInv, Gone, TypeOK
  <2> QED  BY <2>3, FadingIsSafe DEF EndInv
<1>4. CASE ReleaseSlot(i)
  <2>1. ~Ended(x) /\ giveback'[i].x = x /\ \A j \in Agent \ {i} : giveback'[j] = giveback[j]
    BY <1>1, <1>4, ReleaseGoes DEF ReleaseSlot
  <2>2. \A j \in Agent, y \in Item : y # x /\ Has(j, y)' => Has(j, y)
    BY <1>4, <2>1 DEF ReleaseSlot, Has, InClaim, InRelease
  <2>3. \A y \in Item : Fades(y)
    BY <1>4, <2>1, <2>2, ReleaseRemovesSlot DEF ReleaseSlot, Fades, EndInv, Gone, TypeOK
  <2> QED  BY <2>3, FadingIsSafe DEF EndInv
<1>5. CASE ReleaseRead(i)
  <2>1. ~Ended(x) /\ giveback'[i].x = x /\ \A j \in Agent \ {i} : giveback'[j] = giveback[j]
    BY <1>1, <1>5, ReleaseReads DEF ReleaseRead
  <2>2. \A j \in Agent, y \in Item : y # x /\ Has(j, y)' => Has(j, y)
    BY <1>5, <2>1 DEF ReleaseRead, Has, InClaim, InRelease
  <2>3. \A y \in Item : Fades(y)
    BY <1>5, <2>1, <2>2 DEF ReleaseRead, Fades, EndInv, Gone, TypeOK
  <2> QED  BY <2>3, FadingIsSafe DEF EndInv
<1>6. CASE ReleaseRequeue(i)
  <2>1. ~Ended(x) /\ giveback'[i].x = x /\ \A j \in Agent \ {i} : giveback'[j] = giveback[j]
    BY <1>1, <1>6, ReleaseGoes DEF ReleaseRequeue
  <2>2. \A j \in Agent, y \in Item : y # x /\ Has(j, y)' => Has(j, y)
    BY <1>6, <2>1 DEF ReleaseRequeue, Has, InClaim, InRelease
  <2>3. \A y \in Item : Fades(y)
    BY <1>6, <2>1, <2>2 DEF ReleaseRequeue, Fades, EndInv, Gone, TypeOK
  <2> QED  BY <2>3, FadingIsSafe DEF EndInv
<1>7. CASE ReleaseAnswered(i)
  <2>1. giveback'[i] = NoRelease /\ \A j \in Agent \ {i} : giveback'[j] = giveback[j]
    BY <1>7, ReleaseEnds DEF ReleaseAnswered
  <2>2. \A j \in Agent, y \in Item : Has(j, y)' => Has(j, y)
    BY <1>7, <2>1 DEF ReleaseAnswered, Has, InClaim, InRelease, NoRelease
  <2>3. \A y \in Item : Fades(y)
    BY <1>7, <2>2 DEF ReleaseAnswered, Fades, EndInv, Gone
  <2> QED  BY <2>3, FadingIsSafe DEF EndInv
<1> QED  BY <1>2, <1>3, <1>4, <1>5, <1>6, <1>7 DEF Releasing

\* The submit finds its own agent: it is whom the record names, and nobody else
\* owns anything of the item.
LEMMA SubmitKeepsEnd ==
    ASSUME TypeInv, TokenInv, WorkInv, EndInv, NEW i \in Agent, NEW x \in Item, Submit(i, x)
    PROVE  EndInv'
<1> USE AgentAssumption DEF TypeInv
<1>1. /\ <<i, x>> \in working /\ working' = working \ {<<i, x>>}
      /\ ~Ended(x) /\ expiry'[x].at = "found" /\ expiry'[x].i \in ExpireOwners(x)
      /\ \A y \in Item \ {x} : expiry'[y] = expiry[y]
  BY ExpiryStarts DEF Submit, Ended
<1>2. /\ x \notin queued /\ ~InClaim(i, x) /\ ~InRelease(i, x)
      /\ \A j \in Agent : j # i => ~Has(j, x) /\ Free(j, x)
  BY <1>1 DEF TokenInv, OneHolder, Traceless, OneWay, Has
<1>3. record[x] = i /\ lease[x] \in {i, NoOne}
  BY <1>1, <1>2 DEF WorkInv, Keeps, Free, TypeOK, Owner
<1>4. expiry'[x].i = i
  BY <1>1, <1>3 DEF ExpireOwners, Holder
<1>5. \A j \in Agent, y \in Item : Has(j, y)' => Has(j, y) /\ <<j, y>> # <<i, x>>
  BY <1>1, <1>2 DEF Submit, Has, InClaim, InRelease
<1>6. Gone(x)'
  BY <1>1, <1>2, <1>4, <1>5 DEF Submit, Gone, Free
<1>7. \A y \in Item : y # x => Fades(y)
  BY <1>1, <1>5 DEF Submit, Fades, EndInv, Gone
<1> QED  BY <1>6, <1>7, FadingIsSafe DEF EndInv

\* The three steps of the closing.
LEMMA ExpiringKeepsEnd ==
    ASSUME TypeInv, EndInv, NEW x \in Item, Expiring(x)
    PROVE  EndInv'
<1> USE AgentAssumption DEF TypeInv
<1>1. \A j \in Agent, y \in Item : Has(j, y)' => Has(j, y)
  BY DEF Expiring, ExpireDequeue, ExpireDisown, ExpireSlot, Has, InClaim, InRelease
<1>2. CASE ExpireDequeue(x)
  <2>1. expiry'[x].at = "dequeued" /\ expiry'[x].i = expiry[x].i /\ expiry[x].at = "found"
        /\ \A y \in Item \ {x} : expiry'[y] = expiry[y]
    BY <1>2, ExpiryGoes DEF ExpireDequeue
  <2>2. Gone(x)'
    BY <1>1, <1>2, <2>1 DEF ExpireDequeue, EndInv, Gone, Ended, Absent, TypeOK
  <2>3. \A y \in Item : y # x => Fades(y)
    BY <1>1, <1>2, <2>1 DEF ExpireDequeue, Fades, EndInv, Gone, TypeOK
  <2> QED  BY <2>2, <2>3, FadingIsSafe DEF EndInv
<1>3. CASE ExpireDisown(x)
  <2>1. expiry'[x].at = "disowned" /\ expiry'[x].i = expiry[x].i /\ expiry[x].at = "dequeued"
        /\ \A y \in Item \ {x} : expiry'[y] = expiry[y]
    BY <1>3, ExpiryGoes DEF ExpireDisown
  <2>2. Gone(x)'
    BY <1>1, <1>3, <2>1 DEF ExpireDisown, EndInv, Gone, Ended, TypeOK
  <2>3. \A y \in Item : y # x => Fades(y)
    BY <1>1, <1>3, <2>1 DEF ExpireDisown, Fades, EndInv, Gone, TypeOK
  <2> QED  BY <2>2, <2>3, FadingIsSafe DEF EndInv
<1>4. CASE ExpireSlot(x)
  <2>1. expiry'[x].at = "done" /\ expiry'[x].i = expiry[x].i /\ expiry[x].at = "disowned"
        /\ \A y \in Item \ {x} : expiry'[y] = expiry[y]
    BY <1>4, ExpiryGoes DEF ExpireSlot
  <2>2. \A j \in Agent : /\ slots'[j] \subseteq slots[j]
                         /\ j = expiry[x].i => Slot(x) \notin slots'[j]
    BY <1>4, ReleaseRemovesSlot DEF ExpireSlot, TypeOK, ExpiryState, Owner
  <2>3. Gone(x)'
    BY <1>1, <1>4, <2>1, <2>2 DEF ExpireSlot, EndInv, Gone, Ended
  <2>4. \A y \in Item : y # x => Fades(y)
    BY <1>1, <1>4, <2>1, <2>2 DEF ExpireSlot, Fades, EndInv, Gone
  <2> QED  BY <2>3, <2>4, FadingIsSafe DEF EndInv
<1> QED  BY <1>2, <1>3, <1>4 DEF Expiring

LEMMA OtherKeepsEnd ==
    ASSUME TypeInv, EndInv, NEW x \in Item,
           \/ \E o \in Owner : Enqueue(x, o)
           \/ Lapse(x) \/ LeaseExpires(x)
           \/ \E i \in Agent : LateReleased(i, x)
    PROVE  EndInv'
<1> USE DEF TypeInv
<1>1. ASSUME \A y \in Item : Fades(y)  PROVE EndInv'
  BY <1>1, FadingIsSafe DEF EndInv
<1>2. \A j \in Agent, y \in Item : Has(j, y)' => Has(j, y)
  BY DEF Enqueue, Lapse, LeaseExpires, LateReleased, Has, InClaim, InRelease
<1>3. ASSUME NEW o \in Owner, Enqueue(x, o)  PROVE EndInv'
  <2>1. ~Ended(x)
    BY <1>3 DEF Enqueue, CallsOK
  <2> QED  BY <1>1, <1>2, <1>3, <2>1 DEF Enqueue, Fades, EndInv, Gone, TypeOK
<1>4. CASE Lapse(x)
  BY <1>1, <1>2, <1>4 DEF Lapse, Fades, EndInv, Gone
<1>5. CASE LeaseExpires(x)
  BY <1>1, <1>2, <1>5 DEF LeaseExpires, Fades, EndInv, Gone, TypeOK
<1>6. ASSUME NEW i \in Agent, LateReleased(i, x)  PROVE EndInv'
  BY <1>1, <1>2, <1>6, ReleaseRemovesSlot DEF LateReleased, Fades, EndInv, Gone, TypeOK
<1> QED  BY <1>3, <1>4, <1>5, <1>6

LEMMA StepKeepsEnd ==
    ASSUME Faults \subseteq {"drop"}
    PROVE  TypeInv /\ TokenInv /\ WorkInv /\ EndInv /\ [Next]_vars => EndInv'
<1> SUFFICES ASSUME TypeInv, TokenInv, WorkInv, EndInv, [Next]_vars  PROVE EndInv'
  OBVIOUS
<1>1. ASSUME NEW i \in Agent, Claiming(i)  PROVE EndInv'
  BY <1>1, CallIsOnItem, ClaimingKeepsEnd
<1>2. ASSUME NEW i \in Agent, Releasing(i)  PROVE EndInv'
  BY <1>2, CallIsOnItem, ReleasingKeepsEnd
<1>3. ASSUME NEW i \in Agent, NEW x \in Item,
             ClaimRead(i, x) \/ Return(i, x) \/ Drop(i, x) \/ Submit(i, x)
      PROVE  EndInv'
  BY <1>3, ClaimReadKeepsEnd, GiveBackKeepsEnd, SubmitKeepsEnd DEF Hazard
<1>4. ASSUME NEW x \in Item, Expire(x)  PROVE FALSE
  BY <1>4 DEF Expire, Hazard
<1>5. CASE UNCHANGED vars
  <2>1. \A j \in Agent, y \in Item : Has(j, y)' => Has(j, y)
    BY <1>5 DEF vars, Has, InClaim, InRelease
  <2>2. \A y \in Item : Fades(y)
    BY <1>5, <2>1 DEF vars, Fades, EndInv, Gone
  <2> QED  BY <2>2, FadingIsSafe DEF EndInv
<1> QED  BY <1>1, <1>2, <1>3, <1>4, <1>5, ExpiringKeepsEnd, OtherKeepsEnd DEF Next

\* Where an item is closed only by its worker's submit, nothing of it is left when
\* the closing is done, whatever else was under way.
THEOREM EndedIsGone ==
    ASSUME Faults \subseteq {"drop"}
    PROVE  Spec => []EndedLeavesNothing
<1>1. TypeInv /\ EndInv => EndedLeavesNothing
  <2> SUFFICES ASSUME TypeInv, EndInv, NEW x \in Item, expiry[x].at = "done"
               PROVE  x \notin queued /\ ~json[x].stored /\ Holder(x) = NoOne /\ OccupantOf(x) = {}
    BY DEF EndedLeavesNothing
  <2>1. /\ x \notin queued /\ ~json[x].stored /\ lease[x] = NoOne /\ record[x] = NoOne
        /\ \A i \in Agent : Slot(x) \notin slots[i]
    BY DEF EndInv, Gone, Ended
  <2>2. \A i \in Agent : i \notin OccupantOf(x)
    BY <2>1, OccupantHasSlot DEF TypeInv
  <2> QED  BY <2>1, <2>2 DEF Holder, OccupantOf
<1>2. "stale_release" \notin Faults /\ Faults \cap {"reclaim", "stale_release"} = {}
  OBVIOUS
<1> QED
  BY <1>1, <1>2, InitTypeInv, StepKeepsTypes, InitTokenInv, StepKeepsToken, InitWorkInv,
     StepKeepsWork, InitEndInv, StepKeepsEnd, PTL DEF Spec

-----------------------------------------------------------------------------
(* The board.                                                              *)

\* What the place of an item says.
Placed(x) ==
    /\ Ended(x) => boardPlace[x] = Board!Done
    /\ ~Ended(x) /\ x \in queued => boardPlace[x] = Board!Open
    /\ ~Ended(x) => \A i \in Agent : Has(i, x) => boardPlace[x] = Board!HeldBy(i)
    /\ ~Ended(x) /\ x \notin queued /\ (\A i \in Agent : ~Has(i, x)) => boardPlace[x] = Board!New

\* What has an item, in the words of the stages and in those of the invariant.
LEMMA HoldsIsHas ==
    TypeInv => \A i \in Agent, x \in Item : Holds(i, x) <=> Has(i, x)
BY DEF TypeInv, TypeOK, ClaimState, ReleaseState, Holds, Has, InClaim, InRelease

LEMMA PlaceIs == TypeInv /\ TokenInv => \A x \in Item : Placed(x)
<1> SUFFICES ASSUME TypeInv, TokenInv, NEW x \in Item  PROVE Placed(x)
  OBVIOUS
<1>1. \A i \in Agent : Has(i, x) => x \notin queued /\ {j \in Agent : Holds(j, x)} = {i}
  BY HoldsIsHas DEF TokenInv, OneHolder
<1>2. ~Ended(x) => \A i \in Agent : Has(i, x) => boardPlace[x] = Board!HeldBy(i)
  BY <1>1, HoldsIsHas DEF boardPlace, Board!HeldBy
<1> QED
  BY <1>2, HoldsIsHas DEF Placed, boardPlace, Board!Done, Board!Open, Board!New

\* A step that does not move an item on the board.
Steady(x) ==
    /\ Ended(x)' <=> Ended(x)
    /\ ~Ended(x) => /\ x \in queued' <=> x \in queued
                    /\ \A i \in Agent : Has(i, x)' <=> Has(i, x)

\* The moves of the board.
Posted(x)   == x \notin posted /\ ~Ended(x)' /\ x \in queued'
Taken(x, i) == ~Ended(x) /\ x \in queued /\ ~Ended(x)' /\ Has(i, x)'
Returned(x) == ~Ended(x) /\ ~Ended(x)' /\ x \in queued' /\ \E i \in Agent : Has(i, x)
Finished(x) == ~Ended(x) /\ x \in posted /\ Ended(x)'

BoardMove ==
    \/ \A y \in Item : Steady(y)
    \/ \E x \in Item :
          /\ \A y \in Item \ {x} : Steady(y)
          /\ Posted(x) \/ (\E i \in Agent : Taken(x, i)) \/ Returned(x) \/ Finished(x)

LEMMA ClaimingMoves ==
    ASSUME TypeInv, NEW i \in Agent, NEW x \in Item, claim[i].x = x, Claiming(i)
    PROVE  BoardMove
<1> USE DEF TypeInv
<1>0. \A y \in Item : Ended(y)' <=> Ended(y)
  BY DEF Claiming, ClaimDequeue, ClaimSlot, ClaimRollback, ClaimLease, ClaimRecord, Ended
<1>1. CASE ClaimDequeue(i)
  <2>1. CASE x \notin queued
    <3>1. claim'[i] = NoClaim /\ \A j \in Agent \ {i} : claim'[j] = claim[j]
      BY <1>1, <2>1, ClaimEnds DEF ClaimDequeue
    <3>2. \A y \in Item : Steady(y)
      BY <1>0, <1>1, <2>1, <3>1 DEF ClaimDequeue, Steady, Has, InClaim, InRelease, NoClaim
    <3> QED  BY <3>2 DEF BoardMove
  <2>2. CASE x \in queued
    <3>1. /\ claim'[i].at = "won" /\ claim'[i].x = x
          /\ \A j \in Agent \ {i} : claim'[j] = claim[j]
      BY <1>1, <2>2, ClaimGoes DEF ClaimDequeue
    <3>2. \A y \in Item \ {x} : Steady(y)
      BY <1>0, <1>1, <3>1 DEF ClaimDequeue, Steady, Has, InClaim, InRelease
    <3>3. Ended(x) => Steady(x)
      BY <1>0 DEF Steady
    <3>4. ~Ended(x) => Taken(x, i)
      BY <1>0, <2>2, <3>1 DEF Taken, Has, InClaim
    <3> QED  BY <3>2, <3>3, <3>4 DEF BoardMove
  <2> QED  BY <2>1, <2>2
<1>2. CASE ClaimSlot(i) \/ ClaimLease(i)
  <2>1. /\ claim'[i].at \in {"full", "slot", "leased"} /\ claim'[i].x = x
        /\ claim[i].at \in {"won", "slot"}
        /\ \A j \in Agent \ {i} : claim'[j] = claim[j]
    BY <1>2, ClaimGoes DEF ClaimSlot, ClaimLease
  <2>2. \A y \in Item : Steady(y)
    BY <1>0, <1>2, <2>1 DEF ClaimSlot, ClaimLease, Steady, Has, InClaim, InRelease
  <2> QED  BY <2>2 DEF BoardMove
<1>3. CASE ClaimRollback(i)
  <2>1. /\ claim'[i] = NoClaim /\ claim[i].at = "full" /\ queued' = queued \cup {x}
        /\ \A j \in Agent \ {i} : claim'[j] = claim[j]
    BY <1>3, ClaimEnds DEF ClaimRollback
  <2>2. \A y \in Item \ {x} : Steady(y)
    BY <1>0, <1>3, <2>1 DEF ClaimRollback, Steady, Has, InClaim, InRelease, NoClaim
  <2>3. Ended(x) => Steady(x)
    BY <1>0 DEF Steady
  <2>4. ~Ended(x) => Returned(x)
    BY <1>0, <2>1 DEF Returned, Has, InClaim
  <2> QED  BY <2>2, <2>3, <2>4 DEF BoardMove
<1>4. CASE ClaimRecord(i)
  <2>1. /\ claim'[i] = NoClaim /\ claim[i].at = "leased" /\ working' = working \cup {<<i, x>>}
        /\ \A j \in Agent \ {i} : claim'[j] = claim[j]
    BY <1>4, ClaimEnds DEF ClaimRecord
  <2>2. \A y \in Item : Steady(y)
    BY <1>0, <1>4, <2>1 DEF ClaimRecord, Steady, Has, InClaim, InRelease, NoClaim
  <2> QED  BY <2>2 DEF BoardMove
<1> QED  BY <1>1, <1>2, <1>3, <1>4 DEF Claiming

LEMMA GiveBackMoves ==
    ASSUME TypeInv, TokenInv, NEW i \in Agent, NEW x \in Item, ~Hazard("stale_release"),
           Return(i, x) \/ Drop(i, x)
    PROVE  BoardMove
<1>1. /\ <<i, x>> \in working /\ working' = working \ {<<i, x>>}
      /\ giveback'[i].at = "asked" /\ giveback'[i].x = x /\ giveback[i].at = "none"
      /\ \A j \in Agent \ {i} : giveback'[j] = giveback[j]
  BY ReleaseStarts DEF Return, Drop, TypeInv
<1>2. \A y \in Item : Steady(y)
  BY <1>1 DEF Return, Drop, Steady, Has, InClaim, InRelease, Ended
<1> QED  BY <1>2 DEF BoardMove

LEMMA ReleasingMoves ==
    ASSUME TypeInv, TokenInv, NoneLost, NEW i \in Agent, NEW x \in posted, giveback[i].x = x,
           x \in Item, Releasing(i)
    PROVE  BoardMove
<1> USE DEF TypeInv
<1>0. \A y \in Item : Ended(y)' <=> Ended(y)
  BY DEF Releasing, ReleaseLease, ReleaseRecord, ReleaseSlot, ReleaseRead, ReleaseRequeue,
         ReleaseAnswered, Ended
<1>1. CASE ReleaseLease(i) \/ ReleaseRecord(i) \/ ReleaseSlot(i)
  <2>1. /\ giveback'[i].at \in {"unleased", "disowned", "freed"} /\ giveback'[i].x = x
        /\ giveback[i].at \in {"asked", "unleased", "disowned"}
        /\ \A j \in Agent \ {i} : giveback'[j] = giveback[j]
    BY <1>1, ReleaseGoes DEF ReleaseLease, ReleaseRecord, ReleaseSlot
  <2>2. \A y \in Item : Steady(y)
    BY <1>0, <1>1, <2>1
       DEF ReleaseLease, ReleaseRecord, ReleaseSlot, Steady, Has, InClaim, InRelease
  <2> QED  BY <2>2 DEF BoardMove
<1>2. CASE ReleaseRead(i)
  <2>1. /\ giveback'[i].x = x /\ giveback[i].at = "freed"
        /\ json[x].stored => giveback'[i].at = "read"
        /\ \A j \in Agent \ {i} : giveback'[j] = giveback[j]
    BY <1>2, ReleaseReads DEF ReleaseRead
  <2>2. \A y \in Item \ {x} : Steady(y)
    BY <1>0, <1>2, <2>1 DEF ReleaseRead, Steady, Has, InClaim, InRelease
  <2>3. Ended(x) => Steady(x)
    BY <1>0 DEF Steady
  <2>4. ~Ended(x) => Steady(x)
    BY <1>0, <1>2, <2>1 DEF ReleaseRead, NoneLost, Steady, Has, InClaim, InRelease
  <2> QED  BY <2>2, <2>3, <2>4 DEF BoardMove
<1>3. CASE ReleaseRequeue(i)
  <2>1. /\ giveback'[i].x = x /\ giveback[i].at = "read" /\ giveback'[i].at = "answered"
        /\ queued' = queued \cup {x}
        /\ \A j \in Agent \ {i} : giveback'[j] = giveback[j]
    BY <1>3, ReleaseGoes DEF ReleaseRequeue
  <2>2. \A y \in Item \ {x} : Steady(y)
    BY <1>0, <1>3, <2>1 DEF ReleaseRequeue, Steady, Has, InClaim, InRelease
  <2>3. Ended(x) => Steady(x)
    BY <1>0 DEF Steady
  <2>4. ~Ended(x) => Returned(x)
    BY <1>0, <2>1 DEF Returned, Has, InRelease
  <2> QED  BY <2>2, <2>3, <2>4 DEF BoardMove
<1>4. CASE ReleaseAnswered(i)
  <2>1. /\ giveback'[i] = NoRelease /\ giveback[i].at = "answered"
        /\ \A j \in Agent \ {i} : giveback'[j] = giveback[j]
    BY <1>4, ReleaseEnds DEF ReleaseAnswered
  <2>2. \A y \in Item : Steady(y)
    BY <1>0, <1>4, <2>1 DEF ReleaseAnswered, Steady, Has, InClaim, InRelease, NoRelease
  <2> QED  BY <2>2 DEF BoardMove
<1> QED  BY <1>1, <1>2, <1>3, <1>4 DEF Releasing

LEMMA OtherMoves ==
    ASSUME TypeInv, NEW x \in Item,
           \/ \E o \in Owner : Enqueue(x, o)
           \/ Lapse(x) \/ LeaseExpires(x) \/ Expire(x) \/ Expiring(x)
           \/ \E i \in Agent : ClaimRead(i, x) \/ Submit(i, x) \/ LateReleased(i, x)
    PROVE  BoardMove
<1> USE DEF TypeInv
<1>1. ASSUME NEW o \in Owner, Enqueue(x, o)  PROVE BoardMove
  <2>1. Posted(x)
    BY <1>1 DEF Enqueue, Posted, CallsOK, Ended
  <2>2. \A y \in Item \ {x} : Steady(y)
    BY <1>1 DEF Enqueue, Steady, Has, InClaim, InRelease, Ended
  <2> QED  BY <2>1, <2>2 DEF BoardMove
<1>2. ASSUME NEW i \in Agent, ClaimRead(i, x)  PROVE BoardMove
  <2>1. /\ claim'[i].at = "read" /\ claim[i].at = "none"
        /\ \A j \in Agent \ {i} : claim'[j] = claim[j]
    BY <1>2, ClaimStarts DEF ClaimRead
  <2>2. \A y \in Item : Steady(y)
    BY <1>2, <2>1 DEF ClaimRead, Steady, Has, InClaim, InRelease, Ended
  <2> QED  BY <2>2 DEF BoardMove
<1>3. ASSUME Lapse(x) \/ LeaseExpires(x) \/ \E i \in Agent : LateReleased(i, x)
      PROVE  BoardMove
  <2>1. \A y \in Item : Steady(y)
    BY <1>3 DEF Lapse, LeaseExpires, LateReleased, Steady, Has, InClaim, InRelease, Ended
  <2> QED  BY <2>1 DEF BoardMove
<1>4. ASSUME Expire(x) \/ \E i \in Agent : Submit(i, x)  PROVE BoardMove
  <2>1. x \in posted
    <3>1. CASE \E i \in Agent : Submit(i, x)
      BY <3>1 DEF Submit, TypeOK, CallsOK
    <3>2. CASE Expire(x)
      BY <3>2 DEF Expire
    <3> QED  BY <1>4, <3>1, <3>2
  <2>2. StartExpiry(x)
    BY <1>4 DEF Expire, Submit
  <2>3. ~Ended(x) /\ Ended(x)' /\ \A y \in Item \ {x} : expiry'[y] = expiry[y]
    BY <2>2, ExpiryStarts DEF StartExpiry, Ended
  <2>4. \A y \in Item \ {x} : Steady(y)
    BY <1>4, <2>3 DEF Expire, Submit, Steady, Has, InClaim, InRelease, Ended
  <2> QED  BY <2>1, <2>3, <2>4 DEF BoardMove, Finished
<1>5. ASSUME Expiring(x)  PROVE BoardMove
  <2>1. /\ Ended(x) /\ Ended(x)' /\ \A y \in Item \ {x} : expiry'[y] = expiry[y]
    BY <1>5, ExpiryGoes DEF Expiring, ExpireDequeue, ExpireDisown, ExpireSlot, Ended
  <2>2. \A y \in Item : Steady(y)
    BY <1>5, <2>1
       DEF Expiring, ExpireDequeue, ExpireDisown, ExpireSlot, Steady, Has, InClaim, InRelease, Ended
  <2> QED  BY <2>2 DEF BoardMove
<1> QED  BY <1>1, <1>2, <1>3, <1>4, <1>5

\* Every step is a move of the board, or none.
LEMMA StepMoves ==
    ASSUME "stale_release" \notin Faults
    PROVE  TypeInv /\ TokenInv /\ NoneLost /\ [Next]_vars => BoardMove
<1> SUFFICES ASSUME TypeInv, TokenInv, NoneLost, [Next]_vars  PROVE BoardMove
  OBVIOUS
<1>1. CASE UNCHANGED vars
  BY <1>1 DEF vars, BoardMove, Steady, Has, InClaim, InRelease, Ended
<1>2. ASSUME NEW i \in Agent, Claiming(i)  PROVE BoardMove
  BY <1>2, CallIsOnItem, ClaimingMoves
<1>3. ASSUME NEW i \in Agent, Releasing(i)  PROVE BoardMove
  BY <1>3, CallIsOnItem, ReleasingMoves
<1>4. ASSUME NEW i \in Agent, NEW x \in Item, Return(i, x) \/ Drop(i, x)  PROVE BoardMove
  BY <1>4, GiveBackMoves DEF Hazard
<1> QED  BY <1>1, <1>2, <1>3, <1>4, OtherMoves DEF Next

\* A contact stays stored until the closing removes it.
LEMMA StepKeepsStored ==
    ASSUME TypeInv, [Next]_vars, NEW y \in Item
    PROVE  /\ json[y].stored => json'[y].stored \/ Ended(y)'
           /\ y \in posted' => y \in posted \/ json'[y].stored
<1> USE DEF TypeInv
<1>1. ASSUME json' = json, posted' = posted
      PROVE  /\ json[y].stored => json'[y].stored \/ Ended(y)'
             /\ y \in posted' => y \in posted \/ json'[y].stored
  BY <1>1
<1>2. ASSUME NEW x \in Item, NEW c \in Contact, c.stored, json' = [json EXCEPT ![x] = c],
             posted' \in {posted, posted \cup {x}}
      PROVE  /\ json[y].stored => json'[y].stored \/ Ended(y)'
             /\ y \in posted' => y \in posted \/ json'[y].stored
  BY <1>2 DEF TypeOK
<1>3. ASSUME NEW x \in Item, NEW o \in Owner, Enqueue(x, o)
      PROVE  /\ json[y].stored => json'[y].stored \/ Ended(y)'
             /\ y \in posted' => y \in posted \/ json'[y].stored
  <2>1. Stored(o) \in Contact /\ Stored(o).stored
    BY Stages DEF Stored
  <2> QED  BY <1>2, <1>3, <2>1 DEF Enqueue
<1>4. ASSUME NEW x \in Item, ExpireDequeue(x)
      PROVE  /\ json[y].stored => json'[y].stored \/ Ended(y)'
             /\ y \in posted' => y \in posted \/ json'[y].stored
  BY <1>4, ExpiryGoes DEF ExpireDequeue, Ended, TypeOK
<1>5. ASSUME NEW i \in Agent, ClaimRollback(i)
      PROVE  /\ json[y].stored => json'[y].stored \/ Ended(y)'
             /\ y \in posted' => y \in posted \/ json'[y].stored
  <2>1. claim[i].x \in Item /\ claim[i].own \in Contact /\ claim[i].own.stored
    BY <1>5 DEF ClaimRollback, CallsOK, TypeOK, ClaimState
  <2> QED  BY <1>2, <1>5, <2>1 DEF ClaimRollback
<1>6. ASSUME NEW i \in Agent, ReleaseRequeue(i)
      PROVE  /\ json[y].stored => json'[y].stored \/ Ended(y)'
             /\ y \in posted' => y \in posted \/ json'[y].stored
  <2>1. /\ giveback[i].own \in Contact /\ giveback[i].own.stored
        /\ Stored(i) \in Contact /\ Stored(i).stored
    BY <1>6, Stages DEF ReleaseRequeue, CallsOK, TypeOK, ReleaseState, Owner, Stored
  <2>2. giveback[i].x \in Item
    BY <1>6, CallIsOnItem DEF Releasing
  <2>3. \E c \in Contact : c.stored /\ json' = [json EXCEPT ![giveback[i].x] = c]
    BY <1>6, <2>1 DEF ReleaseRequeue
  <2> QED  BY <1>2, <1>6, <2>2, <2>3 DEF ReleaseRequeue
<1> QED
  BY <1>1, <1>3, <1>4, <1>5, <1>6
     DEF Next, vars, Lapse, LeaseExpires, Expire, Expiring, ExpireDisown, ExpireSlot, ClaimRead,
         Return, Drop, Submit, LateReleased, Claiming, ClaimDequeue, ClaimSlot, ClaimLease,
         ClaimRecord, Releasing, ReleaseLease, ReleaseRecord, ReleaseSlot, ReleaseRead,
         ReleaseAnswered

\* What is posted is in the queue.
LEMMA StepPosts ==
    ASSUME [Next]_vars, NEW y \in Item, y \in posted', y \notin posted
    PROVE  y \in queued'
<1>1. ASSUME NEW x \in Item, NEW o \in Owner, Enqueue(x, o)  PROVE y \in queued'
  BY <1>1 DEF Enqueue
<1>2. posted' # posted
  OBVIOUS
<1> QED
  BY <1>1, <1>2
     DEF Next, vars, Lapse, LeaseExpires, Expire, Expiring, ExpireDequeue, ExpireDisown,
         ExpireSlot, ClaimRead, Return, Drop, Submit, LateReleased, Claiming, ClaimDequeue,
         ClaimSlot, ClaimRollback, ClaimLease, ClaimRecord, Releasing, ReleaseLease,
         ReleaseRecord, ReleaseSlot, ReleaseRead, ReleaseRequeue, ReleaseAnswered

LEMMA StepLosesNone ==
    ASSUME "stale_release" \notin Faults
    PROVE  TypeInv /\ TokenInv /\ NoneLost /\ [Next]_vars => NoneLost'
<1> SUFFICES ASSUME TypeInv, TokenInv, NoneLost, [Next]_vars  PROVE NoneLost'
  OBVIOUS
<1>0. TypeInv'
  BY StepKeepsTypes
<1> SUFFICES ASSUME NEW x \in posted', x \in Item, ~Ended(x)'
             PROVE  json'[x].stored /\ (x \in queued' \/ \E i \in Agent : Has(i, x)')
  BY <1>0 DEF TypeInv, TypeOK, NoneLost
<1>1. BoardMove
  BY StepMoves
<1>2. Steady(x) \/ Posted(x) \/ (\E i \in Agent : Taken(x, i)) \/ Returned(x) \/ Finished(x)
  BY <1>1 DEF BoardMove
<1>3. CASE x \in posted
  <2>1. CASE ~Ended(x)
    BY <1>2, <1>3, <2>1, StepKeepsStored
       DEF NoneLost, Steady, Posted, Taken, Returned, Finished
  <2>2. CASE Ended(x)
    BY <1>2, <1>3, <2>2 DEF Steady, Posted, Taken, Returned, Finished
  <2> QED  BY <2>1, <2>2
<1>4. CASE x \notin posted
  <2>1. json'[x].stored
    BY <1>4, StepKeepsStored
  <2>2. x \in queued'
    BY <1>4, StepPosts
  <2> QED  BY <2>1, <2>2
<1> QED  BY <1>3, <1>4

\* An item that nobody had posted is in nobody's hands.
LEMMA UnpostedIsFree ==
    ASSUME TypeInv, NEW x \in Item, x \notin posted
    PROVE  ~Ended(x) /\ x \notin queued /\ \A i \in Agent : ~Has(i, x)
<1>1. ~Ended(x) /\ x \notin queued
  BY DEF TypeInv, TypeOK, CallsOK
<1>2. ASSUME NEW i \in Agent  PROVE ~Has(i, x)
  BY DEF TypeInv, TypeOK, CallsOK, Has, InClaim, InRelease
<1> QED  BY <1>1, <1>2

\* The places of the board are different places.
LEMMA PlacesDiffer ==
    /\ Board!New # Board!Done /\ Board!Open # Board!Done /\ Board!Open # Board!New
    /\ \A i \in Agent : Board!HeldBy(i) \notin {Board!New, Board!Done, Board!Open}
<1>1. ASSUME NEW i \in Agent  PROVE Board!HeldBy(i).is = "held"
  BY DEF Board!HeldBy
<1> QED  BY <1>1 DEF Board!New, Board!Done, Board!Open

\* Whatever calls interleave, and whichever agents drop, an item that is not over is
\* in the queue or in the hands of one agent, none is lost, and only its holder or the
\* item's end takes it off: the queue implements the board, unless stale releases happen.
THEOREM ImplementsBoard ==
    ASSUME "stale_release" \notin Faults
    PROVE  Spec => BoardSpec
<1>1. Init => Board!Init
  <2> SUFFICES ASSUME Init  PROVE Board!Init
    OBVIOUS
  <2>1. \A x \in Item : boardPlace[x] = Board!New
    <3>1. \A x \in Item : ~Ended(x) /\ x \notin queued /\ \A i \in Agent : ~Holds(i, x)
      BY DEF Init, Ended, Holds, NoClaim, NoRelease, NoExpiry
    <3> QED  BY <3>1 DEF boardPlace, Board!New
  <2> QED  BY <2>1 DEF boardPlace, Board!Init
<1>2. Init => NoneLost
  BY DEF Init, NoneLost
<1>3. (TypeInv /\ TokenInv => \A x \in Item : Placed(x))'
  BY PlaceIs, PTL
<1>4. TypeInv /\ TokenInv /\ NoneLost /\ [Next]_vars => [Board!Next]_boardPlace
  <2> SUFFICES ASSUME TypeInv, TokenInv, NoneLost, [Next]_vars
               PROVE  [Board!Next]_boardPlace
    OBVIOUS
  <2>1. \A x \in Item : Placed(x)
    BY PlaceIs
  <2>2. \A x \in Item : Placed(x)'
    BY <1>3, StepKeepsTypes, StepKeepsToken
  <2>3. ASSUME NEW y \in Item, Steady(y)  PROVE boardPlace'[y] = boardPlace[y]
    BY <2>1, <2>2, <2>3 DEF Placed, Steady
  <2>4. CASE \A y \in Item : Steady(y)
    BY <2>3, <2>4 DEF boardPlace
  <2>5. ASSUME NEW x \in Item, \A y \in Item \ {x} : Steady(y),
               Posted(x) \/ (\E i \in Agent : Taken(x, i)) \/ Returned(x) \/ Finished(x)
        PROVE  Board!Next
    <3>1. boardPlace' = [boardPlace EXCEPT ![x] = boardPlace'[x]]
      <4>1. \A y \in Item \ {x} : boardPlace'[y] = boardPlace[y]
        BY <2>3, <2>5
      <4>2. /\ boardPlace = [y \in Item |-> boardPlace[y]]
            /\ boardPlace' = [y \in Item |-> boardPlace'[y]]
        BY DEF boardPlace
      <4> QED  BY <4>1, <4>2
    <3>2. CASE Posted(x)
      <4>1. boardPlace[x] = Board!New /\ boardPlace'[x] = Board!Open
        BY <2>1, <2>2, <3>2, UnpostedIsFree DEF Posted, Placed
      <4> QED  BY <3>1, <4>1 DEF Board!Next, Board!Post
    <3>3. CASE \E i \in Agent : Taken(x, i)
      <4>1. PICK i \in Agent : Taken(x, i)
        BY <3>3
      <4>2. boardPlace[x] = Board!Open /\ boardPlace'[x] = Board!HeldBy(i)
        BY <2>1, <2>2, <4>1 DEF Taken, Placed
      <4> QED  BY <3>1, <4>2 DEF Board!Next, Board!Take
    <3>4. CASE Returned(x)
      <4>1. /\ \E i \in Agent : boardPlace[x] = Board!HeldBy(i)
            /\ boardPlace'[x] = Board!Open
        BY <2>1, <2>2, <3>4 DEF Returned, Placed
      <4> QED  BY <3>1, <4>1 DEF Board!Next, Board!PutBack
    <3>5. CASE Finished(x)
      <4>1. x \in queued \/ \E i \in Agent : Has(i, x)
        BY <3>5 DEF Finished, NoneLost
      <4>2. boardPlace[x] \notin {Board!New, Board!Done} /\ boardPlace'[x] = Board!Done
        BY <2>1, <2>2, <3>5, <4>1, PlacesDiffer DEF Finished, Placed
      <4> QED  BY <3>1, <4>2 DEF Board!Next, Board!Finish
    <3> QED  BY <2>5, <3>2, <3>3, <3>4, <3>5
  <2> QED  BY <2>4, <2>5, StepMoves DEF BoardMove
<1> QED
  BY <1>1, <1>2, <1>4, InitTypeInv, StepKeepsTypes, InitTokenInv, StepKeepsToken, StepLosesNone, PTL
     DEF Spec, BoardSpec, Board!Spec

=============================================================================
