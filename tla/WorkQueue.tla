------------------------------- MODULE WorkQueue -------------------------------
(***************************************************************************)
(* The pull queue of one pool: agents take work items off a Redis ZSET,    *)
(* hand them back, lose their connection while holding one, and submit     *)
(* them (router.py work_task_claim / release / holder / expire, with the   *)
(* bridge's and the gateway's use of them).  Each call is a sequence of    *)
(* Redis calls, so two calls on the same item interleave anywhere between. *)
(*                                                                         *)
(* Four records say who has an item: the ZSET ("queued": nobody), the      *)
(* claim lease (180 s), the claim record (as long as the item) and the     *)
(* occupant in the slot semaphore of the agent's instance.                 *)
(***************************************************************************)
EXTENDS SlotScripts

CONSTANTS
    Agent,      \* instances of human agents
    Item,       \* work items (session ids)
    NoOne,      \* not an agent, nor an item: no owner, no reservation
    Max,        \* max_concurrent_sessions of each agent
    Tag,        \* the pool, as the tag of a slot
    Conf,       \* the conference id of the items
    Internal,   \* the pool is internal ("-int"): a reservation never lapses
    Faults      \* which troubles may happen

ASSUME AgentAssumption == NoOne \notin Agent \cup Item /\ Max \in [Agent -> Nat \ {0}]
ASSUME FaultAssumption ==
    /\ Faults \subseteq {"drop", "reclaim", "stale_release", "expire"}
    /\ Internal \in BOOLEAN

VARIABLES
    posted,     \* items ever delegated to the pool (ghost)
    queued,     \* the ZSET of the pool
    json,       \* item -> its stored contact: absent, or who it is reserved to
    lapsed,     \* items whose reservation is past its window
    lease,      \* item -> agent of the claim lease
    record,     \* item -> agent of the durable claim record
    slots,      \* agent -> members of its sessions set
    claim,      \* agent -> its work_task_claim in progress
    giveback,   \* agent -> its work_task_release in progress
    expiry,     \* item -> the work_task_expire in progress
    working,    \* <<agent, item>>: the claim was answered, the item not given up
    had,        \* <<agent, item>>: every claim answered so far (ghost)
    late        \* <<agent, item>>: agent_released events on their way to routing

vars == <<posted, queued, json, lapsed, lease, record, slots, claim, giveback,
          expiry, working, had, late>>

Absent     == [stored |-> FALSE, to |-> NoOne]
Stored(o)  == [stored |-> TRUE, to |-> o]
Owner      == Agent \cup {NoOne}
Contact    == [stored : BOOLEAN, to : Owner]
NoClaim    == [at |-> "none", x |-> NoOne, own |-> Absent]
NoRelease  == [at |-> "none", x |-> NoOne, reserve |-> FALSE, own |-> Absent]
NoExpiry   == [at |-> "none", i |-> NoOne]

Hazard(f) == f \in Faults

Init ==
    /\ posted = {} /\ queued = {} /\ lapsed = {}
    /\ json = [x \in Item |-> Absent]
    /\ lease = [x \in Item |-> NoOne] /\ record = [x \in Item |-> NoOne]
    /\ slots = [i \in Agent |-> {}]
    /\ claim = [i \in Agent |-> NoClaim] /\ giveback = [i \in Agent |-> NoRelease]
    /\ expiry = [x \in Item |-> NoExpiry]
    /\ working = {} /\ had = {} /\ late = {}

-----------------------------------------------------------------------------
\* A pull pool parks the contact: add_queued_contact, reserved or not.
Enqueue(x, o) ==
    /\ x \notin posted
    /\ posted' = posted \cup {x}
    /\ queued' = queued \cup {x}
    /\ json' = [json EXCEPT ![x] = Stored(o)]
    /\ UNCHANGED <<lapsed, lease, record, slots, claim, giveback, expiry, working,
                   had, late>>

\* fallback_to_pool_after_s passes: the reservation no longer holds.
Lapse(x) ==
    /\ ~Internal /\ json[x].to # NoOne /\ x \notin lapsed
    /\ lapsed' = lapsed \cup {x}
    /\ UNCHANGED <<posted, queued, json, lease, record, slots, claim, giveback, expiry,
                   working, had, late>>

-----------------------------------------------------------------------------
(* work_task_claim.                                                        *)

ClaimGoTo(i, at) == claim' = [claim EXCEPT ![i].at = at]
ClaimOver(i)     == claim' = [claim EXCEPT ![i] = NoClaim]

\* The reservation gate of a stored contact.
Eligible(i, x) == json[x].stored /\ (json[x].to \in {NoOne, i} \/ x \in lapsed)

\* Reads the contact and checks the reservation.  An agent does not claim what
\* it works on; "reclaim": it may claim again what it has just given back.
ClaimRead(i, x) ==
    /\ claim[i].at = "none" /\ <<i, x>> \notin working
    /\ Hazard("reclaim") \/ (<<i, x>> \notin late /\ giveback[i].at = "none")
    /\ Eligible(i, x)
    /\ claim' = [claim EXCEPT ![i] = [at |-> "read", x |-> x, own |-> json[x]]]
    /\ UNCHANGED <<posted, queued, json, lapsed, lease, record, slots, giveback, expiry,
                   working, had, late>>

\* ZREM: one winner; a loser is answered already_claimed.
MutantClaimDequeue(i) ==
    /\ claim[i].at = "read"
    /\ queued' = queued \ {claim[i].x}
    /\ ClaimGoTo(i, "won")
    /\ UNCHANGED <<posted, json, lapsed, lease, record, slots, giveback, expiry,
                   working, had, late>>

ClaimDequeue(i) ==
    /\ claim[i].at = "read"
    /\ queued' = queued \ {claim[i].x}
    /\ IF claim[i].x \in queued THEN ClaimGoTo(i, "won") ELSE ClaimOver(i)
    /\ UNCHANGED <<posted, json, lapsed, lease, record, slots, giveback, expiry,
                   working, had, late>>

\* claim_instance: a slot, or no capacity.
ClaimSlot(i) ==
    /\ claim[i].at = "won"
    /\ LET outcomes == ClaimOutcomes(slots[i], claim[i].x, Conf, Tag, FALSE, 0, Max[i]) IN
          \/ /\ outcomes = {}
             /\ ClaimGoTo(i, "full")
             /\ UNCHANGED slots
          \/ /\ \E N \in outcomes : slots' = [slots EXCEPT ![i] = N]
             /\ ClaimGoTo(i, "slot")
    /\ UNCHANGED <<posted, queued, json, lapsed, lease, record, giveback, expiry,
                   working, had, late>>

\* No capacity: the contact as it was read goes back to the queue.
ClaimRollback(i) ==
    /\ claim[i].at = "full"
    /\ queued' = queued \cup {claim[i].x}
    /\ json' = [json EXCEPT ![claim[i].x] = claim[i].own]
    /\ ClaimOver(i)
    /\ UNCHANGED <<posted, lapsed, lease, record, slots, giveback, expiry,
                   working, had, late>>

ClaimLease(i) ==
    /\ claim[i].at = "slot"
    /\ lease' = [lease EXCEPT ![claim[i].x] = i]
    /\ ClaimGoTo(i, "leased")
    /\ UNCHANGED <<posted, queued, json, lapsed, record, slots, giveback, expiry,
                   working, had, late>>

MutantClaimRecord(i) ==
    /\ claim[i].at = "leased"
    /\ ClaimOver(i)
    /\ working' = working \cup {<<i, claim[i].x>>}
    /\ had' = had \cup {<<i, claim[i].x>>}
    /\ UNCHANGED <<posted, queued, json, lapsed, lease, record, slots, giveback, expiry, late>>

\* The durable record; conversations.routed brings the item to the console.
ClaimRecord(i) ==
    /\ claim[i].at = "leased"
    /\ record' = [record EXCEPT ![claim[i].x] = i]
    /\ ClaimOver(i)
    /\ working' = working \cup {<<i, claim[i].x>>}
    /\ had' = had \cup {<<i, claim[i].x>>}
    /\ UNCHANGED <<posted, queued, json, lapsed, lease, slots, giveback, expiry, late>>

\* The lease lasts 180 s and is never renewed.
LeaseExpires(x) ==
    /\ lease[x] # NoOne /\ record[x] = lease[x]
    /\ lease' = [lease EXCEPT ![x] = NoOne]
    /\ UNCHANGED <<posted, queued, json, lapsed, record, slots, claim, giveback, expiry,
                   working, had, late>>

-----------------------------------------------------------------------------
(* work_task_holder, and who asks.                                         *)

Holder(x) == IF lease[x] # NoOne THEN lease[x] ELSE record[x]

-----------------------------------------------------------------------------
(* work_task_release.                                                      *)

GiveBack(i, x, reserve) ==
    /\ giveback[i].at = "none" /\ claim[i].x # x
    /\ working' = working \ {<<i, x>>}
    /\ giveback' = [giveback EXCEPT ![i] =
          [at |-> "asked", x |-> x, reserve |-> reserve, own |-> Absent]]

\* "Return to queue" of the console.  The engine does not check who asks: with
\* "stale_release" it is a second submit, or an old tab.
Return(i, x) ==
    /\ <<i, x>> \in working \/ (Hazard("stale_release") /\ <<i, x>> \in had)
    /\ GiveBack(i, x, FALSE)
    /\ UNCHANGED <<posted, queued, json, lapsed, lease, record, slots, claim, expiry,
                   had, late>>

\* The agent's connection drops: the bridge publishes agent_released, and asks
\* for the release if the holder is that agent.
Drop(i, x) ==
    /\ Hazard("drop")
    /\ <<i, x>> \in working /\ Holder(x) = i
    /\ GiveBack(i, x, TRUE)
    /\ late' = late \cup {<<i, x>>}
    /\ UNCHANGED <<posted, queued, json, lapsed, lease, record, slots, claim, expiry, had>>

ReleaseGoTo(i, at) == giveback' = [giveback EXCEPT ![i].at = at]

ReleaseLease(i) ==
    /\ giveback[i].at = "asked"
    /\ lease' = [lease EXCEPT ![giveback[i].x] = NoOne]
    /\ ReleaseGoTo(i, "unleased")
    /\ UNCHANGED <<posted, queued, json, lapsed, record, slots, claim, expiry,
                   working, had, late>>

MutantReleaseRecord(i) ==
    /\ giveback[i].at = "unleased"
    /\ ReleaseGoTo(i, "disowned")
    /\ UNCHANGED <<posted, queued, json, lapsed, lease, record, slots, claim, expiry,
                   working, had, late>>

ReleaseRecord(i) ==
    /\ giveback[i].at = "unleased"
    /\ record' = [record EXCEPT ![giveback[i].x] = NoOne]
    /\ ReleaseGoTo(i, "disowned")
    /\ UNCHANGED <<posted, queued, json, lapsed, lease, slots, claim, expiry,
                   working, had, late>>

ReleaseSlot(i) ==
    /\ giveback[i].at = "disowned"
    /\ slots' = [slots EXCEPT ![i] = Released(slots[i], giveback[i].x)]
    /\ ReleaseGoTo(i, "freed")
    /\ UNCHANGED <<posted, queued, json, lapsed, lease, record, claim, expiry,
                   working, had, late>>

\* Reads the contact; none stored, nothing to queue.
ReleaseRead(i) ==
    /\ giveback[i].at = "freed"
    /\ IF json[giveback[i].x].stored
       THEN giveback' = [giveback EXCEPT ![i].at = "read", ![i].own = json[giveback[i].x]]
       ELSE ReleaseGoTo(i, "answered")
    /\ UNCHANGED <<posted, queued, json, lapsed, lease, record, slots, claim, expiry,
                   working, had, late>>

MutantReleaseRequeue(i) ==
    /\ giveback[i].at = "read"
    /\ json' = [json EXCEPT ![giveback[i].x] = giveback[i].own]
    /\ ReleaseGoTo(i, "answered")
    /\ UNCHANGED <<posted, queued, lapsed, lease, record, slots, claim, expiry, working, had, late>>

\* Back in the queue; after a drop, reserved to the agent that dropped, unless
\* the item is reserved already (_apply_drop_reservation).
ReleaseRequeue(i) ==
    /\ giveback[i].at = "read"
    /\ LET x == giveback[i].x
           fresh == giveback[i].reserve /\ giveback[i].own.to = NoOne
       IN /\ queued' = queued \cup {x}
          /\ json' = [json EXCEPT ![x] = IF fresh THEN Stored(i) ELSE giveback[i].own]
          /\ lapsed' = IF fresh THEN lapsed \ {x} ELSE lapsed
    /\ ReleaseGoTo(i, "answered")
    /\ UNCHANGED <<posted, lease, record, slots, claim, expiry, working, had, late>>

\* The release is answered; the mcp-server then announces the agent's departure,
\* which reaches routing as agent_released.
ReleaseAnswered(i) ==
    /\ giveback[i].at = "answered"
    /\ late' = IF giveback[i].reserve THEN late ELSE late \cup {<<i, giveback[i].x>>}
    /\ giveback' = [giveback EXCEPT ![i] = NoRelease]
    /\ UNCHANGED <<posted, queued, json, lapsed, lease, record, slots, claim, expiry,
                   working, had>>

\* remove_conversation on agent_released frees the session's slots again.
LateReleased(i, x) ==
    /\ <<i, x>> \in late
    /\ late' = late \ {<<i, x>>}
    /\ slots' = [slots EXCEPT ![i] = Released(slots[i], x)]
    /\ UNCHANGED <<posted, queued, json, lapsed, lease, record, claim, giveback, expiry,
                   working, had>>

-----------------------------------------------------------------------------
(* work_task_expire: on every resume, and when a supervisor or the         *)
(* deadline closes the item.                                               *)

\* Occupants of the item with the pool's tag (find_occupant_instance).
OccupantOf(x) == {i \in Agent : \E m \in Slots(slots[i], x, Conf) : m.p = Tag}

\* Who is to lose the slot: lease, else record, else the semaphore.
ExpireOwners(x) ==
    IF Holder(x) # NoOne THEN {Holder(x)}
    ELSE IF OccupantOf(x) # {} THEN OccupantOf(x) ELSE {NoOne}

StartExpiry(x) ==
    /\ expiry[x].at = "none"
    /\ \E i \in ExpireOwners(x) : expiry' = [expiry EXCEPT ![x] = [at |-> "found", i |-> i]]

\* A submit by the console, after the gateway asked who holds the item: refused
\* if somebody else does, or if nobody does and it is in the queue.
Submit(i, x) ==
    /\ <<i, x>> \in working
    /\ Holder(x) = i \/ (Holder(x) = NoOne /\ x \notin queued)
    /\ StartExpiry(x)
    /\ working' = working \ {<<i, x>>}
    /\ UNCHANGED <<posted, queued, json, lapsed, lease, record, slots, claim, giveback,
                   had, late>>

\* The deadline or a supervisor: no claim needed.
Expire(x) ==
    /\ Hazard("expire") /\ x \in posted
    /\ StartExpiry(x)
    /\ UNCHANGED <<posted, queued, json, lapsed, lease, record, slots, claim, giveback,
                   working, had, late>>

ExpireGoTo(x, at) == expiry' = [expiry EXCEPT ![x].at = at]

\* ZREM, then remove_queued_contact (ZREM and DEL).
ExpireDequeue(x) ==
    /\ expiry[x].at = "found"
    /\ queued' = queued \ {x}
    /\ json' = [json EXCEPT ![x] = Absent]
    /\ ExpireGoTo(x, "dequeued")
    /\ UNCHANGED <<posted, lapsed, lease, record, slots, claim, giveback, working, had, late>>

ExpireDisown(x) ==
    /\ expiry[x].at = "dequeued"
    /\ lease' = [lease EXCEPT ![x] = NoOne]
    /\ record' = [record EXCEPT ![x] = NoOne]
    /\ ExpireGoTo(x, "disowned")
    /\ UNCHANGED <<posted, queued, json, lapsed, slots, claim, giveback, working, had, late>>

MutantExpireSlot(x) ==
    /\ expiry[x].at = "disowned"
    /\ ExpireGoTo(x, "done")
    /\ UNCHANGED <<posted, queued, json, lapsed, lease, record, slots, claim, giveback,
                   working, had, late>>

ExpireSlot(x) ==
    /\ expiry[x].at = "disowned"
    /\ LET i == expiry[x].i IN
          slots' = IF i = NoOne THEN slots
                   ELSE [slots EXCEPT ![i] = Released(slots[i], x)]
    /\ ExpireGoTo(x, "done")
    /\ UNCHANGED <<posted, queued, json, lapsed, lease, record, claim, giveback,
                   working, had, late>>

-----------------------------------------------------------------------------
\* The next step of a call in progress, or of an event on its way.
Claiming(i)  == \/ ClaimDequeue(i) \/ ClaimSlot(i) \/ ClaimRollback(i)
                \/ ClaimLease(i) \/ ClaimRecord(i)
Releasing(i) == \/ ReleaseLease(i) \/ ReleaseRecord(i) \/ ReleaseSlot(i)
                \/ ReleaseRead(i) \/ ReleaseRequeue(i) \/ ReleaseAnswered(i)
Expiring(x)  == ExpireDequeue(x) \/ ExpireDisown(x) \/ ExpireSlot(x)

Next ==
    \/ \E x \in Item :
          \/ \E o \in Owner : Enqueue(x, o)
          \/ Lapse(x) \/ LeaseExpires(x) \/ Expire(x) \/ Expiring(x)
          \/ \E i \in Agent :
                \/ ClaimRead(i, x) \/ Return(i, x) \/ Drop(i, x)
                \/ Submit(i, x) \/ LateReleased(i, x)
    \/ \E i \in Agent : Claiming(i) \/ Releasing(i)

\* A call that has started goes on to its end; agents, clocks and supervisors
\* owe nothing.
Spec == Init /\ [][Next]_vars
          /\ \A i \in Agent : WF_vars(Claiming(i)) /\ WF_vars(Releasing(i))
          /\ \A x \in Item : WF_vars(Expiring(x))

-----------------------------------------------------------------------------
ClaimState   == [at : {"none", "read", "won", "full", "slot", "leased"},
                 x : Item \cup {NoOne}, own : Contact]
ReleaseState ==
    [at : {"none", "asked", "unleased", "disowned", "freed", "read", "answered"},
     x : Item \cup {NoOne}, reserve : BOOLEAN, own : Contact]
ExpiryState  == [at : {"none", "found", "dequeued", "disowned", "done"}, i : Owner]

TypeOK ==
    /\ posted \subseteq Item /\ queued \subseteq posted /\ lapsed \subseteq posted
    /\ json \in [Item -> Contact]
    /\ lease \in [Item -> Owner] /\ record \in [Item -> Owner]
    /\ slots \in [Agent -> SUBSET {Occ(x, Conf, Tag) : x \in posted}]
    /\ claim \in [Agent -> ClaimState]
    /\ giveback \in [Agent -> ReleaseState]
    /\ expiry \in [Item -> ExpiryState]
    /\ working \subseteq had /\ late \subseteq had
    /\ had \subseteq Agent \X Item

\* An agent has the item in hand: it won it and has not put it back.
Holds(i, x) ==
    \/ <<i, x>> \in working
    \/ claim[i].x = x /\ claim[i].at \notin {"none", "read"}
    \/ giveback[i].x = x /\ giveback[i].at \notin {"none", "answered"}

Ended(x)   == expiry[x].at # "none"
Touched(x) == \/ \E i \in Agent : claim[i].x = x \/ giveback[i].x = x
              \/ \E i \in Agent : <<i, x>> \in late

\* work_task_holder's docstring: an item in the queue has no owner whatever, by
\* construction: no lease, no record, and no agent's slot.
QueuedHasNoOwner == \A x \in queued :
    Holder(x) = NoOne /\ OccupantOf(x) = {}

\* An agent that works on a live item holds a slot for it, and it is the agent
\* the durable record names, or its submit would be refused.
WorkerIsHolder == \A i \in Agent, x \in Item :
    <<i, x>> \in working /\ ~Ended(x) => i \in OccupantOf(x) /\ record[x] = i

\* Once an item was expired and no call on it is under way, nothing of it is
\* left: not queued, not stored, not leased, nobody's slot.
EndedLeavesNothing == \A x \in Item : expiry[x].at = "done" /\ ~Touched(x) =>
    x \notin queued /\ ~json[x].stored /\ Holder(x) = NoOne /\ OccupantOf(x) = {}

\* A reserved item is won only by the agent it is reserved to, or after its window: not so
\* where connections drop, since the reservation is read before the ZREM (README, 6).
ReservationHonoured == [][\A i \in Agent : \A x \in queued \ queued' :
    (claim[i].x = x /\ claim[i].at = "read" /\ claim'[i].at = "won")
        => json[x].to \in {NoOne, i} \/ x \in lapsed]_vars

\* Where an item is on the board.
boardPlace == [x \in Item |->
    IF Ended(x) THEN [is |-> "done"]
    ELSE IF x \in queued THEN [is |-> "open"]
    ELSE IF \E i \in Agent : Holds(i, x)
      THEN [is |-> "held", by |-> {i \in Agent : Holds(i, x)}]
    ELSE [is |-> "new"]]

Board == INSTANCE TaskBoard WITH place <- boardPlace

\* The queue implements the board: whatever calls interleave, an item that is not
\* over is in the queue or in exactly one agent's hands, and none is lost.
BoardSpec == Board!Spec

\* What is given back can be claimed again: a release that has started puts the
\* item back into the queue, unless the item is closed meanwhile.
ReturnedComesBack == \A i \in Agent, x \in Item :
    (giveback[i].x = x /\ giveback[i].at = "asked") ~> (x \in queued \/ Ended(x))

=============================================================================
