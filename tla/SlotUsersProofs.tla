---------------------------- MODULE SlotUsersProofs ----------------------------
(***************************************************************************)
(* Proofs about the two systems that are built on the slot semaphore: the  *)
(* contact that several agents leave (SessionClose), and the mirror of the *)
(* occupancy (TenantOccupancy).  Each step of theirs is a step of the      *)
(* semaphore, so what is proved of the semaphore holds in both; the rest   *)
(* is about the bridge's handlers, and about the workers that owe the      *)
(* mirror an update.                                                       *)
(***************************************************************************)
EXTENDS SessionClose, TenantOccupancy, InstanceSemaphoreProofs, WellFoundedInduction

-----------------------------------------------------------------------------
(* The contact: each step is a step of the semaphore.                      *)

ConsoleState == [joins : 0..MaxJoins, submits : 0..MaxSubmits, up : BOOLEAN, shut : BOOLEAN]
HandlerState == [at : {"none", "left", "last", "unflagged", "ending", "others"}, why : Reason]

\* What the handlers and consoles are; a console that is up has not left yet.
PlacesOK ==
    /\ record \subseteq Instance /\ routed \subseteq Instance \X Conference
    /\ joining \subseteq Instance /\ agents \subseteq Instance
    /\ flag \in BOOLEAN /\ ended \in BOOLEAN
    /\ console \in [Instance -> ConsoleState]
    /\ \A i \in Instance : console[i].up => ~Left(i)
    /\ events \subseteq Instance \X Reason /\ lifecycle \subseteq Instance \X Reason
    /\ handler \in [Instance -> HandlerState]
    /\ reroutes \in Nat /\ troubles \in 0..MaxTroubles /\ overlapped \subseteq Instance

CloseTypeInv == TypeOK /\ PlacesOK

LEMMA AllocateIsClaim ==
  ASSUME TypeOK, NEW i \in Instance, NEW c \in Conference, Allocate(i, c)
  PROVE  Next
<1>1. now \in 0..now /\ now <= now + Lag
  BY TimeAssumption DEF TypeOK
<1> DEFINE outcomes == ClaimOutcomes(slots[i], Sid, c, NoTag, FALSE, now, Max[i])
<1>2. Claim(i, Sid, c, NoTag, FALSE, now)
  <2>1. PICK N \in outcomes : slots' = [slots EXCEPT ![i] = N]
    BY DEF Allocate
  <2>2. outcomes # {} /\ UNCHANGED <<closed, now, reap, cooldown>>
    BY <2>1 DEF Allocate
  <2> HIDE DEF outcomes
  <2> QED
    <3>1. now <= now /\ now <= now + Lag
      BY <1>1
    <3> QED
      BY <2>1, <2>2, <3>1, Zenon DEF Claim, outcomes
<1> QED
  BY <1>1, <1>2, SidAssumption DEF Next

LEMMA CloseIsSemaphore ==
  ASSUME TypeOK, [CloseNext]_allvars
  PROVE  [Next]_vars
<1> USE SidAssumption
<1>1. CASE UNCHANGED allvars
  BY <1>1 DEF allvars, vars
<1>2. ASSUME NEW i \in Instance, FirstRoute(i) \/ Reroute(i) PROVE Next
  BY <1>2, AllocateIsClaim DEF FirstRoute, Reroute
<1>3. ASSUME NEW i \in Instance, NEW c \in Conference, Invite(i, c) PROVE Next
  BY <1>3, AllocateIsClaim DEF Invite
<1>4. ASSUME NEW i \in Instance, AgentDone(i) \/ EndContact(i) PROVE Next
  <2>1. MarkClosed(Sid)
    BY <1>4 DEF AgentDone, EndContact, MarkClosed
  <2> QED
    BY <2>1 DEF Next
<1>5. ASSUME NEW i \in Instance, UndoMarker(i) PROVE [Next]_vars
  <2>1. CASE Sid \in closed
    <3>1. UndoClosed(Sid)
      BY <1>5, <2>1 DEF UndoMarker, UndoClosed
    <3> QED
      BY <3>1 DEF Next
  <2>2. CASE Sid \notin closed
    BY <1>5, <2>2 DEF UndoMarker, vars
  <2> QED
    BY <2>1, <2>2
<1>6. ASSUME NEW i \in Instance, NEW why \in Reason, NEW keep \in BOOLEAN,
             LifecycleEnd(<<i, why>>, keep)
      PROVE  [Next]_vars
  <2>1. now \in 0..now
    BY DEF TypeOK
  <2>2. UNCHANGED svars \/ Swap(i, Sid, now) \/ Release(i, Sid)
    BY <1>6 DEF LifecycleEnd
  <2> QED
    BY <2>1, <2>2 DEF Next, svars, vars
<1>7. ASSUME NEW i \in Instance, Reaper(i) PROVE Next
  BY <1>7 DEF Reaper, Next
<1>8. ASSUME NEW i \in Instance, Drop(i) \/ Unregister(i) \/ Login(i) PROVE UNCHANGED vars
  BY <1>8 DEF Drop, Unregister, Login, svars, vars
<1>9. ASSUME NEW i \in Instance, NEW c \in Conference, Activate(i, c) PROVE UNCHANGED vars
  BY <1>9 DEF Activate, svars, vars
<1>10. ASSUME NEW i \in Instance, NEW why \in Reason,
              CloseIgnored(<<i, why>>) \/ CloseGate(<<i, why>>)
       PROVE  UNCHANGED vars
  BY <1>10 DEF CloseIgnored, CloseGate, svars, vars
<1>11. ASSUME NEW i \in Instance, Activated(i) \/ CountOthers(i) \/ DropFlag(i) \/ DropAgents(i)
                                    \/ SendReroute(i)
       PROVE  UNCHANGED vars
  BY <1>11 DEF Activated, CountOthers, DropFlag, DropAgents, SendReroute, svars, vars
<1>12. CASE RerouteDiscarded
  BY <1>12 DEF RerouteDiscarded, svars, vars
<1> QED
  BY <1>1, <1>2, <1>3, <1>4, <1>5, <1>6, <1>7, <1>8, <1>9, <1>10, <1>11, <1>12 DEF CloseNext, Task

LEMMA ClosePlacesInit == CloseInit => PlacesOK
<1> SUFFICES ASSUME CloseInit PROVE PlacesOK
  OBVIOUS
<1>1. console \in [Instance -> ConsoleState] /\ \A i \in Instance : ~console[i].up
  BY JoinBounds DEF CloseInit, ConsoleState
<1>2. handler \in [Instance -> HandlerState]
  BY DEF CloseInit, HandlerState, NoTask, Reason
<1>3. troubles \in 0..MaxTroubles
  BY JoinBounds DEF CloseInit
<1> QED
  BY <1>1, <1>2, <1>3 DEF CloseInit, PlacesOK

\* The console, joined once more.
LEMMA AllocatePlaces ==
  ASSUME PlacesOK, NEW i \in Instance, NEW c \in Conference, Allocate(i, c), reroutes' \in Nat
  PROVE  PlacesOK'
<1>1. console[i] \in ConsoleState
  BY DEF PlacesOK
<1>2. console' \in [Instance -> ConsoleState]
  BY <1>1, JoinBounds DEF PlacesOK, Allocate, ConsoleState
<1>3. \A j \in Instance : console'[j].up = console[j].up /\ (Left(j)' <=> Left(j))
  BY <1>1 DEF PlacesOK, Allocate, ConsoleState, Left
<1> QED
  BY <1>2, <1>3 DEF PlacesOK, Allocate

\* One more trouble is one that there was room for.
LEMMA TroublePlaces ==
  ASSUME PlacesOK, NEW f, Trouble(f)
  PROVE  troubles' \in 0..MaxTroubles
BY JoinBounds DEF PlacesOK, Trouble

LEMMA ConsumePlaces ==
  ASSUME PlacesOK, NEW i \in Instance, NEW why \in Reason, Consume(<<i, why>>)
  PROVE  /\ troubles' \in 0..MaxTroubles
         /\ events' \subseteq events /\ events \ events' \subseteq {<<i, why>>}
BY TroublePlaces DEF PlacesOK, Consume

LEMMA ClosePlacesStep ==
  ASSUME PlacesOK, [CloseNext]_allvars
  PROVE  PlacesOK'
<1> USE JoinBounds
<1>1. CASE UNCHANGED allvars
  BY <1>1 DEF allvars, PlacesOK, Left
<1>2. ASSUME NEW i \in Instance, FirstRoute(i) \/ Reroute(i) PROVE PlacesOK'
  <2>1. reroutes' \in Nat /\ Allocate(i, Primary)
    BY <1>2 DEF FirstRoute, Reroute, PlacesOK
  <2> QED
    BY <2>1, AllocatePlaces, SidAssumption
<1>3. ASSUME NEW i \in Instance, NEW c \in Conference, Invite(i, c) PROVE PlacesOK'
  BY <1>3, AllocatePlaces DEF Invite, PlacesOK
<1>4. ASSUME NEW i \in Instance, AgentDone(i) \/ Drop(i) PROVE PlacesOK'
  <2>1. console[i] \in ConsoleState
    BY DEF PlacesOK
  <2>2. console' \in [Instance -> ConsoleState]
    BY <1>4, <2>1 DEF PlacesOK, AgentDone, Drop, ConsoleState
  <2>3. ~console'[i].up /\ \A j \in Instance \ {i} : console'[j] = console[j]
    BY <1>4, <2>1 DEF PlacesOK, AgentDone, Drop, ConsoleState
  <2>4. troubles' \in 0..MaxTroubles
    BY <1>4, TroublePlaces DEF AgentDone, Drop, PlacesOK
  <2>5. events' \subseteq Instance \X Reason
    BY <1>4 DEF AgentDone, Drop, PlacesOK, Reason
  <2>6. UNCHANGED <<record, routed, joining, flag, agents, handler, lifecycle, reroutes, ended,
                    overlapped>>
    BY <1>4 DEF AgentDone, Drop
  <2> QED
    BY <2>2, <2>3, <2>4, <2>5, <2>6 DEF PlacesOK, Left
<1>5. ASSUME NEW i \in Instance, Activated(i) PROVE PlacesOK'
  <2>1. console[i] \in ConsoleState
    BY DEF PlacesOK
  <2>2. console' \in [Instance -> ConsoleState]
    <3>1. [console[i] EXCEPT !.up = TRUE, !.submits = 0, !.shut = FALSE] \in ConsoleState
      <4>1. 0 \in 0..MaxSubmits
        OBVIOUS
      <4>2. [console[i] EXCEPT !.up = TRUE] \in ConsoleState
        BY <2>1 DEF ConsoleState
      <4>3. \A r \in ConsoleState : [r EXCEPT !.submits = 0] \in ConsoleState
        BY <4>1 DEF ConsoleState
      <4>4. \A r \in ConsoleState : [r EXCEPT !.shut = FALSE] \in ConsoleState
        BY DEF ConsoleState
      <4> QED
        BY <4>2, <4>3, <4>4
    <3>2. console' = [console EXCEPT ![i] =
                         [console[i] EXCEPT !.up = TRUE, !.submits = 0, !.shut = FALSE]]
      BY <1>5 DEF Activated
    <3> QED
      BY <3>1, <3>2 DEF PlacesOK
  <2>3. ~Left(i)' /\ \A j \in Instance \ {i} : console'[j] = console[j]
    BY <1>5, <2>1 DEF PlacesOK, Activated, ConsoleState, Left
  <2> QED
    BY <1>5, <2>2, <2>3 DEF PlacesOK, Activated, Left
<1>6. ASSUME NEW i \in Instance, Unregister(i) \/ Login(i) \/ Reaper(i) PROVE PlacesOK'
  <2>1. troubles' \in 0..MaxTroubles
    BY <1>6, TroublePlaces DEF Unregister, Login, Reaper, PlacesOK
  <2> QED
    BY <1>6, <2>1 DEF PlacesOK, Unregister, Login, Reaper, Left
<1>7. ASSUME NEW i \in Instance, NEW c \in Conference, Activate(i, c) PROVE PlacesOK'
  BY <1>7 DEF PlacesOK, Activate, Left
<1>8. ASSUME NEW i \in Instance, NEW why \in Reason, CloseIgnored(<<i, why>>) PROVE PlacesOK'
  <2>1. Consume(<<i, why>>)
    BY <1>8 DEF CloseIgnored
  <2> QED
    BY <1>8, <2>1, ConsumePlaces DEF PlacesOK, CloseIgnored, Left
<1>9. ASSUME NEW i \in Instance, NEW why \in Reason, CloseGate(<<i, why>>) PROVE PlacesOK'
  <2>1. Consume(<<i, why>>)
    BY <1>9 DEF CloseGate
  <2>2. handler' \in [Instance -> HandlerState]
    BY <1>9 DEF CloseGate, PlacesOK, HandlerState
  <2> QED
    BY <1>9, <2>1, <2>2, ConsumePlaces DEF PlacesOK, CloseGate, Left
<1>10. ASSUME NEW i \in Instance, CountOthers(i) \/ DropFlag(i) \/ DropAgents(i)
       PROVE  PlacesOK'
  <2>1. handler[i] \in HandlerState
    BY DEF PlacesOK
  <2>2. handler' \in [Instance -> HandlerState]
    BY <1>10, <2>1 DEF PlacesOK, CountOthers, DropFlag, DropAgents, GoTo, HandlerState
  <2> QED
    BY <1>10, <2>2 DEF PlacesOK, CountOthers, DropFlag, DropAgents, Left
<1>11. ASSUME NEW i \in Instance, EndContact(i) \/ SendReroute(i) \/ UndoMarker(i)
       PROVE  PlacesOK'
  <2>1. handler' \in [Instance -> HandlerState]
    BY <1>11 DEF PlacesOK, EndContact, SendReroute, UndoMarker, Finish, NoTask, Reason, HandlerState
  <2>2. reroutes' \in Nat /\ ended' \in BOOLEAN
    <3>1. reroutes' = reroutes \/ reroutes' = reroutes + 1
      BY <1>11 DEF EndContact, SendReroute, UndoMarker
    <3>2. ended' = ended \/ ended' = TRUE
      BY <1>11 DEF EndContact, SendReroute, UndoMarker
    <3>3. ended' \in BOOLEAN
      BY <3>2 DEF PlacesOK
    <3> QED
      BY <3>1, <3>3 DEF PlacesOK
  <2>3. UNCHANGED <<record, routed, joining, flag, agents, console, events, lifecycle, troubles,
                    overlapped>>
    BY <1>11 DEF EndContact, SendReroute, UndoMarker
  <2> QED
    BY <2>1, <2>2, <2>3 DEF PlacesOK, Left
<1>12. ASSUME NEW i \in Instance, NEW why \in Reason, NEW keep \in BOOLEAN,
              LifecycleEnd(<<i, why>>, keep)
       PROVE  PlacesOK'
  BY <1>12 DEF PlacesOK, LifecycleEnd, Left
<1>13. CASE RerouteDiscarded
  <2>1. reroutes' \in Nat
    BY <1>13 DEF RerouteDiscarded, PlacesOK
  <2> QED
    BY <1>13, <2>1 DEF PlacesOK, RerouteDiscarded, Left
<1> QED
  BY <1>1, <1>2, <1>3, <1>4, <1>5, <1>6, <1>7, <1>8, <1>9, <1>10, <1>11, <1>12, <1>13
  DEF CloseNext, Task

LEMMA CloseTypeInit == CloseInit => CloseTypeInv
<1>1. Init => TypeOK
  BY DEF Init, TypeOK, Idle
<1> QED
  BY <1>1, ClosePlacesInit DEF CloseInit, CloseTypeInv

LEMMA CloseTypeStep == CloseTypeInv /\ [CloseNext]_allvars => CloseTypeInv'
  BY TypeStep, CloseIsSemaphore, ClosePlacesStep DEF CloseTypeInv

\* Type correctness of the contact: the places of its agents, events and handlers, and the
\* slots that it shares with other contacts.
THEOREM CloseTypeCorrect == CloseSpec => []CloseTypeOK
<1>1. CloseTypeInv => CloseTypeOK
  BY DEF CloseTypeInv, PlacesOK, CloseTypeOK, ConsoleState, HandlerState
<1> QED
  BY <1>1, CloseTypeInit, CloseTypeStep, PTL DEF CloseSpec

\* The services that open and close a contact use the semaphore by its operations only: what
\* is proved of the semaphore, its capacity among it, holds for them.
THEOREM CloseImplementsSemaphore == CloseSpec => Spec
<1>1. CloseInit => Init
  BY DEF CloseInit
<1>2. CloseTypeInv /\ [CloseNext]_allvars => [Next]_vars
  BY CloseIsSemaphore DEF CloseTypeInv
<1> QED
  BY <1>1, <1>2, CloseTypeInit, CloseTypeStep, PTL DEF CloseSpec, Spec

-----------------------------------------------------------------------------
(* The contact: who is at work has a slot.                                 *)

\* Whoever has the contact, or is about to get it, has a slot that no event is about to free,
\* and no agent_done or drop of an earlier allocation is left that could still free it.
HasSlot(i) == SlotsOf(slots[i], Sid) # {} /\ ~Awaits(i) /\ ~Owed(i)
OneDoor(i) ==
    /\ i \in joining => \A c \in Conference : <<i, c>> \notin routed
    /\ \A c, d \in Conference : <<i, c>> \in routed /\ <<i, d>> \in routed => c = d
WorkInvOf(i) ==
    /\ AtDoor(i) \/ console[i].up => HasSlot(i)
    /\ AtDoor(i) => ~console[i].up /\ i \notin agents
    /\ AtDoor(i) /\ Hazard("resubmit") => ~Left(i)
    /\ OneDoor(i)
WorkInv == \A i \in Instance \ overlapped : WorkInvOf(i)

\* A claim leaves a slot of the session that claims.
LEMMA ClaimLeavesSlot ==
  ASSUME NEW M, NEW s, NEW c, NEW p, NEW inherits, NEW t, NEW max,
         NEW N \in ClaimOutcomes(M, s, c, p, inherits, t, max)
  PROVE  SlotsOf(N, s) # {}
<1>1. PICK K \in SUBSET M : N = K \cup {Occ(s, c, p)}
  BY ClaimAddsOne
<1>2. Occ(s, c, p) \in SlotsOf(N, s)
  BY <1>1 DEF SlotsOf, Occ, IsOccupant
<1> QED
  BY <1>2

LEMMA AllocateChanges ==
  ASSUME CloseTypeInv, NEW i \in Instance, NEW c \in Conference, Allocate(i, c)
  PROVE  /\ SlotsOf(slots'[i], Sid) # {}
         /\ console'[i].up = console[i].up /\ console'[i].submits = console[i].submits
         /\ (Left(i)' <=> Left(i))
         /\ console'[i].joins = console[i].joins + 1
         /\ \A j \in Instance \ {i} : slots'[j] = slots[j] /\ console'[j] = console[j]
         /\ overlapped' = IF Fresh(i) THEN overlapped ELSE overlapped \cup {i}
         /\ routed' = routed \cup {<<i, c>>}
         /\ UNCHANGED <<closed, joining, flag, agents, events, handler, lifecycle, record, ended>>
<1> DEFINE outcomes == ClaimOutcomes(slots[i], Sid, c, NoTag, FALSE, now, Max[i])
<1>1. PICK N \in outcomes : slots' = [slots EXCEPT ![i] = N]
  BY DEF Allocate
<1>2. SlotsOf(N, Sid) # {}
  BY <1>1, ClaimLeavesSlot
<1>3. console[i] \in ConsoleState /\ console \in [Instance -> ConsoleState]
      /\ slots \in [Instance -> SUBSET Member]
  BY DEF CloseTypeInv, PlacesOK, TypeOK
<1>4. console' = [console EXCEPT ![i].joins = @ + 1]
  BY DEF Allocate
<1>5. slots'[i] = N /\ \A j \in Instance \ {i} : slots'[j] = slots[j]
  BY <1>1, <1>3
<1>6. /\ console'[i].up = console[i].up /\ console'[i].submits = console[i].submits
      /\ console'[i].joins = console[i].joins + 1 /\ console'[i].shut = console[i].shut
      /\ \A j \in Instance \ {i} : console'[j] = console[j]
  BY <1>3, <1>4 DEF ConsoleState
<1> QED
  BY <1>2, <1>5, <1>6 DEF Allocate, Left

LEMMA AllocateWorks ==
  ASSUME CloseTypeInv, WorkInv, NEW i \in Instance, NEW c \in Conference, Allocate(i, c)
  PROVE  WorkInv'
<1>1. ASSUME i \notin overlapped' PROVE WorkInvOf(i)'
  <2>1. Fresh(i)
    BY <1>1, AllocateChanges
  <2> QED
    BY <2>1, AllocateChanges
    DEF WorkInvOf, HasSlot, OneDoor, AtDoor, Awaits, Owed, Hazard, Fresh
<1>2. ASSUME NEW j \in Instance \ {i}, j \notin overlapped' PROVE WorkInvOf(j)'
  <2>1. WorkInvOf(j)
    BY <1>2, AllocateChanges DEF WorkInv
  <2>2. /\ slots'[j] = slots[j] /\ console'[j] = console[j]
        /\ \A d \in Conference : <<j, d>> \in routed' <=> <<j, d>> \in routed
        /\ UNCHANGED <<joining, agents, events, lifecycle>>
    BY AllocateChanges
  <2>3. (AtDoor(j)' <=> AtDoor(j)) /\ (HasSlot(j)' <=> HasSlot(j)) /\ (Left(j)' <=> Left(j))
        /\ (OneDoor(j)' <=> OneDoor(j))
    BY <2>2 DEF HasSlot, OneDoor, AtDoor, Awaits, Owed, Left
  <2> QED
    BY <2>1, <2>2, <2>3 DEF WorkInvOf, Hazard
<1> QED
  BY <1>1, <1>2 DEF WorkInv

LEMMA WorkStep ==
  ASSUME "reap" \notin Faults, CloseTypeInv, WorkInv, [CloseNext]_allvars
  PROVE  WorkInv'
<1> USE SidAssumption DEF Hazard
<1>0. ASSUME UNCHANGED <<slots, routed, joining, console, events, lifecycle, overlapped>>,
             agents' \subseteq agents
      PROVE  WorkInv'
  BY <1>0 DEF WorkInv, WorkInvOf, HasSlot, OneDoor, AtDoor, Awaits, Owed, Left
<1>1. CASE UNCHANGED allvars
  BY <1>0, <1>1 DEF allvars
<1>2. ASSUME NEW i \in Instance, FirstRoute(i) \/ Reroute(i) PROVE WorkInv'
  BY <1>2, AllocateWorks DEF FirstRoute, Reroute
<1>3. ASSUME NEW i \in Instance, AgentDone(i) \/ Drop(i) PROVE WorkInv'
  <2>0. console[i] \in ConsoleState
    BY DEF CloseTypeInv, PlacesOK
  <2>1. /\ ~console'[i].up /\ \A j \in Instance \ {i} : console'[j] = console[j]
        /\ UNCHANGED <<slots, routed, joining, agents, lifecycle, overlapped>>
        /\ \A j \in Instance \ {i} : \A why \in Reason : <<j, why>> \in events' => <<j, why>> \in events
    BY <1>3, <2>0 DEF AgentDone, Drop, CloseTypeInv, PlacesOK, ConsoleState
  <2>2. ASSUME i \notin overlapped PROVE WorkInvOf(i)'
    <3>0. WorkInvOf(i)
      BY <2>2 DEF WorkInv
    <3>1. CASE ~AtDoor(i)
      BY <2>1, <3>0, <3>1 DEF WorkInvOf, OneDoor, AtDoor
    <3>2. CASE AtDoor(i)
      <4>1. ~console[i].up /\ i \notin agents /\ HasSlot(i) /\ (Hazard("resubmit") => ~Left(i))
        BY <3>0, <3>2 DEF WorkInvOf
      <4>2. Drop(i) /\ ~Hazard("resubmit")
        BY <1>3, <4>1 DEF AgentDone, Drop, Left
      <4>3. events' = events
        BY <4>1, <4>2 DEF Drop
      <4> QED
        BY <2>1, <3>0, <3>2, <4>1, <4>2, <4>3
        DEF WorkInvOf, HasSlot, OneDoor, AtDoor, Awaits, Owed
    <3> QED
      BY <3>1, <3>2
  <2>3. ASSUME NEW j \in Instance \ {i}, j \notin overlapped PROVE WorkInvOf(j)'
    BY <2>1, <2>3 DEF WorkInv, WorkInvOf, HasSlot, OneDoor, AtDoor, Awaits, Owed, Left
  <2> QED
    BY <2>1, <2>2, <2>3 DEF WorkInv
<1>4. ASSUME NEW i \in Instance, NEW c \in Conference, Activate(i, c) PROVE WorkInv'
  <2>1. /\ UNCHANGED <<slots, agents, console, events, lifecycle, overlapped>>
        /\ <<i, c>> \in routed /\ routed' = routed \ {<<i, c>>}
        /\ joining \subseteq joining' /\ joining' \subseteq joining \cup {i}
    BY <1>4 DEF Activate, svars
  <2>2. ASSUME NEW j \in Instance \ overlapped PROVE WorkInvOf(j)'
    <3>1. WorkInvOf(j)
      BY DEF WorkInv
    <3>2. AtDoor(j)' => AtDoor(j)
      BY <2>1 DEF AtDoor
    <3>3. OneDoor(j)'
      BY <2>1, <3>1 DEF WorkInvOf, OneDoor
    <3> QED
      BY <2>1, <3>1, <3>2, <3>3 DEF WorkInvOf, HasSlot, Awaits, Owed, Left
  <2> QED
    BY <2>1, <2>2 DEF WorkInv
<1>5. ASSUME NEW i \in Instance, Activated(i) PROVE WorkInv'
  <2>1. /\ i \in joining /\ joining' = joining \ {i} /\ agents' = agents \cup {i}
        /\ \A j \in Instance \ {i} : console'[j] = console[j]
        /\ UNCHANGED <<slots, routed, events, lifecycle, overlapped>>
    BY <1>5 DEF Activated, svars, CloseTypeInv, PlacesOK
  <2>2. ASSUME i \notin overlapped PROVE WorkInvOf(i)'
    <3>1. WorkInvOf(i)
      BY <2>2 DEF WorkInv
    <3>2. ~AtDoor(i)' /\ HasSlot(i)
      BY <2>1, <3>1 DEF WorkInvOf, OneDoor, AtDoor
    <3> QED
      BY <2>1, <3>1, <3>2 DEF WorkInvOf, OneDoor, HasSlot, Awaits, Owed
  <2>3. ASSUME NEW j \in Instance \ {i}, j \notin overlapped PROVE WorkInvOf(j)'
    BY <2>1, <2>3 DEF WorkInv, WorkInvOf, HasSlot, OneDoor, AtDoor, Awaits, Owed, Left
  <2> QED
    BY <2>1, <2>2, <2>3 DEF WorkInv
<1>6. ASSUME NEW i \in Instance, NEW why \in Reason,
             CloseIgnored(<<i, why>>) \/ CloseGate(<<i, why>>)
      PROVE  WorkInv'
  <2>1. Consume(<<i, why>>) /\ <<i, why>> \in events
    BY <1>6 DEF CloseIgnored, CloseGate
  <2>2. events' \subseteq events
    BY <2>1, ConsumePlaces DEF CloseTypeInv
  <2>3. /\ UNCHANGED <<slots, routed, joining, console, overlapped>> /\ agents' \subseteq agents
        /\ lifecycle' \subseteq lifecycle \cup {<<i, why>>}
    BY <1>6 DEF CloseIgnored, CloseGate, svars
  <2>4. ASSUME NEW j \in Instance \ overlapped PROVE WorkInvOf(j)'
    <3>1. WorkInvOf(j)
      BY DEF WorkInv
    <3>2. Awaits(j)' => Awaits(j)
      BY <2>2 DEF Awaits
    <3>3. Owed(j)' => Owed(j) \/ Awaits(j)
      BY <2>1, <2>3 DEF Owed, Awaits
    <3> QED
      BY <2>2, <2>3, <3>1, <3>2, <3>3 DEF WorkInvOf, HasSlot, OneDoor, AtDoor, Left
  <2> QED
    BY <2>3, <2>4 DEF WorkInv
<1>7. ASSUME NEW i \in Instance, NEW why \in Reason, NEW keep \in BOOLEAN,
             LifecycleEnd(<<i, why>>, keep)
      PROVE  WorkInv'
  <2>1. /\ <<i, why>> \in lifecycle /\ lifecycle' \subseteq lifecycle
        /\ UNCHANGED <<routed, joining, agents, console, events, overlapped>>
    BY <1>7 DEF LifecycleEnd
  <2>2. \A j \in Instance \ {i} : slots'[j] = slots[j]
    BY <1>7 DEF LifecycleEnd, Swap, Release, svars, CloseTypeInv, TypeOK
  <2>3. ASSUME NEW j \in Instance \ overlapped PROVE WorkInvOf(j)'
    <3>1. WorkInvOf(j)
      BY DEF WorkInv
    <3>2. CASE j = i
      <4>1. Owed(i)
        BY <2>1 DEF Owed
      <4> QED
        BY <2>1, <3>1, <3>2, <4>1 DEF WorkInvOf, HasSlot, OneDoor, AtDoor
    <3>3. CASE j # i
      BY <2>1, <2>2, <3>1, <3>3 DEF WorkInvOf, HasSlot, OneDoor, AtDoor, Awaits, Owed, Left
    <3> QED
      BY <3>2, <3>3
  <2> QED
    BY <2>1, <2>3 DEF WorkInv
<1>8. ASSUME NEW i \in Instance, Unregister(i) \/ Login(i) \/ CountOthers(i) \/ DropFlag(i)
                                   \/ DropAgents(i) \/ EndContact(i) \/ SendReroute(i) \/ UndoMarker(i)
      PROVE  WorkInv'
  BY <1>0, <1>8 DEF Unregister, Login, CountOthers, DropFlag, DropAgents, EndContact, SendReroute,
     UndoMarker, svars
<1>9. CASE RerouteDiscarded
  BY <1>0, <1>9 DEF RerouteDiscarded, svars
<1>10. ASSUME NEW i \in Instance, NEW c \in Conference, Invite(i, c) PROVE WorkInv'
  BY <1>10, AllocateWorks DEF Invite
<1>11. ASSUME NEW i \in Instance PROVE ~Reaper(i)
  BY DEF Reaper
<1> QED
  BY <1>1, <1>2, <1>3, <1>4, <1>5, <1>6, <1>7, <1>8, <1>9, <1>10, <1>11 DEF CloseNext, Task

LEMMA WorkInit == CloseInit => WorkInv
  BY DEF CloseInit, WorkInv, WorkInvOf, HasSlot, OneDoor, AtDoor

LEMMA WorkImplies == WorkInv => WorkingHasSlot
  BY DEF WorkInv, WorkInvOf, HasSlot, WorkingHasSlot

\* An agent at work has a slot of its instance, whatever else is late, redelivered, dropped or
\* logged out, if the reaper does not run and the agent was never allocated the contact again
\* before everybody had heard that it had left: a release names a session, not the allocation
\* that it is about.
THEOREM WorkersHaveSlots ==
  ASSUME "reap" \notin Faults
  PROVE  CloseSpec => []WorkingHasSlot
<1>1. CloseTypeInv /\ WorkInv /\ [CloseNext]_allvars => WorkInv'
  BY WorkStep
<1> QED
  BY <1>1, CloseTypeInit, CloseTypeStep, WorkInit, WorkImplies, PTL DEF CloseSpec

-----------------------------------------------------------------------------
(* The contact: who has been allocated it.                                 *)

\* The agent has the contact, is about to get it, or left it and somebody still says so.
Here(i) == AtDoor(i) \/ i \in agents \/ console[i].up \/ Left(i)
              \/ Awaits(i) \/ Owed(i)

JoinedInv ==
    /\ \A i \in Instance : Here(i) => console[i].joins > 0
    /\ flag => \E i \in Instance : console[i].joins > 0

LEMMA JoinedStep ==
  ASSUME CloseTypeInv, JoinedInv, [CloseNext]_allvars
  PROVE  JoinedInv'
<1> USE SidAssumption DEF Here
<1>0. ASSUME UNCHANGED console, flag' => flag \/ \E j \in Instance : console[j].joins > 0,
             \A j \in Instance : Here(j)' => Here(j)
      PROVE  JoinedInv'
  BY <1>0 DEF JoinedInv, Left
<1>a. \A j \in Instance : console[j] \in ConsoleState
  BY DEF CloseTypeInv, PlacesOK
<1>1. CASE UNCHANGED allvars
  BY <1>1 DEF allvars, JoinedInv, AtDoor, Awaits, Owed, Left
<1>2. ASSUME NEW i \in Instance, NEW c \in Conference, Allocate(i, c) PROVE JoinedInv'
  <2>1. console[i].joins \in Nat
    BY <1>a, JoinBounds DEF ConsoleState
  <2>2. console'[i].joins > 0
    BY <1>2, <2>1, AllocateChanges
  <2>3. \A j \in Instance \ {i} : Here(j)' => Here(j)
    BY <1>2, AllocateChanges DEF AtDoor, Awaits, Owed, Left
  <2> QED
    BY <1>2, <2>2, <2>3, AllocateChanges DEF JoinedInv
<1>3. ASSUME NEW i \in Instance, AgentDone(i) \/ Drop(i) PROVE JoinedInv'
  <2>1. Here(i)
    BY <1>3, <1>a DEF AgentDone, Drop, ConsoleState, Left
  <2>2. \A j \in Instance : console'[j].joins = console[j].joins
    BY <1>3, <1>a DEF AgentDone, Drop, ConsoleState, CloseTypeInv, PlacesOK
  <2>3. /\ UNCHANGED <<flag, routed, joining, agents, lifecycle>>
        /\ \A j \in Instance \ {i} : console'[j] = console[j]
        /\ \A j \in Instance \ {i} : \A why \in Reason : <<j, why>> \in events' => <<j, why>> \in events
    BY <1>3 DEF AgentDone, Drop, CloseTypeInv, PlacesOK
  <2>4. \A j \in Instance \ {i} : Here(j)' => Here(j)
    BY <2>3 DEF AtDoor, Awaits, Owed, Left
  <2> QED
    BY <2>1, <2>2, <2>3, <2>4 DEF JoinedInv
<1>4. ASSUME NEW i \in Instance, NEW c \in Conference, Activate(i, c) PROVE JoinedInv'
  <2>1. Here(i)
    BY <1>4 DEF Activate, AtDoor
  <2>2. \A j \in Instance : Here(j)' => Here(j)
    BY <1>4 DEF Activate, AtDoor, Awaits, Owed, Left
  <2>3. UNCHANGED console /\ \E j \in Instance : console[j].joins > 0
    BY <1>4, <2>1 DEF Activate, JoinedInv
  <2> QED
    BY <1>0, <2>2, <2>3
<1>5. ASSUME NEW i \in Instance, Activated(i) PROVE JoinedInv'
  <2>1. Here(i)
    BY <1>5 DEF Activated, AtDoor
  <2>2. \A j \in Instance : console'[j].joins = console[j].joins
    BY <1>5, <1>a DEF Activated, ConsoleState, CloseTypeInv, PlacesOK
  <2>3. /\ \A j \in Instance \ {i} : console'[j] = console[j]
        /\ UNCHANGED <<flag, routed, events, lifecycle>>
        /\ agents' = agents \cup {i} /\ joining' \subseteq joining
    BY <1>5 DEF Activated, CloseTypeInv, PlacesOK
  <2>4. \A j \in Instance \ {i} : Here(j)' => Here(j)
    BY <2>3 DEF AtDoor, Awaits, Owed, Left
  <2> QED
    BY <2>1, <2>2, <2>3, <2>4 DEF JoinedInv
<1>6. ASSUME NEW i \in Instance, NEW why \in Reason,
             CloseIgnored(<<i, why>>) \/ CloseGate(<<i, why>>)
      PROVE  JoinedInv'
  <2>1. Consume(<<i, why>>) /\ <<i, why>> \in events
    BY <1>6 DEF CloseIgnored, CloseGate
  <2>2. events' \subseteq events
    BY <2>1, ConsumePlaces DEF CloseTypeInv
  <2>3. UNCHANGED <<flag, routed, joining, console>> /\ agents' \subseteq agents
        /\ lifecycle' \subseteq lifecycle \cup {<<i, why>>}
    BY <1>6 DEF CloseIgnored, CloseGate
  <2>4. ASSUME NEW j \in Instance PROVE Here(j)' => Here(j)
    <3>1. Awaits(j)' => Awaits(j)
      BY <2>2 DEF Awaits
    <3>2. Owed(j)' => Owed(j) \/ Awaits(j)
      BY <2>1, <2>3 DEF Owed, Awaits
    <3>3. AtDoor(j)' => AtDoor(j)
      BY <2>3 DEF AtDoor
    <3> QED
      BY <2>2, <2>3, <3>1, <3>2, <3>3 DEF Left
  <2> QED
    BY <1>0, <2>2, <2>3, <2>4
<1>7. ASSUME NEW i \in Instance, NEW why \in Reason, NEW keep \in BOOLEAN,
             LifecycleEnd(<<i, why>>, keep)
      PROVE  JoinedInv'
  BY <1>0, <1>7 DEF LifecycleEnd, AtDoor, Awaits, Owed, Left
<1>8. ASSUME NEW i \in Instance, Unregister(i) \/ Login(i) \/ CountOthers(i) \/ DropFlag(i)
                                   \/ DropAgents(i) \/ EndContact(i) \/ SendReroute(i) \/ UndoMarker(i)
                                   \/ Reaper(i)
      PROVE  JoinedInv'
  <2>1. UNCHANGED <<routed, joining, console, events, lifecycle>> /\ agents' \subseteq agents
        /\ (flag' => flag)
    BY <1>8 DEF Unregister, Login, CountOthers, DropFlag, DropAgents, EndContact, SendReroute,
       UndoMarker, Reaper
  <2> QED
    BY <1>0, <2>1 DEF AtDoor, Awaits, Owed, Left
<1>9. ASSUME NEW i \in Instance, FirstRoute(i) \/ Reroute(i) PROVE JoinedInv'
  BY <1>2, <1>9 DEF FirstRoute, Reroute
<1>10. ASSUME NEW i \in Instance, NEW c \in Conference, Invite(i, c) PROVE JoinedInv'
  BY <1>2, <1>10 DEF Invite
<1>11. CASE RerouteDiscarded
  BY <1>0, <1>11 DEF RerouteDiscarded, AtDoor, Awaits, Owed, Left
<1> QED
  BY <1>1, <1>3, <1>4, <1>5, <1>6, <1>7, <1>8, <1>9, <1>10, <1>11 DEF CloseNext, Task

LEMMA JoinedInit == CloseInit => JoinedInv
  BY DEF CloseInit, JoinedInv, Here, AtDoor, Awaits, Owed, Left

-----------------------------------------------------------------------------
(* The contact: the door and the exit are not used at the same time.       *)

\* The contact is routed again only when the bridge has finished with those who left it.
RejoinSettled == \A i \in Instance : Reroute(i) => AllSettled

LEMMA RejoinIsSettled ==
  ASSUME "early_rejoin" \notin Faults
  PROVE  [RejoinSettled]_allvars
BY DEF RejoinSettled, Reroute, Hazard

\* Nobody is on the way in while somebody is on the way out; a handler that has found its
\* agent to be the last stays right about it; the flag is up while anybody is in.
GateInv ==
    /\ ~Quiet => AllSettled
    /\ \A i \in Instance : Awaits(i) \/ handler[i].at # "none" => Left(i)
    /\ \A i \in Instance : handler[i].at \in {"last", "unflagged", "ending"} => agents = {}
    /\ agents # {} \/ joining # {} => flag
    /\ \A i \in Instance : console[i].up => i \in agents /\ ~Awaits(i)

\* Before anybody was allocated the contact, and while nobody has left it, all is settled.
LEMMA StartIsSettled ==
  ASSUME CloseTypeInv, JoinedInv, GateInv
  PROVE  /\ (\A j \in Instance : console[j].joins = 0) =>
               AllSettled /\ ~flag /\ agents = {} /\ Quiet /\ \A j \in Instance : ~Owed(j)
         /\ (\A j \in Instance : ~Left(j)) => AllSettled
<1>1. ASSUME \A j \in Instance : ~Left(j) PROVE AllSettled
  <2>1. \A j \in Instance : handler[j].at = "none" /\ ~Awaits(j)
    BY <1>1 DEF GateInv
  <2> QED
    BY <2>1 DEF AllSettled, Awaits, CloseTypeInv, PlacesOK
<1>2. ASSUME \A j \in Instance : console[j].joins = 0
      PROVE  AllSettled /\ ~flag /\ agents = {} /\ Quiet /\ \A j \in Instance : ~Owed(j)
  <2>1. ~flag /\ \A j \in Instance : ~Here(j)
    BY <1>2 DEF JoinedInv
  <2>2. agents = {} /\ joining = {} /\ routed = {}
    BY <2>1 DEF Here, AtDoor, CloseTypeInv, PlacesOK
  <2>3. \A j \in Instance : ~Left(j)
    BY <2>1 DEF Here
  <2> QED
    BY <1>1, <2>1, <2>2, <2>3 DEF Here, Quiet
<1> QED
  BY <1>1, <1>2

LEMMA AllocateGate ==
  ASSUME CloseTypeInv, GateInv, AllSettled, NEW i \in Instance, NEW c \in Conference, Allocate(i, c)
  PROVE  GateInv'
<1>1. \A j \in Instance : console'[j].up = console[j].up /\ (Left(j)' <=> Left(j))
  BY AllocateChanges DEF Left
<1> QED
  BY <1>1, AllocateChanges DEF GateInv, AllSettled, Awaits

LEMMA GateStep ==
  ASSUME "late_join" \notin Faults, CloseTypeInv, JoinedInv, GateInv,
         [CloseNext]_allvars, [RejoinSettled]_allvars
  PROVE  GateInv'
<1> USE SidAssumption DEF Hazard
<1>0. ASSUME UNCHANGED <<routed, joining, flag, agents, console, events, handler>> PROVE GateInv'
  BY <1>0 DEF GateInv, Quiet, AllSettled, Awaits, Left
<1>a. \A j \in Instance : console[j] \in ConsoleState /\ handler[j] \in HandlerState
  BY DEF CloseTypeInv, PlacesOK
<1>b. ~Quiet => AllSettled
  BY DEF GateInv
<1>1. CASE UNCHANGED allvars
  BY <1>0, <1>1 DEF allvars
<1>2. ASSUME NEW i \in Instance, FirstRoute(i) PROVE GateInv'
  <2>1. Allocate(i, Primary) /\ AllSettled
    BY <1>2, StartIsSettled DEF FirstRoute
  <2> QED
    BY <2>1, AllocateGate
<1>3. ASSUME NEW i \in Instance, Reroute(i) PROVE GateInv'
  <2>1. Allocate(i, Primary)
    BY <1>3 DEF Reroute
  <2>2. console' # console
    BY <2>1, <1>a, AllocateChanges, JoinBounds DEF ConsoleState
  <2>3. AllSettled
    BY <1>3, <2>2 DEF RejoinSettled, allvars
  <2> QED
    BY <2>1, <2>3, AllocateGate
<1>4. ASSUME NEW i \in Instance, NEW c \in Conference, Invite(i, c) PROVE GateInv'
  <2>1. Allocate(i, c) /\ AllSettled
    BY <1>4, StartIsSettled DEF Invite
  <2> QED
    BY <2>1, AllocateGate
<1>5. ASSUME NEW i \in Instance, AgentDone(i) \/ Drop(i) PROVE GateInv'
  <2>1. Quiet /\ UNCHANGED <<routed, joining, flag, agents, handler>>
        /\ events' \subseteq events \cup {<<i, "agent_closed">>, <<i, "agent_disconnect">>}
    BY <1>5 DEF AgentDone, Drop
  <2>2. /\ \A j \in Instance \ {i} : console'[j] = console[j]
        /\ Left(i)' /\ ~console'[i].up
    BY <1>5, <1>a DEF AgentDone, Drop, ConsoleState, CloseTypeInv, PlacesOK, Left
  <2>3. \A j \in Instance \ {i} : (Awaits(j)' => Awaits(j)) /\ (Left(j)' <=> Left(j))
    BY <2>1, <2>2 DEF Awaits, Left
  <2>4. Quiet'
    BY <2>1 DEF Quiet
  <2> QED
    BY <2>1, <2>2, <2>3, <2>4 DEF GateInv
<1>6. ASSUME NEW i \in Instance, NEW c \in Conference, Activate(i, c) PROVE GateInv'
  <2>1. ~Quiet
    BY <1>6 DEF Activate, Quiet
  <2>2. UNCHANGED <<agents, console, events, handler>> /\ (flag => flag')
        /\ (joining' # joining => flag')
    BY <1>6 DEF Activate
  <2> QED
    BY <1>b, <2>1, <2>2 DEF GateInv, AllSettled, Awaits, Left
<1>7. ASSUME NEW i \in Instance, Activated(i) PROVE GateInv'
  <2>1. AllSettled /\ flag
    BY <1>7, <1>b DEF Activated, Quiet, GateInv
  <2>2. UNCHANGED <<flag, events, handler>> /\ agents' = agents \cup {i}
        /\ \A j \in Instance \ {i} : console'[j] = console[j]
    BY <1>7 DEF Activated, CloseTypeInv, PlacesOK
  <2>3. AllSettled' /\ \A j \in Instance : ~Awaits(j)'
    BY <2>1, <2>2 DEF AllSettled, Awaits
  <2> QED
    BY <2>1, <2>2, <2>3 DEF GateInv, AllSettled
<1>8. ASSUME NEW i \in Instance, NEW why \in Reason,
             CloseIgnored(<<i, why>>) \/ CloseGate(<<i, why>>)
      PROVE  GateInv'
  <2>1. Consume(<<i, why>>) /\ <<i, why>> \in events
    BY <1>8 DEF CloseIgnored, CloseGate
  <2>2. events' \subseteq events /\ UNCHANGED console
    BY <1>8, <2>1, ConsumePlaces DEF CloseTypeInv, CloseIgnored, CloseGate
  <2>3. \A j \in Instance : Awaits(j)' => Awaits(j)
    BY <2>2 DEF Awaits
  <2>4. Awaits(i) /\ Quiet
    BY <1>b, <2>1 DEF Awaits, AllSettled
  <2>5. UNCHANGED <<routed, joining, flag>> /\ agents \ {i} \subseteq agents' /\ agents' \subseteq agents
        /\ \A j \in Instance : handler'[j] # handler[j] => j = i /\ handler'[j].at = "left"
    BY <1>8 DEF CloseIgnored, CloseGate, CloseTypeInv, PlacesOK
  <2>6. Quiet'
    BY <2>4, <2>5 DEF Quiet
  <2>7. \A j \in Instance : Awaits(j)' \/ handler'[j].at # "none" => Left(j)'
    BY <2>2, <2>3, <2>4, <2>5 DEF GateInv, Left
  <2>8. \A j \in Instance : handler'[j].at \in {"last", "unflagged", "ending"} => agents' = {}
    BY <2>5 DEF GateInv
  <2>9. \A j \in Instance : console'[j].up => j \in agents' /\ ~Awaits(j)'
    BY <2>2, <2>3, <2>4, <2>5 DEF GateInv
  <2> QED
    BY <2>5, <2>6, <2>7, <2>8, <2>9 DEF GateInv
<1>9. ASSUME NEW i \in Instance, CountOthers(i) PROVE GateInv'
  <2>1. UNCHANGED <<routed, joining, flag, agents, console, events>>
        /\ \A j \in Instance \ {i} : handler'[j] = handler[j]
    BY <1>9 DEF CountOthers, GoTo, CloseTypeInv, PlacesOK
  <2>2. handler[i].at = "left" /\ handler'[i].at = (IF agents = {} THEN "last" ELSE "others")
    BY <1>9, <1>a DEF CountOthers, GoTo, CloseTypeInv, PlacesOK, HandlerState
  <2>3. Quiet
    BY <1>b, <2>2 DEF AllSettled
  <2> QED
    BY <2>1, <2>2, <2>3 DEF GateInv, Quiet, Awaits, Left
<1>10. ASSUME NEW i \in Instance, DropFlag(i) \/ DropAgents(i) PROVE GateInv'
  <2>1. /\ handler[i].at \in {"last", "unflagged"} /\ handler'[i].at \in {"unflagged", "ending"}
        /\ \A j \in Instance \ {i} : handler'[j] = handler[j]
        /\ UNCHANGED <<routed, joining, console, events>> /\ agents' \subseteq agents
    BY <1>10, <1>a DEF DropFlag, DropAgents, GoTo, CloseTypeInv, PlacesOK, HandlerState
  <2>2. agents = {} /\ Quiet
    BY <1>b, <2>1 DEF AllSettled, GateInv
  <2> QED
    BY <2>1, <2>2 DEF GateInv, Quiet, Awaits, Left
<1>11. ASSUME NEW i \in Instance, EndContact(i) \/ SendReroute(i) \/ UndoMarker(i) PROVE GateInv'
  <2>1. /\ \A j \in Instance : handler'[j] # handler[j] => handler'[j].at = "none"
        /\ UNCHANGED <<routed, joining, flag, agents, console, events>>
    BY <1>11 DEF EndContact, SendReroute, UndoMarker, Finish, NoTask, CloseTypeInv, PlacesOK
  <2> QED
    BY <2>1 DEF GateInv, Quiet, AllSettled, Awaits, Left
<1>12. ASSUME NEW i \in Instance, NEW why \in Reason, NEW keep \in BOOLEAN,
              LifecycleEnd(<<i, why>>, keep)
       PROVE  GateInv'
  BY <1>0, <1>12 DEF LifecycleEnd
<1>13. ASSUME NEW i \in Instance, Unregister(i) \/ Login(i) \/ Reaper(i) PROVE GateInv'
  BY <1>0, <1>13 DEF Unregister, Login, Reaper
<1>14. CASE RerouteDiscarded
  BY <1>0, <1>14 DEF RerouteDiscarded
<1> QED
  BY <1>1, <1>2, <1>3, <1>4, <1>5, <1>6, <1>7, <1>8, <1>9, <1>10, <1>11, <1>12, <1>13, <1>14
  DEF CloseNext, Task

LEMMA GateInit == CloseInit => GateInv
  BY DEF CloseInit, GateInv, Quiet, AllSettled, Awaits, NoTask

-----------------------------------------------------------------------------
(* The contact: the marker.                                                *)

\* A marked contact that has agents is one whose marker is about to be deleted: an agent_done
\* is in transit, or its handler has not yet counted the others, or has found some.
MarkInv ==
    /\ Sid \in closed /\ agents # {} => \E i \in Instance :
          (i \in agents /\ <<i, "agent_closed">> \in events) \/ handler[i].at \in {"left", "others"}
    /\ ~Quiet => Sid \notin closed

LEMMA MarkStep ==
  ASSUME Faults \cap {"late_join", "resubmit"} = {}, CloseTypeInv, JoinedInv, GateInv, MarkInv,
         [CloseNext]_allvars, [RejoinSettled]_allvars
  PROVE  MarkInv'
<1> USE SidAssumption DEF Hazard
<1>0. ASSUME UNCHANGED <<closed, routed, joining, agents, events, handler>> PROVE MarkInv'
  BY <1>0 DEF MarkInv, Quiet
<1>a. \A j \in Instance : handler[j] \in HandlerState
  BY DEF CloseTypeInv, PlacesOK
<1>b. ~Quiet => AllSettled
  BY DEF GateInv
<1>c. AllSettled /\ agents # {} => Sid \notin closed
  BY DEF MarkInv, AllSettled
<1>1. CASE UNCHANGED allvars
  BY <1>0, <1>1 DEF allvars
<1>2. ASSUME NEW i \in Instance, FirstRoute(i) \/ Reroute(i) PROVE MarkInv'
  <2>1. Allocate(i, Primary) /\ Sid \notin closed
    BY <1>2 DEF FirstRoute, Reroute, Allocate
  <2> QED
    BY <2>1, AllocateChanges DEF MarkInv
<1>3. ASSUME NEW i \in Instance, NEW c \in Conference, Invite(i, c) PROVE MarkInv'
  <2>1. Allocate(i, c) /\ Sid \notin closed
    BY <1>3, <1>c, StartIsSettled DEF Invite
  <2> QED
    BY <2>1, AllocateChanges DEF MarkInv
<1>4. ASSUME NEW i \in Instance, AgentDone(i) PROVE MarkInv'
  <2>1. i \in agents /\ Quiet
    BY <1>4 DEF AgentDone, GateInv
  <2>2. <<i, "agent_closed">> \in events' /\ UNCHANGED <<routed, joining, agents>>
    BY <1>4 DEF AgentDone
  <2> QED
    BY <2>1, <2>2 DEF MarkInv, Quiet
<1>5. ASSUME NEW i \in Instance, Drop(i) PROVE MarkInv'
  BY <1>5 DEF Drop, MarkInv, Quiet, svars
<1>6. ASSUME NEW i \in Instance, NEW c \in Conference, Activate(i, c) PROVE MarkInv'
  BY <1>6 DEF Activate, MarkInv, Quiet, svars
<1>7. ASSUME NEW i \in Instance, Activated(i) PROVE MarkInv'
  BY <1>7 DEF Activated, MarkInv, Quiet, svars
<1>8. ASSUME NEW i \in Instance, NEW why \in Reason, CloseIgnored(<<i, why>>) PROVE MarkInv'
  <2>1. Consume(<<i, why>>)
    BY <1>8 DEF CloseIgnored
  <2>2. events \ {<<i, why>>} \subseteq events'
    BY <2>1 DEF Consume
  <2>3. agents # {} => i \notin agents
    BY <1>8 DEF CloseIgnored, GateInv
  <2>4. UNCHANGED <<closed, routed, joining, agents, handler>>
    BY <1>8 DEF CloseIgnored, svars
  <2> QED
    BY <2>2, <2>3, <2>4 DEF MarkInv, Quiet
<1>9. ASSUME NEW i \in Instance, NEW why \in Reason, CloseGate(<<i, why>>) PROVE MarkInv'
  <2>1. handler'[i].at = "left" /\ UNCHANGED <<closed, routed, joining>>
    BY <1>9 DEF CloseGate, CloseTypeInv, PlacesOK, svars
  <2> QED
    BY <2>1 DEF MarkInv, Quiet
<1>10. ASSUME NEW i \in Instance, CountOthers(i) PROVE MarkInv'
  <2>1. UNCHANGED <<closed, routed, joining, agents>>
    BY <1>10 DEF CountOthers, svars
  <2>2. agents # {} => handler'[i].at = "others"
    BY <1>10, <1>a DEF CountOthers, GoTo, CloseTypeInv, PlacesOK, HandlerState
  <2> QED
    BY <2>1, <2>2 DEF MarkInv, Quiet
<1>11. ASSUME NEW i \in Instance, DropFlag(i) \/ DropAgents(i) \/ EndContact(i) \/ SendReroute(i)
       PROVE  MarkInv'
  <2>1. handler[i].at \in {"last", "unflagged", "ending"}
    BY <1>11 DEF DropFlag, DropAgents, EndContact, SendReroute
  <2>2. agents = {} /\ Quiet
    BY <1>b, <2>1 DEF GateInv, AllSettled
  <2>3. agents' = {} /\ UNCHANGED <<routed, joining>>
    BY <1>11, <2>2 DEF DropFlag, DropAgents, EndContact, SendReroute
  <2> QED
    BY <2>2, <2>3 DEF MarkInv, Quiet
<1>12. ASSUME NEW i \in Instance, UndoMarker(i) PROVE MarkInv'
  BY <1>12 DEF UndoMarker, MarkInv
<1>13. ASSUME NEW i \in Instance, NEW why \in Reason, NEW keep \in BOOLEAN,
              LifecycleEnd(<<i, why>>, keep)
       PROVE  MarkInv'
  BY <1>0, <1>13 DEF LifecycleEnd, Swap, Release, svars
<1>14. ASSUME NEW i \in Instance, Unregister(i) \/ Login(i) PROVE MarkInv'
  BY <1>0, <1>14 DEF Unregister, Login, svars
<1>15. ASSUME NEW i \in Instance, Reaper(i) PROVE MarkInv'
  BY <1>0, <1>15 DEF Reaper, ReapScan, ReapLookup, ReapRemove
<1>16. CASE RerouteDiscarded
  BY <1>0, <1>16 DEF RerouteDiscarded, svars
<1> QED
  BY <1>1, <1>2, <1>3, <1>4, <1>5, <1>6, <1>7, <1>8, <1>9, <1>10, <1>11, <1>12, <1>13, <1>14, <1>15, <1>16
  DEF CloseNext, Task

LEMMA MarkInit == CloseInit => MarkInv
  BY DEF CloseInit, MarkInv, Quiet

LEMMA MarkImplies == MarkInv => MarkedOnlyWhenOver
  BY DEF MarkInv, MarkedOnlyWhenOver, Settled

LEMMA MarkerSettles ==
  ASSUME Faults \cap {"late_join", "resubmit"} = {}
  PROVE  CloseSpec /\ [][RejoinSettled]_allvars => []MarkedOnlyWhenOver
<1>1. CloseTypeInv /\ JoinedInv /\ [CloseNext]_allvars => JoinedInv'
  BY JoinedStep
<1>2. CloseTypeInv /\ JoinedInv /\ GateInv /\ [CloseNext]_allvars /\ [RejoinSettled]_allvars => GateInv'
  BY GateStep
<1>3. CloseTypeInv /\ JoinedInv /\ GateInv /\ MarkInv /\ [CloseNext]_allvars
         /\ [RejoinSettled]_allvars => MarkInv'
  BY MarkStep
<1> QED
  BY <1>1, <1>2, <1>3, CloseTypeInit, CloseTypeStep, JoinedInit, GateInit, MarkInit, MarkImplies, PTL
  DEF CloseSpec

\* A contact that still has agents when every message is handled is not marked closed, if
\* nobody joins while somebody leaves, no console submits twice, and the contact is routed
\* again only after the bridge has finished with all who left it.
THEOREM MarkerIsUndone ==
  ASSUME Faults \cap {"late_join", "resubmit", "early_rejoin"} = {}
  PROVE  CloseSpec => []MarkedOnlyWhenOver
<1>1. [RejoinSettled]_allvars
  BY RejoinIsSettled
<1>2. CloseSpec /\ [][RejoinSettled]_allvars => []MarkedOnlyWhenOver
  BY MarkerSettles
<1> QED
  BY <1>1, <1>2, PTL

-----------------------------------------------------------------------------
(* The contact: without drops.                                             *)

\* Without drops no contact is routed again.
DoneInv ==
    /\ reroutes = 0
    /\ \A i \in Instance : <<i, "agent_disconnect">> \notin events /\ handler[i].why = "agent_closed"

LEMMA DoneStep ==
  ASSUME "drop" \notin Faults, CloseTypeInv, DoneInv, [CloseNext]_allvars
  PROVE  DoneInv' /\ [RejoinSettled]_allvars
<1> USE SidAssumption DEF Hazard
<1>0. \A j \in Instance : ~Reroute(j) /\ ~Drop(j) /\ ~SendReroute(j)
  <2> TAKE j \in Instance
  <2>1. reroutes = 0 /\ handler[j].why = "agent_closed"
    BY DEF DoneInv
  <2>2. ~Reroute(j)
    BY <2>1 DEF Reroute
  <2>3. ~Drop(j)
    BY DEF Drop, Trouble
  <2>4. ~SendReroute(j)
    BY <2>1 DEF SendReroute
  <2> QED
    BY <2>2, <2>3, <2>4
<1>1. [RejoinSettled]_allvars
  BY <1>0 DEF RejoinSettled
<1>2. ASSUME UNCHANGED <<reroutes, events, handler>> PROVE DoneInv'
  BY <1>2 DEF DoneInv
<1>3. CASE UNCHANGED allvars
  BY <1>2, <1>3 DEF allvars
<1>4. ASSUME NEW i \in Instance, FirstRoute(i) PROVE DoneInv'
  BY <1>2, <1>4 DEF FirstRoute, Allocate
<1>5. ASSUME NEW i \in Instance, NEW c \in Conference, Invite(i, c) PROVE DoneInv'
  BY <1>2, <1>5 DEF Invite, Allocate
<1>6. ASSUME NEW i \in Instance, AgentDone(i) PROVE DoneInv'
  BY <1>6 DEF AgentDone, DoneInv
<1>7. ASSUME NEW i \in Instance, NEW c \in Conference, Activate(i, c) PROVE DoneInv'
  BY <1>2, <1>7 DEF Activate
<1>8. ASSUME NEW i \in Instance, Activated(i) \/ Unregister(i) \/ Login(i) \/ Reaper(i) PROVE DoneInv'
  BY <1>2, <1>8 DEF Activated, Unregister, Login, Reaper
<1>9. ASSUME NEW i \in Instance, NEW why \in Reason,
             CloseIgnored(<<i, why>>) \/ CloseGate(<<i, why>>)
      PROVE  DoneInv'
  <2>1. Consume(<<i, why>>) /\ <<i, why>> \in events /\ reroutes' = reroutes
    BY <1>9 DEF CloseIgnored, CloseGate
  <2>2. events' \subseteq events /\ why = "agent_closed"
    BY <2>1, ConsumePlaces DEF CloseTypeInv, DoneInv, Reason
  <2>3. \A j \in Instance : handler'[j].why = "agent_closed"
    <3>1. handler' = handler \/ handler' = [handler EXCEPT ![i] = [at |-> "left", why |-> why]]
      BY <1>9 DEF CloseIgnored, CloseGate
    <3>2. handler \in [Instance -> HandlerState]
      BY DEF CloseTypeInv, PlacesOK
    <3>3. \A j \in Instance : handler[j].why = "agent_closed"
      BY DEF DoneInv
    <3>4. CASE handler' = handler
      BY <3>3, <3>4
    <3>5. CASE handler' = [handler EXCEPT ![i] = [at |-> "left", why |-> why]]
      <4>1. handler'[i] = [at |-> "left", why |-> why]
        BY <3>2, <3>5
      <4>2. \A j \in Instance \ {i} : handler'[j] = handler[j]
        BY <3>2, <3>5
      <4> QED
        BY <2>2, <3>3, <4>1, <4>2
    <3> QED
      BY <3>1, <3>4, <3>5
  <2> QED
    BY <2>1, <2>2, <2>3 DEF DoneInv
<1>10. ASSUME NEW i \in Instance, CountOthers(i) \/ DropFlag(i) \/ DropAgents(i) PROVE DoneInv'
  <2>1. handler[i] \in HandlerState
    BY DEF CloseTypeInv, PlacesOK
  <2>2. \A j \in Instance : handler'[j].why = handler[j].why
    BY <1>10, <2>1 DEF CountOthers, DropFlag, DropAgents, GoTo, CloseTypeInv, PlacesOK, HandlerState
  <2> QED
    BY <1>10, <2>2 DEF CountOthers, DropFlag, DropAgents, DoneInv
<1>11. ASSUME NEW i \in Instance, EndContact(i) \/ UndoMarker(i) PROVE DoneInv'
  BY <1>11 DEF EndContact, UndoMarker, Finish, NoTask, DoneInv, CloseTypeInv, PlacesOK
<1>12. ASSUME NEW i \in Instance, NEW why \in Reason, NEW keep \in BOOLEAN,
              LifecycleEnd(<<i, why>>, keep)
       PROVE  DoneInv'
  BY <1>2, <1>12 DEF LifecycleEnd
<1>13. ~RerouteDiscarded
  BY DEF RerouteDiscarded, DoneInv
<1> QED
  BY <1>0, <1>1, <1>3, <1>4, <1>5, <1>6, <1>7, <1>8, <1>9, <1>10, <1>11, <1>12, <1>13
  DEF CloseNext, Task

LEMMA DoneInit == CloseInit => DoneInv
  BY DEF CloseInit, DoneInv, NoTask

\* Without drops the marker is right with no hypothesis on the order of messages.
THEOREM MarkerIsUndoneWithoutDrops ==
  ASSUME Faults \cap {"late_join", "resubmit", "drop"} = {}
  PROVE  CloseSpec => []MarkedOnlyWhenOver
<1>1. CloseTypeInv /\ DoneInv /\ [CloseNext]_allvars => DoneInv' /\ [RejoinSettled]_allvars
  BY DoneStep
<1>2. Faults \cap {"late_join", "resubmit"} = {}
  OBVIOUS
<1>3. CloseSpec /\ [][RejoinSettled]_allvars => []MarkedOnlyWhenOver
  BY <1>2, MarkerSettles
<1> QED
  BY <1>1, <1>3, CloseTypeInit, CloseTypeStep, DoneInit, PTL DEF CloseSpec

\* The contact whose end was decided is empty, and stays so.
EndInv == ended =>
    agents = {} /\ Quiet /\ \E i \in Instance : console[i].joins > 0

LEMMA EndStep ==
  ASSUME "late_join" \notin Faults, "drop" \notin Faults,
         CloseTypeInv, JoinedInv, GateInv, DoneInv, EndInv, [CloseNext]_allvars
  PROVE  EndInv'
<1> USE SidAssumption
<1>0. ASSUME UNCHANGED <<ended, agents, routed, joining>>,
             \A j \in Instance : console'[j].joins = console[j].joins
      PROVE  EndInv'
  BY <1>0 DEF EndInv, Quiet
<1>a. \A j \in Instance : console[j] \in ConsoleState
  BY DEF CloseTypeInv, PlacesOK
<1>1. CASE UNCHANGED allvars
  BY <1>0, <1>1 DEF allvars
<1>2. ASSUME NEW i \in Instance, FirstRoute(i) \/ Reroute(i) PROVE EndInv'
  <2>1. ~Reroute(i)
    BY DEF Reroute, DoneInv
  <2>2. FirstRoute(i)
    BY <1>2, <2>1
  <2>3. \A j \in Instance : ~(console[j].joins > 0)
    BY <2>2 DEF FirstRoute
  <2>4. ~ended
    BY <2>3 DEF EndInv
  <2>5. ended' = ended
    BY <2>2 DEF FirstRoute, Allocate
  <2> QED
    BY <2>4, <2>5 DEF EndInv
<1>3. ASSUME NEW i \in Instance, NEW c \in Conference, Invite(i, c) PROVE EndInv'
  BY <1>3 DEF Invite, Allocate, EndInv
<1>4. ASSUME NEW i \in Instance, AgentDone(i) \/ Drop(i) PROVE EndInv'
  BY <1>0, <1>4, <1>a DEF AgentDone, Drop, ConsoleState, CloseTypeInv, PlacesOK
<1>5. ASSUME NEW i \in Instance, NEW c \in Conference, Activate(i, c) PROVE EndInv'
  BY <1>5 DEF Activate, EndInv, Quiet
<1>6. ASSUME NEW i \in Instance, Activated(i) PROVE EndInv'
  BY <1>6 DEF Activated, EndInv, Quiet
<1>7. ASSUME NEW i \in Instance, NEW why \in Reason,
             CloseIgnored(<<i, why>>) \/ CloseGate(<<i, why>>)
      PROVE  EndInv'
  <2>1. agents' \subseteq agents /\ UNCHANGED <<ended, routed, joining, console>>
    BY <1>7 DEF CloseIgnored, CloseGate
  <2> QED
    BY <2>1 DEF EndInv, Quiet
<1>8. ASSUME NEW i \in Instance, EndContact(i) PROVE EndInv'
  <2>1. handler[i].at = "ending" /\ UNCHANGED <<agents, routed, joining, console>>
    BY <1>8 DEF EndContact
  <2>2. agents = {} /\ Quiet /\ Left(i)
    BY <2>1 DEF GateInv, AllSettled
  <2>3. console[i].joins > 0
    BY <2>2 DEF JoinedInv, Here
  <2> QED
    BY <2>1, <2>2, <2>3 DEF EndInv, Quiet
<1>9. ASSUME NEW i \in Instance, CountOthers(i) \/ DropFlag(i) \/ DropAgents(i) \/ SendReroute(i)
                                   \/ UndoMarker(i) \/ Unregister(i) \/ Login(i) \/ Reaper(i)
      PROVE  EndInv'
  <2>1. agents' \subseteq agents /\ UNCHANGED <<ended, routed, joining, console>>
    BY <1>9 DEF CountOthers, DropFlag, DropAgents, SendReroute, UndoMarker, Unregister, Login, Reaper
  <2> QED
    BY <2>1 DEF EndInv, Quiet
<1>10. ASSUME NEW i \in Instance, NEW why \in Reason, NEW keep \in BOOLEAN,
              LifecycleEnd(<<i, why>>, keep)
       PROVE  EndInv'
  BY <1>0, <1>10 DEF LifecycleEnd
<1>11. CASE RerouteDiscarded
  BY <1>0, <1>11 DEF RerouteDiscarded
<1> QED
  BY <1>1, <1>2, <1>3, <1>4, <1>5, <1>6, <1>7, <1>8, <1>9, <1>10, <1>11 DEF CloseNext, Task

LEMMA EndImplies == EndInv /\ GateInv => EndedOnlyWhenEmpty
  BY DEF EndInv, GateInv, EndedOnlyWhenEmpty, Quiet

\* The bridge decides the end of the contact when nobody is in it, nobody is about to get it,
\* and no console shows it; and nobody gets it after that, redelivered and repeated
\* agent_done events, logouts and reaps included.
THEOREM EndIsRight ==
  ASSUME Faults \cap {"late_join", "drop"} = {}
  PROVE  CloseSpec => []EndedOnlyWhenEmpty
<1>0. "late_join" \notin Faults /\ "drop" \notin Faults
  OBVIOUS
<1>1. CloseTypeInv /\ JoinedInv /\ [CloseNext]_allvars => JoinedInv'
  BY JoinedStep
<1>2. CloseTypeInv /\ DoneInv /\ [CloseNext]_allvars => DoneInv' /\ [RejoinSettled]_allvars
  BY <1>0, DoneStep
<1>3. CloseTypeInv /\ JoinedInv /\ GateInv /\ [CloseNext]_allvars /\ [RejoinSettled]_allvars => GateInv'
  BY <1>0, GateStep
<1>4. CloseTypeInv /\ JoinedInv /\ GateInv /\ DoneInv /\ EndInv /\ [CloseNext]_allvars => EndInv'
  BY <1>0, EndStep
<1>5. CloseInit => EndInv
  BY DEF CloseInit, EndInv
<1> QED
  BY <1>1, <1>2, <1>3, <1>4, <1>5, CloseTypeInit, CloseTypeStep, JoinedInit, GateInit, DoneInit,
     EndImplies, PTL
  DEF CloseSpec

-----------------------------------------------------------------------------
(* The contact: no slot is left behind.                                    *)

\* A slot belongs to somebody who is in the contact, is on the way in, or left and the routing
\* engine has yet to hear of it.  The first routing is alone in the contact.
LeakInv ==
    /\ \A i \in Instance : SlotsOf(slots[i], Sid) # {} => i \in agents \/ AtDoor(i) \/ Owed(i)
    /\ \A i \in Instance : <<i, Primary>> \in routed =>
          ~flag /\ agents = {} /\ joining = {} /\ routed = {<<i, Primary>>}
    /\ record = Instance

\* A release and a swap leave no slot of the session.
LEMMA EndLeavesNoSlot ==
  ASSUME CloseTypeInv, NEW i \in Instance, Release(i, Sid) \/ Swap(i, Sid, now)
  PROVE  SlotsOf(slots'[i], Sid) = {} /\ \A j \in Instance \ {i} : slots'[j] = slots[j]
<1>1. slots \in [Instance -> SUBSET Member]
  BY DEF CloseTypeInv, TypeOK
<1>2. ASSUME Release(i, Sid) PROVE SlotsOf(slots'[i], Sid) = {}
  BY <1>1, <1>2 DEF Release, Released, SlotsOf
<1>3. ASSUME Swap(i, Sid, now) PROVE SlotsOf(slots'[i], Sid) = {}
  <2>1. PICK N \in SwapOutcomes(slots[i], Sid, now + HoldTtl) : slots' = [slots EXCEPT ![i] = N]
    BY <1>3 DEF Swap
  <2>2. SlotsOf(N, Sid) = {}
    BY <2>1 DEF SwapOutcomes, Released, SlotsOf, Held, IsOccupant
  <2> QED
    BY <1>1, <2>1, <2>2
<1> QED
  BY <1>1, <1>2, <1>3 DEF Release, Swap

LEMMA LeakStep ==
  ASSUME Faults \cap {"late_join", "drop", "unregister"} = {},
         CloseTypeInv, JoinedInv, GateInv, DoneInv, LeakInv, [CloseNext]_allvars
  PROVE  LeakInv'
<1> USE SidAssumption DEF Hazard
<1>0. ASSUME UNCHANGED <<slots, routed, joining, lifecycle, record>>, agents' = agents, flag' => flag
      PROVE  LeakInv'
  BY <1>0 DEF LeakInv, AtDoor, Owed
<1>1. CASE UNCHANGED allvars
  BY <1>0, <1>1 DEF allvars
<1>2. ASSUME NEW i \in Instance, FirstRoute(i) PROVE LeakInv'
  <2>1. Allocate(i, Primary) /\ Quiet /\ ~flag /\ agents = {}
    BY <1>2, StartIsSettled DEF FirstRoute
  <2>2. routed' = {<<i, Primary>>} /\ UNCHANGED <<joining, flag, agents, lifecycle, record>>
        /\ \A j \in Instance \ {i} : slots'[j] = slots[j]
    BY <2>1, AllocateChanges DEF Quiet
  <2>3. AtDoor(i)'
    BY <2>2 DEF AtDoor
  <2> QED
    BY <2>1, <2>2, <2>3 DEF LeakInv, AtDoor, Owed, Quiet
<1>3. ASSUME NEW i \in Instance, NEW c \in Conference, Invite(i, c) PROVE LeakInv'
  <2>1. Allocate(i, c) /\ c # Primary /\ agents # {}
    BY <1>3 DEF Invite
  <2>2. routed' = routed \cup {<<i, c>>} /\ UNCHANGED <<joining, flag, agents, lifecycle, record>>
        /\ \A j \in Instance \ {i} : slots'[j] = slots[j]
    BY <2>1, AllocateChanges
  <2>3. AtDoor(i)' /\ \A j \in Instance : AtDoor(j) => AtDoor(j)'
    BY <2>2 DEF AtDoor
  <2>4. \A j \in Instance : <<j, Primary>> \notin routed'
    BY <2>1, <2>2 DEF LeakInv
  <2> QED
    BY <2>1, <2>2, <2>3, <2>4 DEF LeakInv, Owed
<1>4. ASSUME NEW i \in Instance, AgentDone(i) PROVE LeakInv'
  BY <1>0, <1>4 DEF AgentDone
<1>5. ASSUME NEW i \in Instance, Drop(i) \/ Reroute(i) \/ SendReroute(i) \/ Unregister(i) PROVE FALSE
  <2>1. reroutes = 0 /\ handler[i].why = "agent_closed"
    BY DEF DoneInv
  <2>2. ~Reroute(i)
    BY <2>1 DEF Reroute
  <2>3. ~SendReroute(i)
    BY <2>1 DEF SendReroute
  <2>4. ~Drop(i) /\ ~Unregister(i)
    BY DEF Drop, Unregister, Trouble
  <2> QED
    BY <1>5, <2>2, <2>3, <2>4
<1>6. ASSUME NEW i \in Instance, NEW c \in Conference, Activate(i, c) PROVE LeakInv'
  <2>1. <<i, c>> \in routed /\ routed' = routed \ {<<i, c>>}
        /\ UNCHANGED <<slots, agents, lifecycle, record>>
    BY <1>6 DEF Activate, svars
  <2>2. ~(c = Primary /\ flag)
    BY <2>1 DEF LeakInv
  <2>3. joining' = joining \cup {i}
    BY <1>6, <2>2 DEF Activate
  <2>4. \A j \in Instance : AtDoor(j) => AtDoor(j)'
    BY <2>1, <2>3 DEF AtDoor
  <2>5. \A j \in Instance : <<j, Primary>> \notin routed'
    BY <2>1 DEF LeakInv
  <2> QED
    BY <2>1, <2>4, <2>5 DEF LeakInv, Owed
<1>7. ASSUME NEW i \in Instance, Activated(i) PROVE LeakInv'
  <2>1. i \in joining /\ joining' = joining \ {i} /\ agents' = agents \cup {i}
        /\ UNCHANGED <<slots, routed, lifecycle, record>>
    BY <1>7 DEF Activated, svars
  <2>2. \A j \in Instance : AtDoor(j) => AtDoor(j)' \/ j \in agents'
    BY <2>1 DEF AtDoor
  <2>3. \A j \in Instance : <<j, Primary>> \notin routed'
    BY <2>1 DEF LeakInv
  <2> QED
    BY <2>1, <2>2, <2>3 DEF LeakInv, Owed
<1>8. ASSUME NEW i \in Instance, NEW why \in Reason, CloseIgnored(<<i, why>>) PROVE LeakInv'
  BY <1>0, <1>8 DEF CloseIgnored, svars
<1>9. ASSUME NEW i \in Instance, NEW why \in Reason, CloseGate(<<i, why>>) PROVE LeakInv'
  <2>1. UNCHANGED <<slots, routed, joining, flag, record>> /\ agents' = agents \ {i}
        /\ lifecycle' = lifecycle \cup {<<i, why>>} /\ i \in agents
    BY <1>9 DEF CloseGate, svars
  <2>2. Owed(i)' /\ \A j \in Instance : Owed(j) => Owed(j)'
    BY <2>1 DEF Owed
  <2> QED
    BY <2>1, <2>2 DEF LeakInv, AtDoor
<1>10. ASSUME NEW i \in Instance, CountOthers(i) \/ UndoMarker(i) \/ EndContact(i) PROVE LeakInv'
  BY <1>0, <1>10 DEF CountOthers, UndoMarker, EndContact, svars
<1>11. ASSUME NEW i \in Instance, DropFlag(i) \/ DropAgents(i) PROVE LeakInv'
  <2>1. agents = {}
    BY <1>11 DEF DropFlag, DropAgents, GateInv
  <2>2. UNCHANGED <<slots, routed, joining, lifecycle, record>> /\ agents' = agents /\ (flag' => flag)
    BY <1>11, <2>1 DEF DropFlag, DropAgents, svars
  <2> QED
    BY <1>0, <2>2
<1>12. ASSUME NEW i \in Instance, NEW why \in Reason, NEW keep \in BOOLEAN,
              LifecycleEnd(<<i, why>>, keep)
       PROVE  LeakInv'
  <2>1. UNCHANGED <<routed, joining, flag, agents, record>> /\ lifecycle' = lifecycle \ {<<i, why>>}
    BY <1>12 DEF LifecycleEnd
  <2>2. Release(i, Sid) \/ Swap(i, Sid, now)
    BY <1>12 DEF LifecycleEnd, LeakInv
  <2>3. SlotsOf(slots'[i], Sid) = {} /\ \A j \in Instance \ {i} : slots'[j] = slots[j]
    BY <2>2, EndLeavesNoSlot
  <2>4. \A j \in Instance \ {i} : Owed(j) => Owed(j)'
    BY <2>1 DEF Owed
  <2> QED
    BY <2>1, <2>3, <2>4 DEF LeakInv, AtDoor
<1>13. ASSUME NEW i \in Instance, Login(i) PROVE LeakInv'
  BY <1>13 DEF Login, LeakInv
<1>14. ASSUME NEW i \in Instance, Reaper(i) PROVE LeakInv'
  <2>1. UNCHANGED <<routed, joining, flag, agents, record, lifecycle>>
    BY <1>14 DEF Reaper
  <2>2. \A j \in Instance : slots'[j] \subseteq slots[j]
    BY <1>14 DEF Reaper, ReapScan, ReapLookup, ReapRemove, CloseTypeInv, TypeOK
  <2>3. \A j \in Instance : SlotsOf(slots'[j], Sid) \subseteq SlotsOf(slots[j], Sid)
    BY <2>2 DEF SlotsOf
  <2> QED
    BY <2>1, <2>3 DEF LeakInv, AtDoor, Owed
<1>15. CASE RerouteDiscarded
  BY <1>0, <1>15 DEF RerouteDiscarded, svars
<1> QED
  BY <1>1, <1>2, <1>3, <1>4, <1>5, <1>6, <1>7, <1>8, <1>9, <1>10, <1>11, <1>12, <1>13, <1>14, <1>15
  DEF CloseNext, Task

LEMMA LeakInit == CloseInit => LeakInv
  BY DEF CloseInit, LeakInv, Init, SlotsOf

LEMMA LeakImplies == LeakInv => NoSlotLeaks
  BY DEF LeakInv, NoSlotLeaks, Settled, Quiet, AtDoor, Owed

\* Whoever has left the contact holds no slot of it when every message is handled, repeated
\* and redelivered agent_done events and reaps included, if records are not deleted
\* and nobody drops, or joins while somebody leaves.
THEOREM SlotsComeBack ==
  ASSUME Faults \cap {"late_join", "drop", "unregister"} = {}
  PROVE  CloseSpec => []NoSlotLeaks
<1>0. "late_join" \notin Faults /\ "drop" \notin Faults
  OBVIOUS
<1>1. CloseTypeInv /\ JoinedInv /\ [CloseNext]_allvars => JoinedInv'
  BY JoinedStep
<1>2. CloseTypeInv /\ DoneInv /\ [CloseNext]_allvars => DoneInv' /\ [RejoinSettled]_allvars
  BY <1>0, DoneStep
<1>3. CloseTypeInv /\ JoinedInv /\ GateInv /\ [CloseNext]_allvars /\ [RejoinSettled]_allvars => GateInv'
  BY <1>0, GateStep
<1>4. CloseTypeInv /\ JoinedInv /\ GateInv /\ DoneInv /\ LeakInv /\ [CloseNext]_allvars => LeakInv'
  BY LeakStep
<1> QED
  BY <1>1, <1>2, <1>3, <1>4, CloseTypeInit, CloseTypeStep, JoinedInit, GateInit, DoneInit, LeakInit,
     LeakImplies, PTL
  DEF CloseSpec

-----------------------------------------------------------------------------
(* The contact: the flag.                                                  *)

\* A handler that puts the flag out is right about being the last: without late joins, and if
\* the contact is routed again only when all is settled, nobody enters between its count of
\* the agents and the two deletions that follow.
THEOREM FlagIsKept ==
  ASSUME Faults \cap {"late_join", "early_rejoin"} = {}
  PROVE  CloseSpec => FlagOutlivesAgents
<1> DEFINE Kept == flag /\ ~flag' => agents = {}
<1>1. CloseTypeInv /\ JoinedInv /\ [CloseNext]_allvars => JoinedInv'
  BY JoinedStep
<1>2. CloseTypeInv /\ JoinedInv /\ GateInv /\ [CloseNext]_allvars => GateInv'
  BY RejoinIsSettled, GateStep
<1>3. GateInv /\ [CloseNext]_allvars => Kept
  <2> SUFFICES ASSUME GateInv, [CloseNext]_allvars, flag, ~flag' PROVE agents = {}
    OBVIOUS
  <2>1. ~RerouteDiscarded /\ \A i \in Instance : ~FirstRoute(i) /\ ~Reroute(i)
    BY DEF FirstRoute, Reroute, RerouteDiscarded, Allocate
  <2>2. \A i \in Instance, c \in Conference : ~Invite(i, c) /\ ~Activate(i, c)
    BY DEF Invite, Allocate, Activate
  <2>3. \A i \in Instance, why \in Reason : ~CloseIgnored(<<i, why>>) /\ ~CloseGate(<<i, why>>)
    BY DEF CloseIgnored, CloseGate
  <2>4. \A i \in Instance, why \in Reason, keep \in BOOLEAN : ~LifecycleEnd(<<i, why>>, keep)
    BY DEF LifecycleEnd
  <2>5. \A i \in Instance : ~AgentDone(i) /\ ~Drop(i) /\ ~Unregister(i) /\ ~Login(i) /\ ~Activated(i)
    BY DEF AgentDone, Drop, Unregister, Login, Activated
  <2>6. \A i \in Instance : ~CountOthers(i) /\ ~DropAgents(i) /\ ~EndContact(i) /\ ~SendReroute(i)
                             /\ ~UndoMarker(i) /\ ~Reaper(i)
    BY DEF CountOthers, DropAgents, EndContact, SendReroute, UndoMarker, Reaper
  <2>7. CloseNext
    BY DEF allvars
  <2>8. PICK i \in Instance : DropFlag(i)
    BY <2>1, <2>2, <2>3, <2>4, <2>5, <2>6, <2>7 DEF CloseNext, Task
  <2> QED
    BY <2>8 DEF DropFlag, GateInv
<1> QED
  BY <1>1, <1>2, <1>3, CloseTypeInit, CloseTypeStep, JoinedInit, GateInit, PTL
  DEF CloseSpec, FlagOutlivesAgents

-----------------------------------------------------------------------------
(* The mirror of the occupancy.                                            *)

\* What the proof needs of the types of the mirror.
MirrorTypes ==
    /\ mirror \in [Instance -> Nat]
    /\ pending \in [Worker -> [i : Instance, n : Nat] \cup {NoSync}]
    /\ astray \subseteq Instance

\* The worker has the occupancy of the instance yet to mirror.
Debt(w, i) == pending[w] # NoSync /\ pending[w].i = i

\* As long as nothing went astray for an instance, one worker at most owes its mirror an
\* update, which is the occupancy of now; and if none does, the mirror is exact.
ExactOf(i) ==
    /\ \A v, w \in Worker : Debt(v, i) /\ Debt(w, i) => v = w
    /\ \A w \in Worker : Debt(w, i) => pending[w].n = Occupancy(i)
    /\ AtRest(i) => mirror[i] = Occupancy(i)

MirrorInv == TypeOK /\ Capacity /\ MirrorTypes /\ \A i \in Instance \ astray : ExactOf(i)

\* A refused claim sweeps nothing: if a hold had expired there would have been room.
LEMMA RefusedSweepsNothing ==
  ASSUME NEW M, IsFiniteSet(M), NEW max \in Nat, Cardinality(M) <= max,
         NEW s, NEW c, NEW p, NEW inherits, NEW t,
         ClaimOutcomes(M, s, c, p, inherits, t, max) = {}
  PROVE  Sweep(M, t) = M
<1>1. Slots(M, s, c) = {}
  BY DEF ClaimOutcomes, Retagged
<1>2. ~(inherits /\ LiveHolds(M, t) # {})
  BY <1>1 DEF ClaimOutcomes, Inherited
<1>3. Granted(M, s, c, p, t, max) = {}
  BY <1>1, <1>2 DEF ClaimOutcomes
<1>4. ~(Cardinality(Sweep(M, t)) < max)
  BY <1>3 DEF Granted
<1>5. Sweep(M, t) \in SUBSET M
  BY DEF Sweep
<1>6. IsFiniteSet(Sweep(M, t)) /\ Cardinality(Sweep(M, t)) <= Cardinality(M)
      /\ (Cardinality(M) = Cardinality(Sweep(M, t)) => M = Sweep(M, t))
  BY <1>5, FS_Subset
<1>7. Cardinality(M) \in Nat /\ Cardinality(Sweep(M, t)) \in Nat
  BY <1>6, FS_CardinalityType
<1> QED
  BY <1>4, <1>6, <1>7

\* The steps of the mirror's processes are steps of the semaphore.
LEMMA OccupancyIsSemaphore ==
  ASSUME [OccupancyNext]_mirrorvars
  PROVE  [Next]_vars
<1>1. ASSUME NEW w \in Worker, NEW i \in Instance, NEW s \in Session, NEW c \in Conference,
             NEW p \in Pool, NEW inherits \in BOOLEAN, NEW t \in 0..now,
             OccupyClaim(w, i, s, c, p, inherits, t)
      PROVE  Next
  BY <1>1 DEF OccupyClaim, Next
<1>2. ASSUME NEW w \in Worker, NEW i \in Instance, NEW s \in Session, OccupyRelease(w, i, s)
      PROVE  Next
  BY <1>2 DEF OccupyRelease, Next
<1>3. ASSUME NEW w \in Worker, NEW i \in Instance, NEW s \in Session, NEW t \in 0..now,
             OccupySwap(w, i, s, t)
      PROVE  Next
  BY <1>3 DEF OccupySwap, Next
<1>4. ASSUME NEW w \in Worker, Sync(w) \/ LoseSync(w) PROVE UNCHANGED vars
  BY <1>4 DEF Sync, LoseSync, vars
<1>5. ASSUME ReconcileRead \/ ReconcileSet PROVE UNCHANGED vars
  BY <1>5 DEF ReconcileRead, ReconcileSet, vars
<1>6. ASSUME NEW i \in Instance, Unmirrored(i) PROVE Next
  BY <1>6 DEF Unmirrored, Next
<1>7. ASSUME Elsewhere PROVE Next
  BY <1>7 DEF Elsewhere, Next
<1> QED
  BY <1>1, <1>2, <1>3, <1>4, <1>5, <1>6, <1>7 DEF OccupancyNext, mirrorvars, vars

\* Worker w enters the semaphore for instance i, and owes the mirror what came of it.
LEMMA EntersExact ==
  ASSUME MirrorInv, Capacity', NEW w \in Worker, NEW i \in Instance,
         Enter(w, i), Owes(w, i), mirror' = mirror,
         \A j \in Instance \ {i} : slots'[j] = slots[j]
  PROVE  MirrorTypes' /\ \A j \in Instance \ astray' : ExactOf(j)'
<1> DEFINE owed == [i |-> i, n |-> Cardinality(slots'[i])]
<1>1. Cardinality(slots'[i]) \in Nat
  BY FS_CardinalityType DEF Capacity
<1>2. owed \in [i : Instance, n : Nat] /\ owed # NoSync /\ owed.i = i /\ owed.n = Occupancy(i)'
  BY <1>1, WorkerAssumption DEF Occupancy
<1>3. /\ pending[w] = NoSync /\ pending'[w] = owed
      /\ \A v \in Worker \ {w} : pending'[v] = pending[v]
      /\ pending' \in [Worker -> [i : Instance, n : Nat] \cup {NoSync}]
  <2>1. pending' = [pending EXCEPT ![w] = owed] /\ pending[w] = NoSync
    BY DEF Enter, Owes
  <2> QED
    BY <1>2, <2>1 DEF MirrorInv, MirrorTypes
<1>4. astray \subseteq astray' /\ astray' \subseteq astray \cup {i}
      /\ ((\E v \in Worker : Debt(v, i)) => i \in astray')
  BY DEF Enter, Debt
<1> HIDE DEF owed
<1>5. MirrorTypes'
  BY <1>3, <1>4 DEF MirrorInv, MirrorTypes
<1>6. ASSUME i \notin astray' PROVE ExactOf(i)'
  <2>1. \A v \in Worker : ~Debt(v, i)
    BY <1>4, <1>6
  <2>2. \A v \in Worker : Debt(v, i)' => v = w
    BY <1>3, <2>1 DEF Debt
  <2>3. Debt(w, i)' /\ pending'[w].n = Occupancy(i)'
    BY <1>2, <1>3 DEF Debt
  <2>4. ~AtRest(i)'
    BY <2>3 DEF AtRest, Debt
  <2> QED
    BY <2>2, <2>3, <2>4 DEF ExactOf
<1>7. ASSUME NEW j \in Instance \ {i}, j \notin astray' PROVE ExactOf(j)'
  <2>1. ExactOf(j)
    BY <1>4, <1>7 DEF MirrorInv
  <2>2. \A v \in Worker : /\ Debt(v, j)' <=> Debt(v, j)
                          /\ Debt(v, j) => pending'[v] = pending[v]
    BY <1>2, <1>3 DEF Debt
  <2>3. Occupancy(j)' = Occupancy(j)
    BY DEF Occupancy
  <2>4. AtRest(j)' <=> AtRest(j)
    BY <2>2 DEF AtRest, Debt
  <2> QED
    BY <2>1, <2>2, <2>3, <2>4 DEF ExactOf
<1> QED
  BY <1>5, <1>6, <1>7

\* Nothing of what the mirror is about has changed.
LEMMA SameExact ==
  ASSUME MirrorInv, UNCHANGED <<mirror, pending>>, astray \subseteq astray', astray' \subseteq Instance,
         \A j \in Instance \ astray' : slots'[j] = slots[j]
  PROVE  MirrorTypes' /\ \A j \in Instance \ astray' : ExactOf(j)'
  BY DEF MirrorInv, MirrorTypes, ExactOf, Debt, AtRest, Occupancy

LEMMA MirrorStep ==
  ASSUME MirrorInv, [OccupancyNext]_mirrorvars
  PROVE  MirrorInv'
<1> DEFINE Goal == MirrorTypes' /\ \A j \in Instance \ astray' : ExactOf(j)'
<1>a. [Next]_vars
  BY OccupancyIsSemaphore
<1>b. TypeOK' /\ Capacity'
  BY <1>a, TypeStep, CapacityStep DEF MirrorInv
<1>c. slots \in [Instance -> SUBSET Member]
  BY DEF MirrorInv, TypeOK
<1> HIDE DEF Goal
<1>0. ASSUME slots' = slots, UNCHANGED <<mirror, pending, astray>> PROVE Goal
  BY <1>0, SameExact DEF Goal, MirrorInv, MirrorTypes
<1>1. ASSUME UNCHANGED mirrorvars PROVE Goal
  BY <1>0, <1>1 DEF mirrorvars
<1>2. ASSUME NEW w \in Worker, NEW i \in Instance, NEW s \in Session, NEW c \in Conference,
             NEW p \in Pool, NEW inherits \in BOOLEAN, NEW t \in 0..now,
             OccupyClaim(w, i, s, c, p, inherits, t)
      PROVE  Goal
  <2> DEFINE outcomes == ClaimOutcomes(slots[i], s, c, p, inherits, t, Max[i])
  <2>1. Enter(w, i) /\ mirror' = mirror
    BY <1>2 DEF OccupyClaim
  <2>2. CASE outcomes # {}
    <3>1. Owes(w, i)
      BY <1>2, <2>2 DEF OccupyClaim
    <3>2. PICK N \in outcomes : slots' = [slots EXCEPT ![i] = N]
      BY <1>2, <2>2 DEF OccupyClaim, Claim
    <3>3. \A j \in Instance \ {i} : slots'[j] = slots[j]
      BY <1>c, <3>2
    <3> QED
      BY <1>b, <2>1, <3>1, <3>3, EntersExact DEF Goal
  <2>3. CASE outcomes = {}
    <3>1. pending' = pending /\ slots' = [slots EXCEPT ![i] = Sweep(slots[i], t)]
      BY <1>2, <2>3 DEF OccupyClaim, Claim
    <3>2. Sweep(slots[i], t) = slots[i]
      BY <2>3, MaxAssumption, RefusedSweepsNothing DEF MirrorInv, Capacity
    <3>3. slots' = slots
      BY <1>c, <3>1, <3>2
    <3>4. astray \subseteq astray' /\ astray' \subseteq Instance
      BY <2>1 DEF Enter, MirrorInv, MirrorTypes
    <3> QED
      BY <2>1, <3>1, <3>3, <3>4, SameExact DEF Goal
  <2> QED
    BY <2>2, <2>3
<1>3. ASSUME NEW w \in Worker, NEW i \in Instance, NEW s \in Session, OccupyRelease(w, i, s)
      PROVE  Goal
  <2>1. Enter(w, i) /\ Owes(w, i) /\ mirror' = mirror
    BY <1>3 DEF OccupyRelease
  <2>2. \A j \in Instance \ {i} : slots'[j] = slots[j]
    BY <1>3, <1>c DEF OccupyRelease, Release
  <2> QED
    BY <1>b, <2>1, <2>2, EntersExact DEF Goal
<1>4. ASSUME NEW w \in Worker, NEW i \in Instance, NEW s \in Session, NEW t \in 0..now,
             OccupySwap(w, i, s, t)
      PROVE  Goal
  <2>1. Enter(w, i) /\ Owes(w, i) /\ mirror' = mirror
    BY <1>4 DEF OccupySwap
  <2>2. \A j \in Instance \ {i} : slots'[j] = slots[j]
    BY <1>4, <1>c DEF OccupySwap, Swap
  <2> QED
    BY <1>b, <2>1, <2>2, EntersExact DEF Goal
<1>5. ASSUME NEW w \in Worker, Sync(w) PROVE Goal
  <2> DEFINE k == pending[w].i
  <2>1. pending[w] # NoSync /\ k \in Instance /\ pending[w].n \in Nat
    BY <1>5 DEF Sync, MirrorInv, MirrorTypes
  <2>2. /\ mirror'[k] = pending[w].n /\ \A j \in Instance \ {k} : mirror'[j] = mirror[j]
        /\ pending'[w] = NoSync /\ \A v \in Worker \ {w} : pending'[v] = pending[v]
        /\ UNCHANGED <<slots, astray>>
    BY <1>5, <2>1 DEF Sync, MirrorInv, MirrorTypes
  <2>3. MirrorTypes'
    BY <1>5, <2>1 DEF Sync, MirrorInv, MirrorTypes
  <2>4. ASSUME NEW j \in Instance \ astray PROVE ExactOf(j)'
    <3>1. ExactOf(j) /\ Occupancy(j)' = Occupancy(j)
      BY <2>2 DEF MirrorInv, Occupancy
    <3>2. \A v \in Worker : Debt(v, j)' => Debt(v, j) /\ v # w /\ pending'[v] = pending[v]
      BY <2>2 DEF Debt
    <3>3. CASE j = k
      <4>1. Debt(w, j)
        BY <2>1, <3>3 DEF Debt
      <4>2. mirror'[j] = Occupancy(j)'
        BY <2>2, <3>1, <3>3, <4>1 DEF ExactOf
      <4> QED
        BY <3>1, <3>2, <4>2 DEF ExactOf
    <3>4. CASE j # k
      <4>1. AtRest(j)' => AtRest(j)
        BY <2>2, <3>4 DEF AtRest
      <4>2. mirror'[j] = mirror[j]
        BY <2>2, <3>4
      <4> QED
        BY <3>1, <3>2, <4>1, <4>2 DEF ExactOf
    <3> QED
      BY <3>3, <3>4
  <2> QED
    BY <2>2, <2>3, <2>4 DEF Goal
<1>6. ASSUME NEW w \in Worker, LoseSync(w) PROVE Goal
  <2> DEFINE k == pending[w].i
  <2>1. pending[w] # NoSync /\ k \in Instance
    BY <1>6 DEF LoseSync, MirrorInv, MirrorTypes
  <2>2. /\ UNCHANGED <<slots, mirror>> /\ astray' = astray \cup {k}
        /\ pending'[w] = NoSync /\ \A v \in Worker \ {w} : pending'[v] = pending[v]
    BY <1>6 DEF LoseSync, MirrorInv, MirrorTypes
  <2>3. MirrorTypes'
    BY <1>6, <2>1 DEF LoseSync, MirrorInv, MirrorTypes
  <2>4. ASSUME NEW j \in Instance \ astray' PROVE ExactOf(j)'
    <3>1. ExactOf(j) /\ Occupancy(j)' = Occupancy(j) /\ j # k
      BY <2>2 DEF MirrorInv, Occupancy
    <3>2. \A v \in Worker : Debt(v, j)' => Debt(v, j) /\ pending'[v] = pending[v]
      BY <2>2 DEF Debt
    <3>3. AtRest(j)' => AtRest(j)
      BY <2>2, <3>1 DEF AtRest
    <3> QED
      BY <2>2, <3>1, <3>2, <3>3 DEF ExactOf
  <2> QED
    BY <2>3, <2>4 DEF Goal
<1>7. ASSUME ReconcileRead \/ ReconcileSet PROVE Goal
  BY <1>0, <1>7 DEF ReconcileRead, ReconcileSet
<1>8. ASSUME NEW i \in Instance, Unmirrored(i) PROVE Goal
  <2>1. UNCHANGED <<mirror, pending>> /\ astray \subseteq astray' /\ astray' \subseteq Instance
        /\ (slots'[i] # slots[i] => i \in astray')
    BY <1>8 DEF Unmirrored, MirrorInv, MirrorTypes
  <2>2. \A j \in Instance \ {i} : slots'[j] = slots[j]
    BY <1>8, <1>c DEF Unmirrored, ReapScan, ReapLookup, ReapRemove
  <2> QED
    BY <2>1, <2>2, SameExact DEF Goal
<1>9. ASSUME Elsewhere PROVE Goal
  BY <1>0, <1>9 DEF Elsewhere, Tick, MarkClosed, UndoClosed, ovars
<1>10. Goal
  BY <1>1, <1>2, <1>3, <1>4, <1>5, <1>6, <1>7, <1>8, <1>9 DEF OccupancyNext
<1> QED
  BY <1>b, <1>10 DEF Goal, MirrorInv

LEMMA MirrorInit == OccupancyInit => MirrorInv
<1> SUFFICES ASSUME OccupancyInit PROVE MirrorInv
  OBVIOUS
<1>1. TypeOK /\ Capacity
  BY MaxAssumption, FS_EmptySet DEF OccupancyInit, Init, TypeOK, Idle, Capacity
<1>2. MirrorTypes
  BY DEF OccupancyInit, MirrorTypes
<1>3. \A i \in Instance : ExactOf(i)
  BY FS_EmptySet DEF OccupancyInit, Init, ExactOf, Debt, Occupancy
<1> QED
  BY <1>1, <1>2, <1>3 DEF MirrorInv

LEMMA MirrorImplies == MirrorInv => RestIsExact
  BY DEF MirrorInv, ExactOf, RestIsExact, Drifts

\* The mirror of an instance is exact whenever no worker is between its two scripts, if none
\* of its updates was lost, overtaken or bypassed: grants that swept expired holds, retags,
\* swaps, refused claims and reaps that remove nothing included.
THEOREM MirrorIsExact == OccupancySpec => []RestIsExact
  BY MirrorInit, MirrorStep, MirrorImplies, PTL DEF OccupancySpec

-----------------------------------------------------------------------------
(* The sum of the scores.  A fold over a finite set is a recursive         *)
(* function; what is true of it is proved with the least set that would    *)
(* be an exception.                                                        *)

LEMMA LeastNumber ==
  ASSUME NEW T, T \subseteq Nat, T # {}
  PROVE  \E n \in T : \A m \in T : n <= m
<1>1. \E x \in T : \A y \in T : <<y, x>> \notin OpToRel(<, Nat)
  BY NatLessThanWellFounded, WFMin, Zenon
<1>2. OpToRel(<, Nat) = {ss \in Nat \X Nat : ss[1] < ss[2]}
  BY Zenon DEF OpToRel
<1>3. PICK x \in T : \A y \in T : <<y, x>> \notin {ss \in Nat \X Nat : ss[1] < ss[2]}
  BY <1>1, <1>2, Zenon
<1>4. \A y \in T : ~(y < x)
  BY <1>3
<1> QED
  BY <1>4

LEMMA SubsetsAreFinite ==
  ASSUME NEW D, IsFiniteSet(D), NEW s \in SUBSET D
  PROVE  IsFiniteSet(s) /\ Cardinality(s) \in Nat
         /\ (Cardinality(s) = 0 <=> s = {})
         /\ \A x \in s : Cardinality(s \ {x}) = Cardinality(s) - 1
<1>1. IsFiniteSet(s)
  BY FS_Subset
<1> QED
  BY <1>1, FS_CardinalityType, FS_EmptySet, FS_RemoveElement

\* Among sets that make an exception, one has no smaller one in it.
LEMMA LeastSet ==
  ASSUME NEW D, IsFiniteSet(D), NEW B \in SUBSET SUBSET D, B # {}
  PROVE  \E s \in B : \A x \in s : s \ {x} \notin B
<1> DEFINE T == {Cardinality(s) : s \in B}
<1>1. \A s \in SUBSET D : Cardinality(s) \in Nat /\ \A x \in s : Cardinality(s \ {x}) = Cardinality(s) - 1
  BY SubsetsAreFinite
<1>2. T \subseteq Nat /\ T # {}
  BY <1>1
<1>3. PICK n \in T : \A m \in T : n <= m
  <2> HIDE DEF T
  <2> QED
    BY <1>2, LeastNumber
<1>4. PICK s \in B : n = Cardinality(s)
  BY <1>3
<1>5. ASSUME NEW x \in s, s \ {x} \in B PROVE FALSE
  <2>1. Cardinality(s \ {x}) \in T
    BY <1>5
  <2>2. Cardinality(s) <= Cardinality(s) - 1
    BY <1>1, <1>3, <1>4, <2>1
  <2> QED
    BY <1>1, <1>4, <2>2
<1> QED
  BY <1>5

\* The element that a fold takes out of a set, and what it makes of a set, g being what it
\* makes of smaller ones.
Taken(s) == CHOOSE x \in s : TRUE
Folded(f, g, s) == IF s = {} THEN 0 ELSE f[Taken(s)] + g[s \ {Taken(s)}]
Folds(f, g) == g = [s \in SUBSET DOMAIN f |-> Folded(f, g, s)]

LEMMA TakenIsIn == \A s : s # {} => Taken(s) \in s
  BY DEF Taken

LEMMA FoldedAt ==
  ASSUME NEW f, NEW g, NEW s
  PROVE  /\ s = {} => Folded(f, g, s) = 0
         /\ s # {} => Folded(f, g, s) = f[Taken(s)] + g[s \ {Taken(s)}]
  BY DEF Folded

LEMMA SumIsFold ==
  ASSUME NEW f
  PROVE  FoldFunction(Plus, 0, f) = (CHOOSE g : Folds(f, g))[DOMAIN f]
  BY DEF FoldFunction, FoldFunctionOnSet, MapThenFoldSet, Taken, Folded, Folds, Plus

\* The recursion has a solution.
LEMMA FoldExists ==
  ASSUME NEW D, IsFiniteSet(D), NEW f \in [D -> Int]
  PROVE  \E g : Folds(f, g)
<1> DEFINE Upto(n, g) == \A s \in SUBSET D : Cardinality(s) <= n => g[s] = Folded(f, g, s)
           Solved(n)  == \E g \in [SUBSET D -> Int] : Upto(n, g)
           Unsolved   == {n \in Nat : ~Solved(n)}
<1>1. \A s \in SUBSET D : /\ Cardinality(s) \in Nat /\ (Cardinality(s) = 0 <=> s = {})
                          /\ s # {} => /\ Taken(s) \in D /\ s \ {Taken(s)} \in SUBSET D
                                       /\ Cardinality(s \ {Taken(s)}) = Cardinality(s) - 1
  BY SubsetsAreFinite, TakenIsIn
<1>2. Solved(0)
  <2> DEFINE g == [s \in SUBSET D |-> 0]
  <2>1. g \in [SUBSET D -> Int]
    OBVIOUS
  <2>2. ASSUME NEW s \in SUBSET D, Cardinality(s) <= 0 PROVE g[s] = Folded(f, g, s)
    <3> HIDE DEF g
    <3>0. Cardinality(s) \in Nat /\ (Cardinality(s) = 0 <=> s = {})
      BY <1>1, Zenon
    <3>1. Cardinality(s) = 0
      BY <2>2, <3>0
    <3>2. s = {}
      BY <3>0, <3>1
    <3>3. Folded(f, g, s) = 0
      BY <3>2, FoldedAt
    <3>4. g[s] = 0
      BY DEF g
    <3> QED
      BY <3>3, <3>4
  <2> HIDE DEF g
  <2> QED
    BY <2>1, <2>2
<1>3. ASSUME NEW n \in Nat, Solved(n) PROVE Solved(n + 1)
  <2>1. PICK g \in [SUBSET D -> Int] : Upto(n, g)
    BY <1>3
  <2> DEFINE h == [s \in SUBSET D |-> Folded(f, g, s)]
  <2>2. h \in [SUBSET D -> Int]
    <3> SUFFICES ASSUME NEW s \in SUBSET D PROVE Folded(f, g, s) \in Int
      OBVIOUS
    <3>1. CASE s = {}
      <4>1. Folded(f, g, s) = 0
        BY <3>1, FoldedAt, Zenon
      <4> QED
        BY <4>1
    <3>2. CASE s # {}
      <4>1. f[Taken(s)] \in Int /\ g[s \ {Taken(s)}] \in Int
        BY <1>1, <3>2
      <4> QED
        BY <3>2, <4>1, FoldedAt
    <3> QED
      BY <3>1, <3>2
  <2>3. \A s \in SUBSET D : Cardinality(s) <= n => h[s] = g[s]
    BY <2>1
  <2>a. \A s \in SUBSET D : h[s] = Folded(f, g, s)
    OBVIOUS
  <2> HIDE DEF h
  <2>4. ASSUME NEW s \in SUBSET D, Cardinality(s) <= n + 1 PROVE h[s] = Folded(f, h, s)
    <3>1. CASE s = {}
      BY <2>a, <3>1, FoldedAt
    <3>2. CASE s # {}
      <4>1. s \ {Taken(s)} \in SUBSET D /\ Cardinality(s \ {Taken(s)}) <= n
        BY <1>1, <2>4, <3>2
      <4>2. h[s \ {Taken(s)}] = g[s \ {Taken(s)}]
        BY <2>3, <4>1
      <4> QED
        BY <2>a, <3>2, <4>2, FoldedAt
    <3> QED
      BY <3>1, <3>2
  <2> QED
    BY <2>2, <2>4
<1>4. Unsolved = {}
  <2> SUFFICES ASSUME Unsolved # {} PROVE FALSE
    OBVIOUS
  <2> HIDE DEF Solved
  <2>1. PICK n \in Unsolved : \A m \in Unsolved : n <= m
    BY LeastNumber
  <2>2. n \in Nat /\ n # 0 /\ ~Solved(n)
    BY <1>2, <2>1
  <2>3. n - 1 \in Nat /\ n - 1 \notin Unsolved
    BY <2>1, <2>2
  <2> QED
    BY <1>3, <2>2, <2>3
<1>5. Cardinality(D) \in Nat /\ Solved(Cardinality(D))
  BY <1>1, <1>4
<1>6. PICK g \in [SUBSET D -> Int] : Upto(Cardinality(D), g)
  BY <1>5
<1>7. \A s \in SUBSET D : Cardinality(s) <= Cardinality(D)
  BY FS_Subset
<1>8. Folds(f, g)
  BY <1>6, <1>7 DEF Folds
<1> QED
  BY <1>8

\* What each set is folded to, of any function.
LEMMA FoldValues ==
  ASSUME NEW D, IsFiniteSet(D), NEW f \in [D -> Nat], NEW g, Folds(f, g)
  PROVE  \A s \in SUBSET D : g[s] = Folded(f, g, s) /\ g[s] \in Nat
<1>1. \A s \in SUBSET D : g[s] = Folded(f, g, s)
  BY DEF Folds
<1> DEFINE B == {s \in SUBSET D : g[s] \notin Nat}
<1>2. B = {}
  <2> SUFFICES ASSUME B # {} PROVE FALSE
    OBVIOUS
  <2>1. PICK s \in B : \A x \in s : s \ {x} \notin B
    <3> B \in SUBSET SUBSET D
      OBVIOUS
    <3> HIDE DEF B
    <3> QED
      BY LeastSet
  <2>2. s \in SUBSET D /\ g[s] = Folded(f, g, s) /\ g[s] \notin Nat
    BY <1>1
  <2>3. s # {}
    BY <2>2, FoldedAt
  <2>4. f[Taken(s)] \in Nat /\ g[s \ {Taken(s)}] \in Nat
    BY <2>1, <2>2, <2>3, TakenIsIn
  <2>5. g[s] = f[Taken(s)] + g[s \ {Taken(s)}]
    BY <2>2, <2>3, FoldedAt
  <2> QED
    BY <2>2, <2>4, <2>5
<1> QED
  BY <1>1, <1>2

\* A score that changes changes the sum by the difference.
LEMMA FoldChanges ==
  ASSUME NEW D, IsFiniteSet(D), NEW f \in [D -> Nat], NEW g, Folds(f, g),
         NEW e \in [D -> Nat], NEW h, Folds(e, h),
         NEW k \in D, \A x \in D \ {k} : e[x] = f[x]
  PROVE  h[D] = g[D] + e[k] - f[k]
<1> DEFINE Moved(s) == h[s] = g[s] + IF k \in s THEN e[k] - f[k] ELSE 0
           B == {s \in SUBSET D : ~Moved(s)}
<1>1. \A s \in SUBSET D : g[s] = Folded(f, g, s) /\ g[s] \in Nat
  BY FoldValues
<1>2. \A s \in SUBSET D : h[s] = Folded(e, h, s) /\ h[s] \in Nat
  BY FoldValues
<1>3. B = {}
  <2> SUFFICES ASSUME B # {} PROVE FALSE
    OBVIOUS
  <2>1. PICK s \in B : \A x \in s : s \ {x} \notin B
    <3> B \in SUBSET SUBSET D
      OBVIOUS
    <3> HIDE DEF B
    <3> QED
      BY LeastSet
  <2>a. s \in SUBSET D /\ ~Moved(s)
    OBVIOUS
  <2>b. ASSUME s = {} PROVE FALSE
    <3>1. Folded(f, g, s) = 0 /\ Folded(e, h, s) = 0
      BY <2>b, FoldedAt, Zenon
    <3>2. g[s] = 0 /\ h[s] = 0
      BY <1>1, <1>2, <2>a, <3>1, Zenon
    <3> QED
      BY <2>a, <2>b, <3>2
  <2>2. s \in SUBSET D /\ s # {}
    BY <2>a, <2>b
  <2> DEFINE x == Taken(s)
             r == s \ {x}
  <2>3. x \in s /\ x \in D /\ r \in SUBSET D
    BY <2>2, TakenIsIn
  <2>4. Moved(r)
    BY <2>1, <2>3
  <2>5. g[s] = f[x] + g[r] /\ h[s] = e[x] + h[r]
    <3>1. Folded(f, g, s) = f[x] + g[r]
      BY <2>2, Zenon DEF Folded
    <3>3. Folded(e, h, s) = e[x] + h[r]
      BY <2>2, Zenon DEF Folded
    <3>2. g[s] = Folded(f, g, s) /\ h[s] = Folded(e, h, s)
      BY <1>1, <1>2, <2>2, Zenon
    <3> QED
      BY <3>1, <3>2, <3>3, Zenon
  <2>6. f[x] \in Nat /\ f[k] \in Nat /\ g[r] \in Nat /\ h[r] \in Nat
    BY <1>1, <1>2, <2>3
  <2>7. CASE x = k
    <3>1. x = k /\ k \in s /\ k \notin r
      BY <2>3, <2>7
    <3>2. h[r] = g[r]
      BY <2>4, <2>6, <3>1
    <3> QED
      BY <2>1, <2>5, <2>6, <2>7, <3>1, <3>2
  <2>8. CASE x # k
    <3>1. e[x] = f[x] /\ (k \in s <=> k \in r)
      BY <2>3, <2>8
    <3> QED
      BY <2>1, <2>4, <2>5, <2>6, <3>1
  <2> QED
    BY <2>7, <2>8
<1>4. Moved(D)
  BY <1>3
<1> QED
  BY <1>1, <1>2, <1>4

LEMMA FoldOfNothing ==
  ASSUME NEW D, IsFiniteSet(D), NEW g, Folds([i \in D |-> 0], g)
  PROVE  g[D] = 0
<1> DEFINE z == [i \in D |-> 0]
           B == {s \in SUBSET D : g[s] # 0}
<1>1. \A s \in SUBSET D : g[s] = Folded(z, g, s)
  <2>1. z \in [D -> Nat] /\ Folds(z, g)
    OBVIOUS
  <2> QED
    BY <2>1, FoldValues
<1>2. B = {}
  <2> SUFFICES ASSUME B # {} PROVE FALSE
    OBVIOUS
  <2>1. PICK s \in B : \A x \in s : s \ {x} \notin B
    <3> B \in SUBSET SUBSET D
      OBVIOUS
    <3> HIDE DEF B
    <3> QED
      BY LeastSet
  <2>2. s # {}
    BY <1>1, FoldedAt
  <2>3. z[Taken(s)] = 0 /\ g[s \ {Taken(s)}] = 0
    BY <2>1, <2>2, TakenIsIn
  <2> QED
    BY <1>1, <2>1, <2>2, <2>3, FoldedAt
<1> QED
  BY <1>2

\* The sum of the scores, as the counter sees it.
LEMMA SumOfScores ==
  ASSUME NEW D, IsFiniteSet(D), NEW f \in [D -> Nat]
  PROVE  /\ FoldFunction(Plus, 0, f) \in Nat
         /\ f = [i \in D |-> 0] => FoldFunction(Plus, 0, f) = 0
         /\ \A k \in D, v \in Nat :
               FoldFunction(Plus, 0, [f EXCEPT ![k] = v]) = FoldFunction(Plus, 0, f) + v - f[k]
<1> DEFINE g == CHOOSE g : Folds(f, g)
<1>1. Folds(f, g) /\ DOMAIN f = D
  BY FoldExists
<1>2. FoldFunction(Plus, 0, f) = g[D]
  BY <1>1, SumIsFold
<1> HIDE DEF g
<1>3. g[D] \in Nat
  BY <1>1, FoldValues
<1>4. f = [i \in D |-> 0] => g[D] = 0
  BY <1>1, FoldOfNothing
<1>5. ASSUME NEW k \in D, NEW v \in Nat
      PROVE  FoldFunction(Plus, 0, [f EXCEPT ![k] = v]) = g[D] + v - f[k]
  <2> DEFINE e == [f EXCEPT ![k] = v]
             h == CHOOSE h : Folds(e, h)
  <2>1. e \in [D -> Nat] /\ e \in [D -> Int] /\ DOMAIN e = D
    OBVIOUS
  <2>2. Folds(e, h)
    BY <2>1, FoldExists
  <2>3. FoldFunction(Plus, 0, e) = h[D]
    BY <2>1, SumIsFold
  <2> HIDE DEF h
  <2>4. h[D] = g[D] + v - f[k]
    <3>1. e[k] = v /\ \A x \in D \ {k} : e[x] = f[x]
      OBVIOUS
    <3> HIDE DEF e
    <3>2. h[D] = g[D] + e[k] - f[k]
      BY <1>1, <2>1, <2>2, <3>1, FoldChanges
    <3> QED
      BY <3>1, <3>2
  <2> QED
    BY <2>3, <2>4
<1> QED
  BY <1>2, <1>3, <1>4, <1>5

-----------------------------------------------------------------------------
(* The counter of the occupancy.                                           *)

\* A reconciliation that has read the sum and the counter has read the same number twice: one
\* script reads both.
CounterInv ==
    /\ MirrorInv
    /\ total = Sum
    /\ reading \in [on : BOOLEAN, sum : Nat, counter : Int]
    /\ reading.on => reading.sum = reading.counter

LEMMA CounterStep ==
  ASSUME IsFiniteSet(Instance), CounterInv, [OccupancyNext]_mirrorvars
  PROVE  CounterInv'
<1> DEFINE Goal == /\ total' = Sum'
                   /\ reading' \in [on : BOOLEAN, sum : Nat, counter : Int]
                   /\ reading'.on => reading'.sum = reading'.counter
<1>a. MirrorInv'
  BY MirrorStep DEF CounterInv
<1>b. mirror \in [Instance -> Nat] /\ Sum \in Nat /\ total = Sum
  BY SumOfScores DEF CounterInv, MirrorInv, MirrorTypes, Sum
<1> HIDE DEF Goal
<1>0. ASSUME UNCHANGED <<mirror, total, reading>> PROVE Goal
  BY <1>0 DEF Goal, CounterInv, Sum
<1>1. ASSUME UNCHANGED mirrorvars PROVE Goal
  BY <1>0, <1>1 DEF mirrorvars
<1>2. ASSUME NEW w \in Worker, NEW i \in Instance, NEW s \in Session, NEW c \in Conference,
             NEW p \in Pool, NEW inherits \in BOOLEAN, NEW t \in 0..now,
             OccupyClaim(w, i, s, c, p, inherits, t)
      PROVE  Goal
  BY <1>0, <1>2 DEF OccupyClaim
<1>3. ASSUME NEW w \in Worker, NEW i \in Instance, NEW s \in Session,
             \/ OccupyRelease(w, i, s)
             \/ \E t \in 0..now : OccupySwap(w, i, s, t)
      PROVE  Goal
  BY <1>0, <1>3 DEF OccupyRelease, OccupySwap
<1>4. ASSUME NEW w \in Worker, Sync(w) PROVE Goal
  <2> DEFINE k == pending[w].i
             n == pending[w].n
  <2>1. k \in Instance /\ n \in Nat
    BY <1>4 DEF Sync, CounterInv, MirrorInv, MirrorTypes
  <2>2. mirror' = [mirror EXCEPT ![k] = n] /\ total' = total + n - mirror[k] /\ reading' = reading
    BY <1>4 DEF Sync
  <2> HIDE DEF k, n
  <2>3. Sum' = Sum + n - mirror[k]
    BY <1>b, <2>1, <2>2, SumOfScores DEF Sum
  <2> QED
    BY <1>b, <2>2, <2>3 DEF Goal, CounterInv
<1>5. ASSUME NEW w \in Worker, LoseSync(w) PROVE Goal
  BY <1>0, <1>5 DEF LoseSync
<1>6. ASSUME ReconcileRead PROVE Goal
  BY <1>6, <1>b DEF ReconcileRead, Goal, Sum
<1>7. ASSUME ReconcileSet PROVE Goal
  <2>1. total' = total /\ mirror' = mirror /\ reading' = Unread
    BY <1>7 DEF ReconcileSet, CounterInv
  <2> QED
    BY <1>b, <2>1 DEF Goal, Sum, Unread
<1>8. ASSUME NEW i \in Instance, Unmirrored(i) PROVE Goal
  BY <1>0, <1>8 DEF Unmirrored
<1>9. ASSUME Elsewhere PROVE Goal
  BY <1>0, <1>9 DEF Elsewhere, ovars
<1>10. Goal
  BY <1>1, <1>2, <1>3, <1>4, <1>5, <1>6, <1>7, <1>8, <1>9 DEF OccupancyNext
<1> QED
  BY <1>a, <1>10 DEF Goal, CounterInv

LEMMA CounterInit ==
  ASSUME IsFiniteSet(Instance), OccupancyInit
  PROVE  CounterInv
<1>1. MirrorInv
  BY MirrorInit
<1>2. mirror = [i \in Instance |-> 0] /\ mirror \in [Instance -> Nat] /\ total = 0
      /\ reading = Unread
  BY DEF OccupancyInit
<1>3. Sum = 0
  BY <1>2, SumOfScores DEF Sum
<1> QED
  BY <1>1, <1>2, <1>3 DEF CounterInv, Unread

\* The counter of the tenant is the sum of the scores of its instances in every state, lost
\* and overtaken updates, reaps and concurrent reconciliations included: the script adds the
\* difference that it takes itself, and a reconciliation never has a difference to write.
THEOREM CounterIsTheSum ==
  ASSUME IsFiniteSet(Instance)
  PROVE  OccupancySpec => []CounterIsSum
<1>1. CounterInv => CounterIsSum
  BY DEF CounterInv, CounterIsSum
<1> QED
  BY <1>1, CounterInit, CounterStep, PTL DEF OccupancySpec

\* The counter is a natural number, and the rest of the mirror has its types.
THEOREM OccupancyTypeCorrect ==
  ASSUME IsFiniteSet(Instance)
  PROVE  OccupancySpec => []OccupancyTypeOK
<1>1. CounterInv => OccupancyTypeOK
  <2> SUFFICES ASSUME CounterInv PROVE OccupancyTypeOK
    OBVIOUS
  <2>1. TypeOK /\ MirrorTypes /\ total = Sum
    BY DEF CounterInv, MirrorInv
  <2>2. total \in Nat
    BY <2>1, SumOfScores DEF MirrorTypes, Sum
  <2> QED
    BY <2>1, <2>2 DEF CounterInv, OccupancyTypeOK, MirrorTypes
<1> QED
  BY <1>1, CounterInit, CounterStep, PTL DEF OccupancySpec

=============================================================================
