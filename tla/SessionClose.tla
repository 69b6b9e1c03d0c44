----------------------------- MODULE SessionClose -----------------------------
(***************************************************************************)
(* A contact served by several human agents, from the claim of a slot to   *)
(* the moment the last agent leaves.  Three services take part, over Redis *)
(* keys of the session and three Kafka topics:                             *)
(*                                                                         *)
(*   routing engine   claims the slot and publishes conversations.routed;  *)
(*                    frees it (or swaps it for a hold) on agent.lifecycle *)
(*   orchestrator     activates the agent on conversations.routed, and on  *)
(*   bridge           contact_closed decides, from how many agents are     *)
(*                    left, whether the contact is over                    *)
(*   mcp-server       POST /api/agent_done: sets the closed marker and     *)
(*                    publishes contact_closed                             *)
(*                                                                         *)
(* The bridge runs one task per Kafka message, so the handlers of two      *)
(* agents interleave between any two of their Redis calls.                 *)
(***************************************************************************)
EXTENDS InstanceSemaphore

CONSTANTS
    Sid,        \* the contact
    Primary,    \* the empty conference id: a routing that is not an invite
    NoTag,      \* the pool of the contact
    Faults,     \* which troubles of the environment may happen
    MaxJoins,   \* how often an instance may be allocated (model bound)
    MaxSubmits, \* how often a console may submit agent_done per allocation
    MaxTroubles \* how many drops, logouts and redeliveries there may be (model bound)

ASSUME SidAssumption   == Sid \in Session /\ Primary \in Conference /\ NoTag \in Pool
ASSUME FaultAssumption ==
    Faults \subseteq {"redeliver", "resubmit", "late_join", "early_rejoin", "drop",
                     "unregister", "reap"}
ASSUME JoinBounds == MaxJoins \in Nat /\ MaxSubmits \in Nat \ {0} /\ MaxTroubles \in Nat

VARIABLES
    record,     \* instances whose record "{t}:instance:{i}" exists
    routed,     \* conversations.routed events in transit: <<instance, conference>>
    joining,    \* activations between SETEX human_agent and SADD human_agents
    flag,       \* "session:{sid}:human_agent" exists
    agents,     \* "session:{sid}:human_agents"
    console,    \* instance -> what its console may still do
    events,     \* contact_closed events in transit: <<instance, reason>>
    handler,    \* instance -> the bridge task past the gate: where it is and why
    lifecycle,  \* agent.lifecycle events in transit: <<instance, reason>>
    reroutes,   \* conversations.inbound re-routes in transit
    ended,      \* the end of the contact was decided (contact_ended_at)
    troubles,   \* drops, logouts and redeliveries so far
    overlapped  \* history: instances allocated the contact again too early (Fresh)

svars == <<slots, closed, now, reap, cooldown>>
allvars == <<slots, closed, now, reap, cooldown, record, routed, joining, flag, agents,
             console, events, handler, lifecycle, reroutes, ended, troubles, overlapped>>

Reason  == {"agent_closed", "agent_disconnect"}
NoTask  == [at |-> "none", why |-> "agent_closed"]

Hazard(f)  == f \in Faults
Trouble(f) == Hazard(f) /\ troubles < MaxTroubles /\ troubles' = troubles + 1

CloseInit ==
    /\ Init
    /\ record = Instance
    /\ routed = {} /\ joining = {} /\ flag = FALSE /\ agents = {}
    /\ console = [i \in Instance |->
          [joins |-> 0, submits |-> 0, up |-> FALSE, shut |-> FALSE]]
    /\ events = {} /\ lifecycle = {} /\ reroutes = 0
    /\ handler = [i \in Instance |-> NoTask]
    /\ ended = FALSE /\ troubles = 0 /\ overlapped = {}

\* An agent that was allocated the contact and has not got it yet; one that has left it:
\* by agent_done, or because its connection was closed.
AtDoor(i) == i \in joining \/ \E c \in Conference : <<i, c>> \in routed
Left(i)   == console[i].submits > 0 \/ console[i].shut

\* Somebody has yet to hear that the agent left: the bridge, or the routing engine.
Awaits(i) == \E why \in Reason : <<i, why>> \in events
Owed(i)   == \E why \in Reason : <<i, why>> \in lifecycle

AllSettled == events = {} /\ \A i \in Instance : handler[i].at = "none"

\* Neither has the contact, nor is about to get it, nor left it so recently that
\* somebody has yet to hear of it or it may itself say so again.
Fresh(i) == /\ ~AtDoor(i) /\ i \notin agents /\ ~console[i].up
            /\ ~Awaits(i) /\ ~Owed(i)
            /\ Hazard("resubmit") => ~Left(i)

-----------------------------------------------------------------------------
(* Routing engine: allocation.                                             *)

\* Only an instance with a record is a candidate.  A claim that finds a slot publishes
\* conversations.routed.  A routing that is not a conference invite is refused once the
\* session is marked closed.
Allocate(i, c) ==
    /\ console[i].joins < MaxJoins /\ i \in record
    /\ console' = [console EXCEPT ![i].joins = @ + 1]
    /\ c = Primary => Sid \notin closed
    /\ \E N \in ClaimOutcomes(slots[i], Sid, c, NoTag, FALSE, now, Max[i]) :
          slots' = [slots EXCEPT ![i] = N]
    /\ routed' = routed \cup {<<i, c>>}
    /\ overlapped' = IF Fresh(i) THEN overlapped ELSE overlapped \cup {i}
    /\ UNCHANGED <<closed, now, reap, cooldown, record, joining, flag, agents, events,
                   handler, lifecycle, ended, troubles>>

\* The first routing of the contact.
FirstRoute(i) ==
    /\ \A j \in Instance : console[j].joins = 0
    /\ Allocate(i, Primary)
    /\ UNCHANGED reroutes

\* The bridge put the contact back on conversations.inbound; without "early_rejoin" it is
\* allocated only when the bridge has finished with all that left it.
Reroute(i) ==
    /\ reroutes > 0
    /\ Hazard("early_rejoin") \/ AllSettled
    /\ reroutes' = reroutes - 1
    /\ Allocate(i, Primary)

\* A re-route of a contact that is marked closed is discarded.
RerouteDiscarded ==
    /\ reroutes > 0 /\ Sid \in closed
    /\ reroutes' = reroutes - 1
    /\ UNCHANGED <<svars, record, routed, joining, flag, agents, console, events, handler,
                   lifecycle, ended, troubles, overlapped>>

\* A further human is invited to the conference; without "late_join" only while
\* nobody has left yet.
Invite(i, c) ==
    /\ c # Primary /\ agents # {}
    /\ Hazard("late_join") \/ \A j \in Instance : ~Left(j)
    /\ Allocate(i, c)
    /\ UNCHANGED reroutes

-----------------------------------------------------------------------------
(* Bridge: activation (process_routed, activate_human_agent).              *)

\* An invite is exempt from the dedup guard; another routing of a session with
\* an active human is dropped, and its slot stays claimed.
Activate(i, c) ==
    /\ <<i, c>> \in routed
    /\ routed' = routed \ {<<i, c>>}
    /\ IF c = Primary /\ flag
         THEN UNCHANGED <<flag, joining>>
         ELSE flag' = TRUE /\ joining' = joining \cup {i}
    /\ UNCHANGED <<svars, record, agents, console, events, handler, lifecycle, reroutes, ended,
                   troubles, overlapped>>

\* SADD human_agents, after which the console gets the contact.
Activated(i) ==
    /\ i \in joining
    /\ joining' = joining \ {i}
    /\ agents' = agents \cup {i}
    /\ console' = [console EXCEPT ![i].up = TRUE, ![i].submits = 0,
                                  ![i].shut = FALSE]
    /\ UNCHANGED <<svars, record, routed, flag, events, handler, lifecycle, reroutes, ended,
                   troubles, overlapped>>

-----------------------------------------------------------------------------
(* The agent's side.                                                       *)

Quiet == routed = {} /\ joining = {}

\* POST /api/agent_done: the closed marker first, then contact_closed.
AgentDone(i) ==
    /\ console[i].up \/ (Hazard("resubmit") /\ Left(i))
    /\ console[i].submits < MaxSubmits
    /\ Hazard("late_join") \/ Quiet
    /\ closed' = closed \cup {Sid}
    /\ events' = events \cup {<<i, "agent_closed">>}
    /\ console' = [console EXCEPT ![i].up = FALSE, ![i].submits = @ + 1]
    /\ UNCHANGED <<slots, now, reap, cooldown, record, routed, joining, flag, agents,
                   handler, lifecycle, reroutes, ended, troubles, overlapped>>

\* The console's WebSocket closes, and stays closed.  If SISMEMBER human_agents still
\* finds the agent, at work or done but not yet taken out by the bridge, contact_closed is
\* published, and no marker is set.
Drop(i) ==
    /\ Trouble("drop")
    /\ console[i].up \/ console[i].submits > 0
    /\ ~console[i].shut
    /\ Hazard("late_join") \/ Quiet
    /\ events' = IF i \in agents THEN events \cup {<<i, "agent_disconnect">>} ELSE events
    /\ console' = [console EXCEPT ![i].up = FALSE, ![i].shut = TRUE]
    /\ UNCHANGED <<svars, record, routed, joining, flag, agents, handler, lifecycle,
                   reroutes, ended, overlapped>>

\* unregisterHumanAgent: the timer of the closed connection takes the agent out of the
\* pool next, and LUA_LEAVE_POOL deletes the record with the last pool.
Unregister(i) ==
    /\ Trouble("unregister")
    /\ i \in record /\ console[i].shut
    /\ record' = record \ {i}
    /\ UNCHANGED <<svars, routed, joining, flag, agents, console, events, handler,
                   lifecycle, reroutes, ended, overlapped>>

\* registerHumanAgent: LUA_JOIN_POOL writes the record again; the slots stay.
Login(i) ==
    /\ i \notin record
    /\ record' = record \cup {i}
    /\ UNCHANGED <<svars, routed, joining, flag, agents, console, events, handler,
                   lifecycle, reroutes, ended, troubles, overlapped>>

-----------------------------------------------------------------------------
(* Bridge: process_contact_event for a reason of the agent's side.         *)

\* At-least-once delivery: with "redeliver" the event may come once more.
Consume(e) ==
    \/ events' = events \ {e} /\ UNCHANGED troubles
    \/ Trouble("redeliver") /\ UNCHANGED events

\* Nothing is left to close: no human flag, or the SREM removes nothing.
CloseIgnored(e) ==
    /\ e \in events
    /\ ~flag \/ e[1] \notin agents
    /\ Consume(e)
    /\ UNCHANGED <<svars, record, routed, joining, flag, agents, console, handler, lifecycle,
                   reroutes, ended, overlapped>>

MutantCloseGate(e) ==
    /\ e \in events
    /\ flag /\ e[1] \in agents
    /\ handler[e[1]].at = "none"
    /\ Consume(e)
    /\ lifecycle' = lifecycle \cup {e}
    /\ handler' = [handler EXCEPT ![e[1]] = [at |-> "left", why |-> e[2]]]
    /\ UNCHANGED <<svars, record, routed, joining, flag, agents, console, reroutes, ended,
                   overlapped>>

\* The SREM takes the agent out, and agent_done (agent_released on a drop) is
\* spawned towards agent.lifecycle.
CloseGate(e) ==
    /\ e \in events
    /\ flag /\ e[1] \in agents
    /\ handler[e[1]].at = "none"
    /\ Consume(e)
    /\ agents' = agents \ {e[1]}
    /\ lifecycle' = lifecycle \cup {e}
    /\ handler' = [handler EXCEPT ![e[1]] = [at |-> "left", why |-> e[2]]]
    /\ UNCHANGED <<svars, record, routed, joining, flag, console, reroutes, ended, overlapped>>

GoTo(i, at) == handler' = [handler EXCEPT ![i].at = at]
Finish(i)   == handler' = [handler EXCEPT ![i] = NoTask]

\* The count taken before the agent was removed.
MutantCountOthers(i) ==
    /\ handler[i].at = "left"
    /\ GoTo(i, IF Cardinality(agents) <= 1 THEN "last" ELSE "others")
    /\ UNCHANGED <<svars, record, routed, joining, flag, agents, console, events, lifecycle,
                   reroutes, ended, troubles, overlapped>>

\* SCARD human_agents: is somebody else still there?
CountOthers(i) ==
    /\ handler[i].at = "left"
    /\ GoTo(i, IF agents = {} THEN "last" ELSE "others")
    /\ UNCHANGED <<svars, record, routed, joining, flag, agents, console, events, lifecycle,
                   reroutes, ended, troubles, overlapped>>

\* Last one out: DEL human_agent, then DEL human_agents.
DropFlag(i) ==
    /\ handler[i].at = "last"
    /\ flag' = FALSE
    /\ GoTo(i, "unflagged")
    /\ UNCHANGED <<svars, record, routed, joining, agents, console, events, lifecycle,
                   reroutes, ended, troubles, overlapped>>

DropAgents(i) ==
    /\ handler[i].at = "unflagged"
    /\ agents' = {}
    /\ GoTo(i, "ending")
    /\ UNCHANGED <<svars, record, routed, joining, flag, console, events, lifecycle,
                   reroutes, ended, troubles, overlapped>>

\* agent_done: the marker, then contact_ended_at and the end-of-contact hooks.
EndContact(i) ==
    /\ handler[i].at = "ending" /\ handler[i].why = "agent_closed"
    /\ closed' = closed \cup {Sid}
    /\ ended' = TRUE
    /\ Finish(i)
    /\ UNCHANGED <<slots, now, reap, cooldown, record, routed, joining, flag, agents, console,
                   events, lifecycle, reroutes, troubles, overlapped>>

\* A drop of the last agent does not end the contact: it is routed again.
SendReroute(i) ==
    /\ handler[i].at = "ending" /\ handler[i].why = "agent_disconnect"
    /\ reroutes' = reroutes + 1
    /\ Finish(i)
    /\ UNCHANGED <<svars, record, routed, joining, flag, agents, console, events, lifecycle,
                   ended, troubles, overlapped>>

\* Others remain: the marker that /api/agent_done set is deleted again.
MutantUndoMarker(i) ==
    /\ handler[i].at = "others"
    /\ Finish(i)
    /\ UNCHANGED <<svars, record, routed, joining, flag, agents, console, events,
                   lifecycle, reroutes, ended, troubles, overlapped>>

UndoMarker(i) ==
    /\ handler[i].at = "others"
    /\ closed' = closed \ {Sid}
    /\ Finish(i)
    /\ UNCHANGED <<slots, now, reap, cooldown, record, routed, joining, flag, agents, console,
                   events, lifecycle, reroutes, ended, troubles, overlapped>>

-----------------------------------------------------------------------------
(* Routing engine: agent.lifecycle (LifecycleEventHandler).                *)

MutantLifecycleEnd(e, keep) ==
    /\ e \in lifecycle
    /\ lifecycle' = lifecycle \ {e}
    /\ IF Sid \in closed THEN UNCHANGED svars ELSE Release(e[1], Sid)
    /\ UNCHANGED <<record, routed, joining, flag, agents, console, events, handler,
                   reroutes, ended, troubles, overlapped>>

MutantLifecycleEndEverywhere(e, keep) ==
    /\ e \in lifecycle
    /\ lifecycle' = lifecycle \ {e}
    /\ slots' = [i \in Instance |-> Released(slots[i], Sid)]
    /\ UNCHANGED <<closed, now, reap, cooldown, record, routed, joining, flag, agents, console,
                   events, handler, reroutes, ended, troubles, overlapped>>

\* remove_conversation: the slot becomes a hold when the pool has an inline
\* wrap-up and the agent was done, and is freed otherwise; either happens only
\* if the record of the instance still exists.
LifecycleEnd(e, keep) ==
    /\ e \in lifecycle
    /\ lifecycle' = lifecycle \ {e}
    /\ IF e[1] \notin record
         THEN UNCHANGED svars
         ELSE IF keep /\ e[2] = "agent_closed" THEN Swap(e[1], Sid, now)
                                              ELSE Release(e[1], Sid)
    /\ UNCHANGED <<record, routed, joining, flag, agents, console, events, handler,
                   reroutes, ended, troubles, overlapped>>

\* The reaper of orphan slots, while some claim meets a full instance.
Reaper(i) ==
    /\ Hazard("reap")
    /\ \/ ReapScan(i)
       \/ \E m \in reap[i].todo : ReapLookup(i, m)
       \/ ReapRemove(i)
    /\ UNCHANGED <<record, routed, joining, flag, agents, console, events, handler,
                   lifecycle, reroutes, ended, troubles, overlapped>>

-----------------------------------------------------------------------------
\* The task of the bridge, or of the routing engine, that works for instance i.
Task(i) ==
    \/ \E c \in Conference : Activate(i, c)
    \/ Activated(i)
    \/ \E why \in Reason : CloseIgnored(<<i, why>>) \/ CloseGate(<<i, why>>)
    \/ CountOthers(i) \/ DropFlag(i) \/ DropAgents(i)
    \/ EndContact(i) \/ SendReroute(i) \/ UndoMarker(i)
    \/ \E why \in Reason, keep \in BOOLEAN : LifecycleEnd(<<i, why>>, keep)

CloseNext == \E i \in Instance :
    \/ FirstRoute(i) \/ Reroute(i) \/ RerouteDiscarded
    \/ \E c \in Conference : Invite(i, c)
    \/ AgentDone(i) \/ Drop(i) \/ Unregister(i) \/ Login(i)
    \/ Task(i)
    \/ Reaper(i)

\* Both services keep working on the messages they consume; routing, agents
\* and the reaper owe nothing.
CloseSpec == CloseInit /\ [][CloseNext]_allvars
                /\ \A i \in Instance : WF_allvars(Task(i))

-----------------------------------------------------------------------------
CloseTypeOK ==
    /\ TypeOK
    /\ record \subseteq Instance /\ routed \subseteq Instance \X Conference
    /\ joining \subseteq Instance /\ agents \subseteq Instance
    /\ flag \in BOOLEAN /\ ended \in BOOLEAN
    /\ console \in [Instance -> [joins : 0..MaxJoins, submits : 0..MaxSubmits,
                                 up : BOOLEAN, shut : BOOLEAN]]
    /\ events \subseteq Instance \X Reason /\ lifecycle \subseteq Instance \X Reason
    /\ handler \in [Instance ->
          [at : {"none", "left", "last", "unflagged", "ending", "others"}, why : Reason]]
    /\ reroutes \in Nat /\ troubles \in 0..MaxTroubles /\ overlapped \subseteq Instance

\* An agent that has the contact on its console has a slot of its instance, whatever
\* departures of it or of others are late, redelivered or overtaken: a release names a
\* session and not an allocation, and still frees the slot of nobody at work, unless the
\* agent was allocated the contact again too early.  (The reaper may free it: README.)
WorkingHasSlot == \A i \in Instance :
    console[i].up /\ i \notin overlapped => SlotsOf(slots[i], Sid) # {}

Settled == /\ Quiet /\ events = {}
           /\ \A i \in Instance : handler[i].at = "none"

\* Once every message is handled, a contact that still has an agent is not
\* marked closed: the marker each agent_done sets is undone while others remain,
\* or the routing engine would discard the live contact's re-routes.
MarkedOnlyWhenOver == Settled /\ agents # {} => Sid \notin closed

\* The end of the contact is decided only when nobody is left in it: no agent in
\* the set or about to enter it, and none that still has it on the console (the
\* bridge empties the set before it ends the contact, so the set alone says little).
EndedOnlyWhenEmpty == ended =>
    agents = {} /\ joining = {} /\ \A i \in Instance : ~console[i].up

\* All that is left of the contact are agents that are done with it.
AllDone == Quiet /\ agents # {} /\ \A i \in agents : <<i, "agent_closed">> \in events

\* The last one out had submitted agent_done, and was taken out by the drop of its
\* connection, which was announced before the agent_done was handled.
Overtaken == \E i \in Instance : /\ handler[i].at = "ending"
                                 /\ handler[i].why = "agent_disconnect"
                                 /\ console[i].submits > 0

\* If all agents of the contact close it, whatever the order in which the bridge's tasks
\* remove and count them, one of them sees itself last and ends it.  The one case in which
\* nobody does: the drop of the last one overtook its agent_done, and the contact is
\* routed again instead.
EndsWhenLastLeaves == AllDone ~> (ended \/ Overtaken)

\* ws.on('close'): "O sismember dedup evita republicar quando o humano já fechou via
\* agent_done", so that whoever is done is not a drop and the contact ends.
DoneEndsContact == AllDone ~> ended

\* An agent whose departure was announced eventually holds no slot of the
\* contact, unless its record is deleted first.
SlotReturned == \A i \in Instance :
    (i \in agents /\ \E why \in Reason : <<i, why>> \in events)
        ~> (SlotsOf(slots[i], Sid) = {} \/ i \notin record)

\* Once every message is handled, an agent that is not in the contact holds no
\* slot of it, whoever freed it: its lifecycle event, the reaper, or both.
NoSlotLeaks == Settled /\ lifecycle = {} =>
    \A i \in Instance \ agents : SlotsOf(slots[i], Sid) = {}

\* activate_human_agent's docstring: the fast-lookup flag is cleared only when
\* the set of agents becomes empty.
FlagOutlivesAgents == [][flag /\ ~flag' => agents = {}]_allvars

=============================================================================
