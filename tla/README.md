# A verification development for PlugHub

PlugHub is a platform for customer contacts.  Contacts arrive over many channels, are routed to AI
agents or to human agents of a pool, pass between them, and leave work behind (wrap-ups, approvals,
forms) that humans take from pull queues.  It is built of some thirty services around Redis (shared
state), Kafka (events) and PostgreSQL/ClickHouse (records).

This directory holds TLA+ modules translated from the source, TLC configurations that check them on
small instances, and theorems that TLAPS checks for every value of the constants.  It is about what
every other part rests on: **who holds a slot of which agent, who is in a contact, who has a work
item, who is logged in, who waits for whom, and where a flow is and who may move it**.

Paths: `REG`, `ROU`, `RKL`, `RMAIN` are `registry.py`, `router.py`, `kafka_listener.py`, `main.py` of
`src/packages/routing-engine/src/plughub_routing/`; `B` is
`src/packages/orchestrator-bridge/src/plughub_orchestrator_bridge/main.py`; `SRV` is
`src/packages/mcp-server-plughub/src/server.ts`; `ENG` is `engine.ts` of
`src/packages/skill-flow-engine/src/`, beside its `state.ts` and `steps/`; `WH` is `adapters/webhook.py` of
`src/packages/channel-gateway/src/plughub_channel_gateway/`; `index.ts` is that of
`src/packages/e2e-tests/services/skill-flow-service/src/`.

## 1. Inventory

### Parts that decide who serves whom

| part | state | operations | talks to |
|---|---|---|---|
| **slot semaphore** (`REG` 366–1067) | Redis set `{t}:instance:{i}:sessions` per agent instance: an occupant `session::conference::pool` per slot in use, a hold `__wrapup_hold__::…` per slot kept for a wrap-up | Lua `claim` (retag, sweep, inherit, grant), `release` by session prefix, `swap_to_hold`; Python `reap_stale_occupants` | router, pull queue, lifecycle consumer |
| **instance state** (`REG` 1785–2440, `RKL`) | record `{t}:instance:{i}` (pools, state, current_sessions), pool sets, meta | `mark_busy`, `remove_conversation`, upsert on ready/heartbeat, deactivate on pause/logout | `agent.lifecycle`; written by mcp-server too |
| **tenant occupancy** (`REG` 1493–1576) | ZSET instance → occupancy, and a counter | `_sync_tenant_occupancy` (Lua) after every script, `reconcile_tenant_occupancy` each minute | the semaphore calls it; the reaper does not |
| **push routing** (`ROU`, `RMAIN`) | session affinity, serving pool | `_allocate`: score, claim, `mark_busy`, publish `conversations.routed` | `conversations.inbound` / `.routed` |
| **push queue and drains** (`RMAIN` 203–1551, `RKL` 115–210, 675–838) | ZSET `{t}:pool:{p}:queue`, stored contact, stamp of the first queueing, closed markers | enqueue, drain on agent ready, periodic drain, queue timeout, clean-up on `contact_closed` | router, queue agents |
| **queue agent** (`B` 5829–6200, its flow) | marker `queue:agent_active:{s}`, the list `menu:result:{s}`, the execution lock | a flow that talks while the contact waits, escalates when it is signalled, ends on a hang-up | drains, timeout, engine |
| **pull queue** (`ROU` 620–1240) | the same ZSET for pull pools, stored contact, claim lease (180 s), durable claim record, the slot | `work_task_claim`, `_release`, `_holder`, `_expire` | mcp-server (console), bridge (drop), channel-gateway (submit) |
| **admission** (`admission.py`) | sets of sessions per kind, quotas | admit, release, reconcile | router, drains |
| **crash detector** (`crash_detector.py`) | instance meta | expired heartbeat → requeue conversations | `conversations.inbound` |
| **orchestrator bridge** (`B`) | `session:{s}:human_agents` (set), `:human_agent` (flag), `:closed` (marker), `contact_ended_at`, pending counters of hooks | activate on routed, close on `contact_closed`, hooks, contact layers, conference end | all topics |
| **mcp-server** (`SRV`, `work-queue.ts`) | WebSockets, grace timers, instance records at login/logout | `agent_done`, drop timer, register/unregister, claim/return of items | HTTP to routing, Kafka, Redis |
| **agent presence** (`SRV` 500–840, 2880–2950, 3240–3850; `RKL` 400–670) | a connection per pool, timers of grace, the record and the pool sets, the pause marker | register and unregister a pool, pause, resume, heartbeat; the handling of their events | mcp-server and routing engine, by `agent.lifecycle` and Redis |
| **channel gateway: resume** (`WH`) | table of resume tokens and what each stands for, in-flight lock, terminal record | resume of a suspended flow by a human, a deadline or a supervisor | `work_task_holder`, `work_task_expire`; `conversations.events` |

### Parts that decide where a flow is

| part | state | operations | talks to |
|---|---|---|---|
| **flow validation** (`ENG` 230–350) | the graph of steps | `validateFlow`: every cycle has a step that blocks | called before the first step |
| **skill-flow-engine** (`ENG`, `state.ts`, `steps/`) | pipeline state, execution lock, job ids, sentinels in Redis; transaction target in memory | `run`: lock, load, steps, save, release | AI gateway, tools, agents, tokens of the gateway |
| **skill-flow-service** (`index.ts`) | none of its own | starts and resumes runs from events; writes the specialist's context into the parent's state; publishes tokens | engine, Kafka |

### The other parts

* **workflow-api**: workflow and collect instances in PostgreSQL, a status machine with conditional
  updates, a timeout job.  Correct if each suspension ends once, by resume or by timeout.
* **scheduler-api**, **mailing-api**, **evaluation-api**: schedules that fire once per instant; campaign
  contacts handed to one dialer each; contestation rounds that follow their order.
* **conversation-writer, usage-aggregator, clickhouse-consumer, session-replayer, quality-\***: consumers
  that copy or count events; correctness is idempotence under redelivery.
* **ai-gateway, rules-engine, agent-registry, config-, auth-, calendar-, pricing-, dialog-, analytics-api,
  mcp-server-auth, mcp-server-knowledge, sdk, schemas, gitagent, UIs, e2e-tests**: calls to providers,
  CRUD, pure calculations, definitions, user interfaces.

`PROJECT.json` lists each with its files and its status.

### What is hard here

1. **Interleaving.** Every handler is a coroutine that awaits Redis between any two of its calls, in
   several processes.  What a Lua script does is atomic, and nothing else is.
2. **Facts in several records.** Who has an item is said by four keys; who is in a contact by a set, a
   flag, a marker and a slot; occupancy by a set, a ZSET and a counter.  Each is written by a call of
   its own.
3. **Messages.** Kafka delivers at least once; events of different topics overtake each other; an
   event names a session, not the allocation it is about.
4. **Retries and timeouts.** Double submits, reconnections, drops, leases, deadlines, the reaper.

`PROJECT.json` "hazards" places each at its line, with the properties that cover it or the reason why
none does yet.

## 2. Modules

```
SlotScripts            the Lua scripts, as operators on a set of members
  ├─ InstanceSemaphore     claims, releases, swaps and the reaper, interleaved      ──implements──> SlotLedger
  │    ├─ InstanceSemaphoreProofs
  │    ├─ SessionClose         a contact of several human agents: three services
  │    ├─ TenantOccupancy      the mirror of the occupancy, one script later
  │    └─ SlotUsersProofs      proofs about these two
  └─ WorkQueue             the pull queue                                           ──implements──> TaskBoard
       └─ WorkQueueProofs
AgentPresence          who is logged in: connections, timers, record, pool sets, events  ── AgentPresenceProofs
PushQueue              a contact that waits: engine, drains, sweep, queue agent, hang-up ── PushQueueProofs
ResumeToken            the resume of one suspension by several callers              ── ResumeTokenProofs
FlowEngine             runs of one pipeline: lock, state, steps, crashes            ── FlowEngineProofs
FlowValidation         the walk that looks for cycles nothing blocks                ── FlowValidationProofs
MC*                    model values and symmetry for TLC
```

**SlotScripts.** A member is a record: an occupant (session, conference, pool tag) or a hold (origin
session, pool tag, expiry).  `SMEMBERS` has no order, so each operator returns the *set* of contents the
script may leave.  `ClaimOutcomes` is empty when the script answers −1.

**InstanceSemaphore.** One action per script call and one per Redis call of the reaper.  `Claim` and
`Swap` take the clock value `t` that Python read *before* the script ran (at most `Lag` ticks old).
A claim that finds the instance full reaps and tries again; here the reaper may start in any state,
which covers that and its other caller.  `MarkClosed`/`UndoClosed` are the other services' writes of the
closed marker.

**SlotLedger** is the promise: at most `Max` slots lent or in reserve, one per request, and a reserve
comes only of a request that stops.  No tags, clocks, members.

**SessionClose** composes the semaphore with the bridge and the mcp-server for one contact.

| action | code |
|---|---|
| `FirstRoute`, `Reroute`, `Invite` (all by `Allocate`), `RerouteDiscarded` | `_allocate`: only an instance with a record; a primary routing of a closed session is discarded (`RMAIN` 252–263); claim, then `conversations.routed` |
| `Activate`, `Activated` | `process_routed` with its dedup guard, `activate_human_agent`: flag, then `SADD` |
| `AgentDone` | `POST /api/agent_done`: marker, then `contact_closed(agent_closed)` |
| `Drop`, `Unregister`, `Login` | the grace timer: `contact_closed(agent_disconnect)` if `SISMEMBER human_agents` still finds the agent, at work or done with the contact, then `LUA_LEAVE_POOL` deletes the record of an agent in no other pool; `LUA_JOIN_POOL` writes it again |
| `CloseIgnored`, `CloseGate` | `process_contact_event`: flag and `SREM` gate; `agent_done`/`agent_released` towards `agent.lifecycle` |
| `CountOthers` … `UndoMarker` | `SCARD`; last: two `DEL`s, then marker and end, or re-route after a drop; not last: the marker is deleted |
| `LifecycleEnd` | `remove_conversation`: swap to a hold, or release, if the record exists |
| `Reaper` | the semaphore's reaper |

`overlapped` is a ghost: the instances that were allocated the contact again while somebody had yet to hear of
their last departure (`Fresh`).

**WorkQueue.** One action per Redis call of `work_task_claim`, `work_task_release`, `work_task_expire`,
with the callers' checks (`Holder`: `work_task_holder`).  Both a claim and a release carry what they
have read (`own`), since it may be stale when it is written.  `late` holds the `agent_released` events.
**TaskBoard** is the promise: an item is open, in the hands of one agent, or done.  The refinement maps
"held" to the *set* of agents that hold it, so two holders would be no state of the board.

**TenantOccupancy.** Each call into the semaphore leaves the coroutine owing a `Sync`, which may be lost
(`LoseSync`); the reaper owes none.  `astray` is a ghost: instances one of whose updates was lost, raced
or bypassed.

**AgentPresence** composes mcp-server, console and routing engine for the record of a user.

| action | code |
|---|---|
| `Open`, `Deny`, `Look`, `Join`, `AddToPool`, `TellLogin` | a WebSocket opens and cancels the pool's timer; `registerHumanAgent`: quota, pause marker, `LUA_JOIN_POOL`, `SADD`, `agent_login` |
| `Close`, `Fire`, `RemoveFromPool`, `TellLeft` | the WebSocket closes and arms a timer; `hasLiveConnection`, then `unregisterHumanAgent`: `LUA_LEAVE_POOL`, `SREM`, `agent_logout` or, with pools left, `agent_ready` |
| `Toggle`, `PauseWrite` … `ResumeTell` | `agent-pause` and `agent-resume`, a Redis call each |
| `Beat` | the pong handler's `agent_heartbeat` |
| `Handle`, `HandleWrite`, `HandleSets` | `LifecycleEventHandler`: read the record, write it whole, then the sets |

`torn` is a ghost: the users of whom some writer acted on pools that were no longer those of the record.

**PushQueue** composes the routing engine's tasks with the bridge for one contact of a push pool.

| action | code |
|---|---|
| `Receive`, `Route`, `NoAgent` | `_process_message`: the guard, the end of the wait, the claim or the event for the queue agent |
| `Mark`, `Zadd`, `Store` | `_persist_queued_contact`, `mark_mute_queued`, `add_queued_contact` |
| `Sweep`, `Look` | the start of a turn of `_periodic_queue_drain`: who waited too long, else the oldest if any agent is free |
| `Dequeue` | `Router.dequeue` for an agent that became ready |
| `Hear` | `SessionClosedEventHandler` |
| `Check`, `Ask`, `Zrem`, `Del`, `Publish` | what these three do with the entry, each in its order: the periodic drain asks for the queue agent before it removes, the other one afterwards |
| `MarkClosed`, `SignalTimeout` | `_emit_queue_timeout` after the removal |
| `StartQueueAgent` … `EndQueueAgent` | `process_queued` around the run of the flow: lock, `BLPOP`, escalation, the marker's end |
| `Accept`, `Activate` | `process_routed`'s guard, `activate_human_agent` |
| `Leave`, `BridgeHears` | the customer hangs up; `process_contact_event` on the customer's side |

A deployment says whether the pool has a queue agent (`attended`) and whether its agents publish `agent_ready`
(`announced`), without which the second drain never runs (`RMAIN` 1278–1283).  Ages are "recent" and "long",
that is shorter or longer than the pool's limit.

**ResumeToken.** One action per Redis call of `handle_resume` and `_handle_resume_locked`, with each way it
can fail, reads included: one that fails reads as no record, for the terminal record (`WH` 1043), the token's own
(`WH` 1126) and the noted work item (`WH` 3018).  `Requeue` and `NoteItem` are the resumed execution, which delegates
again under the same keys; `HashLost` and `TerminalExpires` are the table of tokens and the terminal record (25 h)
that do not live as long as the token.  Ghosts say what went wrong: `unguarded` (somebody went on without the lock
or outlived it), `unnamed` (no terminal record, or no more), `unread` (who could not read it), `leftover` (the record
of a consumed token stayed), `revived` (how often a consumed token came back), `failed` (between the event and the
deletion of the token).

**FlowEngine.** A run is a call of `engine.run()`; several may share the id that is written into the lock.
`Acquire`, `Load`, `Persist`, `Transit`, `Release` are the engine; the rest are the steps, an action per
await.  `Persist` is the one `SET` of the state, and each `Save` leads to it.  `SpecialistRead` and
`SpecialistMerge` are the service's read and write of the delegating pipeline; `Answer` is the gateway.
`lapsed` and `merged` are ghosts: runs that outlived their lock, and whether a specialist wrote.

**FlowValidation.** The call stack of the depth-first walk is the path; one action per call, edge and
return.  All graphs and all sets of blocking steps are initial states.

### Abstractions

* Occupants carry no string; sessions, conferences, pools, agents and items are model values.
* `max_concurrent` is a constant per instance.  The 24 h expiry of the sets, members of older formats and
  the branches for Redis errors are left out, as are snapshots, peaks and logging.
* `keep_slot_for_wrapup` (a pool setting, stamped by the bridge) is a free choice in `LifecycleEnd`; which
  candidate `_allocate` picks is a free choice of the instance.
* In `SessionClose`: the flag check and `SREM` of the gate are one step (only the gate removes single
  agents); the lifecycle event is sent at the gate, although the code spawns it a little later; marker
  and `contact_ended_at` are one step; so are the marker of `agent_done` and its publish (`SRV` 2237, 2277), whose
  event may be delivered arbitrarily late; the look at the record and the release are one step; the slot
  members of other sessions are left out.  `agent_transfer`, the release of an item from the close path
  and a specialist that defers the close are not modelled.
* In `WorkQueue`: claims do not inherit a hold (that is in `InstanceSemaphore`); the lookup of the owner by
  an expiry, `ZADD`+`SET` of an enqueue, and the deletes of an expiry's end are one step each; a lease
  expires only after the record is written (180 s against milliseconds); `LateReleased` frees the slot
  whether or not the agent's record exists (without a record it changes nothing, and the direct release
  has freed the slot); `instance_not_found` is left out.
* In `AgentPresence`: heartbeats are sent one at a time per user; the time of grace (2.5 s) is longer than a
  registration and the delivery of its event (`Settled`), since the timer's own check looks only at
  connections; an event whose delivery is later is in section 6.  The slots are left out (`SessionClose`).
* In `ResumeToken`: whether the caller may resume (holder, supervisor) is a free choice; the work item is
  what the queue has under the session's key, its claim is in `WorkQueue`.  The event is published at once or
  fails.
* In `FlowEngine`: time is in units of 200 s (lock 400 s, a task's wait 200 s).  Left out: `choice`, `reason`,
  `resolve`, `catch`, `complete`, `escalate`, `loop`, `receive`, `collect`, `delegate`; of these `receive`,
  `collect` and `delegate` wait or suspend as `menu` and `suspend` do.  Of `task` the asynchronous mode is left out
  (`task.ts` 150–182: a status asked for once, and a state saved before the engine waits); of `menu` the jump and the
  end that a mention asks for (`menu.ts` 350–375), and its limit of attempts: it may ask again any number of
  times.  A menu without a timeout waits with `BLPOP 0`
  and sets the lock to 14 460 s, so that "nobody waits longer than the timeout it waits with" (`Tick`) is an
  assumption that excludes it.
* In `PushQueue`: one contact; others only take and leave slots.  Calls between which nobody else can see a
  difference are one step, as the module's head lists.  Admission, the channel's veto of a mute queue, the drop of
  a contact that no resource can ever serve, affinity, the expiry of keys and a crash of the engine are left
  out; so is the customer's connection after a timeout, when the contact is closed already.  The queue agent's
  answers to messages are left out: they return it to its menu.
* In `FlowValidation`: which successors a step has, by kind, is a free choice of the graph.

## 3. Runs

`PROJECT.json` "runs" and "mutants" list them; each property of a passing run has a mutant of the code
(a dropped guard, an off-by-one, a missing reset) under which TLC finds it violated.

| run | bounds | question | states |
|---|---|---|---|
| `semaphore` | 1 instance of 2 slots, 2 sessions × 2 conferences × 2 tags, 3 instants, clock lag 1 | do the scripts and the reaper keep the promises, and the ledger? | 54 000 |
| `close_two` | 2 agents of one slot, each allocated twice; 2 troubles: drops, logouts, redelivery | do the close handlers agree, does every slot come back, and nobody's go? | 216 000 |
| `close_three` | 3 agents, the reaper | two handlers between another's `SREM` and `SCARD`; slots freed by several hands | 1 100 000 |
| `work_queue` | 2 agents of one slot, 2 items | claims, roll-backs, returns, submits | 146 000 |
| `work_queue_supervisor` | 2 agents, 1 item; drops, deadlines | the board in spite of closes in any state; what is given back can be claimed | 30 000 |
| `occupancy` | 2 instances, 2 coroutines, reaper, reconciliation | is the counter the sum; is an untouched mirror exact? | 525 000 |
| `flow_validation` | every graph of 3 steps, every set of blocking steps | are the reported cycles real; is a region without exit and without a block reported? | 234 000 |
| `flow_engine` | 3 runs of 2 instances, 7 steps (one of each kind), 3 entries | one holder, no lost state, repeats only after crashes, a decision stands | 970 000 |
| `resume_token` | an agent, a supervisor, the scanner; 2 troubles of 6 kinds | resumed once; refusals named; the next item stays; a listed token goes | 415 000 |
| `presence` | 1 user, 2 pools, 3 connections, 1 pause, 2 events, 1 handler | who is connected is a member; who is a member is connected or about to go | 2 000 000 |
| `push_queue` | 1 contact, 2 agents, 1 task of the engine, 2 runs of the queue agent, 3 deployments | one taker; no loss without trace; no endless wait; no closed contact in the queue | 308 000 |
| `push_two_drains` ✗ | the same, 1 run, both drains | one taker, where both drains run | |

**Why the bounds are enough.**  The semaphore's scripts look at one instance: two slots are the least with
an instance that is neither empty nor full, and two sessions, conferences and tags the least where
identities differ in each part.  `HoldTtl` 1 and `MaxTime` 2 let a hold be live, expire, and be looked at
with a clock that is behind.  For closes, two agents show every race of two handlers; the third lets
two handlers run between two calls of another.  For the pull queue one slot per agent and two items
make a claim fail after its `ZREM`; three agents let a third take what an old tab returns.
In `close_two` each agent may be allocated twice (`MaxJoins`), the least with which a release of the first allocation
can meet the second, and two troubles (`MaxTroubles`) let a drop and a logout, two drops, or a drop and a redelivery
happen in one history; a second submit is in section 6.  `close_three` has one allocation each and no drops.  A flow of three steps has every shape two cycles can share a
step in.  In `FlowEngine` the third run is the least with which one takes over from two that were refused or
died; `LockTtl` 2 against waits of 0 and 1 lets a lock lapse during a call and be renewed by a menu.  Three
callers of `ResumeToken` are the kinds there are, and two troubles are the least with which a consumed token comes
back (its record left behind, the terminal record unread); with three all properties hold too (4 minutes).  In
`presence` the third connection is a reconnection to the pool of the first; the constraint `Whole` stops
where `torn` is not empty, where neither property promises anything.  In `push_queue` two agents are the least a
contact can be given to twice, the second run of the queue agent the least that meets the first one's lock and
marker; with a second task (`MCPushQueueTasks`, 738 000 states) the safety properties hold too.  Deadlock is not checked: all
these systems stop when there is nothing left to do.

**Faults.**  `Faults` names the troubles of a run: `redeliver`, `resubmit`, `late_join` (an activation
overlaps a close), `early_rejoin` (a re-route is allocated before the bridge has finished with all who left), `drop`,
`unregister`, `reap`; `drop`, `reclaim`, `stale_release`, `expire`; `crash`, `merge` (a
specialist writes the state of its parent), `slow_gateway` (a token is answered twice); `crash`, `fail` (a
Redis or Kafka call), `hash_lost` (the table of tokens expires), `outlived` (the terminal record does), `slow` (a holder outlives its lock), `lockless`
(Redis does not answer the lock).

**Fairness.**  Weak fairness of `Task(i)` (the bridge's or the routing engine's handling of a message it has
consumed: a coroutine that is never cancelled and whose Redis calls return) and of each claim, release
and expiry in progress.  In `ResumeToken`: of each caller's handling once begun, of the scanner, which wakes
every minute, and of the deadline and the lock's time to live, which pass.  In `PushQueue`: of each task once begun, of the periodic loop, which sleeps and
comes round, of the consumers, the queue agent's flow, and the clock; no agent ever has to be free or to say so.
Agents, allocation, the reaper, logins, other deadlines and the clock owe nothing.  `FlowEngine`, `FlowValidation` and `AgentPresence` state no
fairness and no liveness.

## 4. Properties, and what the checks show

* **Slots** (`Capacity`, `OneSlotPerIdentity`, `HoldIsHandedOver`, `HoldReplacesSlot`, `LedgerSpec`): a stale clock,
  a redelivered `agent_done` and a reaper between its calls break none of them.
* **Closing** (`MarkedOnlyWhenOver`, `EndedOnlyWhenEmpty`, `EndsWhenLastLeaves`, `WorkingHasSlot`,
  `SlotReturned`, `NoSlotLeaks`): with one submit per agent the marker is right once all is quiet, the contact
  ends exactly when nobody is left, and slots come back, the record provided.  A release names a session and not an
  allocation: it frees nobody's slot who is at work, unless that agent itself was allocated the contact again before
  its last departure was heard of.  And a contact whose last agent is done ends, unless the drop of that agent
  passed the gate before its `agent_done`: then the re-route meets the marker, and nothing ends it (section 6).
* **Work items** (`QueuedHasNoOwner`, `WorkerIsHolder`, `EndedLeavesNothing`, `BoardSpec`,
  `ReturnedComesBack`): the four records agree, and no item is lost or held twice.
* **Occupancy** (`CounterIsSum`, `RestIsExact`): scores and counter change in one script, so they agree in every
  state; with the slots they agree where no update was lost, raced or bypassed.
* **Presence** (`ConnectedIsMember`, `NobodyIsForgotten`): the timers, the checks and the two scripts keep record and
  sets in step with the connections, pauses and reconnections included, as long as no event is handled
  on pools that have changed meanwhile.
* **Waiting** (`OneTaker`, `LossLeavesTrace`, `WaitEnds`, `ClosedLeavesQueue`): the periodic drain alone gives a contact
  to one agent, although nothing in it asks who removed the entry, since sweep and drain are one coroutine.  A
  contact can be lost: a routing that meets the queue agent's lock is dropped, a signal may be pushed to a run that
  has ended, an entry that is not yet stored is taken for a stale one.  `LossLeavesTrace` says that there are no
  other ways.  A contact that is closed while it is being stored is caught by the next turn of the loop.
* **Resume** (`ResumedOnce`, `RefusalIsNamed`, `NextItemStays`, `ListedIsResumed`): lock and deletion make the resume
  unique; each exception is a named failure between the event and the deletion, or a consumed token that came back,
  which takes two best efforts that fail.  Who could not read the terminal record may be told that the token is
  unknown; everybody else is told who was first.
* **Flows** (`HolderIsAlone`, `NothingIsOverwritten`, `CompletedIsNotRepeated`, `RepeatsNeedCrashes`, `DecisionStands`): as
  long as no lock lapses, what was written is what the run knows; an effect is repeated only by a run that
  takes over from a dead one.
* **Validation** (`ReportsAreCycles`, `TrapsAreRejected`): each report is a cycle nothing blocks, and a region that
  can neither be left nor blocked in is always reported.

### Disagreements found

One run ends in a violation; `PROJECT.json` "findings" quotes the lines.

* `push_two_drains` — both drains read the entry and the contact before they remove it, ignore what `ZREM` answers
  (`RMAIN` 1511, `REG` 2667) and publish.  "Remove from queue before acting — prevents double-routing" (`RMAIN` 1510)
  holds only for a drain that is alone.

Others are in section 6.

## 5. Proofs

No theorem takes anything on trust; the assumptions are the named ones of the modules.  Every safety invariant,
action property and refinement that a passing run checks is stated by a theorem, for every value of the
constants.  Where a theorem has a hypothesis on `Faults` or on the order of steps, the property is false without
it, as section 6 shows, or the paragraph says that it is the proof that needs it.

**`InstanceSemaphoreProofs`.**  `Max` is a positive natural number per instance, the time parameters
are naturals.  The sets of instances, sessions, conferences and pools may be infinite.

* `TypeCorrect`: `Spec => []TypeOK`.  `TypeOK` is inductive, and carries what the reaper needs: the members of a
  reap in progress are occupants, so it removes no hold.
* `StepIsScript` reduces every step to "no members change" or "one script on one instance", so the other
  invariants need one lemma per script: `ClaimFits`, `SwapFits`, `RemovalFits` for `CapacityHolds`,
  `ScriptKeepsOneSlot` for `OneSlotHolds`.  The cardinalities come from the library's facts on finite sets.
  `Capacity` includes finiteness, without which cardinality says nothing; it is inductive relative to
  `TypeOK`.  A swap never adds a member, since its hold replaces at least one occupant, and a claim
  adds one only when the swept set has room.
* `HoldsReplaceSlots`, `HoldsAreHandedOver`: the action properties, by cases on the script.
* `ImplementsLedger`: `Spec => LedgerSpec`.  Each script is a lapse, a take or a stop on what the set means
  to the ledger: requests served and number of holds (`ClaimIsTake`, `SwapIsStop`, `OccupantsLeave`);
  `LedgerCounts` relates these to the number of members.

**`FlowValidationProofs`**, for every set of steps, finite or not.

* `ValidationTypeCorrect`: a step is grey exactly while it is on the path, and is there once.
* `RejectionIsSound`: the path is a chain of edges (`PathIsChain`), the back edge closes the end of it, and
  what was reported stays (`PathStays` says that a prefix of the path does not change while it is there).
* `AcceptedHasNoTrap`: as long as nothing was reported, no step of a region `S` that is closed, endless and
  without a blocking step turns black (`TrapsStayOpen`).  The one that would be first has a successor in `S`
  whose edge was followed, which is not black; so it is on the path (`EdgesFollowed`), not further on, since
  the returning step is the last, and not further back without a blocking step between, but all between is
  in `S` (`PathStays`).

**`FlowEngineProofs`**, for every flow, number of runs and instances, and every time to live.

* `EngineTypeCorrect`, and `LockExcludes` (`HolderIsAlone`): who has not lapsed holds the lock with its own id;
  each action that lets the lock go adds to `lapsed` whoever goes by that id.
* `ProgressIsKept` (`NothingIsOverwritten`): of the runs that have not lapsed there is one, so each `Persist`
  writes what the only memory has.
* `CompletedStays`, `DecisionIsKept`: the sentinels are those of the kind of the step, and a run that is about to call
  or to publish has written its own (`MarkInv`).  An undisturbed run that holds the lock has nothing in mind that would
  undo what is written (`AllRespect`): it loaded it, or wrote it itself.
* `RepeatsAreDeaths` (`RepeatsNeedCrashes`), for flows without cycles: a `rank` that grows along every transition, the one
  from a failure inside a transaction to where the transaction's failures go included (`Ranked`; `open` names the
  transactions that may be open at a step).  A flow with a cycle repeats a step without a crash, so the property needs
  this; the flow of the run has a rank.  The invariant (`CountInv`) counts: no step beyond the one that is written
  has had its effect, none had it more often than there were deaths, plus one, and the written step had that last one
  only if a living run is past it.

**`ResumeTokenProofs`**, for every set of callers and every number of troubles.

* `TokenTypeCorrect`, `ResumeIsOnce`, `ConsumedIsKnown` (`RefusalIsNamed`), `NextItemIsSpared`, with every failure of
  the run and any number of them.  The invariant counts: each event is a failure's or a returned token's, but one,
  which is of the consumption or of who is about to consume (`Counted`); where the lock excluded, one caller at
  most is at work (`Alone`, `Ordered`); a consumed token is not listed, and who is past the terminal record then
  could not read it, or it is lost, and brings the token back only from a record left behind (`Gone`, `Excused`).

**`WorkQueueProofs`**, for all agents, items, slots and pools.

* `WorkQueueTypeCorrect`, with `CallsOK`: a call under way is on an item that was posted.
* `TokenInv` is what the four records say between them.  Nobody has an item that is in the queue, no two agents have the
  same one (`OneHolder`), an agent has it in one way only (`OneWay`: at work, claiming, or giving back), who has not got
  it owns neither lease nor record nor slot of it (`Traceless`), and the stage of a call says which of the three its
  own agent has by now (`Staged`).  `ZREM` hands the token out, `ZADD` takes it back.
* From it: `QueuedIsFree` (`QueuedHasNoOwner`), where nobody releases what he no longer has (`stale_release`, section 6).
* `WorkerHolds` (`WorkerIsHolder`) adds that a claim keeps what it has taken (`Keeps`) and that no release of
  the same agent and item is left over from before (`NoLeftovers`), which is why `reclaim` is excluded: the events
  name a session and not a claim.
* `EndedIsGone` (`EndedLeavesNothing`): an item that is over is in nobody's hands, and `expiry` says which records are
  still to be removed (`Gone`).  A drop may happen; a deadline may not, since it may fire during a claim (section 6), and
  neither may releases of what is no longer held.
* `ImplementsBoard` (`BoardSpec`): the board's "held by" is a set, so `OneHolder` is what makes it a place of the board,
  and `NoneLost` says that the set is empty only when the item is in the queue or over.

**`PushQueueProofs`**, for any agents, tasks and runs of the queue agent, in deployments where agents announce nothing and the
periodic drain is alone (`~announced`, as both properties say; with both drains `push_two_drains` shows `RoutedOnce`
violated, and section 6 the rest).

* `GivenOnce` (`OneTaker`): the contact is in one place at a time (`Places`): a request, a task, the queue, a
  signal, an escalation, an agent, its timeout.  `Single` says that each place has it once.  An entry that the drain
  has read and not yet removed is still "the queue", because sweep and drain are one coroutine (`Shape`).
* `LossIsSeen` (`LossLeavesTrace`): if it is in none of them, one of the named traces is there.

**`AgentPresenceProofs`**, for all users, pools, connections and events.

* `ConnectedIsIn` (`ConnectedIsMember`): who is connected and has registered is a member, unless `torn`.
* `ForgottenOnlyByAnother` (`NobodyIsForgotten`): a member is *kept*: a connection to the pool is open or a timer
  of one that has closed is running (`MemberInv`); so is whoever is registering (`RegInv`); an event of a login is about
  somebody with pools, so its late handling cannot bring an empty record back (`LoginInv`); who is offered
  contacts is kept or about to be taken out (`OfferedInv`).  The timers are kept by pool, so a connection that
  opens may cancel another user's (section 6): the hypothesis is that none does (`CancelsOwn`), which is on the steps
  and leaves a pool as many users as it has.

**`SlotUsersProofs`**, about `SessionClose` and `TenantOccupancy`, for any agents, conferences, workers and capacities.

* `CloseImplementsSemaphore`, and `OccupancyIsSemaphore` in its proof of the mirror: each step is one of the semaphore or
  changes none of its variables, so `Capacity`, the two action properties and the ledger hold in both.
* `WorkersHaveSlots` (`WorkingHasSlot`), for any number of allocations: a release names a session and not an
  allocation, so the invariant says that of who is in the contact or at its door no release is pending, unless it is
  `overlapped` (`WorkInv`).  Only the reaper is excluded (section 6).
* `MarkerIsUndone` (`MarkedOnlyWhenOver`) rests on `GateInv`: nobody is on the way in while somebody is on the way
  out; who was found to be the last stays the last; the flag is up while anybody is in.  A marked contact with
  agents is then one whose marker is about to be deleted (`MarkInv`).  It excludes `early_rejoin`: the contact is
  allocated again when the bridge has finished with those who left; without that the property is false (section 6).
  `MarkerIsUndoneWithoutDrops` needs no such thing: only a drop has the contact routed again (`DoneInv`).
* `EndIsRight` (`EndedOnlyWhenEmpty`), without drops (section 6): the decision is stable, since nobody is at the door
  of an ended contact and only the first routing, which came before, needs no agent in it (`EndInv`).
* `SlotsComeBack` (`NoSlotLeaks`): a slot belongs to somebody who is in, at the door, or of whose departure the
  routing engine has yet to hear (`LeakInv`).  A deleted record makes the release void, and two simultaneous drops leave
  a slot behind (both in section 6); the proof excludes all drops.
* `FlagIsKept` (`FlagOutlivesAgents`, which no run checks): the flag is put out over an empty set.
* `MirrorIsExact` (`RestIsExact`): one worker at most owes an instance's mirror an update while nothing went
  astray, and what it owes is the occupancy of now (`ExactOf`).  A refused claim owes nothing although it sweeps:
  with `Capacity`, an instance whose expired holds were swept away would have had room (`RefusedSweepsNothing`).
* `CounterIsTheSum` (`CounterIsSum`), for finitely many instances: `CounterInv` adds that a reconciliation has read
  sum and counter in one script, so it never has a difference to write.  The sum is a fold, which is a recursive
  function.  That the recursion has a solution (`FoldExists`), that its values are numbers (`FoldValues`), and that a
  changed score changes the sum by the difference (`FoldChanges`) is induction, made by hand: among the sets
  that would be an exception one has no smaller one in it (`LeastSet`, from the well-foundedness of `<` on `Nat`), and the
  element the fold takes out of it leads to one.

Only model-checked: liveness (`EndsWhenLastLeaves`, `SlotReturned`, `ReturnedComesBack`, `ListedIsResumed`, `WaitEnds`,
`ClosedLeavesQueue`), which is under fairness and out of the prover's reach; and that the properties of section 6
are violated.

## 6. Known, without a run

Seen with TLC while modelling, and left out of the runs to keep their number small.  The first have a
cfg of their own (`tlc -config X.cfg MC…` prints the trace); the others come back by the named change of one.

| cfg | property | what happens |
|---|---|---|
| `MCSessionCloseResubmit` | `MarkedOnlyWhenOver` | a second `agent_done` marks a live contact closed again; the gate that ignores the duplicate returns (`B` 7400) before the code that would delete the marker |
| `MCSessionCloseReap` | `WorkingHasSlot` | the marker is also set while an agent leaves and others stay; a reap in that window (`REG` 1051) frees the slot of an agent at work |
| `MCSessionCloseUnregister` | `NoSlotLeaks` | the timer that announces a drop deletes the instance record; the release that follows is conditional on it (`REG` 2111), so the slot stays taken |
| `MCSessionCloseOvertaken` | `DoneEndsContact` | the last agent submits `agent_done` and closes the tab before the bridge's `SREM`: the timer finds it in the set and publishes a drop, which passes the gate first.  The re-route is discarded because of the marker (`RMAIN` 252), the `agent_closed` finds no agent and returns (`B` 7400), and the contact is never ended; `SRV` 3820: "O sismember dedup evita republicar quando o humano já fechou via agent_done (o SREM já o tirou da SET)" |
| `MCSessionCloseRejoin` | `MarkedOnlyWhenOver` | two agents drop, both handlers see themselves last, and each has the contact routed again; the `DEL`s of the second take the flag and the set from under the agent of the first re-route, whose `agent_done` marks the contact and is ignored; the marker stays |
| `MCWorkQueueReserved` | `ReservationHonoured` | the reservation is read before the `ZREM` (`ROU` 696, 732); another agent may claim and drop the item in between, and it is then reserved to him |
| `MCWorkQueueStale` | `QueuedHasNoOwner` | `work_task_release` asks nobody (`ROU` 921): an old tab puts an item into the queue that another agent holds |
| `MCWorkQueueReclaim` | `WorkerIsHolder` | the second release of a returned item is idempotent only if the agent has not claimed it again (`B` 7676) |
| `MCTenantOccupancyLose` | `DriftIsFound` | counter and sum change in one script: an update lost before it is invisible to the reconciliation that exists for it (`REG` 1557) |
| `MCFlowValidationMissed` | `UnguardedCyclesAreRejected` | a guarded and an unguarded cycle share a step; once the first is done the step is finished, the second is not met (`ENG` 283) and the flow is accepted; `ENG` 252: "every cycle in the flow step graph is controlled" |
| `MCAgentPresenceTwo` | `NobodyIsForgotten` | timers of grace are kept by pool (`SRV` 2912): the connection of one agent cancels the timer of another of the pool, who is then never taken out; `SRV` 2916: the unregistration "pertence a uma CONEXÃO" |
| `MCPushQueueUnfit` | `WaitEnds` | an agent is free that the contact does not fit: each turn of the drain takes the contact out, and `_process_message` ends its wait (`RMAIN` 297) before it finds nobody and queues it anew, so its limit is never reached; `RMAIN` 885–887, `mute_queue.py` 159: a queueing again keeps the first wait |
| `MCFlowEngineResume` | `ResumeIsFollowed` | a resume that meets the lock is refused with 412 and not repeated, although `steps/suspend.ts` 24–28 reads as if a resume with a valid token is followed |
| `MCFlowEngineMerge` | `MergeIsKept` | the specialist's context is overwritten by the parent's next save; `index.ts` 787–788: "this write is safe (no race)" |
| `MCResumeTokenUnnamed` | `LostNameCostsNoMore` | without the terminal record, a consumed token whose own record was left behind is put back by the next caller and resumed again; `WH` 1076: "perder o registro custa o NOME da recusa, não a unicidade" |
| `MCResumeTokenLeftover` | `LeftoverIsHarmless` | the same with the terminal record in place: the next caller's `GET` of it fails, which reads as no record (`WH` 1043), and the token comes back; `WH` 1539–1541: "sobra vira lixo com TTL, nunca token ressuscitado" |

The type invariants of `SessionClose`, `WorkQueue`, `TenantOccupancy`, `AgentPresence` and `PushQueue` are theorems (section
5); added to the cfgs of their runs they pass, too, and `MCPushQueueTasks` has the last.

* `expire` and `EndedLeavesNothing`: a claim past its `ZREM` writes slot, lease and record after the
  expiry looked (`ROU` 1167).
* A menu that finds its lock gone fails the step but the run goes on (`menu.ts` 264–266, `state.ts` 112); a `task`
  whose process dies between the delegation and its job id is delegated again (`task.ts` 7–9); the target of a
  transaction is only in memory (`begin-transaction.ts` 11), so a run that takes over does not rewind.
* `presence` without `Whole`: a heartbeat, login, pause or resume writes the record over a concurrent join
  or leave; the `agent_ready` of a resume, handled after the logout, creates the record again (`RKL` 453 takes
  that combination of facts for a login's); an orphan in the ready set is offered contacts, since
  `get_ready_instances` (`REG` 1785–1854) looks at the state and not at the pools.
* A paused agent who leaves one of two pools is announced ready until the next heartbeat (`SRV` 819); the
  timer publishes `agent_disconnect` before it asks for a live connection (`SRV` 3828–3851); the quota is
  checked, then used (`SRV` 391–400).
* `PushQueue` where both drains run, without the guard `~announced`: a contact may be closed for its wait and served
  (`OneTaker`); and a drain that is late with its `DEL` deletes the contact that the other one published and
  nobody could serve, which is in the queue again, its entry then stale (`LossLeavesTrace`).
* The two drops of `MCSessionCloseRejoin` and `NoSlotLeaks`: the agent of the first re-route is no member any more and
  keeps his slot.
* `drop`, four agents, and `EndedOnlyWhenEmpty`: one agent is done and one drops, both are found to be the last.  The
  marker of the first would discard the routing of the second, but the handler of a third, who had found others
  there before, deletes it (`B` 8118–8140); a fourth agent enters while the end is decided.
* `late_join` and `FlagOutlivesAgents`: an activation between `SCARD` and the `DEL`s (`B` 7715) loses its flag
  and its membership.
* `close_two` without the exemption of `overlapped` in `WorkingHasSlot`: an `agent_released` that is late frees the
  slot of the next allocation of the same instance (`REG` 966).
* A consumed token, its terminal record in place and one failing `GET` of it: the caller is told that the token is
  unknown, although `WH` 1184–1188 promises that a token that was ended is refused with its cause; `RefusalIsNamed`
  exempts who could not read.
* A submit between the `ZREM` and the lease of a claim finds neither queue nor owner, and is let through
  (`ROU` 629).
* `remove_conversation` sets a paused instance to ready (`REG` 2137), and the record is written whole by
  several coroutines (`REG` 2145, 2438).

## 7. Plan, and what is not modelled

In this order; the number of runs is kept at twelve, so a new run replaces one whose question is settled.

1. **CrashRecovery**: the crash detector that puts the conversations of a dead instance back, beside `PushQueue`
   (its look at the engine's lock and the deletion of the instance's metadata, `crash_detector.py` 190).
2. **InstanceState**, the rest: `mark_busy`, `remove_conversation` and the busy set beside `AgentPresence`.
3. **ContactLayers**: hook counters, their timeout guard, the two idempotent layers of the close.
4. **Admission**, **WorkflowInstance** (the status machine in PostgreSQL and its timeout job,
   which commits before it publishes), then
   **Scheduler**, **Mailing**, **Contestation**.

Proofs next: `SlotsComeBack` and `EndIsRight` with drops, under the hypothesis that no two agents drop or end at once; `SlotsComeBack` without the hypothesis that no record is deleted, for agents of several pools; `OneTaker` with both
drains, for the orders in which it holds; then the modules of the list above as they are written.

## 8. Running

```
tlc -config MCSessionClose.cfg MCSessionClose
tlc -config MCSessionCloseOvertaken.cfg MCSessionClose     # section 6
tlapm SlotUsersProofs.tla
```
