------------------------------ MODULE PushQueue ------------------------------
(***************************************************************************)
(* One contact that finds no agent in a push pool: the engine stores it in *)
(* the pool's queue, a periodic loop and the drain that an agent_ready     *)
(* event starts take it out and publish it again, a sweep closes it when   *)
(* it has waited too long, and a queue agent, if the pool has one, talks   *)
(* to it meanwhile.  Every message is handled by a task of its own, and a  *)
(* task gives way at each call of Redis, so a step here is one such call,  *)
(* unless nothing between two of them is seen by anybody else: the guard    *)
(* and the end of the wait (Receive), contact and stamp (Store), contact    *)
(* and end of the wait (Del), the closed marker and the stored contact      *)
(* (Check), both markers of a timeout (MarkClosed).                         *)
(* Left out: admission, the policies that refuse a queue at once, the       *)
(* expiry of keys, affinity, other contacts but for the slots they take,    *)
(* and what the customer's connection does after a timeout.                 *)
(***************************************************************************)
EXTENDS Naturals, Sequences, FiniteSets

CONSTANTS
    Agent,          \* human agents of the pool, of one slot each
    Fits,           \* those the hard filters let this contact go to
    Task,           \* _process_message tasks at a time (model bound)
    QueueRun,       \* process_queued tasks at a time (model bound)
    None,
    MaxOthers,      \* times other contacts take an agent (model bound)
    MaxReadies,     \* agent_ready events that find the contact (model bound)
    Deployments,    \* what is attended and announced, in the pools looked at
    MaxMessages     \* messages of a kind on their way (model bound)

ASSUME PoolAssumption ==
    Fits \subseteq Agent /\ None \notin QueueRun /\ Deployments \subseteq BOOLEAN \X BOOLEAN
ASSUME QueueBounds == MaxOthers \in Nat /\ MaxReadies \in Nat /\ MaxMessages \in Nat \ {0}

VARIABLES
    attended,       \* the pool names a queue pool (queue_config.pool_id)
    announced,      \* its agents publish agent_ready
    slot,           \* agent -> "free", "other", "ours"
    others,         \* times one was taken
    readies,        \* agent_ready events so far
    queue,          \* age of the contact's score in {t}:pool:{p}:queue; "out": not in it
    stored,         \* {t}:queue_contact:{s}
    first,          \* age of {t}:queue:first_queued:{s}; "none": no such key
    closed,         \* session:{s}:closed
    fired,          \* session:{s}:contact_close_fired
    left,           \* the customer has gone
    closing,        \* who has still to handle a contact_closed
    inbound,        \* routing requests on conversations.inbound
    queued,         \* events on conversations.queued
    routed,         \* agents of the events on conversations.routed
    accepted,       \* agents whose event has passed process_routed's guard
    humans,         \* agents activated: session:{s}:human_agent
    marker,         \* queue:agent_active:{s}
    signals,        \* menu:result:{s}; LPUSH and BLPOP are both at its head
    hangup,         \* session:closed:{s} holds an element
    lock,           \* the queue run that holds {t}:pipeline:{s}:running
    run,            \* queue run -> where process_queued is
    task,           \* task -> where _process_message is, the score it is to write
    remover         \* who takes contacts out -> where it is, why, the marker it read

pool  == <<attended, announced>>
agent == <<slot, others, readies>>
entry == <<queue, stored, first>>
ended == <<closed, fired, left, closing>>
bus   == <<inbound, queued, routed>>
human == <<accepted, humans>>
talk  == <<marker, signals, hangup, lock, run>>
vars  == <<pool, agent, entry, ended, bus, human, talk, task, remover>>

Remover == {"periodic", "ready", "listener"}
Ages    == {"recent", "long"}
Idle    == [at |-> "idle", why |-> "none", marked |-> FALSE]

Init ==
    /\ \E d \in Deployments : attended = d[1] /\ announced = d[2]
    /\ slot \in [Agent -> {"free", "other"}] /\ others = 0 /\ readies = 0
    /\ queue = "out" /\ stored = FALSE /\ first = "none"
    /\ closed = FALSE /\ fired = FALSE /\ left = FALSE /\ closing = {}
    /\ inbound = 1 /\ queued = 0 /\ routed = {}
    /\ accepted = {} /\ humans = {}
    /\ marker = FALSE /\ signals = <<>> /\ hangup = FALSE /\ lock = None
    /\ run = [r \in QueueRun |-> "none"]
    /\ task = [k \in Task |-> [at |-> "idle", score |-> "recent"]]
    /\ remover = [d \in Remover |-> Idle]

-----------------------------------------------------------------------------
(* The world: other contacts, the customer, the clock.                     *)

OtherTakes(a) ==
    /\ slot[a] = "free" /\ others < MaxOthers
    /\ slot' = [slot EXCEPT ![a] = "other"] /\ others' = others + 1
    /\ UNCHANGED <<pool, readies, entry, ended, bus, human, talk, task, remover>>

OtherLeaves(a) ==
    /\ slot[a] = "other"
    /\ slot' = [slot EXCEPT ![a] = "free"]
    /\ UNCHANGED <<pool, others, readies, entry, ended, bus, human, talk, task, remover>>

\* The gateway's contact_closed is read by the bridge and by the engine.
Leave ==
    /\ ~left /\ ~fired /\ humans = {}
    /\ left' = TRUE /\ closing' = closing \cup {"bridge", "listener"}
    /\ UNCHANGED <<pool, agent, entry, closed, fired, bus, human, talk, task, remover>>

\* What was recent has now lasted longer than the pool lets a contact wait.
Older(age) == IF age = "recent" THEN "long" ELSE age
TimePasses ==
    /\ queue = "recent"
    /\ queue' = Older(queue) /\ first' = Older(first)
    /\ task' = [k \in Task |-> [task[k] EXCEPT !.score = Older(@)]]
    /\ UNCHANGED <<pool, agent, stored, ended, bus, human, talk, remover>>

-----------------------------------------------------------------------------
(* _process_message and _persist_queued_contact.                           *)

\* A task moves on, or is done.
Goto(k, at) == task' = [task EXCEPT ![k].at = at]
Rest(k) == task' = [task EXCEPT ![k] = [at |-> "idle", score |-> "recent"]]

\* What is closing is not routed; for the rest resolve_queue_exit declares the
\* wait over, before anybody knows whether there is an agent.
Receive(k) ==
    /\ task[k].at = "idle" /\ inbound > 0
    /\ inbound' = inbound - 1
    /\ IF closed THEN UNCHANGED <<task, first>> ELSE Goto(k, "route") /\ first' = "none"
    /\ UNCHANGED <<pool, agent, queue, stored, ended, queued, routed, human, talk, remover>>

\* Router.route allocates: the slot, and the event for the bridge.
Route(k, a) ==
    /\ task[k].at = "route" /\ a \in Fits /\ slot[a] = "free"
    /\ slot' = [slot EXCEPT ![a] = "ours"]
    /\ routed' = routed \cup {a}
    /\ Rest(k)
    /\ UNCHANGED <<pool, others, readies, entry, ended, inbound, queued, human, talk, remover>>

\* The event is out before the contact is stored.
NoAgent(k) ==
    /\ task[k].at = "route" /\ \A a \in Fits : slot[a] # "free"
    /\ queued < MaxMessages
    /\ queued' = IF attended THEN queued + 1 ELSE queued
    /\ Goto(k, IF attended THEN "zadd" ELSE "mark")
    /\ UNCHANGED <<pool, agent, entry, ended, inbound, routed, human, talk, remover>>

\* mark_mute_queued: the first stamp stays, and is the score.
Mark(k) ==
    /\ task[k].at = "mark"
    /\ first' = IF first = "none" THEN "recent" ELSE first
    /\ task' = [task EXCEPT ![k] = [at |-> "zadd", score |-> first']]
    /\ UNCHANGED <<pool, agent, queue, stored, ended, bus, human, talk, remover>>

Zadd(k) ==
    /\ task[k].at = "zadd"
    /\ queue' = task[k].score
    /\ Goto(k, "store")
    /\ UNCHANGED <<pool, agent, stored, first, ended, bus, human, talk, remover>>

\* The contact, and the stamp if there is none.
Store(k) ==
    /\ task[k].at = "store"
    /\ stored' = TRUE
    /\ first' = IF first = "none" THEN task[k].score ELSE first
    /\ Rest(k)
    /\ UNCHANGED <<pool, agent, queue, ended, bus, human, talk, remover>>

-----------------------------------------------------------------------------
(* Taking contacts out: _periodic_queue_drain with its sweep,              *)
(* _drain_queue_for_agent, and the handler of contact_closed.              *)

\* A remover moves on, starts for a reason, or is done.
Step(d, at) == remover' = [remover EXCEPT ![d].at = at]
For(d, at, why) == remover' = [remover EXCEPT ![d] = [at |-> at, why |-> why, marked |-> FALSE]]
Stop(d) == remover' = [remover EXCEPT ![d] = Idle]

\* Mutant: the sweep looks at the pools that have no queue agent only.
MutantSweep ==
    /\ remover["periodic"].at = "idle" /\ queue = "long" /\ ~attended
    /\ For("periodic", "zrem", "timeout")
    /\ UNCHANGED <<pool, agent, entry, ended, bus, human, talk, task>>

\* The sweep comes first in a cycle.
Sweep ==
    /\ remover["periodic"].at = "idle" /\ queue = "long"
    /\ For("periodic", "zrem", "timeout")
    /\ UNCHANGED <<pool, agent, entry, ended, bus, human, talk, task>>

\* Any agent with a free slot will do, whether the contact fits it or not.
Look ==
    /\ remover["periodic"].at = "idle" /\ queue = "recent"
    /\ \E a \in Agent : slot[a] = "free"
    /\ For("periodic", "check", "take")
    /\ UNCHANGED <<pool, agent, entry, ended, bus, human, talk, task>>

\* Router.dequeue, for an agent that has become ready: a stored contact it fits.
Dequeue ==
    /\ remover["ready"].at = "idle" /\ announced /\ readies < MaxReadies
    /\ queue # "out" /\ stored
    /\ \E a \in Fits : slot[a] = "free"
    /\ For("ready", "check", "take")
    /\ readies' = readies + 1
    /\ UNCHANGED <<pool, slot, others, entry, ended, bus, human, talk, task>>

\* SessionClosedEventHandler: the marker first.
Hear ==
    /\ remover["listener"].at = "idle" /\ "listener" \in closing
    /\ closing' = closing \ {"listener"} /\ closed' = TRUE
    /\ For("listener", "check", "drop")
    /\ UNCHANGED <<pool, agent, entry, fired, left, bus, human, talk, task>>

\* What is closed is dropped, and what is not stored is taken for a stale entry.
Check(d) ==
    /\ remover[d].at = "check"
    /\ \/ closed /\ d # "listener" /\ For(d, "zrem", "drop")
       \/ ~closed /\ d # "listener" /\ stored /\ Step(d, IF d = "periodic" THEN "ask" ELSE "zrem")
       \/ ~closed /\ d # "listener" /\ ~stored /\ For(d, "zrem", "stale")
       \/ d = "listener" /\ stored /\ Step(d, "zrem")
       \/ d = "listener" /\ ~stored /\ Stop(d)
    /\ UNCHANGED <<pool, agent, entry, ended, bus, human, talk, task>>

\* Mutant: what is taken to be published stays in the queue.
MutantZrem(d) ==
    /\ remover[d].at = "zrem"
    /\ queue' = IF remover[d].why = "take" THEN queue ELSE "out"
    /\ IF \/ remover[d].why = "timeout" /\ queue = "out"
          \/ remover[d].why = "stale" /\ d = "periodic"
       THEN Stop(d) ELSE Step(d, "del")
    /\ UNCHANGED <<pool, agent, stored, first, ended, bus, human, talk, task>>

\* Only the sweep asks whether it was the one who removed the entry.
Zrem(d) ==
    /\ remover[d].at = "zrem"
    /\ queue' = "out"
    /\ IF \/ remover[d].why = "timeout" /\ queue = "out"
          \/ remover[d].why = "stale" /\ d = "periodic"
       THEN Stop(d) ELSE Step(d, "del")
    /\ UNCHANGED <<pool, agent, stored, first, ended, bus, human, talk, task>>

\* The stored contact; with it, except for a stale entry and in the periodic
\* drain, the wait: resolve_queue_exit.
Del(d) ==
    LET why == remover[d].why
        waits == why = "stale" \/ (why = "take" /\ d = "periodic") IN
    /\ remover[d].at = "del"
    /\ stored' = FALSE
    /\ first' = IF waits THEN first ELSE "none"
    /\ CASE why = "take" -> Step(d, IF d = "periodic" THEN "publish" ELSE "ask")
         [] why = "timeout" -> Step(d, "mark")
         [] OTHER -> Stop(d)
    /\ UNCHANGED <<pool, agent, queue, ended, bus, human, talk, task>>

\* The periodic drain asks before it removes, the other one afterwards.
Ask(d) ==
    /\ remover[d].at = "ask"
    /\ remover' = [remover EXCEPT ![d].marked = marker,
                                  ![d].at = IF d = "periodic" THEN "zrem" ELSE "publish"]
    /\ UNCHANGED <<pool, agent, entry, ended, bus, human, talk, task>>

\* Mutant: the queue agent is signalled and nothing else is ever sent.
MutantPublish(d) ==
    /\ remover[d].at = "publish"
    /\ signals' = IF remover[d].marked THEN <<"available">> \o signals ELSE signals
    /\ Stop(d)
    /\ UNCHANGED <<pool, agent, entry, ended, inbound, queued, routed, human, marker, hangup,
                   lock, run, task>>

Publish(d) ==
    /\ remover[d].at = "publish"
    /\ IF remover[d].marked
       THEN signals' = <<"available">> \o signals /\ UNCHANGED inbound
       ELSE inbound' = inbound + 1 /\ UNCHANGED signals
    /\ Stop(d)
    /\ UNCHANGED <<pool, agent, entry, ended, queued, routed, human, marker, hangup, lock, run, task>>

\* _emit_queue_timeout: the markers, the queue agent's signal, contact_closed.
MarkClosed ==
    /\ remover["periodic"].at = "mark"
    /\ closed' = TRUE /\ fired' = TRUE
    /\ Step("periodic", "signal")
    /\ UNCHANGED <<pool, agent, entry, left, closing, bus, human, talk, task>>

SignalTimeout ==
    /\ remover["periodic"].at = "signal"
    /\ signals' = IF marker THEN <<"timeout">> \o signals ELSE signals
    /\ closing' = closing \cup {"listener"}
    /\ Stop("periodic")
    /\ UNCHANGED <<pool, agent, entry, closed, fired, left, bus, human, marker, hangup, lock, run, task>>

-----------------------------------------------------------------------------
(* The bridge: the queue agent, and the agent who takes the contact.       *)

At(r, at) == run' = [run EXCEPT ![r] = at]

\* process_queued: the marker, then the flow, for as long as the wait lasts.
StartQueueAgent(r) ==
    /\ run[r] = "none" /\ queued > 0
    /\ queued' = queued - 1 /\ marker' = TRUE
    /\ At(r, "execute")
    /\ UNCHANGED <<pool, agent, entry, ended, inbound, routed, human, signals, hangup, lock, task, remover>>

\* One run of the engine per session; a second one is told so and is over.
Execute(r) ==
    /\ run[r] = "execute"
    /\ IF lock = None THEN lock' = r /\ At(r, "menu") ELSE UNCHANGED lock /\ At(r, "over")
    /\ UNCHANGED <<pool, agent, entry, ended, bus, human, marker, signals, hangup, task, remover>>

\* The menu of the queue agent's flow wakes up for a signal, or for the hang-up.
Signalled(r) ==
    /\ run[r] = "menu" /\ signals # <<>>
    /\ signals' = Tail(signals)
    /\ At(r, IF Head(signals) = "available" THEN "escalate" ELSE "unlock")
    /\ UNCHANGED <<pool, agent, entry, ended, bus, human, marker, hangup, lock, task, remover>>

HungUp(r) ==
    /\ run[r] = "menu" /\ signals = <<>> /\ hangup
    /\ hangup' = FALSE
    /\ At(r, "unlock")
    /\ UNCHANGED <<pool, agent, entry, ended, bus, human, marker, signals, lock, task, remover>>

\* conversation_escalate.
Escalate(r) ==
    /\ run[r] = "escalate"
    /\ inbound' = inbound + 1
    /\ At(r, "unlock")
    /\ UNCHANGED <<pool, agent, entry, ended, queued, routed, human, marker, signals, hangup, lock, task, remover>>

Unlock(r) ==
    /\ run[r] = "unlock"
    /\ lock' = None
    /\ At(r, "over")
    /\ UNCHANGED <<pool, agent, entry, ended, bus, human, marker, signals, hangup, task, remover>>

\* The marker goes, whoever set it last.
EndQueueAgent(r) ==
    /\ run[r] = "over"
    /\ marker' = FALSE
    /\ At(r, "none")
    /\ UNCHANGED <<pool, agent, entry, ended, bus, human, signals, hangup, lock, task, remover>>

\* process_routed's guard: a session whose flow runs, or that has a human, is served.
Accept(a) ==
    /\ a \in routed
    /\ routed' = routed \ {a}
    /\ accepted' = IF lock = None /\ humans = {} THEN accepted \cup {a} ELSE accepted
    /\ UNCHANGED <<pool, agent, entry, ended, inbound, queued, humans, talk, task, remover>>

\* activate_human_agent.
Activate(a) ==
    /\ a \in accepted
    /\ accepted' = accepted \ {a} /\ humans' = humans \cup {a}
    /\ UNCHANGED <<pool, agent, entry, ended, bus, talk, task, remover>>

\* contact_closed of the gateway: the marker, and a push for a queue agent.
BridgeHears ==
    /\ "bridge" \in closing
    /\ closing' = closing \ {"bridge"} /\ closed' = TRUE
    /\ hangup' = (hangup \/ marker)
    /\ UNCHANGED <<pool, agent, entry, fired, left, bus, human, marker, signals, lock, run, task, remover>>

-----------------------------------------------------------------------------
World == Leave \/ TimePasses \/ \E a \in Agent : OtherTakes(a) \/ OtherLeaves(a)

TaskStep(k) ==
    \/ Receive(k) \/ NoAgent(k) \/ Mark(k) \/ Zadd(k) \/ Store(k)
    \/ \E a \in Agent : Route(k, a)

Remove(d) == Check(d) \/ Zrem(d) \/ Del(d) \/ Ask(d) \/ Publish(d)
Periodic == Sweep \/ Look \/ Remove("periodic") \/ MarkClosed \/ SignalTimeout
Ready    == Dequeue \/ Remove("ready")
Listener == Hear \/ Remove("listener")

QueueAgent(r) ==
    \/ StartQueueAgent(r) \/ Execute(r) \/ Signalled(r) \/ HungUp(r) \/ Escalate(r) \/ Unlock(r)
    \/ EndQueueAgent(r)
Deliver(a) == Accept(a) \/ Activate(a)

Next ==
    \/ World \/ Periodic \/ Ready \/ Listener \/ BridgeHears
    \/ \E k \in Task : TaskStep(k)
    \/ \E r \in QueueRun : QueueAgent(r)
    \/ \E a \in Agent : Deliver(a)

\* The loop comes round every few seconds, consumers poll, awaits return and
\* clocks run.  No agent need ever be free, nor say that it is ready.
Fairness ==
    /\ WF_vars(TimePasses) /\ WF_vars(Periodic) /\ WF_vars(Listener) /\ WF_vars(BridgeHears)
    /\ WF_vars(Remove("ready"))
    /\ \A k \in Task : WF_vars(TaskStep(k))
    /\ \A r \in QueueRun : WF_vars(QueueAgent(r))
    /\ \A a \in Agent : WF_vars(Deliver(a))

Spec == Init /\ [][Next]_vars /\ Fairness

-----------------------------------------------------------------------------
(* Properties.                                                             *)

Ours == {a \in Agent : slot[a] = "ours"}
Open == ~closed /\ ~left

\* Somebody, or something under way, will still go on with the contact.
Held ==
    \/ queue # "out" /\ stored
    \/ inbound > 0 \/ routed # {} \/ accepted # {} \/ humans # {}
    \/ \E k \in Task : task[k].at # "idle"
    \/ \E d \in Remover : remover[d].at # "idle" /\ remover[d].why \in {"take", "timeout"}
    \/ \E r \in QueueRun : run[r] = "escalate"
    \/ signals # <<>> /\ (queued > 0 \/ \E r \in QueueRun : run[r] \in {"execute", "menu"})

\* Type correctness.
PushTypeOK ==
    /\ slot \in [Agent -> {"free", "other", "ours"}] /\ others \in 0..MaxOthers
    /\ queue \in Ages \cup {"out"} /\ stored \in BOOLEAN /\ first \in Ages \cup {"none"}
    /\ inbound \in Nat /\ queued \in 0..MaxMessages
    /\ routed \subseteq Agent /\ accepted \subseteq Agent /\ humans \subseteq Agent
    /\ signals \in Seq({"available", "timeout"}) /\ lock \in QueueRun \cup {None}
    /\ run \in [QueueRun -> {"none", "execute", "menu", "escalate", "unlock", "over"}]

\* A contact is given to one agent, however often it is taken out of the queue
\* and published: _periodic_queue_drain removes it "before acting", which
\* "prevents double-routing".
RoutedOnce == Cardinality(Ours) <= 1

\* Where the periodic drain is the only one, a contact is given to one agent,
\* and one that was closed for waiting too long is given to nobody.
OneTaker == ~announced => RoutedOnce /\ (fired => Ours = {})

\* An open contact that no queue, message, task or agent has any more is not
\* lost without trace: a slot is taken for it, a signal lies unread, or the
\* contact is stored, with no place in the queue.
LossLeavesTrace ==
    ~announced /\ Open /\ ~Held => Ours # {} \/ signals # <<>> \/ (stored /\ queue = "out")

\* Who waits is served or closed in the end, or lost as LossLeavesTrace says,
\* whether an agent comes or not: the sweep bounds the wait of what the drain
\* cannot place.
WaitEnds == queue # "out" /\ ~announced ~> humans # {} \/ ~Open \/ ~Held

\* A contact that is closed leaves the queue for good, although a task may
\* still be storing it when the close is heard.
ClosedLeavesQueue == closed ~> [](queue = "out")
=============================================================================
