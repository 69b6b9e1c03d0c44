--------------------------- MODULE PushQueueProofs ---------------------------
(***************************************************************************)
(* Proofs about the queue of a push pool, for any number of agents, of     *)
(* tasks of the engine and of runs of the queue agent, where the periodic  *)
(* drain is the only one: whoever the contact is with, it is with nobody   *)
(* else.                                                                   *)
(***************************************************************************)
EXTENDS PushQueue, FiniteSetTheorems, TLAPS

\* Where tasks and those who take contacts out may be.
TaskAt    == {"idle", "route", "mark", "zadd", "store"}
RemoverAt == {"idle", "check", "ask", "zrem", "del", "publish", "mark", "signal"}
Why       == {"none", "take", "timeout", "drop", "stale"}

TypeInv ==
    /\ PushTypeOK
    /\ attended \in BOOLEAN /\ announced \in BOOLEAN
    /\ closed \in BOOLEAN /\ fired \in BOOLEAN /\ left \in BOOLEAN
    /\ closing \subseteq {"bridge", "listener"}
    /\ marker \in BOOLEAN /\ hangup \in BOOLEAN
    /\ task \in [Task -> [at : TaskAt, score : Ages]]
    /\ remover \in [Remover -> [at : RemoverAt, why : Why, marked : BOOLEAN]]

\* What each of those who take contacts out is there for.
Shape ==
    LET p == remover["periodic"]
        l == remover["listener"] IN
    /\ remover["ready"] = Idle
    /\ p.at = "idle" => p.why = "none"
    /\ p.at \in {"check", "ask", "publish"} => p.why = "take"
    /\ p.at \in {"mark", "signal"} => p.why = "timeout"
    /\ p.at = "zrem" => p.why # "none"
    /\ p.at = "del" => p.why \in {"take", "timeout", "drop"}
    /\ p.why = "drop" \/ p.at = "signal" => closed
    /\ l.at \in {"idle", "check", "zrem", "del"}
    /\ l.at # "idle" => l.why = "drop" /\ closed
    /\ "listener" \in closing => closed \/ left
    /\ fired => closed

-----------------------------------------------------------------------------
(* There is one contact: a request, the task that handles it, the place in *)
(* the queue, the signal to the queue agent and its answer, the agent and  *)
(* the timeout are one after another.                                      *)

Bears(k) == task[k].at \in {"route", "mark", "zadd"}

\* The periodic drain has taken the contact out.
TakenOut ==
    LET p == remover["periodic"] IN
    \/ p.why = "take" /\ p.at \in {"del", "publish"}
    \/ p.why = "timeout" /\ p.at \in {"del", "mark"}

Waits ==
    LET p == remover["periodic"] IN
    \/ queue # "out" \/ TakenOut
    \/ p.why = "take" /\ p.at \in {"check", "ask", "zrem"}

Calls == {j \in 1..Len(signals) : signals[j] = "available"}

Places == {"inbound", "task", "queue", "signal", "run", "agent", "timeout"}

Has(p) ==
    \/ p = "inbound" /\ inbound > 0
    \/ p = "task"    /\ \E k \in Task : Bears(k)
    \/ p = "queue"   /\ Waits
    \/ p = "signal"  /\ Calls # {}
    \/ p = "run"     /\ \E r \in QueueRun : run[r] = "escalate"
    \/ p = "agent"   /\ Ours # {}
    \/ p = "timeout" /\ fired

Single ==
    /\ inbound <= 1
    /\ \A k, l \in Task : Bears(k) /\ Bears(l) => k = l
    /\ \A i, j \in Calls : i = j
    /\ \A r, q \in QueueRun : run[r] = "escalate" /\ run[q] = "escalate" => r = q
    /\ \A a, b \in Ours : a = b

OneToken ==
    /\ Single
    /\ \A p, q \in Places : Has(p) /\ Has(q) => p = q
    /\ TakenOut => queue = "out"

\* An open contact is with somebody; or stored, place or no place; or a signal lies unread.
Storing == \E k \in Task : task[k].at = "store"
Sought ==
    LET p == remover["periodic"] IN
    \/ inbound > 0
    \/ \E k \in Task : task[k].at # "idle"
    \/ stored
    \/ p.why \in {"take", "timeout"}
    \/ \E r \in QueueRun : run[r] = "escalate"
    \/ Ours # {}
    \/ signals # <<>>

NotLost ==
    LET p == remover["periodic"] IN
    ~closed =>
        /\ \A j \in 1..Len(signals) : signals[j] = "available"
        /\ ~left =>
              /\ Sought
              /\ remover["listener"].at = "idle"
              /\ (queue # "out" \/ p.at = "check") /\ ~stored => Storing
              /\ p.at = "zrem" /\ p.why = "timeout" => queue # "out"

Inv == TypeInv /\ (~announced => Shape /\ OneToken /\ NotLost)

LEMMA Prepended ==
    ASSUME NEW S, NEW s \in Seq(S), NEW e \in S
    PROVE  /\ <<e>> \o s \in Seq(S) /\ Len(<<e>> \o s) = Len(s) + 1
           /\ (<<e>> \o s)[1] = e /\ \A i \in 1..Len(s) : (<<e>> \o s)[i + 1] = s[i]
OBVIOUS

LEMMA Rested ==
    ASSUME NEW S, NEW s \in Seq(S), s # <<>>
    PROVE  /\ Tail(s) \in Seq(S) /\ Len(Tail(s)) = Len(s) - 1 /\ Len(s) \in Nat \ {0}
           /\ Head(s) = s[1] /\ s[1] \in S
           /\ \A i \in 1..(Len(s) - 1) : Tail(s)[i] = s[i + 1]
OBVIOUS

-----------------------------------------------------------------------------
(* Types.                                                                  *)

LEMMA InitTypes == Init => TypeInv
<1> SUFFICES ASSUME Init  PROVE TypeInv
  OBVIOUS
<1>1. attended \in BOOLEAN /\ announced \in BOOLEAN
  BY PoolAssumption DEF Init
<1>2. slot \in [Agent -> {"free", "other", "ours"}] /\ others \in 0..MaxOthers
      /\ queued \in 0..MaxMessages
  BY QueueBounds DEF Init
<1>3. signals \in Seq({"available", "timeout"})
  BY DEF Init
<1>4. PushTypeOK
  BY <1>2, <1>3 DEF Init, PushTypeOK, Ages
<1> QED  BY <1>1, <1>4 DEF Init, TypeInv, TaskAt, RemoverAt, Why, Ages, Idle

LEMMA WorldTypes == ASSUME TypeInv, World  PROVE TypeInv'
<1>1. ASSUME NEW a \in Agent, OtherTakes(a) \/ OtherLeaves(a)  PROVE TypeInv'
  <2>1. slot' \in [Agent -> {"free", "other", "ours"}] /\ others' \in 0..MaxOthers
    BY <1>1, QueueBounds DEF TypeInv, PushTypeOK, OtherTakes, OtherLeaves
  <2>2. UNCHANGED <<pool, entry, ended, bus, human, talk, task, remover>>
    BY <1>1 DEF OtherTakes, OtherLeaves
  <2> QED  BY <2>1, <2>2 DEF TypeInv, PushTypeOK, pool, entry, ended, bus, human, talk
<1>2. CASE Leave
  BY <1>2 DEF Leave, TypeInv, PushTypeOK, pool, agent, entry, bus, human, talk
<1>3. CASE TimePasses
  BY <1>3 DEF TimePasses, TypeInv, PushTypeOK, Older, Ages, pool, agent, ended, bus, human, talk
<1> QED  BY <1>1, <1>2, <1>3 DEF World

LEMMA TaskTypes == ASSUME TypeInv, NEW k \in Task, TaskStep(k)  PROVE TypeInv'
<1>1. CASE Receive(k)
  BY <1>1 DEF Receive, Goto, TypeInv, PushTypeOK, TaskAt, pool, agent, ended, human, talk
<1>2. CASE \E a \in Agent : Route(k, a)
  BY <1>2 DEF Route, Rest, TypeInv, PushTypeOK, TaskAt, Ages, pool, entry, ended, human, talk
<1>3. CASE NoAgent(k)
  BY <1>3, QueueBounds
     DEF NoAgent, Goto, TypeInv, PushTypeOK, TaskAt, pool, agent, entry, ended, human, talk
<1>4. CASE Mark(k)
  <2>1. first' \in Ages
    BY <1>4 DEF Mark, TypeInv, PushTypeOK, Ages
  <2> QED
    BY <1>4, <2>1 DEF Mark, TypeInv, PushTypeOK, TaskAt, pool, agent, ended, bus, human, talk
<1>5. CASE Zadd(k)
  BY <1>5 DEF Zadd, Goto, TypeInv, PushTypeOK, TaskAt, Ages, pool, agent, ended, bus, human, talk
<1>6. CASE Store(k)
  BY <1>6 DEF Store, Rest, TypeInv, PushTypeOK, TaskAt, Ages, pool, agent, ended, bus, human, talk
<1> QED  BY <1>1, <1>2, <1>3, <1>4, <1>5, <1>6 DEF TaskStep

\* Those who take contacts out.
Removal == Periodic \/ Ready \/ Listener

Removers == [Remover -> [at : RemoverAt, why : Why, marked : BOOLEAN]]

\* What becomes of one who takes contacts out.
LEMMA Moved ==
    ASSUME TypeInv, NEW d \in Remover
    PROVE  /\ \A at \in RemoverAt : Step(d, at) =>
                 /\ remover' \in Removers /\ remover'[d].at = at
                 /\ UNCHANGED <<remover[d].why, remover[d].marked>>
                 /\ \A e \in Remover \ {d} : remover'[e] = remover[e]
           /\ \A at \in RemoverAt, why \in Why : For(d, at, why) =>
                 /\ remover' \in Removers /\ remover'[d] = [at |-> at, why |-> why, marked |-> FALSE]
                 /\ \A e \in Remover \ {d} : remover'[e] = remover[e]
           /\ Stop(d) =>
                 /\ remover' \in Removers /\ remover'[d] = Idle
                 /\ \A e \in Remover \ {d} : remover'[e] = remover[e]
<1>1. remover \in Removers
  BY DEF TypeInv, Removers
<1>2. ASSUME NEW v \in [at : RemoverAt, why : Why, marked : BOOLEAN],
             remover' = [remover EXCEPT ![d] = v]
      PROVE  /\ remover' \in Removers /\ remover'[d] = v
             /\ \A e \in Remover \ {d} : remover'[e] = remover[e]
  BY <1>1, <1>2 DEF Removers
<1>3. ASSUME NEW at \in RemoverAt, Step(d, at)
      PROVE  /\ remover' \in Removers /\ remover'[d].at = at
             /\ UNCHANGED <<remover[d].why, remover[d].marked>>
             /\ \A e \in Remover \ {d} : remover'[e] = remover[e]
  <2> DEFINE v == [remover[d] EXCEPT !.at = at]
  <2>1. remover[d] \in [at : RemoverAt, why : Why, marked : BOOLEAN]
    BY <1>1 DEF Removers
  <2>2. /\ v \in [at : RemoverAt, why : Why, marked : BOOLEAN] /\ v.at = at
        /\ v.why = remover[d].why /\ v.marked = remover[d].marked
    BY <2>1
  <2>3. remover' = [remover EXCEPT ![d] = v]
    BY <1>3 DEF Step
  <2> HIDE DEF v
  <2> QED  BY <1>2, <2>2, <2>3
<1>4. ASSUME NEW at \in RemoverAt, NEW why \in Why, For(d, at, why)
      PROVE  /\ remover' \in Removers /\ remover'[d] = [at |-> at, why |-> why, marked |-> FALSE]
             /\ \A e \in Remover \ {d} : remover'[e] = remover[e]
  BY <1>2, <1>4 DEF For
<1>5. ASSUME Stop(d)
      PROVE  /\ remover' \in Removers /\ remover'[d] = Idle
             /\ \A e \in Remover \ {d} : remover'[e] = remover[e]
  <2>1. Idle \in [at : RemoverAt, why : Why, marked : BOOLEAN]
    BY DEF Idle, RemoverAt, Why
  <2> QED  BY <1>2, <1>5, <2>1 DEF Stop
<1> QED  BY <1>3, <1>4, <1>5

LEMMA RemovalTypes == ASSUME TypeInv, Removal  PROVE TypeInv'
<1>1. CASE Sweep \/ Look
  <2>1. remover' \in Removers
    BY <1>1, Moved DEF Sweep, Look, RemoverAt, Why, Remover
  <2> QED
    BY <1>1, <2>1 DEF Sweep, Look, TypeInv, PushTypeOK, Removers, pool, agent, entry, ended, bus,
       human, talk
<1>2. CASE Dequeue
  <2>1. remover' \in Removers
    BY <1>2, Moved DEF Dequeue, RemoverAt, Why, Remover
  <2> QED
    BY <1>2, <2>1 DEF Dequeue, TypeInv, PushTypeOK, Removers, pool, entry, ended, bus, human, talk
<1>3. CASE Hear
  <2>1. remover' \in Removers
    BY <1>3, Moved DEF Hear, RemoverAt, Why, Remover
  <2> QED
    BY <1>3, <2>1 DEF Hear, TypeInv, PushTypeOK, Removers, pool, agent, entry, bus, human, talk
<1>4. ASSUME NEW d \in Remover, Check(d)  PROVE TypeInv'
  <2>1. remover' \in Removers
    BY <1>4, Moved DEF Check, RemoverAt, Why
  <2> QED
    BY <1>4, <2>1 DEF Check, TypeInv, PushTypeOK, Removers, pool, agent, entry, ended, bus, human,
       talk
<1>5. ASSUME NEW d \in Remover, Zrem(d)  PROVE TypeInv'
  <2>1. remover' \in Removers
    BY <1>5, Moved DEF Zrem, RemoverAt, Why
  <2> QED
    BY <1>5, <2>1 DEF Zrem, TypeInv, PushTypeOK, Removers, pool, agent, ended, bus, human, talk
<1>6. ASSUME NEW d \in Remover, Del(d)  PROVE TypeInv'
  <2>1. remover' \in Removers
    BY <1>6, Moved DEF Del, RemoverAt, Why
  <2>2. first' \in Ages \cup {"none"}
    BY <1>6 DEF Del, TypeInv, PushTypeOK
  <2> QED
    BY <1>6, <2>1, <2>2 DEF Del, TypeInv, PushTypeOK, Removers, pool, agent, ended, bus, human, talk
<1>7. ASSUME NEW d \in Remover, Ask(d)  PROVE TypeInv'
  BY <1>7 DEF Ask, TypeInv, PushTypeOK, RemoverAt, Why, pool, agent, entry, ended, bus, human, talk
<1>8. ASSUME NEW d \in Remover, Publish(d)  PROVE TypeInv'
  <2>1. signals' \in Seq({"available", "timeout"}) /\ inbound' \in Nat
    <3>1. /\ signals' = signals \/ signals' = <<"available">> \o signals
          /\ inbound' = inbound \/ inbound' = inbound + 1
      BY <1>8 DEF Publish
    <3>2. signals \in Seq({"available", "timeout"}) /\ inbound \in Nat
      BY DEF TypeInv, PushTypeOK
    <3> QED  BY <3>1, <3>2, Prepended
  <2>2. remover' \in Removers
    BY <1>8, Moved DEF Publish
  <2> QED
    BY <1>8, <2>1, <2>2 DEF Publish, TypeInv, PushTypeOK, Removers, pool, agent, entry, ended, human
<1>9. CASE MarkClosed
  <2>1. remover' \in Removers
    BY <1>9, Moved DEF MarkClosed, RemoverAt, Remover
  <2> QED
    BY <1>9, <2>1 DEF MarkClosed, TypeInv, PushTypeOK, Removers, pool, agent, entry, bus, human, talk
<1>10. CASE SignalTimeout
  <2>1. signals' \in Seq({"available", "timeout"})
    BY <1>10, Prepended DEF SignalTimeout, TypeInv, PushTypeOK
  <2>2. remover' \in Removers
    BY <1>10, Moved DEF SignalTimeout, Remover
  <2> QED
    BY <1>10, <2>1, <2>2 DEF SignalTimeout, TypeInv, PushTypeOK, Removers, pool, agent, entry, bus,
       human
<1> QED
  BY <1>1, <1>2, <1>3, <1>4, <1>5, <1>6, <1>7, <1>8, <1>9, <1>10
     DEF Removal, Periodic, Ready, Listener, Remove, Remover

\* The bridge.
Bridge ==
    \/ \E r \in QueueRun : QueueAgent(r)
    \/ \E a \in Agent : Deliver(a)
    \/ BridgeHears

LEMMA BridgeTypes == ASSUME TypeInv, Bridge  PROVE TypeInv'
<1>1. ASSUME NEW r \in QueueRun, StartQueueAgent(r)  PROVE TypeInv'
  BY <1>1, QueueBounds DEF StartQueueAgent, At, TypeInv, PushTypeOK, pool, agent, entry, ended, human
<1>2. ASSUME NEW r \in QueueRun, Signalled(r)  PROVE TypeInv'
  <2>1. signals' \in Seq({"available", "timeout"})
    BY <1>2, Rested DEF Signalled, TypeInv, PushTypeOK
  <2> QED
    BY <1>2, <2>1 DEF Signalled, At, TypeInv, PushTypeOK, pool, agent, entry, ended, bus, human
<1>3. ASSUME NEW r \in QueueRun, Execute(r) \/ HungUp(r) \/ Escalate(r) \/ Unlock(r) \/ EndQueueAgent(r)
      PROVE  TypeInv'
  <2>1. /\ run' \in [QueueRun -> {"none", "execute", "menu", "escalate", "unlock", "over"}]
        /\ lock' \in QueueRun \cup {None} /\ inbound' \in Nat
        /\ marker' \in BOOLEAN /\ hangup' \in BOOLEAN
    <3>1. CASE Execute(r) \/ Unlock(r)
      BY <3>1 DEF Execute, Unlock, At, TypeInv, PushTypeOK, bus
    <3>2. CASE HungUp(r) \/ EndQueueAgent(r)
      BY <3>2 DEF HungUp, EndQueueAgent, At, TypeInv, PushTypeOK, bus
    <3>3. CASE Escalate(r)
      BY <3>3 DEF Escalate, At, TypeInv, PushTypeOK
    <3> QED  BY <1>3, <3>1, <3>2, <3>3
  <2>2. UNCHANGED <<pool, agent, entry, ended, queued, routed, human, signals, task, remover>>
    BY <1>3 DEF Execute, HungUp, Escalate, Unlock, EndQueueAgent, bus
  <2> QED  BY <2>1, <2>2 DEF TypeInv, PushTypeOK, pool, agent, entry, ended, human
<1>4. ASSUME NEW a \in Agent, Deliver(a)  PROVE TypeInv'
  <2>1. routed' \subseteq Agent /\ accepted' \subseteq Agent /\ humans' \subseteq Agent
    BY <1>4 DEF Deliver, Accept, Activate, TypeInv, PushTypeOK, bus
  <2>2. UNCHANGED <<pool, agent, entry, ended, inbound, queued, talk, task, remover>>
    BY <1>4 DEF Deliver, Accept, Activate, bus
  <2> QED  BY <2>1, <2>2 DEF TypeInv, PushTypeOK, pool, agent, entry, ended, talk
<1>5. CASE BridgeHears
  BY <1>5 DEF BridgeHears, TypeInv, PushTypeOK, pool, agent, entry, bus, human
<1> QED  BY <1>1, <1>2, <1>3, <1>4, <1>5 DEF Bridge, QueueAgent

LEMMA StepTypes == TypeInv /\ [Next]_vars => TypeInv'
<1> SUFFICES ASSUME TypeInv, [Next]_vars  PROVE TypeInv'
  OBVIOUS
<1>1. CASE UNCHANGED vars
  BY <1>1 DEF vars, TypeInv, PushTypeOK, pool, agent, entry, ended, bus, human, talk
<1>2. CASE Next
  BY <1>2, WorldTypes, TaskTypes, RemovalTypes, BridgeTypes DEF Next, Removal, Bridge
<1> QED  BY <1>1, <1>2

\* Everything about a contact that waits stays within its range: the entry and its age,
\* the stamp, the signals, the places of the runs and of the events.
THEOREM PushTypeCorrect == Spec => []PushTypeOK
<1>1. TypeInv => PushTypeOK
  BY DEF TypeInv
<1> QED  BY <1>1, InitTypes, StepTypes, PTL DEF Spec

-----------------------------------------------------------------------------
(* What those who take contacts out do, where the periodic drain is the    *)
(* only one.                                                               *)

P == remover["periodic"]
L == remover["listener"]

Begins ==
    /\ P.at = "idle" /\ queue # "out" /\ UNCHANGED <<queue, stored, ended, signals, inbound, L>>
    /\ \/ P'.at = "zrem" /\ P'.why = "timeout"
       \/ P'.at = "check" /\ P'.why = "take"
Checks ==
    /\ P.at = "check" /\ UNCHANGED <<queue, stored, ended, signals, inbound, L>>
    /\ \/ closed /\ P'.at = "zrem" /\ P'.why = "drop"
       \/ stored /\ P'.at = "ask" /\ P'.why = "take"
       \/ ~closed /\ ~stored /\ P'.at = "zrem" /\ P'.why = "stale"
Asks ==
    /\ P.at = "ask" /\ UNCHANGED <<queue, stored, ended, signals, inbound, L>>
    /\ P'.at = "zrem" /\ P'.why = "take"
Removes ==
    /\ P.at = "zrem" /\ queue' = "out" /\ UNCHANGED <<stored, ended, signals, inbound, L>>
    /\ \/ P' = Idle /\ (P.why = "timeout" => queue = "out") /\ P.why \in {"timeout", "stale"}
       \/ P'.at = "del" /\ P'.why = P.why /\ P.why # "stale"
          /\ (P.why = "timeout" => queue # "out")
Deletes ==
    /\ P.at = "del" /\ stored' = FALSE /\ UNCHANGED <<queue, ended, signals, inbound, L>>
    /\ \/ P.why = "take" /\ P'.why = "take" /\ P'.at = "publish"
       \/ P.why = "timeout" /\ P'.why = "timeout" /\ P'.at = "mark"
       \/ P.why = "drop" /\ P' = Idle
Publishes ==
    /\ P.at = "publish" /\ P' = Idle /\ UNCHANGED <<queue, stored, ended, L>>
    /\ \/ signals' = <<"available">> \o signals /\ inbound' = inbound
       \/ signals' = signals /\ inbound' = inbound + 1
Closes ==
    /\ P.at = "mark" /\ P'.at = "signal" /\ P'.why = "timeout" /\ closed' = TRUE /\ fired' = TRUE
    /\ UNCHANGED <<queue, stored, left, closing, signals, inbound, L>>
Signals ==
    /\ P.at = "signal" /\ P' = Idle /\ closing' = closing \cup {"listener"}
    /\ signals' = signals \/ signals' = <<"timeout">> \o signals
    /\ UNCHANGED <<queue, stored, closed, fired, left, inbound, L>>
Listens ==
    /\ UNCHANGED <<P, signals, inbound, fired, left>>
    /\ \/ "listener" \in closing \/ L.at # "idle"
    /\ closing' \subseteq closing /\ ("listener" \in closing => closed') /\ (closed => closed')
    /\ closed' \/ ~closed
    /\ L'.at \in {"idle", "check", "zrem", "del"} /\ (L'.at # "idle" => L'.why = "drop" /\ closed')
    /\ queue' \in {queue, "out"} /\ (stored' => stored)

LEMMA RemovalDoes ==
    ASSUME TypeInv, Shape, ~announced, Removal
    PROVE  /\ \/ Begins \/ Checks \/ Asks \/ Removes \/ Deletes \/ Publishes \/ Closes \/ Signals
              \/ Listens
           /\ remover'["ready"] = Idle
           /\ UNCHANGED <<announced, slot, task, run>>
<1> USE DEF P, L
<1>1. UNCHANGED <<announced, slot, task, run>>
  BY DEF Removal, Periodic, Ready, Listener, Remove, Sweep, Look, Dequeue, Hear, Check, Zrem, Del,
     Ask, Publish, MarkClosed, SignalTimeout, pool, agent, talk
<1>2. CASE Ready
  BY <1>2 DEF Ready, Dequeue, Remove, Check, Zrem, Del, Ask, Publish, Shape, Idle
<1>3. CASE Sweep \/ Look
  <2>1. /\ \/ For("periodic", "zrem", "timeout") \/ For("periodic", "check", "take")
        /\ P.at = "idle" /\ queue # "out" /\ UNCHANGED <<queue, stored, ended, signals, inbound>>
    BY <1>3 DEF Sweep, Look, entry, bus, talk
  <2>2. /\ remover'["ready"] = Idle /\ L' = L
        /\ \/ P'.at = "zrem" /\ P'.why = "timeout"
           \/ P'.at = "check" /\ P'.why = "take"
    BY <2>1, Moved DEF Shape, RemoverAt, Why, Remover
  <2> QED  BY <1>1, <2>1, <2>2 DEF Begins
<1>4. CASE Check("periodic")
  <2>1. UNCHANGED <<queue, stored, ended, signals, inbound>>
    BY <1>4 DEF Check, entry, bus, talk
  <2> QED  BY <1>1, <1>4, <2>1, Moved DEF Check, Checks, Shape, RemoverAt, Why, Remover
<1>5. CASE Zrem("periodic")
  <2>1. UNCHANGED <<stored, ended, signals, inbound>>
    BY <1>5 DEF Zrem, bus, talk
  <2> QED  BY <1>1, <1>5, <2>1, Moved DEF Zrem, Removes, Shape, RemoverAt, Remover
<1>6. CASE Del("periodic")
  <2>1. UNCHANGED <<queue, ended, signals, inbound>> /\ stored' = FALSE
    BY <1>6 DEF Del, bus, talk
  <2>2. P.at = "del" /\ P.why \in {"take", "timeout", "drop"}
    BY <1>6 DEF Del, Shape
  <2>3. /\ P.why = "take" => Step("periodic", "publish")
        /\ P.why = "timeout" => Step("periodic", "mark")
        /\ P.why = "drop" => Stop("periodic")
    BY <1>6, <2>2 DEF Del
  <2> QED  BY <1>1, <2>1, <2>2, <2>3, Moved DEF Deletes, Shape, RemoverAt, Remover
<1>7. CASE Ask("periodic")
  <2>1. remover' = [remover EXCEPT !["periodic"].marked = marker, !["periodic"].at = "zrem"]
    BY <1>7 DEF Ask
  <2>2. P.at = "ask" /\ UNCHANGED <<queue, stored, ended, signals, inbound>>
    BY <1>7 DEF Ask, entry, bus, talk
  <2>3. P'.at = "zrem" /\ P'.why = P.why /\ L' = L /\ remover'["ready"] = remover["ready"]
    BY <2>1 DEF TypeInv, Remover
  <2> QED  BY <1>1, <2>2, <2>3 DEF Asks, Shape
<1>8. CASE Publish("periodic")
  <2>1. UNCHANGED <<queue, stored, ended>> /\ P.at = "publish" /\ Stop("periodic")
    BY <1>8 DEF Publish, entry
  <2> QED  BY <1>1, <1>8, <2>1, Moved DEF Publish, Publishes, Shape, Remover
<1>9. CASE MarkClosed
  <2>1. /\ UNCHANGED <<queue, stored, left, closing, signals, inbound>> /\ P.at = "mark"
        /\ Step("periodic", "signal") /\ closed' = TRUE /\ fired' = TRUE
    BY <1>9 DEF MarkClosed, entry, bus, talk
  <2> QED  BY <1>1, <2>1, Moved DEF Closes, Shape, Remover, RemoverAt
<1>10. CASE SignalTimeout
  <2>1. UNCHANGED <<queue, stored, closed, fired, left, inbound>> /\ P.at = "signal" /\ Stop("periodic")
    BY <1>10 DEF SignalTimeout, entry, bus
  <2> QED  BY <1>1, <1>10, <2>1, Moved DEF SignalTimeout, Signals, Shape, Remover
<1>11. CASE Hear
  <2>1. /\ UNCHANGED <<queue, stored, signals, inbound, fired, left>> /\ closed' = TRUE
        /\ "listener" \in closing /\ closing' \subseteq closing /\ For("listener", "check", "drop")
    BY <1>11 DEF Hear, entry, bus, talk
  <2> QED  BY <1>1, <2>1, Moved DEF Listens, Shape, Remover, RemoverAt, Why
<1>12. CASE Check("listener") \/ Zrem("listener") \/ Del("listener")
  <2>1. /\ UNCHANGED <<signals, inbound, ended>> /\ queue' \in {queue, "out"} /\ (stored' => stored)
        /\ L.at # "idle"
    BY <1>12 DEF Check, Zrem, Del, entry, bus, talk
  <2>2. Step("listener", "zrem") \/ Stop("listener") \/ Step("listener", "del")
    BY <1>12, <2>1 DEF Check, Zrem, Del, Shape
  <2> QED  BY <1>1, <2>1, <2>2, Moved DEF Listens, Shape, Remover, RemoverAt, ended, Idle
<1>13. CASE Ask("listener") \/ Publish("listener")
  BY <1>13 DEF Ask, Publish, Shape
<1> QED
  BY <1>2, <1>3, <1>4, <1>5, <1>6, <1>7, <1>8, <1>9, <1>10, <1>11, <1>12, <1>13
     DEF Removal, Periodic, Listener, Remove

\* What is left alone by everybody else.
LEMMA OthersLeave ==
    ASSUME World \/ Bridge \/ \E k \in Task : TaskStep(k)
    PROVE  UNCHANGED <<announced, remover, fired>>
BY DEF World, Bridge, OtherTakes, OtherLeaves, Leave, TimePasses, TaskStep, Receive, Route, NoAgent,
   Mark, Zadd, Store, QueueAgent, StartQueueAgent, Execute, Signalled, HungUp, Escalate, Unlock,
   EndQueueAgent, Deliver, Accept, Activate, BridgeHears, pool, ended

LEMMA OthersClose ==
    ASSUME World \/ Bridge \/ \E k \in Task : TaskStep(k)
    PROVE  /\ closed => closed'
           /\ left => left'
           /\ "listener" \in closing' => "listener" \in closing \/ left'
BY DEF World, Bridge, OtherTakes, OtherLeaves, Leave, TimePasses, TaskStep, Receive, Route, NoAgent,
   Mark, Zadd, Store, QueueAgent, StartQueueAgent, Execute, Signalled, HungUp, Escalate, Unlock,
   EndQueueAgent, Deliver, Accept, Activate, BridgeHears, ended

LEMMA RemovalKeepsPool == Removal => announced' = announced
BY DEF Removal, Periodic, Ready, Listener, Remove, Sweep, Look, Dequeue, Hear, Check, Zrem, Del,
   Ask, Publish, MarkClosed, SignalTimeout, pool

LEMMA StepShape ==
    ASSUME TypeInv, Shape, ~announced, [Next]_vars
    PROVE  Shape' /\ ~announced'
<1>1. CASE Removal
  <2>1. remover'["ready"] = Idle /\ ~announced'
    BY <1>1, RemovalDoes
  <2>2. CASE Listens
    BY <2>1, <2>2 DEF Listens, Shape, P, L
  <2>3. CASE Begins \/ Checks \/ Asks
    BY <2>1, <2>3 DEF Begins, Checks, Asks, Shape, P, L, ended
  <2>4. CASE Removes \/ Deletes
    <3>1. P.why \in Why
      BY DEF TypeInv, P, Remover
    <3> QED  BY <2>1, <2>4, <3>1 DEF Removes, Deletes, Shape, P, L, Idle, Why, ended
  <2>5. CASE Publishes \/ Closes \/ Signals
    BY <2>1, <2>5 DEF Publishes, Closes, Signals, Shape, P, L, Idle, ended
  <2> QED  BY <1>1, <2>2, <2>3, <2>4, <2>5, RemovalDoes
<1>2. CASE World \/ Bridge \/ \E k \in Task : TaskStep(k)
  <2>1. UNCHANGED <<announced, remover, fired>>
    BY <1>2, OthersLeave
  <2>2. /\ closed => closed'
        /\ left => left'
        /\ "listener" \in closing' => "listener" \in closing \/ left'
    BY <1>2, OthersClose
  <2> QED  BY <2>1, <2>2 DEF Shape
<1>3. CASE UNCHANGED vars
  BY <1>3 DEF vars, pool, ended, Shape
<1> QED  BY <1>1, <1>2, <1>3 DEF Next, Removal, Bridge

-----------------------------------------------------------------------------
(* A step leaves the contact where it is, moves it, or loses it.           *)

Alone == \A x, y \in Places : Has(x) /\ Has(y) => x = y

LEMMA Lone ==
    ASSUME OneToken, NEW p \in Places, NEW q \in Places, Has(p), p = q \/ ~Has(p)',
           \A x \in Places \ {q} : Has(x)' => Has(x)
    PROVE  Alone'
<1>1. \A x \in Places : Has(x) => x = p
  BY DEF OneToken
<1>2. \A x \in Places \ {q} : ~Has(x)'
  BY <1>1
<1> QED  BY <1>2 DEF Alone

LEMMA Fewer ==
    ASSUME OneToken, \A x \in Places : Has(x)' => Has(x)
    PROVE  Alone'
BY DEF OneToken, Alone

\* What each place is.
LEMMA Where ==
    /\ Has("inbound") <=> inbound > 0
    /\ Has("task")    <=> \E k \in Task : Bears(k)
    /\ Has("queue")   <=> Waits
    /\ Has("signal")  <=> Calls # {}
    /\ Has("run")     <=> \E r \in QueueRun : run[r] = "escalate"
    /\ Has("agent")   <=> Ours # {}
    /\ Has("timeout") <=> fired
BY DEF Has

LEMMA WhereNext ==
    /\ Has("inbound")' <=> inbound' > 0
    /\ Has("task")'    <=> \E k \in Task : Bears(k)'
    /\ Has("queue")'   <=> Waits'
    /\ Has("signal")'  <=> Calls' # {}
    /\ Has("run")'     <=> \E r \in QueueRun : run'[r] = "escalate"
    /\ Has("agent")'   <=> Ours' # {}
    /\ Has("timeout")' <=> fired'
BY DEF Has

LEMMA Apart ==
    ASSUME OneToken, NEW p \in Places, Has(p)
    PROVE  \A x \in Places \ {p} : ~Has(x)
BY DEF OneToken

\* Who does not touch a place leaves it as it is.
LEMMA Untouched ==
    /\ inbound' = inbound => (Has("inbound")' <=> Has("inbound"))
    /\ task' = task => (Has("task")' <=> Has("task"))
    /\ UNCHANGED <<queue, remover>> => (Has("queue")' <=> Has("queue"))
    /\ signals' = signals => (Has("signal")' <=> Has("signal"))
    /\ run' = run => (Has("run")' <=> Has("run"))
    /\ slot' = slot => (Has("agent")' <=> Has("agent"))
    /\ fired' = fired => (Has("timeout")' <=> Has("timeout"))
BY DEF Has, Bears, Waits, TakenOut, Calls, Ours

LEMMA SingleUntouched ==
    ASSUME OneToken, inbound' <= 1,
           task' = task \/ (\A k \in Task : Bears(k)' => Bears(k)),
           signals' = signals, run' = run, slot' = slot
    PROVE  Single'
BY DEF OneToken, Single, Bears, Calls, Ours

LEMMA TaskToken ==
    ASSUME TypeInv, OneToken, NEW k \in Task, TaskStep(k)
    PROVE  OneToken'
<1>1. /\ UNCHANGED <<signals, run, remover, fired>>
      /\ inbound \in Nat /\ inbound <= 1
  BY DEF TaskStep, Receive, Route, NoAgent, Mark, Zadd, Store, talk, ended, TypeInv, PushTypeOK,
     OneToken, Single
<1>2. CASE Receive(k)
  <2>1. inbound = 1 /\ inbound' = 0 /\ UNCHANGED <<slot, queue>> /\ Has("inbound") /\ ~Has("inbound")'
    BY <1>1, <1>2, Where, WhereNext DEF Receive, agent
  <2>2. \A l \in Task : ~Bears(l)
    BY <2>1, Apart, Where DEF Places
  <2>3. \A l \in Task : Bears(l)' => l = k
    BY <1>2, <2>2 DEF Receive, Goto, Bears, TypeInv
  <2>4. Alone'
    BY <1>1, <2>1, Lone, Untouched DEF Places
  <2> QED  BY <1>1, <2>1, <2>3, <2>4 DEF OneToken, Single, Calls, Ours, TakenOut, Alone
<1>3. ASSUME NEW a \in Agent, Route(k, a)  PROVE OneToken'
  <2>1. Bears(k) /\ UNCHANGED <<inbound, queue>> /\ Has("task")
    BY <1>3, Where DEF Route, Bears, entry
  <2>2. Ours = {}
    BY <2>1, Apart, Where DEF Places
  <2>3. \A l \in Task : Bears(l) => l = k
    BY <2>1 DEF OneToken, Single
  <2>4. \A l \in Task : ~Bears(l)'
    BY <1>3, <2>3 DEF Route, Rest, Bears, TypeInv
  <2>5. \A b \in Ours' : b = a
    BY <1>3, <2>2 DEF Route, Ours, TypeInv, PushTypeOK
  <2>6. ~Has("task")'
    BY <2>4, Where, WhereNext
  <2>7. Alone'
    BY <1>1, <2>1, <2>6, Lone, Untouched DEF Places
  <2> QED  BY <1>1, <2>1, <2>4, <2>5, <2>7 DEF OneToken, Single, Calls, TakenOut, Alone
<1>4. CASE NoAgent(k) \/ Mark(k) \/ Store(k)
  <2>1. UNCHANGED <<inbound, slot, queue>>
    BY <1>4 DEF NoAgent, Mark, Store, agent, entry, bus
  <2>2. \A l \in Task : Bears(l)' => Bears(l)
    BY <1>4 DEF NoAgent, Mark, Store, Goto, Rest, Bears, TypeInv
  <2>3. Has("task")' => Has("task")
    BY <2>2, Where, WhereNext
  <2>4. Alone'
    BY <1>1, <2>1, <2>3, Fewer, Untouched DEF Places
  <2>5. Single'
    BY <1>1, <2>1, <2>2, SingleUntouched
  <2> QED  BY <1>1, <2>1, <2>4, <2>5 DEF OneToken, TakenOut, Alone
<1>5. CASE Zadd(k)
  <2>1. Bears(k) /\ UNCHANGED <<inbound, slot>> /\ Has("task")
    BY <1>5, Where DEF Zadd, Bears, agent, bus
  <2>2. ~TakenOut
    BY <2>1, Apart, Where DEF Places, Waits
  <2>3. \A l \in Task : Bears(l) => l = k
    BY <2>1 DEF OneToken, Single
  <2>4. \A l \in Task : ~Bears(l)'
    BY <1>5, <2>3 DEF Zadd, Goto, Bears, TypeInv
  <2>5. ~Has("task")'
    BY <2>4, Where, WhereNext
  <2>6. Alone'
    BY <1>1, <2>1, <2>5, Lone, Untouched DEF Places
  <2>7. Single'
    BY <1>1, <2>1, <2>4, SingleUntouched
  <2> QED  BY <1>1, <2>2, <2>6, <2>7 DEF OneToken, TakenOut, Alone
<1> QED  BY <1>2, <1>3, <1>4, <1>5 DEF TaskStep

LEMMA WorldToken ==
    ASSUME TypeInv, OneToken, World
    PROVE  OneToken'
<1>1. UNCHANGED <<inbound, signals, run, remover, fired>>
  BY DEF World, OtherTakes, OtherLeaves, Leave, TimePasses, bus, talk, ended
<1>2. /\ queue' = "out" <=> queue = "out"
      /\ Ours' = Ours
      /\ \A k \in Task : Bears(k)' => Bears(k)
  BY DEF World, OtherTakes, OtherLeaves, Leave, TimePasses, Older, entry, agent, Ours, Bears, TypeInv,
     PushTypeOK
<1>3. Has("task")' => Has("task")
  BY <1>2, Where, WhereNext
<1>4. (Has("queue")' <=> Has("queue")) /\ (Has("agent")' <=> Has("agent"))
  BY <1>1, <1>2, Where, WhereNext DEF Waits, TakenOut
<1>5. Alone'
  BY <1>1, <1>3, <1>4, Fewer, Untouched DEF Places
<1> QED  BY <1>1, <1>2, <1>5 DEF OneToken, Single, Calls, TakenOut, Alone

LEMMA CallsMove ==
    ASSUME TypeInv
    PROVE  /\ signals' = <<"available">> \o signals /\ Calls = {} => Calls' = {1}
           /\ signals' = <<"timeout">> \o signals =>
                 (Calls' # {} => Calls # {}) /\ ((\A i, j \in Calls : i = j) => \A i, j \in Calls' : i = j)
           /\ signals # <<>> /\ signals' = Tail(signals) =>
                 /\ Calls' # {} => Calls # {}
                 /\ (\A i, j \in Calls : i = j) =>
                       (\A i, j \in Calls' : i = j) /\ (Head(signals) = "available" => Calls' = {})
                 /\ Head(signals) = "available" => Calls # {}
<1>1. signals \in Seq({"available", "timeout"}) /\ Len(signals) \in Nat
  BY DEF TypeInv, PushTypeOK
<1>2. ASSUME signals' = <<"available">> \o signals, Calls = {}  PROVE Calls' = {1}
  <2>1. /\ Len(signals') = Len(signals) + 1 /\ signals'[1] = "available"
        /\ \A i \in 1..Len(signals) : signals'[i + 1] = signals[i]
    BY <1>1, <1>2, Prepended
  <2>2. ASSUME NEW j \in Calls'  PROVE j = 1
    <3>1. CASE j # 1
      <4>1. j - 1 \in 1..Len(signals) /\ j = (j - 1) + 1
        BY <1>1, <2>1, <2>2, <3>1 DEF Calls
      <4>2. j - 1 \in Calls
        BY <2>1, <2>2, <4>1 DEF Calls
      <4> QED  BY <1>2, <4>2
    <3> QED  BY <3>1
  <2>3. 1 \in Calls'
    BY <1>1, <2>1 DEF Calls
  <2> QED  BY <2>2, <2>3
<1>3. ASSUME signals' = <<"timeout">> \o signals
      PROVE  \A j \in Calls' : j - 1 \in Calls /\ j \in Nat
  <2>1. /\ Len(signals') = Len(signals) + 1 /\ signals'[1] = "timeout"
        /\ \A i \in 1..Len(signals) : signals'[i + 1] = signals[i]
    BY <1>1, <1>3, Prepended
  <2>2. ASSUME NEW j \in Calls'  PROVE j - 1 \in Calls /\ j \in Nat
    <3>1. j # 1 /\ j \in 1..(Len(signals) + 1)
      BY <2>1, <2>2 DEF Calls
    <3>2. j - 1 \in 1..Len(signals) /\ j = (j - 1) + 1
      BY <1>1, <3>1
    <3> QED  BY <2>1, <2>2, <3>2 DEF Calls
  <2> QED  BY <2>2
<1>4. ASSUME signals # <<>>, signals' = Tail(signals)
      PROVE  /\ \A j \in Calls' : j + 1 \in Calls /\ j \in Nat \ {0}
             /\ Head(signals) = "available" => 1 \in Calls
  <2>1. /\ Len(signals') = Len(signals) - 1 /\ Len(signals) \in Nat \ {0} /\ Head(signals) = signals[1]
        /\ \A i \in 1..(Len(signals) - 1) : signals'[i] = signals[i + 1]
    BY <1>1, <1>4, Rested
  <2>2. ASSUME NEW j \in Calls'  PROVE j + 1 \in Calls /\ j \in Nat \ {0}
    <3>1. j \in 1..(Len(signals) - 1) /\ signals'[j] = "available"
      BY <2>1, <2>2 DEF Calls
    <3>2. j + 1 \in 1..Len(signals)
      BY <2>1, <3>1
    <3> QED  BY <2>1, <3>1, <3>2 DEF Calls
  <2>3. Head(signals) = "available" => 1 \in Calls
    BY <2>1 DEF Calls
  <2> QED  BY <2>2, <2>3
<1>5. ASSUME signals' = <<"timeout">> \o signals, \A i, j \in Calls : i = j, NEW i \in Calls', NEW j \in Calls'
      PROVE  i = j
  BY <1>3, <1>5
<1>6. ASSUME signals # <<>>, signals' = Tail(signals), \A i, j \in Calls : i = j
      PROVE  (\A i, j \in Calls' : i = j) /\ (Head(signals) = "available" => Calls' = {})
  <2>1. ASSUME NEW i \in Calls', NEW j \in Calls'  PROVE i = j
    BY <1>4, <1>6, <2>1
  <2>2. ASSUME Head(signals) = "available", NEW j \in Calls'  PROVE FALSE
    BY <1>4, <1>6, <2>2
  <2> QED  BY <2>1, <2>2
<1> QED  BY <1>2, <1>3, <1>4, <1>5, <1>6

LEMMA BridgeToken ==
    ASSUME TypeInv, OneToken, Bridge
    PROVE  OneToken'
<1>1. UNCHANGED <<queue, slot, task, remover, fired>> /\ inbound \in Nat /\ inbound <= 1
  BY DEF Bridge, QueueAgent, StartQueueAgent, Execute, Signalled, HungUp, Escalate, Unlock,
     EndQueueAgent, Deliver, Accept, Activate, BridgeHears, agent, entry, ended, TypeInv, PushTypeOK,
     OneToken, Single
<1>2. ASSUME NEW r \in QueueRun,
             \/ StartQueueAgent(r) \/ Execute(r) \/ HungUp(r) \/ Unlock(r) \/ EndQueueAgent(r)
      PROVE  OneToken'
  <2>1. UNCHANGED <<signals, inbound>>
    BY <1>2 DEF StartQueueAgent, Execute, HungUp, Unlock, EndQueueAgent, bus
  <2>2. \A q \in QueueRun : run'[q] = "escalate" => run[q] = "escalate"
    BY <1>2 DEF StartQueueAgent, Execute, HungUp, Unlock, EndQueueAgent, At, TypeInv, PushTypeOK
  <2>3. Has("run")' => Has("run")
    BY <2>2, Where, WhereNext
  <2>4. Alone'
    BY <1>1, <2>1, <2>3, Fewer, Untouched DEF Places
  <2> QED
    BY <1>1, <2>1, <2>2, <2>4 DEF OneToken, Single, Bears, Calls, Ours, TakenOut, Alone
<1>3. ASSUME NEW r \in QueueRun, Signalled(r)  PROVE OneToken'
  <2>1. signals # <<>> /\ signals' = Tail(signals) /\ inbound' = inbound
    BY <1>3 DEF Signalled, bus
  <2>2. (\A i, j \in Calls' : i = j) /\ (Has("signal")' => Has("signal"))
    BY <2>1, CallsMove, Where, WhereNext DEF OneToken, Single
  <2>3. CASE Head(signals) = "available"
    <3>1. Has("signal") /\ ~Has("signal")'
      BY <2>1, <2>3, CallsMove, Where, WhereNext DEF OneToken, Single
    <3>2. \A q \in QueueRun : run[q] # "escalate"
      BY <3>1, Apart, Where DEF Places
    <3>3. \A q \in QueueRun : run'[q] = "escalate" => q = r
      BY <1>3, <3>2 DEF Signalled, At, TypeInv, PushTypeOK
    <3>4. Alone'
      BY <1>1, <2>1, <3>1, Lone, Untouched DEF Places
    <3> QED
      BY <1>1, <2>1, <2>2, <3>3, <3>4 DEF OneToken, Single, Bears, Ours, TakenOut, Alone
  <2>4. CASE Head(signals) # "available"
    <3>1. \A q \in QueueRun : run'[q] = "escalate" => run[q] = "escalate"
      BY <1>3, <2>4 DEF Signalled, At, TypeInv, PushTypeOK
    <3>2. Has("run")' => Has("run")
      BY <3>1, Where, WhereNext
    <3>3. Alone'
      BY <1>1, <2>1, <2>2, <3>2, Fewer, Untouched DEF Places
    <3> QED
      BY <1>1, <2>1, <2>2, <3>1, <3>3 DEF OneToken, Single, Bears, Ours, TakenOut, Alone
  <2> QED  BY <2>3, <2>4
<1>4. ASSUME NEW r \in QueueRun, Escalate(r)  PROVE OneToken'
  <2>1. signals' = signals /\ inbound' = inbound + 1 /\ run[r] = "escalate" /\ Has("run")
    BY <1>4, Where DEF Escalate
  <2>2. \A q \in QueueRun : run[q] = "escalate" => q = r
    BY <2>1 DEF OneToken, Single
  <2>3. \A q \in QueueRun : run'[q] # "escalate"
    BY <1>4, <2>2 DEF Escalate, At, TypeInv, PushTypeOK
  <2>4. ~Has("run")' /\ ~Has("inbound")
    BY <2>1, <2>3, Apart, WhereNext DEF Places
  <2>5. inbound' = 1
    BY <1>1, <2>1, <2>4, Where
  <2>6. Alone'
    BY <1>1, <2>1, <2>4, Lone, Untouched DEF Places
  <2> QED
    BY <1>1, <2>1, <2>3, <2>5, <2>6 DEF OneToken, Single, Bears, Calls, Ours, TakenOut, Alone
<1>5. CASE BridgeHears \/ \E a \in Agent : Deliver(a)
  <2>1. UNCHANGED <<signals, inbound, run>>
    BY <1>5 DEF BridgeHears, Deliver, Accept, Activate, bus, talk
  <2>2. Alone'
    BY <1>1, <2>1, Fewer, Untouched DEF Places
  <2> QED
    BY <1>1, <2>1, <2>2 DEF OneToken, Single, Bears, Calls, Ours, TakenOut, Alone
<1> QED  BY <1>2, <1>3, <1>4, <1>5 DEF Bridge, QueueAgent

LEMMA RemovalToken ==
    ASSUME TypeInv, Shape, OneToken, ~announced, Removal
    PROVE  OneToken'
<1>1. /\ UNCHANGED <<slot, task, run>>
      /\ inbound \in Nat /\ inbound <= 1
      /\ P.why \in Why
  BY RemovalDoes DEF TypeInv, PushTypeOK, OneToken, Single, P, Remover
<1>2. CASE Begins \/ Checks \/ Asks
  <2>1. UNCHANGED <<queue, signals, inbound, fired>>
    BY <1>2 DEF Begins, Checks, Asks, ended
  <2>2. Waits /\ ~TakenOut'
    BY <1>2 DEF Begins, Checks, Asks, Waits, TakenOut, Shape, P
  <2>3. Alone'
    BY <1>1, <2>1, <2>2, Fewer, Untouched, Where DEF Places
  <2> QED  BY <1>1, <2>1, <2>2, <2>3 DEF OneToken, Single, Bears, Calls, Ours, Alone
<1>3. CASE Removes \/ Deletes
  <2>1. UNCHANGED <<signals, inbound, fired>>
    BY <1>3 DEF Removes, Deletes, ended
  <2>2. (Waits' => Waits) /\ (TakenOut' => queue' = "out")
    <3>1. CASE Removes
      BY <1>1, <3>1 DEF Removes, Waits, TakenOut, P, Idle
    <3>2. CASE Deletes
      BY <3>2 DEF Deletes, Waits, TakenOut, OneToken, P, Idle
    <3> QED  BY <1>3, <3>1, <3>2
  <2>3. Alone'
    BY <1>1, <2>1, <2>2, Fewer, Untouched, Where, WhereNext DEF Places
  <2> QED  BY <1>1, <2>1, <2>2, <2>3 DEF OneToken, Single, Bears, Calls, Ours, Alone
<1>4. CASE Publishes
  <2>1. /\ TakenOut /\ queue = "out" /\ ~TakenOut' /\ ~Waits' /\ Has("queue") /\ ~Has("queue")'
        /\ fired' = fired
    BY <1>4, Where, WhereNext DEF Publishes, Waits, TakenOut, Shape, OneToken, P, Idle, ended
  <2>2. Calls = {} /\ inbound = 0
    BY <1>1, <2>1, Apart, Where DEF Places
  <2>3. CASE signals' = <<"available">> \o signals /\ inbound' = inbound
    <3>1. Calls' = {1}
      BY <2>2, <2>3, CallsMove
    <3>2. Alone'
      BY <1>1, <2>1, <2>3, Lone, Untouched DEF Places
    <3> QED  BY <1>1, <2>1, <2>3, <3>1, <3>2 DEF OneToken, Single, Bears, Ours, Alone
  <2>4. CASE signals' = signals /\ inbound' = inbound + 1
    <3>1. Alone'
      BY <1>1, <2>1, <2>4, Lone, Untouched DEF Places
    <3> QED  BY <1>1, <2>1, <2>2, <2>4, <3>1 DEF OneToken, Single, Bears, Calls, Ours, Alone
  <2> QED  BY <1>4, <2>3, <2>4 DEF Publishes
<1>5. CASE Closes
  <2>1. /\ TakenOut /\ queue = "out" /\ ~TakenOut' /\ ~Waits' /\ Has("queue") /\ ~Has("queue")'
        /\ UNCHANGED <<signals, inbound>>
    BY <1>5, Where, WhereNext DEF Closes, Waits, TakenOut, Shape, OneToken, P
  <2>2. Alone'
    BY <1>1, <2>1, Lone, Untouched DEF Places
  <2> QED  BY <1>1, <2>1, <2>2 DEF OneToken, Single, Bears, Calls, Ours, Alone
<1>6. CASE Signals
  <2>1. (Waits' => Waits) /\ ~TakenOut' /\ UNCHANGED <<inbound, fired>>
    BY <1>6 DEF Signals, Waits, TakenOut, P, Idle
  <2>2. (Calls' # {} => Calls # {}) /\ \A i, j \in Calls' : i = j
    <3>1. \A i, j \in Calls : i = j
      BY DEF OneToken, Single
    <3>2. CASE signals' = signals
      BY <3>1, <3>2 DEF Calls
    <3>3. CASE signals' = <<"timeout">> \o signals
      BY <3>1, <3>3, CallsMove
    <3> QED  BY <1>6, <3>2, <3>3 DEF Signals
  <2>3. Alone'
    BY <1>1, <2>1, <2>2, Fewer, Untouched, Where, WhereNext DEF Places
  <2> QED  BY <1>1, <2>1, <2>2, <2>3 DEF OneToken, Single, Bears, Ours, Alone
<1>7. CASE Listens
  <2>1. UNCHANGED <<signals, inbound, fired>>
    BY <1>7 DEF Listens
  <2>2. (Waits' => Waits) /\ (TakenOut' => queue' = "out")
    BY <1>7 DEF Listens, Waits, TakenOut, OneToken, P
  <2>3. Alone'
    BY <1>1, <2>1, <2>2, Fewer, Untouched, Where, WhereNext DEF Places
  <2> QED  BY <1>1, <2>1, <2>2, <2>3 DEF OneToken, Single, Bears, Calls, Ours, Alone
<1> QED  BY <1>2, <1>3, <1>4, <1>5, <1>6, <1>7, RemovalDoes

LEMMA StepToken ==
    ASSUME TypeInv, Shape, OneToken, ~announced, [Next]_vars
    PROVE  OneToken'
<1>1. CASE UNCHANGED vars
  BY <1>1 DEF vars, agent, entry, ended, bus, talk, OneToken, Single, Has, Waits, TakenOut, Bears, Calls,
     Ours
<1> QED
  BY <1>1, WorldToken, TaskToken, RemovalToken, BridgeToken DEF Next, Removal, Bridge

LEMMA QuietStays == ~announced' /\ [Next]_vars => ~announced
BY RemovalKeepsPool, OthersLeave DEF Next, Removal, Bridge, vars, pool

LEMMA InitQuiet == Init => Shape /\ OneToken
<1> SUFFICES ASSUME Init  PROVE Shape /\ OneToken
  OBVIOUS
<1>1. Shape
  BY DEF Init, Shape, Remover, Idle
<1>2. /\ Ours = {} /\ Calls = {} /\ ~Waits /\ ~TakenOut
      /\ \A k \in Task : ~Bears(k)
      /\ \A r \in QueueRun : run[r] # "escalate"
  BY DEF Init, Ours, Calls, Waits, TakenOut, Bears, Remover, Idle
<1>3. \A x \in Places : Has(x) => x = "inbound"
  BY <1>2 DEF Init, Has
<1> QED  BY <1>1, <1>2, <1>3 DEF Init, OneToken, Single

\* Where the periodic drain is the only one, the contact is given to one agent, however often
\* it is put back and taken out, published, signalled or escalated; and to none once it was
\* closed for waiting too long.
THEOREM GivenOnce == Spec => []OneTaker
<1> DEFINE I == ~announced => Shape /\ OneToken
<1>1. Init => I
  BY InitQuiet
<1>2. TypeInv /\ I /\ [Next]_vars => I'
  BY QuietStays, StepShape, StepToken
<1>3. TypeInv /\ I => OneTaker
  <2> SUFFICES ASSUME TypeInv, Shape, OneToken  PROVE RoutedOnce /\ (fired => Ours = {})
    BY DEF OneTaker
  <2>1. fired => Ours = {}
    BY Where DEF OneToken, Places
  <2>2. CASE Ours = {}
    BY <2>1, <2>2, FS_EmptySet DEF RoutedOnce
  <2>3. CASE Ours # {}
    <3>1. PICK a \in Ours : TRUE
      BY <2>3
    <3>2. Ours = {a}
      BY <3>1 DEF OneToken, Single
    <3>3. Cardinality({a}) = 1
      BY FS_Singleton
    <3> QED  BY <2>1, <3>2, <3>3 DEF RoutedOnce
  <2> QED  BY <2>2, <2>3
<1> QED  BY <1>1, <1>2, <1>3, InitTypes, StepTypes, PTL DEF Spec

-----------------------------------------------------------------------------
(* An open contact is looked for by somebody, or leaves a trace.           *)

LEMMA ClosedStays == ASSUME TypeInv, Shape, ~announced, [Next]_vars  PROVE closed => closed'
<1>1. CASE Removal
  BY <1>1, RemovalDoes
     DEF Begins, Checks, Asks, Removes, Deletes, Publishes, Closes, Signals, Listens, ended
<1>2. CASE World \/ Bridge \/ \E k \in Task : TaskStep(k)
  BY <1>2, OthersClose
<1> QED  BY <1>1, <1>2 DEF vars, ended, Next, Removal, Bridge

LEMMA TaskNotLost ==
    ASSUME TypeInv, NotLost, NEW k \in Task, TaskStep(k), ~closed
    PROVE  NotLost'
<1>1. UNCHANGED <<signals, run, remover, left, closed>>
  BY DEF TaskStep, Receive, Route, NoAgent, Mark, Zadd, Store, talk, ended
<1>2. task[k].at = "store" => stored'
  BY DEF TaskStep, Receive, Route, NoAgent, Mark, Zadd, Store
<1>3. task[k].at # "store" => stored' = stored /\ (Storing => Storing')
  BY DEF TaskStep, Receive, Route, NoAgent, Mark, Zadd, Store, entry, Goto, Rest, Storing, TypeInv
<1>4. queue' = queue \/ (queue' # "out" /\ Storing')
  BY DEF TaskStep, Receive, Route, NoAgent, Mark, Zadd, Store, entry, Goto, Storing, TypeInv, PushTypeOK,
     Ages
<1>5. Sought'
  <2>1. CASE Receive(k)
    <3>1. task'[k].at = "route"
      BY <2>1 DEF Receive, Goto, TypeInv
    <3> QED  BY <3>1 DEF Sought
  <2>2. CASE \E a \in Agent : Route(k, a)
    <3>1. PICK a \in Agent : Route(k, a)
      BY <2>2
    <3>2. slot'[a] = "ours"
      BY <3>1 DEF Route, TypeInv, PushTypeOK
    <3> QED  BY <3>2 DEF Sought, Ours
  <2>3. CASE NoAgent(k) \/ Mark(k) \/ Zadd(k)
    <3>1. task'[k].at # "idle"
      BY <2>3 DEF NoAgent, Mark, Zadd, Goto, TypeInv
    <3> QED  BY <3>1 DEF Sought
  <2>4. CASE Store(k)
    BY <2>4 DEF Store, Sought
  <2> QED  BY <2>1, <2>2, <2>3, <2>4 DEF TaskStep
<1>6. \A j \in 1..Len(signals') : signals'[j] = "available"
  BY <1>1 DEF NotLost
<1>7. ASSUME ~left
      PROVE  LET p == remover["periodic"] IN
             /\ remover["listener"].at = "idle"
             /\ (queue' # "out" \/ p.at = "check") /\ ~stored' => Storing'
             /\ p.at = "zrem" /\ p.why = "timeout" => queue' # "out"
  BY <1>2, <1>3, <1>4, <1>7 DEF NotLost
<1> QED  BY <1>1, <1>5, <1>6, <1>7 DEF NotLost

LEMMA WorldNotLost ==
    ASSUME TypeInv, NotLost, World, ~closed
    PROVE  NotLost'
<1>1. /\ UNCHANGED <<inbound, stored, signals, run, remover, closed>>
      /\ left => left'
      /\ queue' = "out" <=> queue = "out"
      /\ Ours' = Ours
      /\ \A k \in Task : task'[k].at = task[k].at
  BY DEF World, OtherTakes, OtherLeaves, Leave, TimePasses, Older, entry, agent, bus, talk, ended, Ours,
     TypeInv, PushTypeOK
<1> QED  BY <1>1 DEF NotLost, Sought, Storing

LEMMA BridgeNotLost ==
    ASSUME TypeInv, NotLost, Bridge, ~closed
    PROVE  NotLost'
<1>1. UNCHANGED <<queue, stored, slot, task, remover, left>>
  BY DEF Bridge, QueueAgent, StartQueueAgent, Execute, Signalled, HungUp, Escalate, Unlock,
     EndQueueAgent, Deliver, Accept, Activate, BridgeHears, agent, entry, ended
<1>2. ASSUME NEW r \in QueueRun,
             \/ StartQueueAgent(r) \/ Execute(r) \/ HungUp(r) \/ Unlock(r) \/ EndQueueAgent(r)
      PROVE  NotLost'
  <2>1. UNCHANGED <<signals, inbound, closed>>
    BY <1>2 DEF StartQueueAgent, Execute, HungUp, Unlock, EndQueueAgent, bus, ended
  <2>2. \A q \in QueueRun : run[q] = "escalate" => run'[q] = "escalate"
    BY <1>2 DEF StartQueueAgent, Execute, HungUp, Unlock, EndQueueAgent, At, TypeInv, PushTypeOK
  <2> QED  BY <1>1, <2>1, <2>2 DEF NotLost, Sought, Storing, Ours
<1>3. ASSUME NEW r \in QueueRun, Signalled(r)  PROVE NotLost'
  <2>1. signals # <<>> /\ signals' = Tail(signals) /\ closed' = closed
    BY <1>3 DEF Signalled, ended
  <2>2. /\ Len(signals') = Len(signals) - 1 /\ Len(signals) \in Nat \ {0} /\ Head(signals) = signals[1]
        /\ \A i \in 1..(Len(signals) - 1) : signals'[i] = signals[i + 1]
    BY <2>1, Rested DEF TypeInv, PushTypeOK
  <2>3. \A j \in 1..Len(signals) : signals[j] = "available"
    BY DEF NotLost
  <2>4. \A j \in 1..Len(signals') : signals'[j] = "available"
    BY <2>2, <2>3
  <2>5. run'[r] = "escalate"
    BY <1>3, <2>2, <2>3 DEF Signalled, At, TypeInv, PushTypeOK
  <2> QED  BY <1>1, <2>1, <2>4, <2>5 DEF NotLost, Sought, Storing
<1>4. ASSUME NEW r \in QueueRun, Escalate(r)  PROVE NotLost'
  <2>1. UNCHANGED <<signals, closed>> /\ inbound' > 0
    BY <1>4 DEF Escalate, ended, TypeInv, PushTypeOK
  <2> QED  BY <1>1, <2>1 DEF NotLost, Sought, Storing
<1>5. CASE \E a \in Agent : Deliver(a)
  <2>1. UNCHANGED <<signals, inbound, run, closed>>
    BY <1>5 DEF Deliver, Accept, Activate, bus, talk, ended
  <2> QED  BY <1>1, <2>1 DEF NotLost, Sought, Storing, Ours
<1>6. CASE BridgeHears
  BY <1>6 DEF BridgeHears, NotLost
<1> QED  BY <1>2, <1>3, <1>4, <1>5, <1>6 DEF Bridge, QueueAgent

LEMMA RemovalNotLost ==
    ASSUME TypeInv, Shape, OneToken, NotLost, ~announced, Removal, ~closed, ~closed'
    PROVE  NotLost'
<1>1. /\ UNCHANGED <<slot, task, run>>
      /\ inbound \in Nat
      /\ (Storing' <=> Storing)
      /\ signals \in Seq({"available", "timeout"})
      /\ \A j \in 1..Len(signals) : signals[j] = "available"
  BY RemovalDoes DEF TypeInv, PushTypeOK, Storing, NotLost
<1>2. ~Closes /\ ~Signals /\ P.why # "drop" /\ (~left => L.at = "idle" /\ "listener" \notin closing)
  BY DEF Closes, Signals, Shape, NotLost, P, L
<1>3. CASE Begins \/ Checks \/ Asks
  <2>1. UNCHANGED <<queue, stored, signals, inbound, left, L>>
    BY <1>3 DEF Begins, Checks, Asks, ended
  <2>2. ~left => (P'.why \in {"take", "timeout"} \/ Storing)
    BY <1>3 DEF Begins, Checks, Asks, NotLost, P
  <2>3. ~left => /\ P'.at = "check" => queue # "out"
                 /\ P'.at = "zrem" /\ P'.why = "timeout" => queue # "out"
    BY <1>3 DEF Begins, Checks, Asks
  <2>4. ~left => Sought'
    BY <1>1, <2>2 DEF Sought, Storing, P
  <2> QED  BY <1>1, <2>1, <2>3, <2>4 DEF NotLost, P, L
<1>4. CASE Removes
  <2>1. UNCHANGED <<stored, signals, inbound, left, L>> /\ queue' = "out" /\ P'.at \in {"idle", "del"}
    BY <1>4 DEF Removes, ended, Idle
  <2>2. ~left => (P.why \in {"take", "timeout"} => P'.why \in {"take", "timeout"})
    BY <1>4 DEF Removes, NotLost, P
  <2>3. ~left => Sought'
    BY <1>1, <2>1, <2>2 DEF NotLost, Sought, P, Ours
  <2> QED  BY <1>1, <2>1, <2>3 DEF NotLost, P, L
<1>5. CASE Deletes
  <2>1. /\ UNCHANGED <<queue, signals, inbound, left, L>> /\ P'.why \in {"take", "timeout"}
        /\ P'.at \notin {"check", "zrem"} /\ queue = "out"
    BY <1>2, <1>5 DEF Deletes, ended, OneToken, TakenOut, P
  <2>2. Sought'
    BY <2>1 DEF Sought, P
  <2> QED  BY <1>1, <2>1, <2>2 DEF NotLost, P, L
<1>6. CASE Publishes
  <2>1. UNCHANGED <<queue, stored, left, L>> /\ P'.at = "idle" /\ P'.why = "none"
    BY <1>6 DEF Publishes, ended, Idle
  <2>2. signals' # <<>> \/ inbound' > 0
    <3>1. signals' = <<"available">> \o signals => Len(signals') = Len(signals) + 1
      BY <1>1, Prepended
    <3> QED  BY <1>1, <1>6, <3>1 DEF Publishes
  <2>3. \A j \in 1..Len(signals') : signals'[j] = "available"
    <3>1. CASE signals' = signals
      BY <1>1, <3>1
    <3>2. CASE signals' = <<"available">> \o signals
      <4>1. /\ Len(signals') = Len(signals) + 1 /\ signals'[1] = "available"
            /\ \A i \in 1..Len(signals) : signals'[i + 1] = signals[i]
            /\ Len(signals) \in Nat
        BY <1>1, <3>2, Prepended
      <4>2. ASSUME NEW j \in 1..Len(signals'), j # 1  PROVE signals'[j] = "available"
        <5>1. j - 1 \in 1..Len(signals) /\ j = (j - 1) + 1
          BY <4>1, <4>2
        <5> QED  BY <1>1, <4>1, <5>1
      <4> QED  BY <4>1, <4>2
    <3> QED  BY <1>6, <3>1, <3>2 DEF Publishes
  <2>4. Sought'
    BY <2>2 DEF Sought
  <2> QED  BY <1>1, <2>1, <2>3, <2>4 DEF NotLost, P, L
<1>7. CASE Listens
  BY <1>1, <1>2, <1>7 DEF Listens, NotLost
<1> QED  BY <1>2, <1>3, <1>4, <1>5, <1>6, <1>7, RemovalDoes

LEMMA StepNotLost ==
    ASSUME TypeInv, Shape, OneToken, NotLost, ~announced, [Next]_vars
    PROVE  NotLost'
<1>1. CASE closed'
  BY <1>1 DEF NotLost
<1>2. CASE ~closed' /\ UNCHANGED vars
  BY <1>2 DEF vars, agent, entry, ended, bus, talk, NotLost, Sought, Storing, Ours
<1>3. CASE ~closed' /\ Next
  BY <1>3, ClosedStays, WorldNotLost, TaskNotLost, RemovalNotLost, BridgeNotLost
     DEF Next, Removal, Bridge
<1> QED  BY <1>1, <1>2, <1>3

\* Where the periodic drain is the only one, an open contact that nobody has in hand is not
\* gone without trace: an agent's slot is taken for it, a signal to the queue agent lies
\* unread, or the contact is stored without a place in the queue.
THEOREM LossIsSeen == Spec => []LossLeavesTrace
<1> DEFINE I == ~announced => Shape /\ OneToken /\ NotLost
<1>1. Init => I
  <2> SUFFICES ASSUME Init  PROVE Shape /\ OneToken /\ NotLost
    OBVIOUS
  <2>1. Shape /\ OneToken
    BY InitQuiet
  <2>2. Len(signals) = 0 /\ ~stored /\ queue = "out" /\ remover["periodic"] = Idle
        /\ remover["listener"] = Idle /\ inbound = 1
    BY DEF Init, Remover
  <2> QED  BY <2>1, <2>2 DEF NotLost, Sought, Idle
<1>2. TypeInv /\ I /\ [Next]_vars => I'
  BY QuietStays, StepShape, StepToken, StepNotLost
<1>3. TypeInv /\ I => LossLeavesTrace
  <2> SUFFICES ASSUME TypeInv, Shape, NotLost, Open, ~Held
               PROVE  Ours # {} \/ signals # <<>> \/ (stored /\ queue = "out")
    BY DEF LossLeavesTrace
  <2>1. remover["periodic"].at = "idle" => remover["periodic"].why = "none"
    BY DEF Shape
  <2> QED  BY <2>1 DEF NotLost, Sought, Open, Held, Remover
<1> QED  BY <1>1, <1>2, <1>3, InitTypes, StepTypes, PTL DEF Spec

=============================================================================
