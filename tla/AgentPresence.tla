---------------------------- MODULE AgentPresence ----------------------------
(***************************************************************************)
(* Who is logged in, in which pools, and can be given contacts.  A console *)
(* opens one connection per pool; every connection registers its pool in   *)
(* the record of the user, a closed one takes it out again after a time of *)
(* grace, and heartbeats, logins, pauses and logouts reach the routing     *)
(* engine as events, in any order and several at a time, which it handles  *)
(* by reading the record and writing it as a whole.                        *)
(***************************************************************************)
EXTENDS Naturals, FiniteSets

CONSTANTS
    User, Pool,
    Conn,           \* connections, each opened once
    None,
    Opened,         \* those that are open from the start
    UserOf, PoolOf, \* whose connection it is, and of which pool
    MaxToggles,     \* pauses and resumes of a user (model bound)
    MaxEvents,      \* events on their way at a time (model bound)
    MaxHandlers     \* events in handling at a time (model bound)

ASSUME ConnAssumption ==
    /\ UserOf \in [Conn -> User] /\ PoolOf \in [Conn -> Pool] /\ None \notin Conn
    /\ Opened \subseteq Conn
ASSUME PresenceBounds == MaxToggles \in Nat /\ MaxEvents \in Nat /\ MaxHandlers \in Nat

VARIABLES
    conn,           \* connection -> "new", "open", "closed"
    reg,            \* connection -> registerHumanAgent: where it is, what it has read
    armed,          \* connections whose timer of grace is running
    pending,        \* pool -> the connection whose timer a reconnection cancels
    leaving,        \* connection -> unregisterHumanAgent: where it is, what the script said
    console,        \* user -> agent-pause or agent-resume: where it is, what it has read
    toggles,
    record,         \* user -> {t}:instance:human-{user}; no pools: there is none
    ready,          \* pool -> {t}:pool:{p}:instances
    marker,         \* users with {t}:agent_paused:human-{user}
    events,         \* agent.lifecycle
    handlers,       \* events in handling: what was read, where it is
    torn            \* users for whom some writer acted on pools that had changed since

vars == <<conn, reg, armed, pending, leaving, console, toggles, record, ready, marker, events,
          handlers, torn>>

Absent   == [pools |-> {}, state |-> "none"]
States   == {"none", "ready", "paused", "logged_out"}
Records  == [pools : SUBSET Pool, state : States]
Kinds    == {"login", "resume", "ready", "beat", "pause", "logout"}
Event    == [user : User, kind : Kinds, status : States, pools : SUBSET Pool]
Idle     == [at |-> "none", pools |-> {}, paused |-> FALSE]
Quiet    == [at |-> "none", pools |-> {}]

Live(u, p) == \E c \in Conn : conn[c] = "open" /\ UserOf[c] = u /\ PoolOf[c] = p
Status(paused) == IF paused THEN "paused" ELSE "ready"
Send(u, kind, status, pools) ==
    /\ Cardinality(events) < MaxEvents
    /\ events' = events \cup {[user |-> u, kind |-> kind, status |-> status, pools |-> pools]}

\* A writer acts on the pools it has read, whatever the record says by then.
Act(u, pools) == torn' = IF record[u].pools = pools THEN torn ELSE torn \cup {u}
Overwrite(u, pools, state) ==
    /\ record' = [record EXCEPT ![u] = [pools |-> pools, state |-> state]]
    /\ Act(u, pools)

\* A marker outlives logins; who has been connected for a while is in its pools.
Init ==
    /\ marker \in SUBSET User
    /\ conn = [c \in Conn |-> IF c \in Opened THEN "open" ELSE "new"]
    /\ record = [u \in User |->
            LET pools == {PoolOf[c] : c \in {o \in Opened : UserOf[o] = u}} IN
            IF pools = {} THEN Absent ELSE [pools |-> pools, state |-> Status(u \in marker)]]
    /\ ready = [p \in Pool |-> {u \in User : p \in record[u].pools /\ u \notin marker}]
    /\ reg = [c \in Conn |-> Idle] /\ armed = {} /\ pending = [p \in Pool |-> None]
    /\ leaving = [c \in Conn |-> Quiet]
    /\ console = [u \in User |-> Quiet] /\ toggles = [u \in User |-> 0]
    /\ events = {} /\ handlers = {} /\ torn = {}

-----------------------------------------------------------------------------
(* A connection opens: registerHumanAgent.                                 *)

\* The timer that is pending for the pool, whoever's it is, is cancelled.
Cancel(p) ==
    /\ armed' = armed \ {pending[p]}
    /\ pending' = [pending EXCEPT ![p] = None]

Open(c) ==
    /\ conn[c] = "new"
    /\ conn' = [conn EXCEPT ![c] = "open"]
    /\ Cancel(PoolOf[c])
    /\ reg' = [reg EXCEPT ![c].at = "look"]
    /\ UNCHANGED <<leaving, console, toggles, record, ready, marker, events, handlers, torn>>

\* A quota may refuse who has no record yet; the server closes the connection.
Deny(c) ==
    /\ reg[c].at = "look" /\ conn[c] = "open" /\ record[UserOf[c]] = Absent
    /\ reg' = [reg EXCEPT ![c] = Idle]
    /\ conn' = [conn EXCEPT ![c] = "closed"]
    /\ armed' = armed \cup {c}
    /\ pending' = [pending EXCEPT ![PoolOf[c]] = c]
    /\ UNCHANGED <<leaving, console, toggles, record, ready, marker, events, handlers, torn>>

Look(c) ==
    /\ reg[c].at = "look"
    /\ reg' = [reg EXCEPT ![c].at = "join", ![c].paused = UserOf[c] \in marker]
    /\ UNCHANGED <<conn, armed, pending, leaving, console, toggles, record, ready, marker, events,
                   handlers, torn>>

\* LUA_JOIN_POOL.
Join(c) ==
    LET u == UserOf[c]
        pools == record[u].pools \cup {PoolOf[c]} IN
    /\ reg[c].at = "join"
    /\ record' = [record EXCEPT ![u] = [pools |-> pools, state |-> Status(reg[c].paused)]]
    /\ reg' = [reg EXCEPT ![c].at = "add", ![c].pools = pools]
    /\ UNCHANGED <<conn, armed, pending, leaving, console, toggles, ready, marker, events,
                   handlers, torn>>

AddToPool(c) ==
    /\ reg[c].at = "add"
    /\ ready' = [ready EXCEPT ![PoolOf[c]] = @ \cup {UserOf[c]}]
    /\ reg' = [reg EXCEPT ![c].at = "tell"]
    /\ UNCHANGED <<conn, armed, pending, leaving, console, toggles, record, marker, events,
                   handlers, torn>>

TellLogin(c) ==
    /\ reg[c].at = "tell"
    /\ Send(UserOf[c], "login", Status(reg[c].paused), reg[c].pools)
    /\ reg' = [reg EXCEPT ![c] = Idle]
    /\ UNCHANGED <<conn, armed, pending, leaving, console, toggles, record, ready, marker,
                   handlers, torn>>

-----------------------------------------------------------------------------
(* A connection closes: the time of grace and unregisterHumanAgent.        *)

Close(c) ==
    /\ conn[c] = "open"
    /\ conn' = [conn EXCEPT ![c] = "closed"]
    /\ armed' = armed \cup {c}
    /\ pending' = [pending EXCEPT ![PoolOf[c]] = c]
    /\ UNCHANGED <<reg, leaving, console, toggles, record, ready, marker, events, handlers, torn>>

\* The time of grace is longer than a registration and the delivery of its event.
Settled(c) ==
    /\ \A d \in Conn : UserOf[d] = UserOf[c] /\ PoolOf[d] = PoolOf[c] /\ conn[d] = "closed" =>
            reg[d].at = "none"
    /\ \A e \in events : ~(e.user = UserOf[c] /\ e.kind = "login")
    /\ \A h \in handlers : ~(h.event.user = UserOf[c] /\ h.event.kind = "login")

\* LUA_LEAVE_POOL, sent in the same turn as the look at the live connections.
Leave(c) ==
    LET u == UserOf[c]
        left == record[u].pools \ {PoolOf[c]} IN
    /\ record' = [record EXCEPT ![u] = IF left = {} THEN Absent ELSE [@ EXCEPT !.pools = left]]
    /\ leaving' = [leaving EXCEPT ![c] =
            [at |-> CASE record[u] = Absent -> "only_srem" [] left = {} -> "srem_full"
                      [] OTHER -> "srem_part",
             pools |-> IF left = {} THEN record[u].pools ELSE left]]

\* Mutant: it is not asked whether somebody is connected.
MutantFire(c) ==
    /\ c \in armed /\ Settled(c)
    /\ armed' = armed \ {c}
    /\ pending' = [pending EXCEPT ![PoolOf[c]] = None]
    /\ Leave(c)
    /\ UNCHANGED <<conn, reg, console, toggles, ready, marker, events, handlers, torn>>

Fire(c) ==
    /\ c \in armed /\ Settled(c)
    /\ armed' = armed \ {c}
    /\ pending' = [pending EXCEPT ![PoolOf[c]] = None]
    /\ \/ Live(UserOf[c], PoolOf[c]) /\ UNCHANGED <<record, leaving>>
       \/ ~Live(UserOf[c], PoolOf[c]) /\ Leave(c)
    /\ UNCHANGED <<conn, reg, console, toggles, ready, marker, events, handlers, torn>>

BeforeRemoval == {"only_srem", "srem_full", "srem_part"}

\* Mutant: only who was found in the record is taken out of the pool.
MutantRemoveFromPool(c) ==
    /\ leaving[c].at \in BeforeRemoval
    /\ ready' = IF leaving[c].at = "srem_full" THEN ready
                ELSE [ready EXCEPT ![PoolOf[c]] = @ \ {UserOf[c]}]
    /\ leaving' = [leaving EXCEPT ![c] =
            IF @.at = "only_srem" THEN Quiet
            ELSE [@ EXCEPT !.at = IF @ = "srem_full" THEN "tell_full" ELSE "tell_part"]]
    /\ UNCHANGED <<conn, reg, armed, pending, console, toggles, record, marker, events, handlers,
                   torn>>

RemoveFromPool(c) ==
    /\ leaving[c].at \in BeforeRemoval
    /\ ready' = [ready EXCEPT ![PoolOf[c]] = @ \ {UserOf[c]}]
    /\ leaving' = [leaving EXCEPT ![c] =
            IF @.at = "only_srem" THEN Quiet
            ELSE [@ EXCEPT !.at = IF @ = "srem_full" THEN "tell_full" ELSE "tell_part"]]
    /\ UNCHANGED <<conn, reg, armed, pending, console, toggles, record, marker, events, handlers,
                   torn>>

\* Whoever leaves one of several pools is announced ready, paused or not.
TellLeft(c) ==
    /\ \/ leaving[c].at = "tell_full" /\ Send(UserOf[c], "logout", "logged_out", leaving[c].pools)
       \/ leaving[c].at = "tell_part" /\ Send(UserOf[c], "ready", "ready", leaving[c].pools)
    /\ leaving' = [leaving EXCEPT ![c] = Quiet]
    /\ UNCHANGED <<conn, reg, armed, pending, console, toggles, record, ready, marker, handlers,
                   torn>>

-----------------------------------------------------------------------------
(* The console: agent-pause and agent-resume.                              *)

ConsoleAt(u, at) == console[u].at = at
Step(u, to) ==
    console' = [console EXCEPT ![u] = IF to = "none" THEN Quiet ELSE [@ EXCEPT !.at = to]]

Toggle(u) ==
    /\ ConsoleAt(u, "none") /\ toggles[u] < MaxToggles
    /\ record[u] # Absent
    /\ \/ u \notin marker /\ record[u].state # "paused"
       \/ u \in marker
    /\ toggles' = [toggles EXCEPT ![u] = @ + 1]
    /\ console' = [console EXCEPT ![u] =
            [at |-> IF u \in marker THEN "resume_write" ELSE "pause_write",
             pools |-> record[u].pools]]
    /\ UNCHANGED <<conn, reg, armed, pending, leaving, record, ready, marker, events, handlers,
                   torn>>

PauseWrite(u) ==
    /\ ConsoleAt(u, "pause_write") /\ Step(u, "pause_srem")
    /\ Overwrite(u, console[u].pools, "paused")
    /\ UNCHANGED <<conn, reg, armed, pending, leaving, toggles, ready, marker, events, handlers>>

PauseSrem(u) ==
    /\ ConsoleAt(u, "pause_srem") /\ Step(u, "pause_mark")
    /\ ready' = [p \in Pool |-> IF p \in console[u].pools THEN ready[p] \ {u} ELSE ready[p]]
    /\ UNCHANGED <<conn, reg, armed, pending, leaving, toggles, record, marker, events, handlers,
                   torn>>

PauseMark(u) ==
    /\ ConsoleAt(u, "pause_mark") /\ Step(u, "pause_tell")
    /\ marker' = marker \cup {u}
    /\ UNCHANGED <<conn, reg, armed, pending, leaving, toggles, record, ready, events, handlers,
                   torn>>

PauseTell(u) ==
    /\ ConsoleAt(u, "pause_tell") /\ Step(u, "none")
    /\ Send(u, "pause", "paused", {})
    /\ UNCHANGED <<conn, reg, armed, pending, leaving, toggles, record, ready, marker, handlers,
                   torn>>

ResumeWrite(u) ==
    /\ ConsoleAt(u, "resume_write") /\ Step(u, "resume_unmark")
    /\ Overwrite(u, console[u].pools, "ready")
    /\ UNCHANGED <<conn, reg, armed, pending, leaving, toggles, ready, marker, events, handlers>>

ResumeUnmark(u) ==
    /\ ConsoleAt(u, "resume_unmark") /\ Step(u, "resume_sadd")
    /\ marker' = marker \ {u}
    /\ UNCHANGED <<conn, reg, armed, pending, leaving, toggles, record, ready, events, handlers,
                   torn>>

ResumeSadd(u) ==
    /\ ConsoleAt(u, "resume_sadd") /\ Step(u, "resume_tell")
    /\ ready' = [p \in Pool |-> IF p \in console[u].pools THEN ready[p] \cup {u} ELSE ready[p]]
    /\ Act(u, console[u].pools)
    /\ UNCHANGED <<conn, reg, armed, pending, leaving, toggles, record, marker, events, handlers>>

ResumeTell(u) ==
    /\ ConsoleAt(u, "resume_tell") /\ Step(u, "none")
    /\ Send(u, "resume", "ready", console[u].pools)
    /\ UNCHANGED <<conn, reg, armed, pending, leaving, toggles, record, ready, marker, handlers,
                   torn>>

\* The pong of an open connection, with the pause it finds.
Beat(c) ==
    /\ conn[c] = "open"
    /\ ~\E e \in events : e.user = UserOf[c] /\ e.kind = "beat"
    /\ Send(UserOf[c], "beat", Status(UserOf[c] \in marker), {})
    /\ UNCHANGED <<conn, reg, armed, pending, leaving, console, toggles, record, ready, marker,
                   handlers, torn>>

-----------------------------------------------------------------------------
(* The routing engine: LifecycleEventHandler, a task per event.            *)

\* Logins and resumes carry what it takes to create a record.
Creates(e) == e.kind \in {"login", "resume"}

\* What an event makes of the record that was read: the pools stay, the state is the event's.
Written(e, seen) ==
    [pools |-> IF seen = Absent THEN e.pools ELSE seen.pools, state |-> e.status]

Handle(e) ==
    /\ e \in events /\ Cardinality(handlers) < MaxHandlers
    /\ events' = events \ {e}
    /\ LET seen == record[e.user]
           at == CASE seen # Absent \/ Creates(e) -> "write"
                   [] e.kind = "logout" -> "sets"
                   [] OTHER -> "dropped" IN
       handlers' = IF at = "dropped" THEN handlers
                   ELSE handlers \cup {[event |-> e, seen |-> seen, at |-> at,
                                        to |-> Written(e, seen)]}
    /\ UNCHANGED <<conn, reg, armed, pending, leaving, console, toggles, record, ready, marker,
                   torn>>

\* set_instance: the whole record.  A login may create it; a resume was not meant to.
HandleWrite(h) ==
    /\ h \in handlers /\ h.at = "write"
    /\ record' = [record EXCEPT ![h.event.user] = h.to]
    /\ Act(h.event.user, IF h.event.kind = "login" THEN h.seen.pools ELSE h.to.pools)
    /\ handlers' = (handlers \ {h}) \cup {[h EXCEPT !.at = "sets"]}
    /\ UNCHANGED <<conn, reg, armed, pending, leaving, console, toggles, ready, marker, events>>

\* set_instance and _deactivate_instance: the sets of the pools of the record.
HandleSets(h) ==
    /\ h \in handlers /\ h.at = "sets"
    /\ \/ /\ h.to.state = "ready"
          /\ ready' = [p \in Pool |->
                IF p \in h.to.pools THEN ready[p] \cup {h.event.user} ELSE ready[p]]
          /\ Act(h.event.user, h.to.pools)
       \/ /\ h.to.state # "ready"
          /\ ready' = [p \in Pool |->
                IF p \in h.to.pools THEN ready[p] \ {h.event.user} ELSE ready[p]]
          /\ UNCHANGED torn
    /\ handlers' = handlers \ {h}
    /\ UNCHANGED <<conn, reg, armed, pending, leaving, console, toggles, record, marker, events>>

-----------------------------------------------------------------------------
Registers(c)   == Look(c) \/ Join(c) \/ AddToPool(c) \/ TellLogin(c)
Unregisters(c) == Fire(c) \/ RemoveFromPool(c) \/ TellLeft(c)
Pauses(u)      == PauseWrite(u) \/ PauseSrem(u) \/ PauseMark(u) \/ PauseTell(u)
Resumes(u)     == ResumeWrite(u) \/ ResumeUnmark(u) \/ ResumeSadd(u) \/ ResumeTell(u)
Routing ==
    \/ \E e \in events : Handle(e)
    \/ \E h \in handlers : HandleWrite(h) \/ HandleSets(h)

Next ==
    \/ \E c \in Conn : Open(c) \/ Deny(c) \/ Close(c) \/ Registers(c) \/ Unregisters(c) \/ Beat(c)
    \/ \E u \in User : Toggle(u) \/ Pauses(u) \/ Resumes(u)
    \/ Routing

Spec == Init /\ [][Next]_vars

-----------------------------------------------------------------------------
\* What each variable is; a timer runs for a closed connection, and the one a reconnection
\* would cancel is running.
PresenceTypeOK ==
    /\ conn \in [Conn -> {"new", "open", "closed"}]
    /\ reg \in [Conn -> [at : {"none", "look", "join", "add", "tell"}, pools : SUBSET Pool,
                         paused : BOOLEAN]]
    /\ armed \subseteq {c \in Conn : conn[c] = "closed"}
    /\ pending \in [Pool -> Conn \cup {None}]
    /\ \A p \in Pool : pending[p] # None => pending[p] \in armed
    /\ record \in [User -> Records] /\ ready \in [Pool -> SUBSET User] /\ marker \subseteq User
    /\ events \subseteq Event /\ torn \subseteq User /\ toggles \in [User -> 0..MaxToggles]

\* Who has an open connection to a pool, and has got past the script, is a member of it.
ConnectedIsMember ==
    \A c \in Conn : LET u == UserOf[c] IN
        conn[c] = "open" /\ reg[c].at \notin {"look", "join"} =>
            u \in torn \/ PoolOf[c] \in record[u].pools

\* Who is a member of a pool, or is offered its contacts, without a connection to it, is about
\* to be taken out by the connection that closed: nobody is logged in for ever.
NobodyIsForgotten ==
    \A u \in User, p \in Pool :
        p \in record[u].pools \/ u \in ready[p] =>
            \/ u \in torn
            \/ Live(u, p)
            \/ \E c \in Conn : /\ UserOf[c] = u /\ PoolOf[c] = p
                             /\ (c \in armed \/ leaving[c].at \in BeforeRemoval)

=============================================================================
