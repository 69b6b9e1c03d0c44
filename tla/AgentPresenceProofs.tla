-------------------------- MODULE AgentPresenceProofs --------------------------
(***************************************************************************)
(* Proofs about who is logged in and who is offered contacts, for any      *)
(* users, pools and connections: opened, closed, registered and taken out  *)
(* in any order, with any number of events on their way and in handling.   *)
(***************************************************************************)
EXTENDS AgentPresence, TLAPS

RegState     == [at : {"none", "look", "join", "add", "tell"}, pools : SUBSET Pool, paused : BOOLEAN]
LeavingState == [at : BeforeRemoval \cup {"none", "tell_full", "tell_part"}, pools : SUBSET Pool]
ConsoleAts   == {"none", "pause_write", "pause_srem", "pause_mark", "pause_tell",
                 "resume_write", "resume_unmark", "resume_sadd", "resume_tell"}
ConsoleState == [at : ConsoleAts, pools : SUBSET Pool]
Handler      == [event : Event, seen : Records, at : {"write", "sets"}, to : Records]

\* What a connection is, and its timer: a timer runs for a closed connection, and the one that
\* is pending for a pool is of a connection to that pool.
ConnInv ==
    /\ conn \in [Conn -> {"new", "open", "closed"}]
    /\ armed \subseteq {c \in Conn : conn[c] = "closed"}
    /\ pending \in [Pool -> Conn \cup {None}]
    /\ \A p \in Pool : pending[p] # None => pending[p] \in armed /\ PoolOf[pending[p]] = p
    /\ \A c \in Conn : conn[c] = "new" => reg[c].at = "none"

TypeInv ==
    /\ reg \in [Conn -> RegState]
    /\ ConnInv
    /\ leaving \in [Conn -> LeavingState]
    /\ console \in [User -> ConsoleState] /\ toggles \in [User -> 0..MaxToggles]
    /\ record \in [User -> Records] /\ ready \in [Pool -> SUBSET User]
    /\ marker \subseteq User /\ events \subseteq Event /\ torn \subseteq User
    /\ handlers \subseteq Handler
    /\ \A h \in handlers : h.to = Written(h.event, h.seen)

\* A connection to the pool is open, or one that has closed has its timer running.
Kept(u, p) == Live(u, p) \/ \E c \in armed : UserOf[c] = u /\ PoolOf[c] = p

\* Whoever is still registering is kept; past the script, it is a member.
RegInv == \A c \in Conn :
    /\ reg[c].at # "none" => Kept(UserOf[c], PoolOf[c])
    /\ reg[c].at \in {"add", "tell"} =>
          UserOf[c] \in torn \/ PoolOf[c] \in record[UserOf[c]].pools

\* A login that is not yet handled is about somebody who has pools.
Logins == {e \in events \cup {h.event : h \in handlers} : e.kind = "login"}
LoginInv == \A e \in Logins : e.user \in torn \/ record[e.user].pools # {}

\* A member is kept; who is offered contacts is, or is about to be taken out.
MemberInv == \A u \in User, p \in Pool :
    p \in record[u].pools => u \in torn \/ Kept(u, p)
OfferedInv == \A u \in User, p \in Pool : u \in ready[p] =>
    \/ u \in torn \/ Kept(u, p)
    \/ \E c \in Conn : UserOf[c] = u /\ PoolOf[c] = p /\ leaving[c].at \in BeforeRemoval

KeptInv == RegInv /\ LoginInv /\ MemberInv /\ OfferedInv

\* A connection that opens cancels the timer of its own user, if any: the timer that is
\* pending for its pool is not another's.
CancelsOwn == \A c \in Conn :
    Open(c) /\ pending[PoolOf[c]] # None => UserOf[pending[PoolOf[c]]] = UserOf[c]

-----------------------------------------------------------------------------
(* What the variables hold.                                                *)

LEMMA StatusType == ASSUME NEW b PROVE Status(b) \in States
  BY DEF Status, States

LEMMA WrittenType ==
  ASSUME NEW e \in Event, NEW seen \in Records
  PROVE  Written(e, seen) \in Records
  BY DEF Written, Records, Event

LEMMA ActType ==
  ASSUME NEW u \in User, NEW pools, torn \subseteq User, Act(u, pools)
  PROVE  torn' \subseteq User /\ torn \subseteq torn'
  BY DEF Act

LEMMA SendType ==
  ASSUME NEW u \in User, NEW k \in Kinds, NEW s \in States, NEW pools \in SUBSET Pool,
         events \subseteq Event, Send(u, k, s, pools)
  PROVE  events' \subseteq Event
  BY DEF Send, Event

LEMMA InitType == Init => TypeInv
<1> SUFFICES ASSUME Init PROVE TypeInv
  OBVIOUS
<1>1. ConnInv
  BY ConnAssumption DEF Init, ConnInv, Idle
<1>2. record \in [User -> Records]
  <2> SUFFICES ASSUME NEW u \in User
               PROVE  LET pools == {PoolOf[c] : c \in {o \in Opened : UserOf[o] = u}} IN
                      (IF pools = {} THEN Absent
                       ELSE [pools |-> pools, state |-> Status(u \in marker)]) \in Records
    BY DEF Init
  <2>1. {PoolOf[c] : c \in {o \in Opened : UserOf[o] = u}} \in SUBSET Pool
    BY ConnAssumption
  <2>2. Status(u \in marker) \in States
    BY StatusType
  <2> QED
    BY <2>1, <2>2 DEF Absent, Records, States
<1>3. ready \in [Pool -> SUBSET User]
  BY DEF Init
<1>4. reg \in [Conn -> RegState] /\ leaving \in [Conn -> LeavingState]
  BY DEF Init, Idle, RegState, Quiet, LeavingState
<1>5. console \in [User -> ConsoleState] /\ toggles \in [User -> 0..MaxToggles]
  BY PresenceBounds DEF Init, Quiet, ConsoleState, ConsoleAts
<1> QED
  BY <1>1, <1>2, <1>3, <1>4, <1>5 DEF Init, TypeInv

LEMMA TypeStep == TypeInv /\ [Next]_vars => TypeInv'
<1> SUFFICES ASSUME TypeInv, [Next]_vars PROVE TypeInv'
  OBVIOUS
<1> USE ConnAssumption
<1>1. CASE UNCHANGED vars
  BY <1>1 DEF vars, TypeInv, ConnInv
<1>2. ASSUME NEW c \in Conn, Open(c) \/ Deny(c) \/ Close(c) PROVE TypeInv'
  <2>0. PoolOf[c] \in Pool /\ reg[c] \in RegState /\ c # None
    BY DEF TypeInv
  <2>2. reg' \in [Conn -> RegState]
    <3>1. [reg[c] EXCEPT !.at = "look"] \in RegState /\ Idle \in RegState
      BY <2>0 DEF RegState, Idle
    <3>2. \/ reg' = reg \/ reg' = [reg EXCEPT ![c] = Idle]
          \/ reg' = [reg EXCEPT ![c] = [reg[c] EXCEPT !.at = "look"]]
      BY <1>2 DEF Open, Deny, Close
    <3> QED
      BY <3>1, <3>2 DEF TypeInv
  <2>1. ConnInv'
    <3>1. CASE Open(c)
      <4>1. /\ conn' \in [Conn -> {"new", "open", "closed"}]
            /\ armed' \subseteq {d \in Conn : conn'[d] = "closed"}
            /\ pending' \in [Pool -> Conn \cup {None}]
        BY <2>0, <3>1 DEF TypeInv, ConnInv, Open, Cancel
      <4>2. ASSUME NEW p \in Pool, pending'[p] # None
            PROVE  pending'[p] \in armed' /\ PoolOf[pending'[p]] = p
        BY <2>0, <3>1, <4>2 DEF TypeInv, ConnInv, Open, Cancel
      <4>3. ASSUME NEW d \in Conn, conn'[d] = "new" PROVE reg'[d].at = "none"
        BY <3>1, <4>3 DEF TypeInv, ConnInv, Open
      <4> QED
        BY <4>1, <4>2, <4>3 DEF ConnInv
    <3>2. CASE Deny(c) \/ Close(c)
      <4>1. /\ conn' \in [Conn -> {"new", "open", "closed"}]
            /\ armed' \subseteq {d \in Conn : conn'[d] = "closed"}
            /\ pending' \in [Pool -> Conn \cup {None}]
        BY <2>0, <3>2 DEF TypeInv, ConnInv, Deny, Close
      <4>2. ASSUME NEW p \in Pool, pending'[p] # None
            PROVE  pending'[p] \in armed' /\ PoolOf[pending'[p]] = p
        BY <2>0, <3>2, <4>2 DEF TypeInv, ConnInv, Deny, Close
      <4>3. ASSUME NEW d \in Conn, conn'[d] = "new" PROVE reg'[d].at = "none"
        BY <3>2, <4>3 DEF TypeInv, ConnInv, Deny, Close
      <4> QED
        BY <4>1, <4>2, <4>3 DEF ConnInv
    <3> QED
      BY <1>2, <3>1, <3>2
  <2> QED
    BY <1>2, <2>1, <2>2 DEF TypeInv, Open, Deny, Close
<1>3. ASSUME NEW c \in Conn, Registers(c) PROVE TypeInv'
  <2>1. ConnInv'
    <3>1. reg[c].at # "none" /\ \A d \in Conn \ {c} : reg'[d] = reg[d]
      BY <1>3 DEF TypeInv, Registers, Look, Join, AddToPool, TellLogin
    <3>2. UNCHANGED <<conn, armed, pending>>
      BY <1>3 DEF Registers, Look, Join, AddToPool, TellLogin
    <3> QED
      BY <3>1, <3>2 DEF TypeInv, ConnInv
  <2>2. UserOf[c] \in User /\ PoolOf[c] \in Pool /\ reg[c] \in RegState
    BY DEF TypeInv
  <2>3. CASE Look(c)
    <3>1. (UserOf[c] \in marker) \in BOOLEAN
      OBVIOUS
    <3>2. reg' \in [Conn -> RegState]
      BY <2>2, <2>3, <3>1 DEF TypeInv, RegState, Look
    <3> QED
      BY <2>1, <2>3, <3>2 DEF TypeInv, Look
  <2>4. CASE Join(c)
    <3>1. Status(reg[c].paused) \in States
      BY StatusType
    <3>2. record[UserOf[c]].pools \cup {PoolOf[c]} \in SUBSET Pool
      BY <2>2 DEF TypeInv, Records
    <3>3. record' \in [User -> Records]
      BY <2>2, <2>4, <3>1, <3>2 DEF TypeInv, Records, Join
    <3>4. reg' \in [Conn -> RegState]
      BY <2>2, <2>4, <3>2 DEF TypeInv, RegState, Join
    <3> QED
      BY <2>1, <2>4, <3>3, <3>4 DEF TypeInv, Join
  <2>5. CASE AddToPool(c)
    BY <2>1, <2>2, <2>5 DEF TypeInv, RegState, AddToPool
  <2>6. CASE TellLogin(c)
    <3>1. Status(reg[c].paused) \in States
      BY StatusType
    <3>2. events' \subseteq Event
      BY <2>2, <2>6, <3>1, SendType DEF TypeInv, TellLogin, Kinds, RegState
    <3> QED
      BY <2>1, <2>2, <2>6, <3>2 DEF TypeInv, RegState, Idle, TellLogin
  <2> QED
    BY <1>3, <2>3, <2>4, <2>5, <2>6 DEF Registers
<1>4. ASSUME NEW c \in Conn, Unregisters(c) PROVE TypeInv'
  <2>1. ConnInv'
    BY <1>4 DEF TypeInv, ConnInv, Unregisters, Fire, RemoveFromPool, TellLeft
  <2>2. UserOf[c] \in User /\ PoolOf[c] \in Pool /\ leaving[c] \in LeavingState
    BY DEF TypeInv
  <2>3. CASE Fire(c) /\ Live(UserOf[c], PoolOf[c])
    BY <2>1, <2>3 DEF TypeInv, Fire
  <2>4. CASE Fire(c) /\ ~Live(UserOf[c], PoolOf[c])
    <3>1. record[UserOf[c]] \in Records
      BY <2>2 DEF TypeInv
    <3>2. record' \in [User -> Records]
      BY <2>2, <2>4, <3>1 DEF TypeInv, Fire, Leave, Records, Absent, States
    <3>3. leaving' \in [Conn -> LeavingState]
      BY <2>2, <2>4, <3>1 DEF TypeInv, Fire, Leave, Records, LeavingState, BeforeRemoval
    <3> QED
      BY <2>1, <2>4, <3>2, <3>3 DEF TypeInv, Fire
  <2>5. CASE RemoveFromPool(c)
    <3>1. leaving' \in [Conn -> LeavingState]
      BY <2>2, <2>5 DEF TypeInv, RemoveFromPool, LeavingState, Quiet, BeforeRemoval
    <3> QED
      BY <2>1, <2>2, <2>5, <3>1 DEF TypeInv, RemoveFromPool
  <2>6. CASE TellLeft(c)
    <3>1. events' \subseteq Event
      BY <2>2, <2>6, SendType DEF TypeInv, TellLeft, Kinds, States, LeavingState
    <3> QED
      BY <2>1, <2>2, <2>6, <3>1 DEF TypeInv, TellLeft, LeavingState, Quiet
  <2> QED
    BY <1>4, <2>3, <2>4, <2>5, <2>6 DEF Unregisters, Fire
<1>5. ASSUME NEW c \in Conn, Beat(c) PROVE TypeInv'
  <2>1. Status(UserOf[c] \in marker) \in States
    BY StatusType
  <2>2. events' \subseteq Event
    BY <1>5, <2>1, SendType DEF TypeInv, Beat, Kinds
  <2> QED
    BY <1>5, <2>2 DEF TypeInv, ConnInv, Beat
<1>6. ASSUME NEW u \in User, Toggle(u) PROVE TypeInv'
  <2>1. record[u] \in Records
    BY DEF TypeInv
  <2>2. console' \in [User -> ConsoleState] /\ toggles' \in [User -> 0..MaxToggles]
    BY <1>6, <2>1, PresenceBounds DEF TypeInv, Toggle, Records, ConsoleState, ConsoleAts
  <2> QED
    BY <1>6, <2>2 DEF TypeInv, ConnInv, Toggle
<1>7. ASSUME NEW u \in User, Pauses(u) \/ Resumes(u) PROVE TypeInv'
  <2>1. console[u] \in ConsoleState
    BY DEF TypeInv
  <2>2. console' \in [User -> ConsoleState]
    <3>1. PICK at \in ConsoleAts : Step(u, at)
      BY <1>7 DEF Pauses, Resumes, PauseWrite, PauseSrem, PauseMark, PauseTell,
         ResumeWrite, ResumeUnmark, ResumeSadd, ResumeTell, ConsoleAts
    <3>2. [console[u] EXCEPT !.at = at] \in ConsoleState /\ Quiet \in ConsoleState
      BY <2>1 DEF ConsoleState, Quiet, ConsoleAts
    <3> QED
      BY <3>1, <3>2 DEF TypeInv, Step
  <2>3. ConnInv'
    BY <1>7 DEF TypeInv, ConnInv, Pauses, Resumes, PauseWrite, PauseSrem, PauseMark, PauseTell,
       ResumeWrite, ResumeUnmark, ResumeSadd, ResumeTell
  <2>4. record' \in [User -> Records]
    <3>1. \/ record' = record
          \/ \E state \in States :
                record' = [record EXCEPT ![u] = [pools |-> console[u].pools, state |-> state]]
      BY <1>7 DEF Pauses, Resumes, PauseWrite, PauseSrem, PauseMark, PauseTell,
         ResumeWrite, ResumeUnmark, ResumeSadd, ResumeTell, Overwrite, States
    <3>2. \A state \in States : [pools |-> console[u].pools, state |-> state] \in Records
      BY <2>1 DEF ConsoleState, Records
    <3> QED
      BY <3>1, <3>2 DEF TypeInv
  <2>5. torn' \subseteq User
    BY <1>7, ActType DEF TypeInv, Pauses, Resumes, PauseWrite, PauseSrem, PauseMark, PauseTell,
       ResumeWrite, ResumeUnmark, ResumeSadd, ResumeTell, Overwrite
  <2>6. ready' \in [Pool -> SUBSET User] /\ marker' \subseteq User
    BY <1>7 DEF TypeInv, Pauses, Resumes, PauseWrite, PauseSrem, PauseMark, PauseTell,
       ResumeWrite, ResumeUnmark, ResumeSadd, ResumeTell
  <2>7. events' \subseteq Event
    <3>1. CASE PauseTell(u)
      BY <3>1, SendType DEF TypeInv, PauseTell, Kinds, States
    <3>2. CASE ResumeTell(u)
      BY <2>1, <3>2, SendType DEF TypeInv, ResumeTell, Kinds, States, ConsoleState
    <3> QED
      BY <1>7, <3>1, <3>2 DEF TypeInv, Pauses, Resumes, PauseWrite, PauseSrem, PauseMark,
         ResumeWrite, ResumeUnmark, ResumeSadd
  <2>8. UNCHANGED <<reg, leaving, toggles, handlers>>
    BY <1>7 DEF Pauses, Resumes, PauseWrite, PauseSrem, PauseMark, PauseTell,
       ResumeWrite, ResumeUnmark, ResumeSadd, ResumeTell
  <2> QED
    BY <2>2, <2>3, <2>4, <2>5, <2>6, <2>7, <2>8 DEF TypeInv
<1>8. ASSUME NEW e \in events, Handle(e) PROVE TypeInv'
  <2>1. e \in Event /\ record[e.user] \in Records
    BY DEF TypeInv, Event
  <2>2. Written(e, record[e.user]) \in Records
    BY <2>1, WrittenType
  <2>3. \/ handlers' = handlers
        \/ \E at \in {"write", "sets"} :
              handlers' = handlers \cup {[event |-> e, seen |-> record[e.user], at |-> at,
                                         to |-> Written(e, record[e.user])]}
    BY <1>8 DEF Handle
  <2>4. handlers' \subseteq Handler /\ \A h \in handlers' : h.to = Written(h.event, h.seen)
    BY <2>1, <2>2, <2>3 DEF TypeInv, Handler
  <2> QED
    BY <1>8, <2>4 DEF TypeInv, ConnInv, Handle
<1>9. ASSUME NEW h \in handlers, HandleWrite(h) \/ HandleSets(h) PROVE TypeInv'
  <2>1. h \in Handler /\ h.event \in Event /\ h.event.user \in User /\ h.to \in Records
    BY DEF TypeInv, Handler, Event
  <2>2. record' \in [User -> Records]
    BY <1>9, <2>1 DEF TypeInv, HandleWrite, HandleSets
  <2>3. torn' \subseteq User
    BY <1>9, <2>1, ActType DEF TypeInv, HandleWrite, HandleSets
  <2>4. ready' \in [Pool -> SUBSET User]
    BY <1>9, <2>1 DEF TypeInv, HandleWrite, HandleSets
  <2>5. /\ [h EXCEPT !.at = "sets"] \in Handler
        /\ [h EXCEPT !.at = "sets"].to = h.to /\ [h EXCEPT !.at = "sets"].event = h.event
        /\ [h EXCEPT !.at = "sets"].seen = h.seen
    BY <2>1 DEF Handler
  <2>6. handlers' \subseteq Handler /\ \A i \in handlers' : i.to = Written(i.event, i.seen)
    BY <1>9, <2>5 DEF TypeInv, HandleWrite, HandleSets
  <2> QED
    BY <1>9, <2>2, <2>3, <2>4, <2>6 DEF TypeInv, ConnInv, HandleWrite, HandleSets
<1> QED
  BY <1>1, <1>2, <1>3, <1>4, <1>5, <1>6, <1>7, <1>8, <1>9 DEF Next, Routing

\* Every variable keeps its type, however many connections, pools and events there are.
THEOREM PresenceTypeCorrect == Spec => []PresenceTypeOK
<1>1. TypeInv => PresenceTypeOK
  BY DEF TypeInv, ConnInv, PresenceTypeOK, RegState
<1> QED
  BY <1>1, InitType, TypeStep, PTL DEF Spec

-----------------------------------------------------------------------------
(* What a step makes of the pools of a user.                               *)

\* A connection that registers adds its pool.
Joined(u) == \E c \in Conn :
    Join(c) /\ UserOf[c] = u /\ record'[u].pools = record[u].pools \cup {PoolOf[c]}

\* One that is gone takes its pool out.
Left(u, p) == \E c \in Conn :
    /\ Fire(c) /\ UserOf[c] = u /\ PoolOf[c] = p /\ ~Live(u, p)
    /\ record'[u].pools = record[u].pools \ {p}

\* A login finds nothing and writes a record again.
Revived(u) ==
    record[u].pools = {} /\ \E h \in handlers : h.event.kind = "login" /\ h.event.user = u

\* A writer that wrote on, of pools that had not changed, wrote what was there.
LEMMA OverwriteKeeps ==
  ASSUME TypeInv, NEW u \in User, NEW pools, NEW state, Overwrite(u, pools, state), NEW v \in User
  PROVE  v \in torn' \/ record'[v].pools = record[v].pools
  BY DEF TypeInv, Overwrite, Act

\* The pools of a user stay unless a connection registers or leaves, a login writes them again,
\* or somebody wrote what had changed in between.
LEMMA PoolsStep ==
  ASSUME TypeInv, Next
  PROVE  /\ torn \subseteq torn'
         /\ \A u \in User :
              \/ u \in torn'
              \/ record'[u].pools = record[u].pools
              \/ Joined(u) \/ Revived(u)
              \/ \E p \in Pool : Left(u, p)
<1> USE ConnAssumption
<1> DEFINE Kinds5(u) == \/ u \in torn'
                        \/ record'[u].pools = record[u].pools
                        \/ Joined(u) \/ Revived(u)
                        \/ \E p \in Pool : Left(u, p)
           Goal == torn \subseteq torn' /\ \A u \in User : Kinds5(u)
<1>0. ASSUME UNCHANGED <<record, torn>> PROVE Goal
  BY <1>0
<1> HIDE DEF Kinds5
<1>1. ASSUME NEW c \in Conn, Join(c) PROVE Goal
  <2>0. torn' = torn /\ UserOf[c] \in User
    BY <1>1 DEF Join
  <2>1. ASSUME NEW u \in User PROVE Kinds5(u)
    <3>1. CASE u = UserOf[c]
      <4>1. record'[u].pools = record[u].pools \cup {PoolOf[c]}
        BY <1>1, <3>1 DEF Join, TypeInv
      <4>2. Joined(u)
        BY <1>1, <3>1, <4>1 DEF Joined
      <4> QED
        BY <4>2 DEF Kinds5
    <3>2. CASE u # UserOf[c]
      BY <1>1, <3>2 DEF Join, TypeInv, Kinds5
    <3> QED
      BY <3>1, <3>2
  <2> QED
    BY <2>0, <2>1
<1>2. ASSUME NEW c \in Conn, Fire(c) PROVE Goal
  <2>0. torn' = torn /\ UserOf[c] \in User /\ PoolOf[c] \in Pool
    BY <1>2 DEF Fire
  <2>1. ASSUME NEW u \in User PROVE Kinds5(u)
    <3>1. CASE u = UserOf[c] /\ ~Live(u, PoolOf[c])
      <4>1. record'[u].pools = record[u].pools \ {PoolOf[c]}
        BY <1>2, <3>1 DEF Fire, Leave, TypeInv, Records, Absent
      <4>2. Left(u, PoolOf[c])
        BY <1>2, <3>1, <4>1 DEF Left
      <4> QED
        BY <2>0, <4>2 DEF Kinds5
    <3>2. CASE u # UserOf[c] \/ Live(u, PoolOf[c])
      BY <1>2, <2>0, <3>2 DEF Fire, Leave, TypeInv, Kinds5
    <3> QED
      BY <3>1, <3>2
  <2> QED
    BY <2>0, <2>1
<1>3. ASSUME NEW u \in User, PauseWrite(u) \/ ResumeWrite(u) PROVE Goal
  <2>1. PICK state : Overwrite(u, console[u].pools, state)
    BY <1>3 DEF PauseWrite, ResumeWrite
  <2>2. torn \subseteq torn'
    BY <2>1 DEF Overwrite, Act
  <2>3. \A v \in User : v \in torn' \/ record'[v].pools = record[v].pools
    BY <2>1, OverwriteKeeps
  <2> QED
    BY <2>2, <2>3 DEF Kinds5
<1>4. ASSUME NEW u \in User, ResumeSadd(u) PROVE Goal
  BY <1>4 DEF ResumeSadd, Act, Kinds5
<1>5. ASSUME NEW h \in handlers, HandleWrite(h) PROVE Goal
  <2>0. h \in Handler /\ h.event \in Event /\ h.event.user \in User /\ h.to = Written(h.event, h.seen)
    BY DEF TypeInv, Handler, Event
  <2>1. torn \subseteq torn'
    BY <1>5 DEF HandleWrite, Act
  <2>2. ASSUME NEW v \in User, v \notin torn' PROVE Kinds5(v)
    <3>1. CASE v # h.event.user
      BY <1>5, <2>0, <3>1 DEF HandleWrite, TypeInv, Kinds5
    <3>2. CASE v = h.event.user /\ h.event.kind = "login"
      <4>1. record[v].pools = h.seen.pools
        BY <1>5, <2>2, <3>2 DEF HandleWrite, Act
      <4>2. CASE h.seen = Absent
        <5>1. record[v].pools = {}
          BY <4>1, <4>2 DEF Absent
        <5> QED
          BY <3>2, <5>1 DEF Revived, Kinds5
      <4>3. CASE h.seen # Absent
        <5>1. h.to.pools = h.seen.pools
          BY <2>0, <4>3 DEF Written
        <5>2. record'[v] = h.to
          BY <1>5, <2>0, <3>2 DEF HandleWrite, TypeInv
        <5> QED
          BY <4>1, <5>1, <5>2 DEF Kinds5
      <4> QED
        BY <4>2, <4>3
    <3>3. CASE v = h.event.user /\ h.event.kind # "login"
      <4>1. record'[v] = h.to /\ record[v].pools = h.to.pools
        BY <1>5, <2>0, <2>2, <3>3 DEF HandleWrite, TypeInv, Act
      <4> QED
        BY <4>1 DEF Kinds5
    <3> QED
      BY <3>1, <3>2, <3>3
  <2>3. ASSUME NEW v \in User, v \in torn' PROVE Kinds5(v)
    BY <2>3 DEF Kinds5
  <2> QED
    BY <2>1, <2>2, <2>3
<1>6. ASSUME NEW h \in handlers, HandleSets(h) PROVE Goal
  BY <1>6 DEF HandleSets, Act, Kinds5
<1>7. Goal
  <2> HIDE DEF Goal
  <2>1. ASSUME NEW c \in Conn, Open(c) \/ Deny(c) \/ Close(c) \/ Registers(c) PROVE Goal
    BY <2>1, <1>1, <1>0 DEF Registers, Open, Deny, Close, Look, AddToPool, TellLogin
  <2>2. ASSUME NEW c \in Conn, Unregisters(c) \/ Beat(c) PROVE Goal
    BY <2>2, <1>0, <1>2 DEF Unregisters, RemoveFromPool, TellLeft, Beat
  <2>3. ASSUME NEW u \in User, Toggle(u) \/ Pauses(u) \/ Resumes(u) PROVE Goal
    BY <2>3, <1>3, <1>4, <1>0 DEF Toggle, Pauses, Resumes, PauseSrem, PauseMark, PauseTell,
       ResumeUnmark, ResumeTell
  <2>4. ASSUME Routing PROVE Goal
    BY <2>4, <1>5, <1>6, <1>0 DEF Routing, Handle
  <2> QED
    BY <2>1, <2>2, <2>3, <2>4 DEF Next
<1> QED
  BY <1>7 DEF Kinds5

\* What a step makes of where a registration is.
LEMMA RegStep ==
  ASSUME TypeInv, Next, NEW c \in Conn
  PROVE  \/ reg'[c].at = "none" /\ (conn'[c] = conn[c] \/ conn'[c] = "closed")
            /\ (reg[c].at = "none" \/ reg[c].at = "tell" \/ conn'[c] = "closed")
         \/ reg'[c].at = reg[c].at /\ (conn'[c] = conn[c] \/ conn'[c] = "closed")
         \/ reg'[c].at = "look" /\ Open(c)
         \/ reg'[c].at = "join" /\ reg[c].at = "look" /\ conn'[c] = conn[c]
         \/ reg'[c].at = "add" /\ Join(c)
         \/ reg'[c].at = "tell" /\ reg[c].at = "add" /\ conn'[c] = conn[c]
<1> DEFINE Goal == \/ reg'[c].at = "none" /\ (conn'[c] = conn[c] \/ conn'[c] = "closed")
                      /\ (reg[c].at = "none" \/ reg[c].at = "tell" \/ conn'[c] = "closed")
                   \/ reg'[c].at = reg[c].at /\ (conn'[c] = conn[c] \/ conn'[c] = "closed")
                   \/ reg'[c].at = "look" /\ Open(c)
                   \/ reg'[c].at = "join" /\ reg[c].at = "look" /\ conn'[c] = conn[c]
                   \/ reg'[c].at = "add" /\ Join(c)
                   \/ reg'[c].at = "tell" /\ reg[c].at = "add" /\ conn'[c] = conn[c]
<1>0. /\ reg \in [Conn -> RegState] /\ conn \in [Conn -> {"new", "open", "closed"}]
      /\ reg[c] \in RegState
  BY DEF TypeInv, ConnInv
<1>1. ASSUME NEW d \in Conn, Open(d) PROVE Goal
  BY <1>0, <1>1 DEF Open, RegState
<1>2. ASSUME NEW d \in Conn, Deny(d) PROVE Goal
  BY <1>0, <1>2 DEF Deny, RegState, Idle
<1>3. ASSUME NEW d \in Conn, Close(d) PROVE Goal
  BY <1>0, <1>3 DEF Close
<1>4. ASSUME NEW d \in Conn, Look(d) PROVE Goal
  BY <1>0, <1>4 DEF Look, RegState
<1>5. ASSUME NEW d \in Conn, Join(d) PROVE Goal
  <2>1. CASE d = c
    <3>1. reg'[c].at = "add"
      BY <1>0, <1>5, <2>1 DEF Join, RegState
    <3> QED
      BY <1>5, <2>1, <3>1
  <2>2. CASE d # c
    BY <1>0, <1>5, <2>2 DEF Join
  <2> QED
    BY <2>1, <2>2
<1>6. ASSUME NEW d \in Conn, AddToPool(d) PROVE Goal
  BY <1>0, <1>6 DEF AddToPool, RegState
<1>7. ASSUME NEW d \in Conn, TellLogin(d) PROVE Goal
  BY <1>0, <1>7 DEF TellLogin, RegState, Idle
<1>8. ASSUME UNCHANGED <<conn, reg>> PROVE Goal
  BY <1>8
<1>9. Goal
  <2> HIDE DEF Goal
  <2>1. ASSUME NEW d \in Conn, Open(d) \/ Deny(d) \/ Close(d) \/ Registers(d) PROVE Goal
    BY <2>1, <1>1, <1>2, <1>3, <1>4, <1>5, <1>6, <1>7 DEF Registers
  <2>2. ASSUME NEW d \in Conn, Unregisters(d) \/ Beat(d) PROVE Goal
    BY <2>2, <1>8 DEF Unregisters, Fire, RemoveFromPool, TellLeft, Beat
  <2>3. ASSUME NEW u \in User, Toggle(u) \/ Pauses(u) \/ Resumes(u) PROVE Goal
    BY <2>3, <1>8 DEF Toggle, Pauses, Resumes, PauseWrite, PauseSrem, PauseMark, PauseTell,
       ResumeWrite, ResumeUnmark, ResumeSadd, ResumeTell
  <2>4. ASSUME Routing PROVE Goal
    BY <2>4, <1>8 DEF Routing, Handle, HandleWrite, HandleSets
  <2> QED
    BY <2>1, <2>2, <2>3, <2>4 DEF Next
<1> QED
  BY <1>9

-----------------------------------------------------------------------------
(* Who is connected is a member.                                           *)

LEMMA ConnectedInit == Init => ConnectedIsMember
<1> SUFFICES ASSUME Init, NEW c \in Conn, conn[c] = "open"
             PROVE  PoolOf[c] \in record[UserOf[c]].pools
  BY DEF ConnectedIsMember
<1> DEFINE pools == {PoolOf[o] : o \in {o \in Opened : UserOf[o] = UserOf[c]}}
<1>1. c \in Opened /\ UserOf[c] \in User
  BY ConnAssumption DEF Init
<1>2. PoolOf[c] \in pools
  BY <1>1
<1>3. record[UserOf[c]] = [pools |-> pools, state |-> Status(UserOf[c] \in marker)]
  BY <1>1, <1>2 DEF Init
<1> QED
  BY <1>2, <1>3

LEMMA ConnectedStep ==
  TypeInv /\ ConnectedIsMember /\ [Next]_vars => ConnectedIsMember'
<1> SUFFICES ASSUME TypeInv, ConnectedIsMember, [Next]_vars PROVE ConnectedIsMember'
  OBVIOUS
<1> USE ConnAssumption
<1>1. CASE UNCHANGED vars
  BY <1>1 DEF vars, ConnectedIsMember
<1>2. ASSUME Next, NEW c \in Conn, conn'[c] = "open", reg'[c].at \notin {"look", "join"},
             UserOf[c] \notin torn'
      PROVE  PoolOf[c] \in record'[UserOf[c]].pools
  <2> DEFINE u == UserOf[c]
  <2>0. u \in User /\ PoolOf[c] \in Pool
    OBVIOUS
  <2>1. /\ torn \subseteq torn'
        /\ \/ record'[u].pools = record[u].pools
           \/ Joined(u) \/ Revived(u)
           \/ \E p \in Pool : Left(u, p)
    BY <1>2, <2>0, PoolsStep
  <2>2. CASE Join(c)
    BY <2>0, <2>2 DEF Join, TypeInv
  <2>3. CASE ~Join(c)
    <3>1. conn[c] = "open" /\ reg[c].at \notin {"look", "join"}
      BY <1>2, <2>3, RegStep
    <3>2. PoolOf[c] \in record[u].pools
      BY <1>2, <2>1, <3>1 DEF ConnectedIsMember
    <3>3. ASSUME NEW p \in Pool, Left(u, p) PROVE PoolOf[c] \in record'[u].pools
      BY <3>1, <3>2, <3>3 DEF Left, Live
    <3> QED
      BY <2>1, <3>2, <3>3 DEF Joined, Revived
  <2> QED
    BY <2>2, <2>3
<1> QED
  BY <1>1, <1>2 DEF ConnectedIsMember

\* Whoever has an open connection to a pool, and has got past the script, is a member of the
\* pool, unless some writer acted on pools that had changed since it read them: no closing
\* connection, login, pause or heartbeat, in any order, takes it out.
THEOREM ConnectedIsIn == Spec => []ConnectedIsMember
<1> QED
  BY InitType, TypeStep, ConnectedInit, ConnectedStep, PTL DEF Spec

-----------------------------------------------------------------------------
(* Nobody is forgotten.                                                    *)

\* A timer goes off for who has no open connection.
Expires(u, p) == \E c \in Conn :
    Fire(c) /\ UserOf[c] = u /\ PoolOf[c] = p /\ ~Live(u, p)

\* Who is kept stays kept until a timer goes off: a connection that closes starts one, and
\* the one that cancels a timer of its own is open.
LEMMA KeptStep ==
  ASSUME TypeInv, Next, CancelsOwn, NEW u \in User, NEW p \in Pool, Kept(u, p), ~Expires(u, p)
  PROVE  Kept(u, p)'
<1> USE ConnAssumption
<1>1. ASSUME NEW c \in Conn, Open(c) PROVE Kept(u, p)'
  <2>1. ASSUME NEW d \in Conn, conn[d] = "open" PROVE conn'[d] = "open"
    BY <1>1, <2>1 DEF Open, TypeInv, ConnInv
  <2>2. conn'[c] = "open"
    BY <1>1 DEF Open, TypeInv, ConnInv
  <2>3. CASE Live(u, p)
    BY <2>1, <2>3 DEF Live, Kept
  <2>4. ASSUME NEW d \in armed, UserOf[d] = u, PoolOf[d] = p PROVE Kept(u, p)'
    <3>1. CASE d # pending[PoolOf[c]]
      BY <1>1, <2>4, <3>1 DEF Open, Cancel, Kept
    <3>2. CASE d = pending[PoolOf[c]]
      <4>1. d \in Conn /\ d # None /\ PoolOf[d] = PoolOf[c]
        BY <3>2 DEF TypeInv, ConnInv
      <4>2. UserOf[d] = UserOf[c]
        BY <1>1, <3>2, <4>1 DEF CancelsOwn
      <4> QED
        BY <2>2, <2>4, <4>1, <4>2 DEF Kept, Live
    <3> QED
      BY <3>1, <3>2
  <2> QED
    BY <2>3, <2>4 DEF Kept
<1>2. ASSUME NEW c \in Conn, Deny(c) \/ Close(c) PROVE Kept(u, p)'
  <2>1. /\ armed' = armed \cup {c}
        /\ \A d \in Conn \ {c} : conn'[d] = conn[d]
    BY <1>2 DEF Deny, Close, TypeInv, ConnInv
  <2> QED
    BY <2>1 DEF Kept, Live
<1>3. ASSUME NEW c \in Conn, Fire(c) PROVE Kept(u, p)'
  <2>1. armed' = armed \ {c} /\ conn' = conn
    BY <1>3 DEF Fire
  <2>2. CASE Live(u, p)
    BY <2>1, <2>2 DEF Kept, Live
  <2>3. CASE ~Live(u, p)
    BY <1>3, <2>1, <2>3 DEF Kept, Expires
  <2> QED
    BY <2>2, <2>3
<1>4. ASSUME UNCHANGED <<conn, armed>> PROVE Kept(u, p)'
  BY <1>4 DEF Kept, Live
<1>5. ASSUME NEW c \in Conn, Registers(c) \/ Unregisters(c) \/ Beat(c) PROVE Kept(u, p)'
  BY <1>3, <1>4, <1>5 DEF Registers, Look, Join, AddToPool, TellLogin, Unregisters,
     RemoveFromPool, TellLeft, Beat
<1>6. ASSUME NEW v \in User, Toggle(v) \/ Pauses(v) \/ Resumes(v) PROVE Kept(u, p)'
  BY <1>4, <1>6 DEF Toggle, Pauses, Resumes, PauseWrite, PauseSrem, PauseMark, PauseTell,
     ResumeWrite, ResumeUnmark, ResumeSadd, ResumeTell
<1>7. CASE Routing
  BY <1>4, <1>7 DEF Routing, Handle, HandleWrite, HandleSets
<1> QED
  BY <1>1, <1>2, <1>5, <1>6, <1>7 DEF Next

\* The timer goes off when every registration for the pool, and every login of the user, is over.
LEMMA ExpiredIsOver ==
  ASSUME TypeInv, NEW u \in User, NEW p \in Pool, Expires(u, p)
  PROVE  /\ \A c \in Conn : UserOf[c] = u /\ PoolOf[c] = p => reg[c].at = "none"
         /\ \A e \in Logins : e.user # u
         /\ reg' = reg /\ torn' = torn /\ events' = events /\ handlers' = handlers
         /\ p \notin record'[u].pools
         /\ \A q \in Pool \ {p} : q \in record[u].pools => q \in record'[u].pools
         /\ \E c \in Conn : UserOf[c] = u /\ PoolOf[c] = p /\ leaving'[c].at \in BeforeRemoval
<1>1. PICK c \in Conn : Fire(c) /\ UserOf[c] = u /\ PoolOf[c] = p /\ ~Live(u, p)
  BY DEF Expires
<1>2. ASSUME NEW d \in Conn, UserOf[d] = u, PoolOf[d] = p PROVE reg[d].at = "none"
  <2>1. conn[d] = "new" \/ conn[d] = "closed"
    BY <1>1, <1>2 DEF Live, TypeInv, ConnInv
  <2> QED
    BY <1>1, <1>2, <2>1 DEF Fire, Settled, TypeInv, ConnInv
<1>3. ASSUME NEW e \in Logins PROVE e.user # u
  BY <1>1 DEF Logins, Fire, Settled
<1>4. Leave(c)
  BY <1>1 DEF Fire
<1>5. /\ p \notin record'[u].pools
      /\ \A q \in Pool \ {p} : q \in record[u].pools => q \in record'[u].pools
  BY <1>1, <1>4 DEF Leave, TypeInv, Records, Absent
<1>6. leaving'[c].at \in BeforeRemoval
  BY <1>4 DEF Leave, TypeInv, BeforeRemoval
<1> QED
  BY <1>1, <1>2, <1>3, <1>5, <1>6 DEF Fire

\* A member stays one unless its time is over or somebody wrote what had changed in between.
LEMMA MemberStays ==
  ASSUME TypeInv, Next, NEW u \in User, NEW p \in Pool, p \in record[u].pools
  PROVE  u \in torn' \/ p \in record'[u].pools \/ Expires(u, p)
<1>1. \/ u \in torn'
      \/ record'[u].pools = record[u].pools
      \/ Joined(u) \/ Revived(u)
      \/ \E q \in Pool : Left(u, q)
  BY PoolsStep
<1> QED
  BY <1>1 DEF Joined, Revived, Left, Expires

LEMMA KeptInit == Init => KeptInv
<1> SUFFICES ASSUME Init PROVE KeptInv
  OBVIOUS
<1> USE ConnAssumption
<1>1. ASSUME NEW u \in User, NEW p \in Pool, p \in record[u].pools PROVE Kept(u, p)
  <2> DEFINE pools == {PoolOf[o] : o \in {o \in Opened : UserOf[o] = u}}
  <2>1. CASE pools = {}
    BY <1>1, <2>1 DEF Init, Absent
  <2>2. CASE pools # {}
    <3>1. record[u].pools = pools
      BY <2>2 DEF Init
    <3>2. PICK o \in Opened : UserOf[o] = u /\ PoolOf[o] = p
      BY <1>1, <3>1
    <3>3. conn[o] = "open"
      BY <3>2 DEF Init
    <3> QED
      BY <3>2, <3>3 DEF Kept, Live
  <2> QED
    BY <2>1, <2>2
<1>2. MemberInv
  BY <1>1 DEF MemberInv
<1>3. OfferedInv
  BY <1>1 DEF OfferedInv, Init
<1>4. RegInv /\ LoginInv
  BY DEF Init, RegInv, LoginInv, Logins, Idle
<1> QED
  BY <1>2, <1>3, <1>4 DEF KeptInv

LEMMA RegInvStep ==
  ASSUME TypeInv, KeptInv, Next, CancelsOwn
  PROVE  RegInv'
<1> USE ConnAssumption
<1>1. ASSUME NEW c \in Conn, reg'[c].at # "none" PROVE Kept(UserOf[c], PoolOf[c])'
  <2>1. CASE Open(c)
    <3>1. conn'[c] = "open"
      BY <2>1 DEF Open, TypeInv, ConnInv
    <3> QED
      BY <3>1 DEF Kept, Live
  <2>2. CASE ~Open(c)
    <3>1. reg[c].at # "none"
      BY <1>1, <2>2, RegStep DEF Join
    <3>2. Kept(UserOf[c], PoolOf[c])
      BY <3>1 DEF KeptInv, RegInv
    <3>3. ~Expires(UserOf[c], PoolOf[c])
      BY <3>1, ExpiredIsOver
    <3> QED
      BY <3>2, <3>3, KeptStep
  <2> QED
    BY <2>1, <2>2
<1>2. ASSUME NEW c \in Conn, reg'[c].at \in {"add", "tell"}, UserOf[c] \notin torn'
      PROVE  PoolOf[c] \in record'[UserOf[c]].pools
  <2>1. torn \subseteq torn'
    BY PoolsStep
  <2>2. CASE Join(c)
    BY <2>2 DEF Join, TypeInv
  <2>3. CASE ~Join(c)
    <3>1. reg[c].at \in {"add", "tell"}
      BY <1>2, <2>3, RegStep
    <3>2. PoolOf[c] \in record[UserOf[c]].pools
      BY <1>2, <2>1, <3>1 DEF KeptInv, RegInv
    <3>3. ~Expires(UserOf[c], PoolOf[c])
      BY <3>1, ExpiredIsOver
    <3> QED
      BY <1>2, <3>2, <3>3, MemberStays
  <2> QED
    BY <2>2, <2>3
<1> QED
  BY <1>1, <1>2 DEF RegInv

\* A login that is on its way was, or is sent by a registration that has joined.
LEMMA LoginStep ==
  ASSUME TypeInv, Next, NEW e \in Logins'
  PROVE  \/ e \in Logins
         \/ \E c \in Conn : TellLogin(c) /\ e.user = UserOf[c]
<1> DEFINE Goal == \/ e \in Logins
                   \/ \E c \in Conn : TellLogin(c) /\ e.user = UserOf[c]
<1>0. e.kind = "login" /\ (e \in events' \/ \E h \in handlers' : e = h.event)
  BY DEF Logins
<1>1. ASSUME NEW c \in Conn, TellLogin(c) PROVE Goal
  <2>1. handlers' = handlers /\ \A f \in events' : f \in events \/ f.user = UserOf[c]
    BY <1>1 DEF TellLogin, Send
  <2> QED
    BY <1>0, <1>1, <2>1 DEF Logins
<1>2. ASSUME NEW c \in Conn, TellLeft(c) \/ Beat(c) PROVE Goal
  BY <1>0, <1>2 DEF TellLeft, Beat, Send, Logins
<1>3. ASSUME NEW u \in User, PauseTell(u) \/ ResumeTell(u) PROVE Goal
  BY <1>0, <1>3 DEF PauseTell, ResumeTell, Send, Logins
<1>4. ASSUME NEW f \in events, Handle(f) PROVE Goal
  <2>1. \A h \in handlers' : h \in handlers \/ h.event = f
    BY <1>4 DEF Handle
  <2> QED
    BY <1>0, <1>4, <2>1 DEF Handle, Logins
<1>5. ASSUME NEW h \in handlers, HandleWrite(h) \/ HandleSets(h) PROVE Goal
  <2>1. h \in Handler
    BY DEF TypeInv
  <2>2. [h EXCEPT !.at = "sets"].event = h.event
    BY <2>1 DEF Handler
  <2>3. \A i \in handlers' : \E j \in handlers : i.event = j.event
    BY <1>5, <2>2 DEF HandleWrite, HandleSets
  <2> QED
    BY <1>0, <1>5, <2>3 DEF HandleWrite, HandleSets, Logins
<1>6. ASSUME UNCHANGED <<events, handlers>> PROVE Goal
  BY <1>6 DEF Logins
<1>7. Goal
  <2> HIDE DEF Goal
  <2>1. ASSUME NEW c \in Conn, Open(c) \/ Deny(c) \/ Close(c) \/ Registers(c) PROVE Goal
    BY <2>1, <1>1, <1>6 DEF Open, Deny, Close, Registers, Look, Join, AddToPool
  <2>2. ASSUME NEW c \in Conn, Unregisters(c) \/ Beat(c) PROVE Goal
    BY <2>2, <1>2, <1>6 DEF Unregisters, Fire, RemoveFromPool
  <2>3. ASSUME NEW u \in User, Toggle(u) \/ Pauses(u) \/ Resumes(u) PROVE Goal
    BY <2>3, <1>3, <1>6 DEF Toggle, Pauses, Resumes, PauseWrite, PauseSrem, PauseMark,
       ResumeWrite, ResumeUnmark, ResumeSadd
  <2>4. ASSUME Routing PROVE Goal
    BY <2>4, <1>4, <1>5 DEF Routing
  <2> QED
    BY <2>1, <2>2, <2>3, <2>4 DEF Next
<1> QED
  BY <1>7

LEMMA LoginInvStep ==
  ASSUME TypeInv, KeptInv, Next
  PROVE  LoginInv'
<1> USE ConnAssumption
<1> SUFFICES ASSUME NEW e \in Logins', e.user \notin torn' PROVE record'[e.user].pools # {}
  BY DEF LoginInv
<1>1. torn \subseteq torn'
  BY PoolsStep
<1>2. CASE \E c \in Conn : TellLogin(c) /\ e.user = UserOf[c]
  <2>1. PICK c \in Conn : TellLogin(c) /\ e.user = UserOf[c]
    BY <1>2
  <2>2. reg[c].at = "tell" /\ record' = record
    BY <2>1 DEF TellLogin
  <2> QED
    BY <1>1, <2>1, <2>2 DEF KeptInv, RegInv
<1>3. CASE e \in Logins
  <2>1. e.user \in User
    BY <1>3 DEF TypeInv, Logins, Handler, Event
  <2>2. record[e.user].pools # {} /\ record[e.user].pools \subseteq Pool
    BY <1>1, <1>3, <2>1 DEF KeptInv, LoginInv, TypeInv, Records
  <2>3. PICK p \in Pool : p \in record[e.user].pools
    BY <2>2
  <2>4. ~Expires(e.user, p)
    BY <1>3, <2>1, ExpiredIsOver
  <2> QED
    BY <2>1, <2>3, <2>4, MemberStays
<1> QED
  BY <1>2, <1>3, LoginStep

LEMMA MemberInvStep ==
  ASSUME TypeInv, KeptInv, Next, CancelsOwn
  PROVE  MemberInv'
<1> USE ConnAssumption
<1> SUFFICES ASSUME NEW u \in User, NEW p \in Pool, p \in record'[u].pools, u \notin torn'
             PROVE  Kept(u, p)'
  BY DEF MemberInv
<1>0. torn \subseteq torn'
  BY PoolsStep
<1>1. ~Expires(u, p)
  BY ExpiredIsOver
<1>2. CASE p \in record[u].pools
  BY <1>0, <1>1, <1>2, KeptStep DEF KeptInv, MemberInv
<1>3. CASE p \notin record[u].pools
  <2>1. Joined(u) \/ Revived(u)
    BY <1>3, PoolsStep DEF Left
  <2>2. ~Revived(u)
    <3> SUFFICES ASSUME NEW h \in handlers, h.event.kind = "login", h.event.user = u
                 PROVE  record[u].pools # {}
      BY DEF Revived
    <3>1. h.event \in Logins
      BY DEF Logins
    <3> QED
      BY <1>0, <3>1 DEF KeptInv, LoginInv
  <2>3. PICK c \in Conn : Join(c) /\ UserOf[c] = u /\ PoolOf[c] = p
    BY <1>3, <2>1, <2>2 DEF Joined
  <2>4. Kept(u, p)
    BY <2>3 DEF Join, KeptInv, RegInv
  <2> QED
    BY <1>1, <2>4, KeptStep
<1> QED
  BY <1>2, <1>3

\* Who is offered contacts of a pool was, or somebody adds it who is kept.
LEMMA OfferedStep ==
  ASSUME TypeInv, KeptInv, Next, NEW u \in User, NEW p \in Pool, u \in ready'[p], u \notin ready[p]
  PROVE  u \in torn' \/ Kept(u, p)
<1> USE ConnAssumption
<1> DEFINE Goal == u \in torn' \/ Kept(u, p)
<1>0. torn \subseteq torn' /\ ready \in [Pool -> SUBSET User]
  BY PoolsStep DEF TypeInv
<1>1. ASSUME NEW c \in Conn, AddToPool(c) PROVE Goal
  <2>1. UserOf[c] = u /\ PoolOf[c] = p /\ reg[c].at = "add"
    BY <1>0, <1>1 DEF AddToPool
  <2> QED
    BY <2>1 DEF KeptInv, RegInv
<1>2. ASSUME NEW v \in User, ResumeSadd(v) PROVE Goal
  <2>1. v = u /\ p \in console[u].pools
    BY <1>2 DEF ResumeSadd
  <2>2. u \in torn' \/ record[u].pools = console[u].pools
    BY <1>2, <2>1 DEF ResumeSadd, Act
  <2> QED
    BY <1>0, <2>1, <2>2 DEF KeptInv, MemberInv
<1>3. ASSUME NEW h \in handlers, HandleSets(h) PROVE Goal
  <2>1. h.event.user = u /\ p \in h.to.pools /\ Act(u, h.to.pools)
    BY <1>3 DEF HandleSets
  <2>2. u \in torn' \/ record[u].pools = h.to.pools
    BY <2>1 DEF Act
  <2> QED
    BY <1>0, <2>1, <2>2 DEF KeptInv, MemberInv
<1>4. ASSUME NEW c \in Conn, RemoveFromPool(c) PROVE Goal
  BY <1>0, <1>4 DEF RemoveFromPool
<1>5. ASSUME NEW v \in User, PauseSrem(v) PROVE Goal
  BY <1>5 DEF PauseSrem
<1>6. ASSUME ready' = ready PROVE Goal
  BY <1>6
<1>7. Goal
  <2> HIDE DEF Goal
  <2>1. ASSUME NEW c \in Conn, Open(c) \/ Deny(c) \/ Close(c) \/ Registers(c) PROVE Goal
    BY <2>1, <1>1, <1>6 DEF Open, Deny, Close, Registers, Look, Join, TellLogin
  <2>2. ASSUME NEW c \in Conn, Unregisters(c) \/ Beat(c) PROVE Goal
    BY <2>2, <1>4, <1>6 DEF Unregisters, Fire, TellLeft, Beat
  <2>3. ASSUME NEW v \in User, Toggle(v) \/ Pauses(v) \/ Resumes(v) PROVE Goal
    BY <2>3, <1>2, <1>5, <1>6 DEF Toggle, Pauses, Resumes, PauseWrite, PauseMark, PauseTell,
       ResumeWrite, ResumeUnmark, ResumeTell
  <2>4. ASSUME Routing PROVE Goal
    BY <2>4, <1>3, <1>6 DEF Routing, Handle, HandleWrite
  <2> QED
    BY <2>1, <2>2, <2>3, <2>4 DEF Next
<1> QED
  BY <1>7

\* A connection that is about to take its user out of its pool stays that, or does.
LEMMA LeavingStep ==
  ASSUME TypeInv, Next, NEW c \in Conn, leaving[c].at \in BeforeRemoval
  PROVE  leaving'[c].at \in BeforeRemoval \/ UserOf[c] \notin ready'[PoolOf[c]]
<1> USE ConnAssumption
<1> DEFINE Goal == leaving'[c].at \in BeforeRemoval \/ UserOf[c] \notin ready'[PoolOf[c]]
<1>0. leaving \in [Conn -> LeavingState] /\ ready \in [Pool -> SUBSET User]
  BY DEF TypeInv
<1>1. ASSUME NEW d \in Conn, Fire(d) PROVE Goal
  BY <1>0, <1>1 DEF Fire, Leave, BeforeRemoval
<1>2. ASSUME NEW d \in Conn, RemoveFromPool(d) PROVE Goal
  BY <1>0, <1>2 DEF RemoveFromPool
<1>3. ASSUME NEW d \in Conn, TellLeft(d) PROVE Goal
  BY <1>0, <1>3 DEF TellLeft, BeforeRemoval
<1>4. ASSUME leaving' = leaving PROVE Goal
  BY <1>4
<1>5. Goal
  <2> HIDE DEF Goal
  <2>1. ASSUME NEW d \in Conn, Open(d) \/ Deny(d) \/ Close(d) \/ Registers(d) PROVE Goal
    BY <2>1, <1>4 DEF Open, Deny, Close, Registers, Look, Join, AddToPool, TellLogin
  <2>2. ASSUME NEW d \in Conn, Unregisters(d) \/ Beat(d) PROVE Goal
    BY <2>2, <1>1, <1>2, <1>3, <1>4 DEF Unregisters, Beat
  <2>3. ASSUME NEW v \in User, Toggle(v) \/ Pauses(v) \/ Resumes(v) PROVE Goal
    BY <2>3, <1>4 DEF Toggle, Pauses, Resumes, PauseWrite, PauseSrem, PauseMark, PauseTell,
       ResumeWrite, ResumeUnmark, ResumeSadd, ResumeTell
  <2>4. ASSUME Routing PROVE Goal
    BY <2>4, <1>4 DEF Routing, Handle, HandleWrite, HandleSets
  <2> QED
    BY <2>1, <2>2, <2>3, <2>4 DEF Next
<1> QED
  BY <1>5

LEMMA OfferedInvStep ==
  ASSUME TypeInv, KeptInv, Next, CancelsOwn
  PROVE  OfferedInv'
<1> SUFFICES ASSUME NEW u \in User, NEW p \in Pool, u \in ready'[p], u \notin torn', ~Kept(u, p)'
             PROVE  \E c \in Conn : UserOf[c] = u /\ PoolOf[c] = p
                                    /\ leaving'[c].at \in BeforeRemoval
  BY DEF OfferedInv
<1>0. torn \subseteq torn'
  BY PoolsStep
<1>1. CASE Kept(u, p)
  <2>1. Expires(u, p)
    BY <1>1, KeptStep
  <2> QED
    BY <2>1, ExpiredIsOver
<1>2. CASE ~Kept(u, p)
  <2>1. u \in ready[p]
    BY <1>2, OfferedStep
  <2>2. PICK c \in Conn : UserOf[c] = u /\ PoolOf[c] = p /\ leaving[c].at \in BeforeRemoval
    BY <1>0, <1>2, <2>1 DEF KeptInv, OfferedInv
  <2> QED
    BY <2>2, LeavingStep
<1> QED
  BY <1>1, <1>2

LEMMA KeptInvStep ==
  TypeInv /\ KeptInv /\ [Next]_vars /\ [CancelsOwn]_vars => KeptInv'
<1> SUFFICES ASSUME TypeInv, KeptInv, [Next]_vars, [CancelsOwn]_vars PROVE KeptInv'
  OBVIOUS
<1>1. CASE UNCHANGED vars
  BY <1>1 DEF vars, KeptInv, RegInv, LoginInv, Logins, MemberInv, OfferedInv, Kept, Live
<1>2. CASE Next /\ CancelsOwn
  BY <1>2, RegInvStep, LoginInvStep, MemberInvStep, OfferedInvStep DEF KeptInv
<1> QED
  BY <1>1, <1>2

LEMMA KeptImplies == TypeInv /\ KeptInv => NobodyIsForgotten
<1> SUFFICES ASSUME TypeInv, KeptInv, NEW u \in User, NEW p \in Pool,
                    p \in record[u].pools \/ u \in ready[p]
             PROVE  \/ u \in torn \/ Live(u, p)
                    \/ \E c \in Conn : /\ UserOf[c] = u /\ PoolOf[c] = p
                                       /\ (c \in armed \/ leaving[c].at \in BeforeRemoval)
  BY DEF NobodyIsForgotten
<1>1. \/ u \in torn \/ Kept(u, p)
      \/ \E c \in Conn : UserOf[c] = u /\ PoolOf[c] = p /\ leaving[c].at \in BeforeRemoval
  BY DEF KeptInv, MemberInv, OfferedInv
<1>2. armed \subseteq Conn
  BY DEF TypeInv, ConnInv
<1> QED
  BY <1>1, <1>2 DEF Kept

\* Who is a member of a pool, or is offered its contacts, without a connection to it, is about
\* to be taken out by the connection that closed, as long as no connection that opens cancels
\* the timer of another user's: the timers that a reconnection cancels are kept by pool, and
\* that is the only way in which somebody stays logged in for ever.
THEOREM ForgottenOnlyByAnother == Spec /\ [][CancelsOwn]_vars => []NobodyIsForgotten
<1>1. TypeInv /\ [Next]_vars => TypeInv'
  BY TypeStep
<1> QED
  BY <1>1, InitType, KeptInit, KeptInvStep, KeptImplies, PTL DEF Spec

=============================================================================
