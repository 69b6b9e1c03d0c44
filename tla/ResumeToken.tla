----------------------------- MODULE ResumeToken -----------------------------
(***************************************************************************)
(* The gateway's resume of one suspended execution.  Whoever should resume *)
(* it, a supervisor and the timeout scanner all come in by handle_resume,  *)
(* which takes a lock on the token, looks the token up, puts away the work *)
(* item the delegation left in a queue, publishes the resume, writes who   *)
(* ended it and deletes the token.  The execution may delegate again as    *)
(* soon as the resume is published, and the new work item has the keys of  *)
(* the old one.                                                            *)
(***************************************************************************)
EXTENDS Naturals

CONSTANTS
    Caller,         \* those who come once
    Scanner,        \* comes as long as the token is listed and due
    Nobody,
    Faults,         \* which troubles may happen
    MaxTroubles     \* how many of them (model bound)

Callers == Caller \cup {Scanner}

ASSUME CallerAssumption == Scanner \notin Caller /\ Nobody \notin Callers
ASSUME TroubleAssumption ==
    /\ Faults \subseteq {"crash", "fail", "hash_lost", "slow", "lockless", "outlived"}
    /\ MaxTroubles \in Nat

VARIABLES
    listed,         \* the token is in {t}:resume_tokens, the table of the tenant
    meta,           \* {t}:resume_meta:{token} exists
    terminal,       \* {t}:resume_terminal:{token} exists
    lock,           \* who is in {t}:resume_inflight:{token}
    due,            \* the deadline of the token has passed
    ledger,         \* {t}:work_task:{session}: the work item that is noted there
    item,           \* the work item of the session in its queue
    pc,             \* caller -> where it is
    answer,         \* caller -> what it was told last
    published,      \* session_resumed events
    followed,       \* what the resumed execution did: "no", "queued", "noted"
    consumed,       \* somebody deleted the token after its resume, and it has not come back
    revived,        \* how often it did come back
    leftover,       \* the record of a consumed token was left behind
    unnamed,        \* the terminal record could not be written, or did not live long enough
    unread,         \* the callers that could not read the terminal record
    unguarded,      \* somebody went on without the lock, or outlived it
    failed,         \* times a caller did not get from the event to the deletion
    troubles

token == <<listed, meta, terminal>>
work  == <<ledger, item, followed>>
vars  == <<token, lock, due, work, pc, answer, published, consumed, revived, leftover,
           unnamed, unread, unguarded, failed, troubles>>

Item    == {"none", "first", "second"}
Body    == {"lookup", "read_terminal", "read_meta", "rehydrate", "check", "expire", "forget",
            "publish", "write_terminal", "consume", "drop_meta"}
Pcs     == Body \cup {"idle", "lock", "unlock", "over"}
Answers == {"none", "resumed", "unknown", "conflict", "forbidden", "error", "dead"}

Init ==
    /\ listed = TRUE /\ meta = TRUE /\ terminal = FALSE
    /\ lock = Nobody /\ due = FALSE
    /\ ledger = "first" /\ item = "first" /\ followed = "no"
    /\ pc = [c \in Callers |-> "idle"] /\ answer = [c \in Callers |-> "none"]
    /\ published = 0 /\ consumed = FALSE /\ revived = 0 /\ leftover = FALSE
    /\ unnamed = FALSE /\ unread = {}
    /\ unguarded = FALSE /\ failed = 0 /\ troubles = 0

Goto(c, to)     == pc' = [pc EXCEPT ![c] = to]
Tell(c, told)   == answer' = [answer EXCEPT ![c] = told]
Leave(c, told)  == Goto(c, "unlock") /\ Tell(c, told)
Trouble(kind)   == kind \in Faults /\ troubles < MaxTroubles /\ troubles' = troubles + 1
\* Mutant: the scanner wakes up once.
MutantRest(c)   == Goto(c, "over")

\* The scanner comes again, everybody else once.
Rest(c)         == Goto(c, IF c = Scanner THEN "idle" ELSE "over")

ghosts == <<consumed, revived, leftover, unnamed, unread, unguarded, failed>>

-----------------------------------------------------------------------------
(* handle_resume: the lock.                                                *)

Come(c) ==
    /\ pc[c] = "idle"
    /\ c = Scanner => listed /\ due
    /\ Goto(c, "lock")
    /\ UNCHANGED <<token, lock, due, work, answer, published, ghosts, troubles>>

\* Mutant: the lock is written without NX.
MutantTakeLock(c) ==
    /\ pc[c] = "lock"
    /\ lock' = c
    /\ Goto(c, "lookup")
    /\ UNCHANGED <<token, due, work, answer, published, ghosts, troubles>>

\* SET NX EX; if Redis does not answer the resume goes on without the lock.
TakeLock(c) ==
    /\ pc[c] = "lock"
    /\ \/ /\ lock = Nobody
          /\ lock' = c
          /\ Goto(c, "lookup")
          /\ UNCHANGED <<answer, unguarded, troubles>>
       \/ /\ lock # Nobody
          /\ Rest(c) /\ Tell(c, "conflict")
          /\ UNCHANGED <<lock, unguarded, troubles>>
       \/ /\ Trouble("lockless")
          /\ unguarded' = TRUE
          /\ Goto(c, "lookup")
          /\ UNCHANGED <<lock, answer>>
    /\ UNCHANGED <<token, due, work, published, consumed, revived, leftover, unnamed, unread,
                   failed>>

\* The finally: the key is deleted, whoever is in it, or left to its time to live.
Unlock(c) ==
    /\ pc[c] = "unlock"
    /\ \/ lock' = Nobody /\ UNCHANGED troubles
       \/ Trouble("fail") /\ UNCHANGED lock
    /\ Rest(c)
    /\ UNCHANGED <<token, due, work, answer, published, ghosts>>

-----------------------------------------------------------------------------
(* _handle_resume_locked: what the token stands for.                       *)

\* Mutant: the record of the token is read without the terminal record.
MutantLookup(c) ==
    /\ pc[c] = "lookup"
    /\ \/ Goto(c, IF listed THEN "check" ELSE "read_meta") /\ UNCHANGED <<answer, troubles>>
       \/ Trouble("fail") /\ Leave(c, "error")
    /\ UNCHANGED <<token, lock, due, work, published, ghosts>>

Lookup(c) ==
    /\ pc[c] = "lookup"
    /\ \/ Goto(c, IF listed THEN "check" ELSE "read_terminal") /\ UNCHANGED <<answer, troubles>>
       \/ Trouble("fail") /\ Leave(c, "error")
    /\ UNCHANGED <<token, lock, due, work, published, ghosts>>

\* Redis not answering reads as no record.
ReadTerminal(c) ==
    /\ pc[c] = "read_terminal"
    /\ \/ /\ IF terminal THEN Leave(c, "conflict") ELSE Goto(c, "read_meta") /\ UNCHANGED answer
          /\ UNCHANGED <<unread, troubles>>
       \/ /\ Trouble("fail")
          /\ unread' = unread \cup {c}
          /\ Goto(c, "read_meta") /\ UNCHANGED answer
    /\ UNCHANGED <<token, lock, due, work, published, consumed, revived, leftover, unnamed,
                   unguarded, failed>>

\* And so here.
ReadMeta(c) ==
    /\ pc[c] = "read_meta"
    /\ \/ /\ IF meta /\ ~due THEN Goto(c, "rehydrate") /\ UNCHANGED answer
                              ELSE Leave(c, "unknown")
          /\ UNCHANGED troubles
       \/ Trouble("fail") /\ Leave(c, "unknown")
    /\ UNCHANGED <<token, lock, due, work, published, ghosts>>

\* The token outlives the table of the tenant: it is put back, or else resumed unlisted.
Rehydrate(c) ==
    /\ pc[c] = "rehydrate"
    /\ \/ listed' = TRUE /\ UNCHANGED troubles
       \/ Trouble("fail") /\ UNCHANGED listed
    /\ consumed' = FALSE
    /\ revived' = IF consumed THEN revived + 1 ELSE revived
    /\ Goto(c, "check")
    /\ UNCHANGED <<meta, terminal, lock, due, work, answer, published, leftover, unnamed, unread,
                   unguarded, failed>>

\* Mutant: the resume is published before the work item is put away.
MutantCheck(c) ==
    /\ pc[c] = "check"
    /\ \/ /\ Goto(c, IF ledger = "none" THEN "write_terminal" ELSE "expire")
          /\ published' = published + 1
          /\ UNCHANGED <<answer, troubles>>
       \/ c # Scanner /\ Leave(c, "forbidden") /\ UNCHANGED <<published, troubles>>
       \/ Trouble("fail") /\ Goto(c, "publish") /\ UNCHANGED <<answer, published>>
    /\ UNCHANGED <<token, lock, due, work, ghosts>>

\* Whether the caller holds the work item, by WorkQueue; and whether one is noted, which
\* Redis not answering denies.
Check(c) ==
    /\ pc[c] = "check"
    /\ \/ /\ Goto(c, IF ledger = "none" THEN "publish" ELSE "expire")
          /\ UNCHANGED <<answer, troubles>>
       \/ c # Scanner /\ Leave(c, "forbidden") /\ UNCHANGED troubles
       \/ Trouble("fail") /\ Goto(c, "publish") /\ UNCHANGED answer
    /\ UNCHANGED <<token, lock, due, work, published, ghosts>>

-----------------------------------------------------------------------------
(* The work item goes, the resume is published, the token goes.            *)

\* By the session, whichever item is in the queue; a failure does not stop the resume.
ExpireItem(c) ==
    /\ pc[c] = "expire"
    /\ \/ item' = "none" /\ UNCHANGED troubles
       \/ Trouble("fail") /\ UNCHANGED item
    /\ Goto(c, "forget")
    /\ UNCHANGED <<token, lock, due, ledger, followed, answer, published, ghosts>>

\* Mutant: who ended the token is written before the resume is published.
MutantForget(c) ==
    /\ pc[c] = "forget"
    /\ \/ ledger' = "none" /\ UNCHANGED troubles
       \/ Trouble("fail") /\ UNCHANGED ledger
    /\ Goto(c, "write_terminal")
    /\ UNCHANGED <<token, lock, due, item, followed, answer, published, ghosts>>

Forget(c) ==
    /\ pc[c] = "forget"
    /\ \/ ledger' = "none" /\ UNCHANGED troubles
       \/ Trouble("fail") /\ UNCHANGED ledger
    /\ Goto(c, "publish")
    /\ UNCHANGED <<token, lock, due, item, followed, answer, published, ghosts>>

Publish(c) ==
    /\ pc[c] = "publish"
    /\ \/ published' = published + 1 /\ Goto(c, "write_terminal") /\ UNCHANGED <<answer, troubles>>
       \/ Trouble("fail") /\ Leave(c, "error") /\ UNCHANGED published
    /\ UNCHANGED <<token, lock, due, work, ghosts>>

\* Best effort.
WriteTerminal(c) ==
    /\ pc[c] = "write_terminal"
    /\ \/ terminal' = TRUE /\ UNCHANGED <<unnamed, troubles>>
       \/ Trouble("fail") /\ unnamed' = TRUE /\ UNCHANGED terminal
    /\ Goto(c, "consume")
    /\ UNCHANGED <<listed, meta, lock, due, work, answer, published, consumed, revived, leftover,
                   unread, unguarded, failed>>

Consume(c) ==
    /\ pc[c] = "consume"
    /\ \/ /\ listed' = FALSE /\ consumed' = TRUE
          /\ Goto(c, "drop_meta")
          /\ UNCHANGED <<answer, failed, troubles>>
       \/ /\ Trouble("fail")
          /\ failed' = failed + 1
          /\ Leave(c, "error")
          /\ UNCHANGED <<listed, consumed>>
    /\ UNCHANGED <<meta, terminal, lock, due, work, published, revived, leftover, unnamed, unread,
                   unguarded>>

\* Best effort.
DropMeta(c) ==
    /\ pc[c] = "drop_meta"
    /\ \/ meta' = FALSE /\ UNCHANGED <<leftover, troubles>>
       \/ Trouble("fail") /\ leftover' = TRUE /\ UNCHANGED meta
    /\ Leave(c, "resumed")
    /\ UNCHANGED <<listed, terminal, lock, due, work, published, consumed, revived, unnamed,
                   unread, unguarded, failed>>

-----------------------------------------------------------------------------
(* The resumed execution delegates again.                                  *)

Requeue ==
    /\ published > 0 /\ followed = "no"
    /\ followed' = "queued" /\ item' = "second"
    /\ UNCHANGED <<token, lock, due, ledger, pc, answer, published, ghosts, troubles>>

NoteItem ==
    /\ followed = "queued"
    /\ followed' = "noted" /\ ledger' = "second"
    /\ UNCHANGED <<token, lock, due, item, pc, answer, published, ghosts, troubles>>

-----------------------------------------------------------------------------
(* Time and troubles.                                                      *)

Deadline ==
    /\ ~due /\ due' = TRUE
    /\ UNCHANGED <<token, lock, work, pc, answer, published, ghosts, troubles>>

\* The table of the tenant expires as a whole.
HashLost ==
    /\ listed /\ Trouble("hash_lost")
    /\ listed' = FALSE
    /\ UNCHANGED <<meta, terminal, lock, due, work, pc, answer, published, ghosts>>

\* The terminal record lives 25 hours, the token as long as its deadline wants.
TerminalExpires ==
    /\ terminal /\ Trouble("outlived")
    /\ terminal' = FALSE /\ unnamed' = TRUE
    /\ UNCHANGED <<listed, meta, lock, due, work, pc, answer, published, consumed, revived,
                   leftover, unread, unguarded, failed>>

Holds(c) == lock = c /\ pc[c] \in Body \cup {"unlock"}

\* The time to live of the lock is up: its holder is dead, or slow.
LockLapses ==
    /\ lock # Nobody
    /\ \/ ~Holds(lock) /\ UNCHANGED <<unguarded, troubles>>
       \/ Holds(lock) /\ Trouble("slow") /\ unguarded' = TRUE
    /\ lock' = Nobody
    /\ UNCHANGED <<token, due, work, pc, answer, published, consumed, revived, leftover, unnamed,
                   unread, failed>>

\* The process dies; the scanner of the next one begins anew.
Crash(c) ==
    /\ pc[c] \in Body \cup {"unlock"} /\ Trouble("crash")
    /\ Rest(c) /\ Tell(c, "dead")
    /\ failed' = IF pc[c] \in {"write_terminal", "consume"} THEN failed + 1 ELSE failed
    /\ leftover' = (leftover \/ pc[c] = "drop_meta")
    /\ UNCHANGED <<token, lock, due, work, published, consumed, revived, unnamed, unread,
                   unguarded>>

-----------------------------------------------------------------------------
Handles(c) ==
    \/ TakeLock(c) \/ Unlock(c)
    \/ Lookup(c) \/ ReadTerminal(c) \/ ReadMeta(c) \/ Rehydrate(c) \/ Check(c)
    \/ ExpireItem(c) \/ Forget(c) \/ Publish(c) \/ WriteTerminal(c) \/ Consume(c) \/ DropMeta(c)

Next ==
    \/ \E c \in Callers : Come(c) \/ Handles(c) \/ Crash(c)
    \/ Requeue \/ NoteItem
    \/ Deadline \/ HashLost \/ TerminalExpires \/ LockLapses

\* The scanner wakes up every minute, what has begun goes on, time passes.
Fairness ==
    /\ WF_vars(Come(Scanner)) /\ \A c \in Callers : WF_vars(Handles(c))
    /\ WF_vars(Deadline) /\ WF_vars(LockLapses)

Spec == Init /\ [][Next]_vars /\ Fairness

-----------------------------------------------------------------------------
\* What each variable is; and a token is consumed, and has a terminal record, only after its
\* resume was published.
TokenTypeOK ==
    /\ {listed, meta, terminal, due, consumed, leftover, unnamed, unguarded} \subseteq BOOLEAN
    /\ lock \in Callers \cup {Nobody} /\ unread \subseteq Callers
    /\ ledger \in Item /\ item \in Item /\ followed \in {"no", "queued", "noted"}
    /\ pc \in [Callers -> Pcs] /\ answer \in [Callers -> Answers]
    /\ published \in Nat /\ revived \in Nat
    /\ failed \in 0..MaxTroubles /\ troubles \in 0..MaxTroubles
    /\ terminal \/ consumed => published > 0

\* A suspended execution is resumed once: again only when a caller published and did not
\* live, or was not able, to delete the token, or when a token that was consumed came back,
\* and each of them costs one.  One comes back only if two best efforts fail: its record is
\* left behind, and the terminal record is missing or cannot be read.  Where the lock did not
\* exclude, this is not promised.
ResumedOnce == unguarded \/
    /\ published <= 1 + failed + revived
    /\ revived > 0 => leftover /\ (unnamed \/ unread # {})

\* Who comes after the token was consumed finds out who ended it: he is not told that the
\* token does not exist, and does not bring it back.  The exceptions: he asked who ended it
\* and got no answer, and then he brings it back only if its record was left behind.
Arrives(c)  == pc[c] \in {"idle", "lock", "lookup", "read_terminal"}
Departs(c)  == pc[c] \in {"drop_meta", "unlock", "over"}
Misled(c)   == c \in unread /\ (pc[c] = "read_meta" \/ (leftover /\ pc[c] = "rehydrate"))
RefusalIsNamed == consumed /\ ~unnamed /\ ~unguarded =>
    ~listed /\ \A c \in Callers : Arrives(c) \/ Departs(c) \/ Misled(c)

\* The work item of the next delegation is not put away with that of the last, unless the
\* resume is done again: by a failure before the token is deleted, by a token that comes back,
\* or without the lock.
NextItemStays ==
    [][item = "second" /\ failed = 0 /\ revived = 0 /\ ~unguarded => item' = "second"]_vars

\* A token in the table of the tenant is gone in the end, by the scanner if by nobody else.
ListedIsResumed == listed ~> ~listed

\* "Best-effort: perder o registro custa o NOME da recusa, não a unicidade (que é do lock +
\* do consumo do token)": whatever becomes of the terminal record, the resume is done again
\* only by a failure between the event and the deletion of the token, or without the lock.
LostNameCostsNoMore == unread # {} \/ unguarded \/ published <= 1 + failed

\* "se sobrar, quem chegar depois é barrado pelo registro TERMINAL [...] sobra vira lixo com
\* TTL, nunca token ressuscitado": with its terminal record written and in its time, a
\* consumed token does not come back, whatever is left of it.
LeftoverIsHarmless == unnamed \/ unguarded \/ revived = 0

=============================================================================
