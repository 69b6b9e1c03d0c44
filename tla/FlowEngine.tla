------------------------------ MODULE FlowEngine ------------------------------
(***************************************************************************)
(* The skill-flow engine: runs of one pipeline (tenant, session), each a   *)
(* call of engine.run() in some service instance.  A run takes the         *)
(* execution lock of the pipeline, reads its state, executes the steps of  *)
(* the flow one after another, writes the state before each next step, and *)
(* gives the lock back.  The lock has a time to live of its own: the menu  *)
(* step sets it anew, nothing else does.  A run may crash between any two  *)
(* of its awaits; another run then goes on from the written state.         *)
(*                                                                         *)
(* Time is counted down in units of 200 seconds: what is left of the lock  *)
(* and of the wait of each run.                                            *)
(***************************************************************************)
EXTENDS Naturals, FiniteSets

CONSTANTS
    Run,            \* calls of engine.run() for the pipeline, numbered as they arrive
    Calls,          \* entry -> how many of them are made (model bound)
    Instance,       \* ids written into the lock
    InstanceOf,     \* run -> the id its caller passes; several runs may share one
    Step,
    NoStep,         \* neither a step nor the end
    Complete,       \* "__complete__"
    Entries,        \* where the flows of the skills begin
    Kind,           \* step -> what its executor does
    OnSuccess,      \* step -> step or Complete
    OnFailure,
    LockTtl,        \* LOCK_TTL_SECONDS
    MenuWait,       \* timeout_s of a menu
    MenuLock,       \* what a menu sets the lock to: timeout_s + 60
    TaskWait,       \* POLL_MAX_ATTEMPTS * POLL_INTERVAL_MS
    Faults          \* which troubles of the environment may happen

Kinds == {"notify", "invoke", "task", "menu", "begin", "end", "suspend"}

ASSUME FlowAssumption ==
    /\ NoStep \notin Step /\ Complete \notin Step /\ Complete # NoStep
    /\ Entries \subseteq Step /\ Entries # {}
    /\ Kind \in [Step -> Kinds]
    /\ OnSuccess \in [Step -> Step \cup {Complete}]
    /\ OnFailure \in [Step -> Step \cup {Complete}]
ASSUME RunAssumption ==
    /\ Run \subseteq Nat /\ Calls \in [Entries -> Nat]
    /\ Instance # {} /\ InstanceOf \in [Run -> Instance]
ASSUME TimeAssumption ==
    LockTtl \in Nat \ {0} /\ MenuWait \in Nat /\ MenuLock \in Nat \ {0} /\ TaskWait \in Nat
ASSUME FaultAssumption == Faults \subseteq {"crash", "slow_gateway", "merge"}

VARIABLES
    entry,          \* the entry of the flow all calls are made with
    lock,           \* {t}:pipeline:{s}:running : who holds it and for how long
    saved,          \* {t}:pipeline:{s}
    jobs,           \* steps s with a key {t}:pipeline:{s}:job:{s}
    run,            \* run -> where it is and what it has in memory
    done,           \* effects of this pipeline: step -> number of calls that reached the tool
    specialist,     \* step -> the job that serves its delegation
    tokens,         \* suspended steps with an entry in {t}:resume_tokens
    resumed,        \* session_resumed events: <<step, decision>>
    lapsed,         \* runs that went on after their lock was gone
    merged          \* a specialist wrote the state without the lock

environment == <<entry, tokens, resumed, specialist>>
vars == <<lock, saved, jobs, run, done, environment, lapsed, merged>>

Free   == lock.left = 0
Decision == {"approved", "rejected"}
Mark   == {"none", "dispatched", "completed", "suspending", "published", "suspended"} \cup Decision
Place  == Step \cup {Complete}

Pipeline == [status : {"none", "in_progress", "suspended", "completed"}, at : Place,
             mark : [Step -> Mark], context : BOOLEAN]

\* PipelineStateManager.create; and no key at all.
Fresh      == [status |-> "in_progress", at |-> entry, mark |-> [s \in Step |-> "none"],
               context |-> FALSE]
NoPipeline == [Fresh EXCEPT !.status = "none"]

\* Where a run is in a step; a save leads there, or to the release.
Stepping == {"step", "call", "delegate", "set_job", "poll", "clear_job", "renew", "wait",
             "publish", "suspend", "ok", "fail"}
Pcs      == Stepping \cup {"idle", "load", "save", "release", "done", "refused", "crashed"}
RunState == [pc : Pcs, then : Stepping \cup {"release"}, mem : Pipeline,
             txn : Place \cup {NoStep}, resume : Step \cup {NoStep}, decision : Decision,
             ok : BOOLEAN, left : Nat]

NothingDone == [s \in Step |-> 0]

Idle == [pc |-> "idle", then |-> "step", mem |-> NoPipeline, txn |-> NoStep,
         resume |-> NoStep, decision |-> "approved", ok |-> TRUE, left |-> 0]

Init ==
    /\ entry \in Entries
    /\ lock = [by |-> CHOOSE i \in Instance : TRUE, left |-> 0]
    /\ saved = NoPipeline
    /\ jobs = {}
    /\ run = [r \in Run |-> Idle]
    /\ done = NothingDone
    /\ specialist = [s \in Step |-> [is |-> "none", read |-> NoPipeline]]
    /\ tokens = {} /\ resumed = {}
    /\ lapsed = {} /\ merged = FALSE

-----------------------------------------------------------------------------
(* Where a run is.                                                         *)

Active(r) == run[r].pc \notin {"idle", "done", "refused", "crashed"}
At(r)     == run[r].mem.at
IsAt(r, pc, kind) == run[r].pc = pc /\ Kind[At(r)] = kind

Goto(r, pc)        == run' = [run EXCEPT ![r].pc = pc]
Save(r, mem, then) == run' = [run EXCEPT ![r].pc = "save", ![r].mem = mem, ![r].then = then]
Return(r, ok)      == run' = [run EXCEPT ![r].pc = IF ok THEN "ok" ELSE "fail", ![r].left = 0]
\* Nothing is left of what the run had in memory.
Over(r, pc)        == run' = [run EXCEPT ![r] = [Idle EXCEPT !.pc = pc]]

\* The memory of the run, with another mark for the step it is at.
Marked(r, mark) == [run[r].mem EXCEPT !.mark[At(r)] = mark]

\* Whoever else goes by the id in the lock when it goes away has lost it.
Losers(r) == {q \in Run : Active(q) /\ q # r /\ InstanceOf[q] = lock.by}

-----------------------------------------------------------------------------
(* run(): the lock, the state, the result.                                 *)

\* Mutant: the lock is looked at and set, but the answer is not.
MutantAcquire(r, resume, decision) ==
    /\ run[r].pc = "idle" /\ r <= Calls[entry]
    /\ \A q \in Run : q < r => run[q].pc # "idle"
    /\ run' = [run EXCEPT ![r].pc = "load", ![r].resume = resume, ![r].decision = decision]
    /\ lock' = IF Free THEN [by |-> InstanceOf[r], left |-> LockTtl] ELSE lock
    /\ UNCHANGED <<saved, jobs, done, environment, lapsed, merged>>

\* SET NX EX.  A run that does not get the lock returns PRECONDITION_FAILED.
Acquire(r, resume, decision) ==
    /\ run[r].pc = "idle" /\ r <= Calls[entry]
    /\ \A q \in Run : q < r => run[q].pc # "idle"
    /\ run' = [run EXCEPT ![r].pc = IF Free THEN "load" ELSE "refused",
                          ![r].resume = resume, ![r].decision = decision]
    /\ lock' = IF Free THEN [by |-> InstanceOf[r], left |-> LockTtl] ELSE lock
    /\ UNCHANGED <<saved, jobs, done, environment, lapsed, merged>>

\* The first call for a session, a redelivered one, or one that recovers a crash.
Start(r) == Acquire(r, NoStep, "approved")

\* A session_resumed event, delivered at least once.
Resume(r) == \E e \in resumed : Acquire(r, e[1], e[2])

\* What is in progress goes on; what is suspended goes on when it is resumed;
\* everything else starts from the entry.
Load(r) ==
    /\ run[r].pc = "load"
    /\ IF saved.status = "in_progress"
         THEN /\ run' = [run EXCEPT ![r].pc = "step", ![r].mem = saved]
              /\ UNCHANGED done
         ELSE IF saved.status = "suspended" /\ run[r].resume # NoStep
                THEN Save(r, [saved EXCEPT !.status = "in_progress"], "step") /\ UNCHANGED done
                ELSE Save(r, Fresh, "step") /\ done' = NothingDone
    /\ UNCHANGED <<lock, saved, jobs, environment, lapsed, merged>>

\* save(): the whole state is written, whatever is there.
Persist(r) ==
    /\ run[r].pc = "save"
    /\ saved' = run[r].mem
    /\ Goto(r, run[r].then)
    /\ UNCHANGED <<lock, jobs, done, environment, lapsed, merged>>

\* What the engine makes of the result of a step: a failure inside a transaction
\* goes where the transaction says.
Transit(r) ==
    LET t    == run[r]
        back == t.pc = "fail" /\ t.txn # NoStep
        to   == IF back THEN t.txn
                        ELSE IF t.pc = "ok" THEN OnSuccess[At(r)] ELSE OnFailure[At(r)]
        mem  == [t.mem EXCEPT !.at = to,
                              !.status = IF to = Complete THEN "completed" ELSE "in_progress"]
    IN  /\ t.pc \in {"ok", "fail"}
        /\ run' = [run EXCEPT ![r].pc = "save", ![r].mem = mem,
                              ![r].then = IF to = Complete THEN "release" ELSE "step",
                              ![r].txn = IF back THEN NoStep ELSE @]
        /\ UNCHANGED <<lock, saved, jobs, done, environment, lapsed, merged>>

\* Mutant: a plain DEL, whoever holds the lock.
MutantRelease(r) ==
    /\ run[r].pc = "release"
    /\ Over(r, "done")
    /\ lock' = [lock EXCEPT !.left = 0]
    /\ UNCHANGED <<saved, jobs, done, environment, lapsed, merged>>

\* The lock is deleted if the id in it is the run's own.
Release(r) ==
    /\ run[r].pc = "release"
    /\ Over(r, "done")
    /\ IF ~Free /\ lock.by = InstanceOf[r]
         THEN lock' = [lock EXCEPT !.left = 0] /\ lapsed' = lapsed \cup Losers(r)
         ELSE UNCHANGED <<lock, lapsed>>
    /\ UNCHANGED <<saved, jobs, done, environment, merged>>

-----------------------------------------------------------------------------
(* notify and invoke: a sentinel is written before the call, another after.*)

\* Mutant: what was written after the call is not read before the next.
MutantSendBegin(r) ==
    /\ IsAt(r, "step", "notify") \/ IsAt(r, "step", "invoke")
    /\ Save(r, Marked(r, "dispatched"), "call")
    /\ UNCHANGED <<lock, saved, jobs, done, environment, lapsed, merged>>

SendBegin(r) ==
    /\ IsAt(r, "step", "notify") \/ IsAt(r, "step", "invoke")
    /\ IF run[r].mem.mark[At(r)] = "completed"
         THEN Return(r, TRUE)
         ELSE Save(r, Marked(r, "dispatched"), "call")
    /\ UNCHANGED <<lock, saved, jobs, done, environment, lapsed, merged>>

\* The call may throw, before or after it had its effect.
SendCall(r) ==
    /\ run[r].pc = "call"
    /\ \/ /\ done' = [done EXCEPT ![At(r)] = @ + 1]
          /\ Save(r, Marked(r, "completed"), "ok") \/ Return(r, FALSE)
       \/ Return(r, FALSE) /\ UNCHANGED done
    /\ UNCHANGED <<lock, saved, jobs, environment, lapsed, merged>>

-----------------------------------------------------------------------------
(* task: a delegation, remembered by its job id, and a wait for it.        *)

TaskBegin(r) ==
    /\ IsAt(r, "step", "task")
    /\ run' = [run EXCEPT ![r].pc = IF At(r) \in jobs THEN "poll" ELSE "delegate",
                          ![r].left = TaskWait]
    /\ UNCHANGED <<lock, saved, jobs, done, environment, lapsed, merged>>

Delegate(r) ==
    /\ run[r].pc = "delegate"
    /\ \/ /\ done' = [done EXCEPT ![At(r)] = @ + 1]
          /\ specialist' = [specialist EXCEPT ![At(r)] = [is |-> "running", read |-> NoPipeline]]
          /\ Goto(r, "set_job")
       \/ Return(r, FALSE) /\ UNCHANGED <<done, specialist>>
    /\ UNCHANGED <<lock, saved, jobs, entry, tokens, resumed, lapsed, merged>>

SetJob(r) ==
    /\ run[r].pc = "set_job"
    /\ jobs' = jobs \cup {At(r)}
    /\ run' = [run EXCEPT ![r].pc = "poll", ![r].left = TaskWait]
    /\ UNCHANGED <<lock, saved, done, environment, lapsed, merged>>

\* The job is over, well or badly; or the run is tired of asking and keeps the id.
Poll(r) ==
    /\ run[r].pc = "poll"
    /\ \/ /\ specialist[At(r)].is \in {"completed", "failed"}
          /\ run' = [run EXCEPT ![r].pc = "clear_job",
                                ![r].ok = specialist[At(r)].is = "completed",
                                ![r].left = 0]
       \/ run[r].left = 0 /\ Return(r, FALSE)
    /\ UNCHANGED <<lock, saved, jobs, done, environment, lapsed, merged>>

ClearJob(r) ==
    /\ run[r].pc = "clear_job"
    /\ jobs' = jobs \ {At(r)}
    /\ Return(r, run[r].ok)
    /\ UNCHANGED <<lock, saved, done, environment, lapsed, merged>>

\* runDelegationJob, for the last delegation of a step: at its end the specialist reads the
\* state of the pipeline that delegated to it, and writes it back with the contact's context
\* in it.
SpecialistRead(s) ==
    /\ "merge" \in Faults
    /\ specialist[s].is = "running" /\ saved.status # "none"
    /\ specialist' = [specialist EXCEPT ![s] = [is |-> "merging", read |-> saved]]
    /\ UNCHANGED <<lock, saved, jobs, run, done, entry, tokens, resumed, lapsed, merged>>

SpecialistMerge(s) ==
    /\ specialist[s].is = "merging"
    /\ saved' = [specialist[s].read EXCEPT !.context = TRUE]
    /\ specialist' = [specialist EXCEPT ![s] = [is |-> "merged", read |-> NoPipeline]]
    /\ merged' = TRUE
    /\ UNCHANGED <<lock, jobs, run, done, entry, tokens, resumed, lapsed>>

SpecialistEnds(s) ==
    /\ specialist[s].is \in {"running", "merged"}
    /\ \E is \in {"completed", "failed"} :
          /\ specialist[s].is = "merged" => is = "completed"
          /\ specialist' = [specialist EXCEPT ![s].is = is]
    /\ UNCHANGED <<lock, saved, jobs, run, done, entry, tokens, resumed, lapsed, merged>>

-----------------------------------------------------------------------------
(* menu: the lock is set to outlive the wait, then the wait.               *)

\* notification_send; if it throws the step fails.
MenuBegin(r) ==
    /\ IsAt(r, "step", "menu")
    /\ Goto(r, "renew") \/ Return(r, FALSE)
    /\ UNCHANGED <<lock, saved, jobs, done, environment, lapsed, merged>>

MenuRenew(r) ==
    /\ run[r].pc = "renew"
    /\ IF ~Free /\ lock.by = InstanceOf[r]
         THEN /\ lock' = [lock EXCEPT !.left = MenuLock]
              /\ run' = [run EXCEPT ![r].pc = "wait", ![r].left = MenuWait]
         ELSE Return(r, FALSE) /\ UNCHANGED lock
    /\ UNCHANGED <<saved, jobs, done, environment, lapsed, merged>>

\* The customer answers; leaves, or the time is up; or answers in a wrong format and is asked
\* again, which renews the lock.
MenuEnd(r) ==
    /\ run[r].pc = "wait"
    /\ Return(r, TRUE) \/ Return(r, FALSE) \/ Goto(r, "renew")
    /\ UNCHANGED <<lock, saved, jobs, done, environment, lapsed, merged>>

-----------------------------------------------------------------------------
(* begin_transaction and end_transaction: where a failure goes is kept in  *)
(* memory only.  The sentinels of all invokes of the flow are cleared.     *)

Begin(r) ==
    /\ IsAt(r, "step", "begin")
    /\ run' = [run EXCEPT
          ![r].pc = "ok", ![r].txn = OnFailure[At(r)],
          ![r].mem.mark = [s \in Step |-> IF Kind[s] = "invoke" THEN "none" ELSE @[s]]]
    /\ UNCHANGED <<lock, saved, jobs, done, environment, lapsed, merged>>

End(r) ==
    /\ IsAt(r, "step", "end")
    /\ run' = [run EXCEPT ![r].pc = "ok", ![r].txn = NoStep]
    /\ UNCHANGED <<lock, saved, jobs, done, environment, lapsed, merged>>

-----------------------------------------------------------------------------
(* suspend: token, deadline, sentinel, each written before the next.       *)

\* The decision that came with the resume is written before it is followed.
Decide(r) ==
    Save(r, Marked(r, run[r].decision), IF run[r].decision = "approved" THEN "ok" ELSE "fail")

\* The next of the stages of a suspend, from what was written of it.
Stage(r) ==
    CASE run[r].mem.mark[At(r)] = "suspended" -> Goto(r, "suspend")
      [] run[r].mem.mark[At(r)] = "published" -> Save(r, Marked(r, "suspended"), "suspend")
      [] OTHER                                -> Save(r, Marked(r, "suspending"), "publish")

\* Mutant: a resume is looked at before the decision that was written.
MutantSuspendBegin(r) ==
    LET mark == run[r].mem.mark[At(r)] IN
    /\ IsAt(r, "step", "suspend")
    /\ IF run[r].resume = At(r)
         THEN Decide(r)
         ELSE IF mark \in Decision THEN Return(r, mark = "approved") ELSE Stage(r)
    /\ UNCHANGED <<lock, saved, jobs, done, environment, lapsed, merged>>

\* A decision, once written, is the one that counts.
SuspendBegin(r) ==
    LET mark == run[r].mem.mark[At(r)] IN
    /\ IsAt(r, "step", "suspend")
    /\ IF mark \in Decision
         THEN Return(r, mark = "approved")
         ELSE IF run[r].resume = At(r) THEN Decide(r) ELSE Stage(r)
    /\ UNCHANGED <<lock, saved, jobs, done, environment, lapsed, merged>>

\* persistSuspendWebhook: the token goes into the tenant's table.
Publish(r) ==
    /\ run[r].pc = "publish"
    /\ tokens' = tokens \cup {At(r)}
    /\ Save(r, Marked(r, "published"), "step")
    /\ UNCHANGED <<lock, saved, jobs, done, entry, specialist, resumed, lapsed, merged>>

\* "__suspended__": the engine writes the state as suspended and returns.
Suspend(r) ==
    /\ run[r].pc = "suspend"
    /\ Save(r, [run[r].mem EXCEPT !.status = "suspended"], "release")
    /\ UNCHANGED <<lock, saved, jobs, done, environment, lapsed, merged>>

\* The gateway finds the token, publishes the event and deletes the token; a slow
\* one lets a second answer in between.
Answer(s, d) ==
    /\ s \in tokens
    /\ resumed' = resumed \cup {<<s, d>>}
    /\ \/ tokens' = tokens \ {s}
       \/ "slow_gateway" \in Faults /\ UNCHANGED tokens
    /\ UNCHANGED <<lock, saved, jobs, run, done, entry, specialist, lapsed, merged>>

-----------------------------------------------------------------------------
(* The process dies; time passes.                                          *)

Crash(r) ==
    /\ "crash" \in Faults /\ Active(r)
    /\ Over(r, "crashed")
    /\ UNCHANGED <<lock, saved, jobs, done, environment, lapsed, merged>>

Waiting(r) == run[r].pc \in {"wait", "poll"}

\* Mutant: the wait has no end.
MutantTick ==
    /\ ~Free \/ \E r \in Run : Waiting(r)
    /\ lock' = IF Free THEN lock ELSE [lock EXCEPT !.left = @ - 1]
    /\ lapsed' = IF lock.left = 1
                   THEN lapsed \cup {r \in Run : Active(r) /\ InstanceOf[r] = lock.by}
                   ELSE lapsed
    /\ run' = [r \in Run |-> IF Waiting(r) THEN [run[r] EXCEPT !.left = @ - 1] ELSE run[r]]
    /\ UNCHANGED <<saved, jobs, done, environment, merged>>

\* Nobody waits longer than the timeout it waits with.
Tick ==
    /\ \A r \in Run : Waiting(r) => run[r].left > 0
    /\ ~Free \/ \E r \in Run : Waiting(r)
    /\ lock' = IF Free THEN lock ELSE [lock EXCEPT !.left = @ - 1]
    /\ lapsed' = IF lock.left = 1
                   THEN lapsed \cup {r \in Run : Active(r) /\ InstanceOf[r] = lock.by}
                   ELSE lapsed
    /\ run' = [r \in Run |-> IF Waiting(r) THEN [run[r] EXCEPT !.left = @ - 1] ELSE run[r]]
    /\ UNCHANGED <<saved, jobs, done, environment, merged>>

-----------------------------------------------------------------------------
Works(r) ==
    \/ Load(r) \/ Persist(r) \/ Transit(r) \/ Release(r)
    \/ SendBegin(r) \/ SendCall(r)
    \/ TaskBegin(r) \/ Delegate(r) \/ SetJob(r) \/ Poll(r) \/ ClearJob(r)
    \/ MenuBegin(r) \/ MenuRenew(r) \/ MenuEnd(r)
    \/ Begin(r) \/ End(r)
    \/ SuspendBegin(r) \/ Publish(r) \/ Suspend(r)

Next ==
    \/ \E r \in Run : Start(r) \/ Resume(r) \/ Works(r) \/ Crash(r)
    \/ \E s \in Step : SpecialistRead(s) \/ SpecialistMerge(s) \/ SpecialistEnds(s)
    \/ \E s \in Step, d \in Decision : Answer(s, d)
    \/ Tick

Spec == Init /\ [][Next]_vars

-----------------------------------------------------------------------------
EngineTypeOK ==
    /\ entry \in Entries
    /\ lock \in [by : Instance, left : Nat]
    /\ saved \in Pipeline
    /\ jobs \subseteq Step
    /\ run \in [Run -> RunState]
    /\ \A r \in Run : run[r].pc \in Stepping => At(r) \in Step
    /\ done \in [Step -> Nat]
    /\ specialist \in [Step -> [is : {"none", "running", "merging", "merged", "completed", "failed"},
                                read : Pipeline]]
    /\ tokens \subseteq Step /\ resumed \subseteq Step \X Decision
    /\ lapsed \subseteq Run /\ merged \in BOOLEAN

\* Who has not outlived its lock holds it, and whoever else is at work has outlived
\* its own.
HolderIsAlone ==
    \A r \in Run : Active(r) /\ r \notin lapsed =>
        /\ ~Free /\ lock.by = InstanceOf[r]
        /\ \A q \in Run \ {r} : Active(q) => q \in lapsed

\* Nobody has outlived its lock, and no specialist has written the state without it.
Undisturbed == lapsed = {} /\ ~merged

\* As long as nobody outlives its lock, what a run has in memory between two saves is
\* what is written: nobody's progress is overwritten.
NothingIsOverwritten ==
    Undisturbed =>
        \A r \in Run : Active(r) /\ run[r].pc \notin {"load", "save", "ok", "fail"} =>
            saved = run[r].mem

\* A call whose completion was written is not made again, nor prepared again, for this
\* pipeline.
CompletedIsNotRepeated ==
    [][\A s \in Step : saved.mark[s] = "completed" /\ Undisturbed' =>
        done'[s] \in {0, done[s]} /\ saved'.mark[s] # "dispatched"]_vars

\* Once a decision is written, a later or contrary answer does not change it.
DecisionStands ==
    [][\A s \in Step : saved.mark[s] \in Decision /\ Undisturbed' /\ saved' # Fresh =>
        saved'.mark[s] = saved.mark[s]]_vars

\* As long as nobody outlives its lock, an effect is had twice only by a run that takes
\* over from one that died; a flow without cycles is assumed.
RepeatsNeedCrashes ==
    Undisturbed =>
        \A s \in Step : done[s] <= 1 + Cardinality({r \in Run : run[r].pc = "crashed"})

\* A comment in suspend.ts: a resume that comes with a valid token is followed.
ResumeIsFollowed == \A r \in Run : run[r].pc = "refused" => run[r].resume = NoStep

\* The service that merges: the parent is blocked, the write is safe.
MergeIsKept == [][saved.context /\ lapsed = {} => saved'.context]_vars

=============================================================================
