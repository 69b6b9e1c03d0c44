--------------------------- MODULE FlowEngineProofs ---------------------------
(***************************************************************************)
(* Proofs about the runs of a pipeline, for any number of runs, instances, *)
(* steps and flows, any times to live, and any troubles.                   *)
(***************************************************************************)
EXTENDS FlowEngine, FiniteSetTheorems, TLAPS

\* A pipeline that is to go on is at a step.
Placed(p) == p.status \in {"in_progress", "suspended"} => p.at \in Step

RunOK(t) ==
    /\ Placed(t.mem)
    /\ t.pc \in Stepping => t.mem.at \in Step
    /\ t.pc = "save" /\ t.then # "release" => t.mem.at \in Step

RunsOK == run \in [Run -> RunState] /\ \A r \in Run : RunOK(run[r])

DataOK ==
    /\ entry \in Entries
    /\ lock \in [by : Instance, left : Nat]
    /\ saved \in Pipeline /\ Placed(saved)
    /\ jobs \subseteq Step
    /\ done \in [Step -> Nat]
    /\ specialist \in [Step -> [is : {"none", "running", "merging", "merged", "completed", "failed"},
                                read : Pipeline]]
    /\ \A s \in Step : Placed(specialist[s].read)
    /\ tokens \subseteq Step /\ resumed \subseteq Step \X Decision
    /\ lapsed \subseteq Run /\ merged \in BOOLEAN

Inv == DataOK /\ RunsOK

\* What the steps of a run make of it.
LEMMA UpdateKeeps ==
    ASSUME RunsOK, NEW r \in Run, NEW t \in RunState, RunOK(t),
           run' = [run EXCEPT ![r] = t]
    PROVE  RunsOK'
BY DEF RunsOK

LEMMA GotoKeeps ==
    ASSUME RunsOK, NEW r \in Run, NEW pc \in Pcs \ {"save"}, Goto(r, pc),
           pc \in Stepping => At(r) \in Step
    PROVE  RunsOK'
<1> DEFINE t == [run[r] EXCEPT !.pc = pc]
<1>1. run' = [run EXCEPT ![r] = t]
  BY DEF Goto
<1>2. t \in RunState /\ RunOK(t)
  BY DEF RunsOK, RunState, RunOK, Placed, At
<1> QED  BY <1>1, <1>2, UpdateKeeps

LEMMA SaveKeeps ==
    ASSUME RunsOK, NEW r \in Run, NEW mem \in Pipeline, NEW then \in Stepping \cup {"release"},
           Save(r, mem, then), Placed(mem), then # "release" => mem.at \in Step
    PROVE  RunsOK'
<1> DEFINE t == [run[r] EXCEPT !.pc = "save", !.mem = mem, !.then = then]
<1>1. run' = [run EXCEPT ![r] = t]
  BY DEF Save
<1>2. run[r] \in RunState
  BY DEF RunsOK
<1>3. t \in RunState
  BY <1>2 DEF RunState, Pcs
<1>4. t.pc = "save" /\ t.mem = mem /\ t.then = then
  BY <1>2 DEF RunState
<1>5. RunOK(t)
  BY <1>4 DEF RunOK, Stepping
<1> QED  BY <1>1, <1>3, <1>5, UpdateKeeps

LEMMA ReturnKeeps ==
    ASSUME RunsOK, NEW r \in Run, NEW ok \in BOOLEAN, Return(r, ok), At(r) \in Step
    PROVE  RunsOK'
<1> DEFINE t == [run[r] EXCEPT !.pc = IF ok THEN "ok" ELSE "fail", !.left = 0]
<1>1. run' = [run EXCEPT ![r] = t]
  BY DEF Return
<1>2. t \in RunState /\ RunOK(t)
  BY DEF RunsOK, RunState, RunOK, Pcs, Stepping, At
<1> QED  BY <1>1, <1>2, UpdateKeeps

LEMMA FreshIsPlaced ==
    ASSUME entry \in Entries
    PROVE  /\ Fresh \in Pipeline /\ Placed(Fresh) /\ Fresh.at \in Step
           /\ NoPipeline \in Pipeline /\ Placed(NoPipeline)
           /\ Idle \in RunState /\ RunOK(Idle)
<1>1. Fresh \in Pipeline /\ Placed(Fresh) /\ Fresh.at \in Step
  BY FlowAssumption DEF Fresh, Pipeline, Placed, Place, Mark
<1>2. NoPipeline \in Pipeline /\ Placed(NoPipeline)
  BY <1>1 DEF NoPipeline, Fresh, Pipeline, Placed
<1>3. Idle \in RunState /\ RunOK(Idle)
  BY <1>2 DEF Idle, RunState, RunOK, Pcs, Stepping, Place, Decision
<1> QED  BY <1>1, <1>2, <1>3

LEMMA OverKeeps ==
    ASSUME RunsOK, entry \in Entries, NEW r \in Run, NEW pc \in {"done", "crashed"}, Over(r, pc)
    PROVE  RunsOK'
<1> DEFINE t == [Idle EXCEPT !.pc = pc]
<1>1. run' = [run EXCEPT ![r] = t]
  BY DEF Over
<1>2. t \in RunState /\ RunOK(t)
  BY FreshIsPlaced DEF RunState, RunOK, Pcs, Stepping, Idle
<1> QED  BY <1>1, <1>2, UpdateKeeps

\* The memory of a run with another mark is as good as the memory.
LEMMA MarkedKeeps ==
    ASSUME RunsOK, NEW r \in Run, At(r) \in Step, NEW mark \in Mark
    PROVE  /\ Marked(r, mark) \in Pipeline /\ Placed(Marked(r, mark))
           /\ Marked(r, mark).at = At(r)
           /\ Marked(r, mark).mark[At(r)] = mark
<1>1. run[r].mem \in Pipeline /\ Placed(run[r].mem) /\ run[r].mem.at \in Step
  BY DEF RunsOK, RunState, RunOK, At
<1> QED  BY <1>1 DEF Marked, Pipeline, Placed, At

-----------------------------------------------------------------------------
(* The type invariant, with the places of the pipelines, is inductive.     *)

LEMMA InitInv == Init => Inv
<1> SUFFICES ASSUME Init PROVE Inv
  OBVIOUS
<1>1. RunsOK
  BY FreshIsPlaced DEF Init, RunsOK
<1>2. lock \in [by : Instance, left : Nat]
  BY RunAssumption DEF Init
<1> QED  BY <1>1, <1>2, FreshIsPlaced DEF Init, Inv, DataOK, NothingDone

LEMMA AcquireKeeps ==
    ASSUME Inv, NEW r \in Run, NEW s \in Step \cup {NoStep}, NEW d \in Decision,
           Acquire(r, s, d)
    PROVE  Inv'
<1> DEFINE t == [run[r] EXCEPT !.pc = IF Free THEN "load" ELSE "refused", !.resume = s,
                               !.decision = d]
<1>1. run[r] \in RunState /\ RunOK(run[r])
  BY DEF Inv, RunsOK
<1>2. t \in RunState
  BY <1>1 DEF RunState, Pcs
<1>3. t.pc \in {"load", "refused"} /\ t.mem = run[r].mem
  BY <1>1 DEF RunState
<1>4. RunOK(t)
  BY <1>1, <1>3 DEF RunOK, Stepping
<1>5. run' = [run EXCEPT ![r] = t]
  BY DEF Acquire
<1>6. RunsOK'
  BY <1>2, <1>4, <1>5, UpdateKeeps DEF Inv
<1>7. lock' \in [by : Instance, left : Nat]
  BY RunAssumption, TimeAssumption DEF Acquire, Inv, DataOK
<1> QED  BY <1>6, <1>7 DEF Acquire, Inv, DataOK, environment

LEMMA LoadKeeps ==
    ASSUME Inv, NEW r \in Run, Load(r)
    PROVE  Inv'
<1>1. CASE saved.status = "in_progress"
  <2> DEFINE t == [run[r] EXCEPT !.pc = "step", !.mem = saved]
  <2>1. run[r] \in RunState /\ RunOK(run[r])
    BY DEF Inv, RunsOK
  <2>2. t \in RunState
    BY <2>1 DEF RunState, Pcs, Stepping, Inv, DataOK
  <2>3. t.pc = "step" /\ t.mem = saved /\ saved.at \in Step
    BY <1>1, <2>1 DEF RunState, Inv, DataOK, Placed
  <2>4. RunOK(t)
    BY <2>3 DEF RunOK, Placed
  <2>5. run' = [run EXCEPT ![r] = t]
    BY <1>1 DEF Load
  <2> QED  BY <1>1, <2>2, <2>4, <2>5, UpdateKeeps DEF Load, Inv, DataOK, environment
<1>2. CASE saved.status = "suspended" /\ run[r].resume # NoStep
  <2> DEFINE mem == [saved EXCEPT !.status = "in_progress"]
  <2>1. mem \in Pipeline /\ Placed(mem) /\ mem.at \in Step
    BY <1>2 DEF Inv, DataOK, Pipeline, Placed
  <2>2. Save(r, mem, "step") /\ UNCHANGED done
    BY <1>2 DEF Load
  <2>3. RunsOK'
    BY <2>1, <2>2, SaveKeeps DEF Inv, Stepping
  <2> QED  BY <2>2, <2>3 DEF Load, Inv, DataOK, environment
<1>3. CASE ~(saved.status = "in_progress" \/ (saved.status = "suspended" /\ run[r].resume # NoStep))
  <2>1. Save(r, Fresh, "step") /\ done' = NothingDone
    BY <1>3 DEF Load
  <2>2. RunsOK'
    BY <2>1, FreshIsPlaced, SaveKeeps DEF Inv, DataOK, Stepping
  <2> QED  BY <2>1, <2>2 DEF Load, Inv, DataOK, environment, NothingDone
<1> QED  BY <1>1, <1>2, <1>3

LEMMA PersistKeeps ==
    ASSUME Inv, NEW r \in Run, Persist(r)
    PROVE  Inv'
<1>1. run[r] \in RunState /\ RunOK(run[r])
  BY DEF Inv, RunsOK
<1>2. run[r].then \in Stepping \cup {"release"}
  BY <1>1 DEF RunState
<1>3. run[r].then \in Pcs \ {"save"} /\ (run[r].then \in Stepping => At(r) \in Step)
  BY <1>1, <1>2 DEF RunOK, Persist, Pcs, Stepping, At
<1>4. RunsOK'
  BY <1>3, GotoKeeps DEF Persist, Inv
<1>5. saved' \in Pipeline /\ Placed(saved')
  BY <1>1 DEF Persist, RunState, RunOK
<1> QED  BY <1>4, <1>5 DEF Persist, Inv, DataOK, environment

LEMMA TransitKeeps ==
    ASSUME Inv, NEW r \in Run, Transit(r)
    PROVE  Inv'
<1> DEFINE back == run[r].pc = "fail" /\ run[r].txn # NoStep
           to   == IF back THEN run[r].txn
                           ELSE IF run[r].pc = "ok" THEN OnSuccess[At(r)] ELSE OnFailure[At(r)]
           mem  == [run[r].mem EXCEPT !.at = to,
                        !.status = IF to = Complete THEN "completed" ELSE "in_progress"]
           then == IF to = Complete THEN "release" ELSE "step"
           txn  == IF back THEN NoStep ELSE run[r].txn
           t    == [run[r] EXCEPT !.pc = "save", !.mem = mem, !.then = then, !.txn = txn]
<1>1. run[r] \in RunState /\ RunOK(run[r]) /\ At(r) \in Step
  BY DEF Inv, RunsOK, RunOK, Transit, Stepping, At
<1>2. run[r].txn \in Place \cup {NoStep} /\ run[r].mem \in Pipeline
  BY <1>1 DEF RunState
<1>3. to \in Place
  BY <1>1, <1>2, FlowAssumption DEF Place
<1>4. mem \in Pipeline /\ mem.at = to
      /\ mem.status = IF to = Complete THEN "completed" ELSE "in_progress"
  BY <1>2, <1>3 DEF Pipeline
<1>5. txn \in Place \cup {NoStep}
  BY <1>2
<1>6. run' = [run EXCEPT ![r] = t]
  <2>1. run' = [run EXCEPT ![r].pc = "save", ![r].mem = mem, ![r].then = then,
                           ![r].txn = IF back THEN NoStep ELSE @]
    BY DEF Transit
  <2>2. run \in [Run -> RunState]
    BY DEF Inv, RunsOK
  <2> HIDE DEF mem, then, back
  <2> QED  BY <2>1, <2>2
<1> HIDE DEF back, txn
<1>7. then \in Stepping \cup {"release"} /\ (then # "release" => to # Complete)
  BY DEF Stepping
<1>8. t \in RunState /\ t.pc = "save" /\ t.mem = mem /\ t.then = then
  <2> HIDE DEF mem, then
  <2> QED  BY <1>1, <1>4, <1>5, <1>7 DEF RunState, Pcs
<1>9. RunOK(t)
  <2>1. Placed(mem) /\ (then # "release" => mem.at \in Step)
    <3> HIDE DEF to
    <3> QED  BY <1>3, <1>4, <1>7 DEF Placed, Place
  <2> HIDE DEF mem, then, t
  <2> QED  BY <1>8, <2>1 DEF RunOK, Stepping
<1>10. RunsOK'
  <2> HIDE DEF t
  <2> QED  BY <1>6, <1>8, <1>9, UpdateKeeps DEF Inv
<1> QED  BY <1>10 DEF Transit, Inv, DataOK, environment

LEMMA ReleaseKeeps ==
    ASSUME Inv, NEW r \in Run, Release(r)
    PROVE  Inv'
<1>1. RunsOK'
  BY OverKeeps DEF Release, Inv, DataOK
<1>2. lock' \in [by : Instance, left : Nat] /\ lapsed' \subseteq Run
  BY DEF Release, Inv, DataOK, Losers
<1> QED  BY <1>1, <1>2 DEF Release, Inv, DataOK, environment

LEMMA SendKeeps ==
    ASSUME Inv, NEW r \in Run, SendBegin(r) \/ SendCall(r)
    PROVE  Inv'
<1>1. At(r) \in Step
  BY DEF Inv, RunsOK, RunOK, SendBegin, SendCall, IsAt, Stepping, At
<1>2. /\ Marked(r, "dispatched") \in Pipeline /\ Placed(Marked(r, "dispatched"))
      /\ Marked(r, "dispatched").at \in Step
      /\ Marked(r, "completed") \in Pipeline /\ Placed(Marked(r, "completed"))
      /\ Marked(r, "completed").at \in Step
  BY <1>1, MarkedKeeps DEF Inv, Mark
<1>3. \/ Return(r, TRUE) \/ Return(r, FALSE)
      \/ Save(r, Marked(r, "dispatched"), "call") \/ Save(r, Marked(r, "completed"), "ok")
  BY DEF SendBegin, SendCall
<1>4. RunsOK'
  BY <1>1, <1>2, <1>3, SaveKeeps, ReturnKeeps DEF Inv, Stepping
<1>5. done' = [done EXCEPT ![At(r)] = done[At(r)] + 1] \/ UNCHANGED done
  BY DEF SendBegin, SendCall
<1>6. done' \in [Step -> Nat]
  BY <1>1, <1>5 DEF Inv, DataOK
<1> QED  BY <1>4, <1>6 DEF SendBegin, SendCall, Inv, DataOK, environment

LEMMA TaskKeeps ==
    ASSUME Inv, NEW r \in Run, TaskBegin(r) \/ SetJob(r)
    PROVE  Inv'
<1> DEFINE pc == IF TaskBegin(r) /\ At(r) \notin jobs THEN "delegate" ELSE "poll"
           t  == [run[r] EXCEPT !.pc = pc, !.left = TaskWait]
<1>1. run[r] \in RunState /\ RunOK(run[r]) /\ At(r) \in Step
  BY DEF Inv, RunsOK, RunOK, TaskBegin, SetJob, IsAt, Stepping, At
<1>2. run' = [run EXCEPT ![r] = t]
  <2>1. CASE TaskBegin(r)
    BY <2>1 DEF TaskBegin
  <2>2. CASE SetJob(r) /\ ~TaskBegin(r)
    BY <2>2 DEF SetJob
  <2> QED  BY <2>1, <2>2
<1>3. pc \in Stepping \ {"save"}
  BY DEF Stepping
<1> HIDE DEF pc
<1>4. t \in RunState /\ RunOK(t)
  <2>1. t \in RunState /\ t.pc = pc /\ t.mem = run[r].mem
    BY <1>1, <1>3, TimeAssumption DEF RunState, Pcs
  <2> QED  BY <1>1, <1>3, <2>1 DEF RunOK, Stepping, At
<1>5. RunsOK'
  BY <1>2, <1>4, UpdateKeeps DEF Inv
<1> QED  BY <1>1, <1>5 DEF TaskBegin, SetJob, Inv, DataOK, environment

LEMMA DelegateKeeps ==
    ASSUME Inv, NEW r \in Run, Delegate(r)
    PROVE  Inv'
<1>1. At(r) \in Step
  BY DEF Inv, RunsOK, RunOK, Delegate, Stepping, At
<1>2. RunsOK'
  BY <1>1, GotoKeeps, ReturnKeeps DEF Delegate, Inv, Pcs, Stepping
<1>3. NoPipeline \in Pipeline /\ Placed(NoPipeline)
  BY FreshIsPlaced DEF Inv, DataOK
<1> DEFINE job == [is |-> "running", read |-> NoPipeline]
<1>4. done' = [done EXCEPT ![At(r)] = done[At(r)] + 1] \/ UNCHANGED done
  BY DEF Delegate
<1>5. specialist' = [specialist EXCEPT ![At(r)] = job] \/ UNCHANGED specialist
  BY DEF Delegate
<1>6. done' \in [Step -> Nat]
  BY <1>1, <1>4 DEF Inv, DataOK
<1>7. /\ specialist' \in [Step -> [is : {"none", "running", "merging", "merged", "completed", "failed"},
                                    read : Pipeline]]
      /\ \A s \in Step : Placed(specialist'[s].read)
  BY <1>1, <1>3, <1>5 DEF Inv, DataOK
<1> QED  BY <1>2, <1>6, <1>7 DEF Delegate, Inv, DataOK

LEMMA PollKeeps ==
    ASSUME Inv, NEW r \in Run, Poll(r)
    PROVE  Inv'
<1> DEFINE ok == specialist[At(r)].is = "completed"
           t  == [run[r] EXCEPT !.pc = "clear_job", !.ok = ok, !.left = 0]
<1>1. run[r] \in RunState /\ RunOK(run[r]) /\ At(r) \in Step
  BY DEF Inv, RunsOK, RunOK, Poll, Stepping, At
<1>2. ok \in BOOLEAN
  OBVIOUS
<1>3. Return(r, FALSE) \/ run' = [run EXCEPT ![r] = t]
  BY DEF Poll
<1> HIDE DEF ok
<1>4. t \in RunState /\ RunOK(t)
  BY <1>1, <1>2 DEF RunState, RunOK, Pcs, Stepping, At
<1>5. RunsOK'
  <2> HIDE DEF t
  <2> QED  BY <1>1, <1>3, <1>4, UpdateKeeps, ReturnKeeps DEF Inv
<1> QED  BY <1>5 DEF Poll, Inv, DataOK, environment

LEMMA ClearJobKeeps ==
    ASSUME Inv, NEW r \in Run, ClearJob(r)
    PROVE  Inv'
<1>1. At(r) \in Step /\ run[r].ok \in BOOLEAN
  BY DEF Inv, RunsOK, RunOK, RunState, ClearJob, Stepping, At
<1>2. RunsOK'
  BY <1>1, ReturnKeeps DEF ClearJob, Inv
<1> QED  BY <1>2 DEF ClearJob, Inv, DataOK, environment

LEMMA MenuKeeps ==
    ASSUME Inv, NEW r \in Run, MenuBegin(r) \/ MenuEnd(r)
    PROVE  Inv'
<1>1. At(r) \in Step
  BY DEF Inv, RunsOK, RunOK, MenuBegin, MenuEnd, IsAt, Stepping, At
<1>2. Goto(r, "renew") \/ Return(r, TRUE) \/ Return(r, FALSE)
  BY DEF MenuBegin, MenuEnd
<1>3. RunsOK'
  BY <1>1, <1>2, GotoKeeps, ReturnKeeps DEF Inv, Pcs, Stepping
<1> QED  BY <1>3 DEF MenuBegin, MenuEnd, Inv, DataOK, environment

LEMMA MenuRenewKeeps ==
    ASSUME Inv, NEW r \in Run, MenuRenew(r)
    PROVE  Inv'
<1> DEFINE t == [run[r] EXCEPT !.pc = "wait", !.left = MenuWait]
<1>1. run[r] \in RunState /\ RunOK(run[r]) /\ At(r) \in Step
  BY DEF Inv, RunsOK, RunOK, MenuRenew, Stepping, At
<1>2. Return(r, FALSE) \/ run' = [run EXCEPT ![r] = t]
  BY DEF MenuRenew
<1>3. t \in RunState /\ RunOK(t)
  BY <1>1, TimeAssumption DEF RunState, RunOK, Pcs, Stepping, At
<1>4. RunsOK'
  <2> HIDE DEF t
  <2> QED  BY <1>1, <1>2, <1>3, UpdateKeeps, ReturnKeeps DEF Inv
<1>5. lock' \in [by : Instance, left : Nat]
  BY TimeAssumption DEF MenuRenew, Inv, DataOK
<1> QED  BY <1>4, <1>5 DEF MenuRenew, Inv, DataOK, environment

LEMMA TransactionKeeps ==
    ASSUME Inv, NEW r \in Run, Begin(r) \/ End(r)
    PROVE  Inv'
<1> DEFINE old  == run[r].mem.mark
           mark == IF Begin(r) THEN [s \in Step |-> IF Kind[s] = "invoke" THEN "none" ELSE old[s]]
                               ELSE old
           mem  == [run[r].mem EXCEPT !.mark = mark]
           txn  == IF Begin(r) THEN OnFailure[At(r)] ELSE NoStep
           t    == [run[r] EXCEPT !.pc = "ok", !.txn = txn, !.mem = mem]
<1>1. run[r] \in RunState /\ RunOK(run[r]) /\ At(r) \in Step
  BY DEF Inv, RunsOK, RunOK, Begin, End, IsAt, Stepping, At
<1>2. run[r].mem \in Pipeline /\ old \in [Step -> Mark]
  BY <1>1 DEF RunState, Pipeline
<1>3. mark \in [Step -> Mark]
  BY <1>2 DEF Mark
<1>4. txn \in Place \cup {NoStep}
  BY <1>1, FlowAssumption DEF Place
<1>5. run' = [run EXCEPT ![r] = t]
  <2>1. run \in [Run -> RunState]
    BY DEF Inv, RunsOK
  <2>2. CASE Begin(r)
    <3>1. run' = [run EXCEPT ![r].pc = "ok", ![r].txn = OnFailure[At(r)],
            ![r].mem.mark = [s \in Step |-> IF Kind[s] = "invoke" THEN "none" ELSE @[s]]]
      BY <2>2 DEF Begin
    <3>2. /\ txn = OnFailure[At(r)]
          /\ mark = [s \in Step |-> IF Kind[s] = "invoke" THEN "none" ELSE old[s]]
      BY <2>2
    <3>3. run' = [run EXCEPT ![r].pc = "ok", ![r].txn = txn, ![r].mem.mark = mark]
      BY <1>1, <2>1, <3>1, <3>2
    <3> HIDE DEF mark, txn
    <3> QED  BY <1>1, <1>2, <2>1, <3>3 DEF RunState, Pipeline
  <2>3. CASE ~Begin(r)
    <3>1. run' = [run EXCEPT ![r].pc = "ok", ![r].txn = NoStep]
      BY <2>3 DEF End
    <3>2. txn = NoStep /\ mark = old
      BY <2>3
    <3> HIDE DEF mark, txn
    <3>3. mem = run[r].mem
      BY <1>2, <3>2 DEF Pipeline
    <3> HIDE DEF mem
    <3>4. t = [run[r] EXCEPT !.pc = "ok", !.txn = NoStep]
      BY <1>1, <3>2, <3>3 DEF RunState
    <3> QED  BY <2>1, <3>1, <3>4
  <2> QED  BY <2>2, <2>3
<1> HIDE DEF mark, txn
<1>6. mem \in Pipeline /\ mem.at \in Step
  BY <1>1, <1>2, <1>3 DEF Pipeline, At
<1> HIDE DEF mem
<1>7. t \in RunState /\ t.pc = "ok" /\ t.mem = mem
  BY <1>1, <1>4, <1>6 DEF RunState, Pcs, Stepping
<1>8. RunOK(t)
  BY <1>6, <1>7 DEF RunOK, Placed
<1>9. RunsOK'
  <2> HIDE DEF t
  <2> QED  BY <1>5, <1>7, <1>8, UpdateKeeps DEF Inv
<1> QED  BY <1>9 DEF Begin, End, Inv, DataOK, environment

LEMMA SuspendBeginKeeps ==
    ASSUME Inv, NEW r \in Run, SuspendBegin(r)
    PROVE  Inv'
<1>1. At(r) \in Step /\ run[r].decision \in Decision
  BY DEF Inv, RunsOK, RunOK, RunState, SuspendBegin, IsAt, Stepping, At
<1>2. \A m \in Mark : /\ Marked(r, m) \in Pipeline /\ Placed(Marked(r, m))
                      /\ Marked(r, m).at \in Step
  BY <1>1, MarkedKeeps DEF Inv
<1>3. \/ Return(r, TRUE) \/ Return(r, FALSE)
      \/ Save(r, Marked(r, run[r].decision), "ok") \/ Save(r, Marked(r, run[r].decision), "fail")
      \/ Goto(r, "suspend") \/ Save(r, Marked(r, "suspended"), "suspend")
      \/ Save(r, Marked(r, "suspending"), "publish")
  BY DEF SuspendBegin, Decide, Stage
<1>4. run[r].decision \in Mark /\ "suspended" \in Mark /\ "suspending" \in Mark
  BY <1>1 DEF Mark
<1>5. RunsOK'
  BY <1>1, <1>2, <1>3, <1>4, SaveKeeps, ReturnKeeps, GotoKeeps DEF Inv, Pcs, Stepping
<1> QED  BY <1>5 DEF SuspendBegin, Inv, DataOK, environment

LEMMA PublishKeeps ==
    ASSUME Inv, NEW r \in Run, Publish(r)
    PROVE  Inv'
<1>1. At(r) \in Step
  BY DEF Inv, RunsOK, RunOK, Publish, Stepping, At
<1>2. /\ Marked(r, "published") \in Pipeline /\ Placed(Marked(r, "published"))
      /\ Marked(r, "published").at \in Step
  BY <1>1, MarkedKeeps DEF Inv, Mark
<1>3. RunsOK'
  BY <1>2, SaveKeeps DEF Publish, Inv, Stepping
<1> QED  BY <1>1, <1>3 DEF Publish, Inv, DataOK

LEMMA SuspendKeeps ==
    ASSUME Inv, NEW r \in Run, Suspend(r)
    PROVE  Inv'
<1> DEFINE mem == [run[r].mem EXCEPT !.status = "suspended"]
<1>1. run[r].mem \in Pipeline /\ run[r].mem.at \in Step
  BY DEF Inv, RunsOK, RunOK, RunState, Suspend, Stepping
<1>2. mem \in Pipeline /\ Placed(mem)
  BY <1>1 DEF Pipeline, Placed
<1>3. RunsOK'
  BY <1>2, SaveKeeps DEF Suspend, Inv
<1> QED  BY <1>3 DEF Suspend, Inv, DataOK, environment

LEMMA CrashKeeps ==
    ASSUME Inv, NEW r \in Run, Crash(r)
    PROVE  Inv'
<1>1. RunsOK'
  BY OverKeeps DEF Crash, Inv, DataOK
<1> QED  BY <1>1 DEF Crash, Inv, DataOK, environment

LEMMA TickKeeps ==
    ASSUME Inv, Tick
    PROVE  Inv'
<1>1. ASSUME NEW r \in Run, Waiting(r)
      PROVE  /\ [run[r] EXCEPT !.left = @ - 1] \in RunState
             /\ RunOK([run[r] EXCEPT !.left = @ - 1])
  <2>1. run[r] \in RunState /\ RunOK(run[r]) /\ run[r].left > 0
    BY <1>1 DEF Inv, RunsOK, Tick
  <2>2. run[r].left \in Nat /\ run[r].left - 1 \in Nat
    BY <2>1 DEF RunState
  <2> QED  BY <2>1, <2>2 DEF RunState, RunOK
<1>2. RunsOK'
  BY <1>1 DEF Tick, Inv, RunsOK
<1>3. lock' \in [by : Instance, left : Nat] /\ lapsed' \subseteq Run
  BY DEF Tick, Inv, DataOK, Free
<1> QED  BY <1>2, <1>3 DEF Tick, Inv, DataOK, environment

LEMMA SpecialistKeeps ==
    ASSUME Inv, NEW s \in Step, SpecialistRead(s) \/ SpecialistMerge(s) \/ SpecialistEnds(s)
    PROVE  Inv'
<1>1. RunsOK'
  BY DEF SpecialistRead, SpecialistMerge, SpecialistEnds, Inv, RunsOK
<1>2. NoPipeline \in Pipeline /\ Placed(NoPipeline)
  BY FreshIsPlaced DEF Inv, DataOK
<1>3. CASE SpecialistRead(s)
  BY <1>1, <1>3 DEF SpecialistRead, Inv, DataOK
<1>4. CASE SpecialistMerge(s)
  <2>1. saved' \in Pipeline /\ Placed(saved')
    BY <1>4 DEF SpecialistMerge, Inv, DataOK, Pipeline, Placed
  <2> QED  BY <1>1, <1>2, <1>4, <2>1 DEF SpecialistMerge, Inv, DataOK
<1>5. CASE SpecialistEnds(s)
  BY <1>1, <1>5 DEF SpecialistEnds, Inv, DataOK
<1> QED  BY <1>3, <1>4, <1>5

LEMMA AnswerKeeps ==
    ASSUME Inv, NEW s \in Step, NEW d \in Decision, Answer(s, d)
    PROVE  Inv'
<1>1. tokens' \subseteq Step /\ resumed' \subseteq Step \X Decision
  BY DEF Answer, Inv, DataOK
<1> QED  BY <1>1 DEF Answer, Inv, DataOK, RunsOK

LEMMA StepKeeps == Inv /\ [Next]_vars => Inv'
<1> SUFFICES ASSUME Inv, [Next]_vars PROVE Inv'
  OBVIOUS
<1>1. ASSUME NEW r \in Run, Start(r) \/ Resume(r) PROVE Inv'
  <2>1. \A e \in resumed : e[1] \in Step /\ e[2] \in Decision
    BY DEF Inv, DataOK
  <2> QED  BY <1>1, <2>1, AcquireKeeps DEF Start, Resume, Decision
<1>2. ASSUME NEW r \in Run, Works(r) PROVE Inv'
  BY <1>2, LoadKeeps, PersistKeeps, TransitKeeps, ReleaseKeeps, SendKeeps, TaskKeeps,
     DelegateKeeps, PollKeeps, ClearJobKeeps, MenuKeeps, MenuRenewKeeps, TransactionKeeps,
     SuspendBeginKeeps, PublishKeeps, SuspendKeeps DEF Works
<1>3. CASE UNCHANGED vars
  BY <1>3 DEF vars, environment, Inv, DataOK, RunsOK
<1> QED  BY <1>1, <1>2, <1>3, CrashKeeps, TickKeeps, SpecialistKeeps, AnswerKeeps DEF Next

\* Type correctness: among it, that no run is in a step with its pipeline at the end, so
\* that every step has a successor and an executor.
THEOREM EngineTypeCorrect == Spec => []EngineTypeOK
<1>1. Inv => EngineTypeOK
  BY DEF Inv, DataOK, RunsOK, RunOK, EngineTypeOK, At
<1> QED  BY <1>1, InitInv, StepKeeps, PTL DEF Spec

-----------------------------------------------------------------------------
(* The lock.                                                               *)

\* A step of a run changes nothing of the other runs.
LEMMA OthersRest ==
    ASSUME Inv, NEW r \in Run, Works(r)
    PROVE  /\ Active(r)
           /\ \A q \in Run \ {r} : run'[q] = run[q]
<1>1. run \in [Run -> RunState]
  BY DEF Inv, RunsOK
<1>2. CASE Load(r) \/ Persist(r) \/ Transit(r) \/ Release(r)
  BY <1>1, <1>2 DEF Load, Persist, Transit, Release, Save, Goto, Over, Active
<1>3. CASE SendBegin(r) \/ SendCall(r)
  BY <1>1, <1>3 DEF SendBegin, SendCall, Save, Return, IsAt, Active
<1>4. CASE TaskBegin(r) \/ Delegate(r) \/ SetJob(r) \/ Poll(r) \/ ClearJob(r)
  BY <1>1, <1>4 DEF TaskBegin, Delegate, SetJob, Poll, ClearJob, Goto, Return, IsAt, Active
<1>5. CASE MenuBegin(r) \/ MenuRenew(r) \/ MenuEnd(r)
  BY <1>1, <1>5 DEF MenuBegin, MenuRenew, MenuEnd, Goto, Return, IsAt, Active
<1>6. CASE Begin(r) \/ End(r)
  BY <1>1, <1>6 DEF Begin, End, IsAt, Active
<1>7. CASE SuspendBegin(r) \/ Publish(r) \/ Suspend(r)
  BY <1>1, <1>7 DEF SuspendBegin, Decide, Stage, Publish, Suspend, Save, Return, Goto, IsAt, Active
<1> QED  BY <1>2, <1>3, <1>4, <1>5, <1>6, <1>7 DEF Works

\* Only the menu and the release touch the lock.
LEMMA LockRests ==
    ASSUME NEW r \in Run, Works(r)
    PROVE  \/ UNCHANGED <<lock, lapsed>>
           \/ MenuRenew(r) /\ ~Free /\ lock' = [lock EXCEPT !.left = MenuLock] /\ UNCHANGED lapsed
           \/ Release(r) /\ ~Free /\ lapsed' = lapsed \cup Losers(r)
<1>1. CASE Load(r) \/ Persist(r) \/ Transit(r) \/ Release(r)
  BY <1>1 DEF Load, Persist, Transit, Release
<1>2. CASE SendBegin(r) \/ SendCall(r)
  BY <1>2 DEF SendBegin, SendCall
<1>3. CASE TaskBegin(r) \/ Delegate(r) \/ SetJob(r) \/ Poll(r) \/ ClearJob(r)
  BY <1>3 DEF TaskBegin, Delegate, SetJob, Poll, ClearJob
<1>4. CASE MenuBegin(r) \/ MenuRenew(r) \/ MenuEnd(r)
  BY <1>4 DEF MenuBegin, MenuRenew, MenuEnd
<1>5. CASE Begin(r) \/ End(r)
  BY <1>5 DEF Begin, End
<1>6. CASE SuspendBegin(r) \/ Publish(r) \/ Suspend(r)
  BY <1>6 DEF SuspendBegin, Publish, Suspend
<1> QED  BY <1>1, <1>2, <1>3, <1>4, <1>5, <1>6 DEF Works

\* Nobody comes to work and the lock stays: nothing happens to whoever holds it.
LEMMA QuietKeepsAlone ==
    ASSUME HolderIsAlone, UNCHANGED lock, lapsed \subseteq lapsed',
           \A q \in Run : Active(q)' => Active(q)
    PROVE  HolderIsAlone'
BY DEF HolderIsAlone, Free

LEMMA AcquireKeepsAlone ==
    ASSUME Inv, HolderIsAlone, NEW r \in Run, NEW s, NEW d, Acquire(r, s, d)
    PROVE  HolderIsAlone'
<1>1. run \in [Run -> RunState] /\ run[r] \in RunState
  BY DEF Inv, RunsOK
<1>2. \A q \in Run \ {r} : run'[q] = run[q]
  BY <1>1 DEF Acquire
<1>3. CASE Free
  <2>1. \A q \in Run : Active(q) => q \in lapsed
    BY <1>3 DEF HolderIsAlone
  <2>2. lock'.by = InstanceOf[r] /\ lock'.left # 0 /\ lapsed' = lapsed
    BY <1>3, TimeAssumption DEF Acquire
  <2> QED  BY <1>2, <2>1, <2>2 DEF HolderIsAlone, Active, Free
<1>4. CASE ~Free
  <2>1. run'[r].pc = "refused" /\ UNCHANGED <<lock, lapsed>>
    BY <1>1, <1>4 DEF Acquire, RunState
  <2>2. \A q \in Run : Active(q)' => Active(q)
    BY <1>2, <2>1 DEF Active
  <2> QED  BY <2>1, <2>2, QuietKeepsAlone
<1> QED  BY <1>3, <1>4

LEMMA ReleaseKeepsAlone ==
    ASSUME Inv, HolderIsAlone, NEW r \in Run, Release(r), Works(r), ~Free,
           lapsed' = lapsed \cup Losers(r)
    PROVE  HolderIsAlone'
<1>1. run'[r].pc = "done"
  BY DEF Release, Over, Inv, RunsOK, Idle
<1>2. \A q \in Run : Active(q)' => Active(q) /\ q # r
  BY <1>1, OthersRest DEF Active
<1>3. \A q \in Run : Active(q) /\ q # r => q \in lapsed'
  BY DEF HolderIsAlone, Losers
<1> QED  BY <1>2, <1>3 DEF HolderIsAlone

LEMMA TickKeepsAlone ==
    ASSUME Inv, HolderIsAlone, Tick
    PROVE  HolderIsAlone'
<1>1. \A q \in Run : run'[q].pc = run[q].pc
  BY DEF Tick, Inv, RunsOK, RunState
<1>2. \A q \in Run : Active(q)' <=> Active(q)
  BY <1>1 DEF Active
<1>3. lock.left \in Nat
  BY DEF Inv, DataOK
<1>4. CASE Free
  BY <1>2, <1>4, QuietKeepsAlone DEF Tick, Free
<1>5. CASE lock.left = 1
  <2>1. \A q \in Run : Active(q) => q \in lapsed'
    BY <1>5 DEF Tick, HolderIsAlone, Free
  <2> QED  BY <1>2, <2>1 DEF HolderIsAlone
<1>6. CASE lock.left > 1
  <2>1. lock'.by = lock.by /\ lock'.left # 0 /\ lapsed' = lapsed
    BY <1>3, <1>6 DEF Tick, Free, Inv, DataOK
  <2> QED  BY <1>2, <2>1 DEF HolderIsAlone, Free
<1> QED  BY <1>3, <1>4, <1>5, <1>6 DEF Free

LEMMA StepKeepsAlone == Inv /\ HolderIsAlone /\ [Next]_vars => HolderIsAlone'
<1> SUFFICES ASSUME Inv, HolderIsAlone, [Next]_vars PROVE HolderIsAlone'
  OBVIOUS
<1>1. ASSUME NEW r \in Run, Start(r) \/ Resume(r) PROVE HolderIsAlone'
  BY <1>1, AcquireKeepsAlone DEF Start, Resume
<1>2. ASSUME NEW r \in Run, Works(r) PROVE HolderIsAlone'
  <2>1. \A q \in Run : Active(q)' => Active(q)
    BY <1>2, OthersRest DEF Active
  <2>2. CASE UNCHANGED <<lock, lapsed>>
    BY <2>1, <2>2, QuietKeepsAlone
  <2>3. CASE ~Free /\ lock' = [lock EXCEPT !.left = MenuLock] /\ UNCHANGED lapsed
    <3>1. lock'.by = lock.by /\ lock'.left # 0
      BY <2>3, TimeAssumption DEF Inv, DataOK
    <3> QED  BY <2>1, <2>3, <3>1 DEF HolderIsAlone, Free
  <2> QED  BY <1>2, <2>2, <2>3, LockRests, ReleaseKeepsAlone
<1>3. ASSUME NEW r \in Run, Crash(r) PROVE HolderIsAlone'
  <2>1. \A q \in Run : Active(q)' => Active(q)
    BY <1>3 DEF Crash, Over, Active, Inv, RunsOK
  <2> QED  BY <1>3, <2>1, QuietKeepsAlone DEF Crash
<1>4. ASSUME UNCHANGED <<run, lock, lapsed>> PROVE HolderIsAlone'
  BY <1>4, QuietKeepsAlone DEF Active
<1>5. ASSUME NEW s \in Step, SpecialistRead(s) \/ SpecialistMerge(s) \/ SpecialistEnds(s)
      PROVE  HolderIsAlone'
  BY <1>4, <1>5 DEF SpecialistRead, SpecialistMerge, SpecialistEnds
<1>6. ASSUME NEW s \in Step, NEW d \in Decision, Answer(s, d) PROVE HolderIsAlone'
  BY <1>4, <1>6 DEF Answer
<1>7. CASE UNCHANGED vars
  BY <1>4, <1>7 DEF vars
<1> QED  BY <1>1, <1>2, <1>3, <1>5, <1>6, <1>7, TickKeepsAlone DEF Next

\* The lock excludes: of the runs that have not outlived their lock, however its time to
\* live is set and whoever shares an id with whom, there is one at most, and it holds it.
THEOREM LockExcludes == Spec => []HolderIsAlone
<1>1. Init => HolderIsAlone
  BY DEF Init, HolderIsAlone, Active, Idle
<1> QED  BY <1>1, InitInv, StepKeeps, StepKeepsAlone, PTL DEF Spec

-----------------------------------------------------------------------------
(* What is written.                                                        *)

\* What has happened to the lock and to the state does not unhappen.
LEMMA DisturbedStays == [Next]_vars /\ Undisturbed' => Undisturbed
<1> SUFFICES ASSUME [Next]_vars, Undisturbed' PROVE Undisturbed
  OBVIOUS
<1>1. lapsed \subseteq lapsed' /\ (merged => merged')
  <2>1. ASSUME NEW r \in Run, Works(r) PROVE lapsed \subseteq lapsed' /\ merged' = merged
    <3>1. merged' = merged
      BY <2>1 DEF Works, Load, Persist, Transit, Release, SendBegin, SendCall, TaskBegin, Delegate,
         SetJob, Poll, ClearJob, MenuBegin, MenuRenew, MenuEnd, Begin, End, SuspendBegin, Publish,
         Suspend
    <3> QED  BY <2>1, <3>1, LockRests
  <2>2. ASSUME NEW r \in Run, Start(r) \/ Resume(r) \/ Crash(r)
        PROVE  UNCHANGED <<lapsed, merged>>
    BY <2>2 DEF Start, Resume, Acquire, Crash
  <2>3. ASSUME NEW s \in Step, SpecialistRead(s) \/ SpecialistMerge(s) \/ SpecialistEnds(s)
        PROVE  lapsed' = lapsed /\ (merged => merged')
    BY <2>3 DEF SpecialistRead, SpecialistMerge, SpecialistEnds
  <2>4. ASSUME NEW s \in Step, NEW d \in Decision, Answer(s, d)
        PROVE  UNCHANGED <<lapsed, merged>>
    BY <2>4 DEF Answer
  <2>5. Tick => lapsed \subseteq lapsed' /\ merged' = merged
    BY DEF Tick
  <2>6. UNCHANGED vars => UNCHANGED <<lapsed, merged>>
    BY DEF vars
  <2> QED  BY <2>1, <2>2, <2>3, <2>4, <2>5, <2>6 DEF Next
<1> QED  BY <1>1 DEF Undisturbed

\* Where a run may know better than what is written.
Ahead(r) == run[r].pc \in {"load", "save", "ok", "fail"}

\* A step of a run leaves it ahead; or writes what it has; or changes neither what it has
\* nor what is written, and it was not ahead; or reads what is written; or ends it.
LEMMA WorkKnows ==
    ASSUME Inv, NEW r \in Run, Works(r)
    PROVE  \/ Ahead(r)' \/ ~Active(r)'
           \/ saved' = run'[r].mem
           \/ ~Ahead(r) /\ run'[r].mem = run[r].mem /\ saved' = saved
<1>1. run \in [Run -> RunState] /\ run[r] \in RunState
  BY DEF Inv, RunsOK
<1>2. CASE Load(r)
  <2>1. CASE saved.status = "in_progress"
    BY <1>1, <1>2, <2>1 DEF Load, RunState
  <2>2. CASE saved.status # "in_progress"
    <3>1. run'[r].pc = "save"
      BY <1>1, <1>2, <2>2 DEF Load, Save, RunState
    <3> QED  BY <3>1 DEF Ahead
  <2> QED  BY <2>1, <2>2
<1>3. CASE Persist(r)
  BY <1>1, <1>3 DEF Persist, Goto, RunState
<1>4. CASE Release(r)
  BY <1>1, <1>4 DEF Release, Over, Idle, Active
<1>5. CASE Transit(r) \/ SendBegin(r) \/ SendCall(r) \/ ClearJob(r) \/ Begin(r)
           \/ End(r) \/ Publish(r) \/ Suspend(r)
  <2>1. run'[r].pc \in {"save", "ok", "fail"}
    BY <1>1, <1>5 DEF Transit, SendBegin, SendCall, ClearJob, Begin, End, Publish, Suspend,
       Save, Return, RunState
  <2> QED  BY <2>1 DEF Ahead
<1>6. CASE SuspendBegin(r)
  <2>1. run'[r].pc \in {"save", "ok", "fail"} \/ Goto(r, "suspend")
    BY <1>1, <1>6 DEF SuspendBegin, Decide, Stage, Save, Return, RunState
  <2>2. Goto(r, "suspend") => run'[r].mem = run[r].mem
    BY <1>1 DEF Goto, RunState
  <2> QED  BY <1>6, <2>1, <2>2 DEF SuspendBegin, IsAt, Ahead
<1>7. CASE TaskBegin(r) \/ Delegate(r) \/ SetJob(r) \/ Poll(r)
  BY <1>1, <1>7 DEF TaskBegin, Delegate, SetJob, Poll, Goto, Return, IsAt, Ahead, RunState
<1>8. CASE MenuBegin(r) \/ MenuRenew(r) \/ MenuEnd(r)
  BY <1>1, <1>8 DEF MenuBegin, MenuRenew, MenuEnd, Goto, Return, IsAt, Ahead, RunState
<1> QED  BY <1>2, <1>3, <1>4, <1>5, <1>6, <1>7, <1>8 DEF Works

LEMMA StepKeepsProgress ==
    Inv /\ HolderIsAlone /\ NothingIsOverwritten /\ [Next]_vars => NothingIsOverwritten'
<1> SUFFICES ASSUME Inv, HolderIsAlone, NothingIsOverwritten, [Next]_vars, Undisturbed',
                    NEW q \in Run, Active(q)', ~Ahead(q)'
             PROVE  saved' = run'[q].mem
  BY DEF NothingIsOverwritten, Ahead
<1>1. Undisturbed
  BY DisturbedStays
<1>2. \A r, p \in Run : Active(r) /\ Active(p) => r = p
  BY <1>1 DEF HolderIsAlone, Undisturbed
<1>3. Active(q) /\ ~Ahead(q) => saved = run[q].mem
  BY <1>1 DEF NothingIsOverwritten, Ahead
<1>4. run \in [Run -> RunState]
  BY DEF Inv, RunsOK
<1>5. ASSUME NEW r \in Run, Works(r) PROVE saved' = run'[q].mem
  <2>1. q = r
    BY <1>2, <1>5, OthersRest DEF Active
  <2> QED  BY <1>3, <1>5, <2>1, OthersRest, WorkKnows
<1>6. ASSUME NEW r \in Run, Start(r) \/ Resume(r) PROVE saved' = run'[q].mem
  <2> SUFFICES ASSUME NEW s, NEW d, Acquire(r, s, d) PROVE saved' = run'[q].mem
    BY <1>6 DEF Start, Resume
  <2>1. run[r] \in RunState
    BY <1>4
  <2>2. run'[r].pc \in {"load", "refused"} /\ saved' = saved
    BY <1>4, <2>1 DEF Acquire, RunState
  <2>3. q # r
    BY <2>2 DEF Active, Ahead
  <2>4. run'[q] = run[q]
    BY <1>4, <2>3 DEF Acquire
  <2> QED  BY <1>3, <2>2, <2>4 DEF Active, Ahead
<1>7. ASSUME NEW r \in Run, Crash(r) PROVE saved' = run'[q].mem
  <2>1. run'[r].pc = "crashed" /\ saved' = saved
    BY <1>4, <1>7 DEF Crash, Over, Idle
  <2>2. q # r /\ run'[q] = run[q]
    BY <1>4, <1>7, <2>1 DEF Crash, Over, Active
  <2> QED  BY <1>3, <2>1, <2>2 DEF Active, Ahead
<1>8. Tick => saved' = run'[q].mem
  <2> SUFFICES ASSUME Tick PROVE saved' = run'[q].mem
    OBVIOUS
  <2>1. run'[q].pc = run[q].pc /\ run'[q].mem = run[q].mem /\ saved' = saved
    BY <1>4 DEF Tick, RunState
  <2> QED  BY <1>3, <2>1 DEF Active, Ahead
<1>9. UNCHANGED <<run, saved>> => saved' = run'[q].mem
  BY <1>3 DEF Active, Ahead
<1>10. ASSUME NEW s \in Step, SpecialistRead(s) \/ SpecialistMerge(s) \/ SpecialistEnds(s)
       PROVE  saved' = run'[q].mem
  <2>1. merged' # TRUE
    BY DEF Undisturbed
  <2>2. ~SpecialistMerge(s)
    BY <2>1 DEF SpecialistMerge
  <2> QED  BY <1>9, <1>10, <2>2 DEF SpecialistRead, SpecialistEnds
<1>11. ASSUME NEW s \in Step, NEW d \in Decision, Answer(s, d) PROVE saved' = run'[q].mem
  BY <1>9, <1>11 DEF Answer
<1> QED  BY <1>5, <1>6, <1>7, <1>8, <1>9, <1>10, <1>11 DEF Next, vars

\* Nobody's progress is overwritten while nobody outlives its lock: what a run between two
\* saves has in memory is what is written.
THEOREM ProgressIsKept == Spec => []NothingIsOverwritten
<1>1. Init => HolderIsAlone /\ NothingIsOverwritten
  BY DEF Init, HolderIsAlone, NothingIsOverwritten, Active, Idle
<1> QED  BY <1>1, InitInv, StepKeeps, StepKeepsAlone, StepKeepsProgress, PTL DEF Spec

-----------------------------------------------------------------------------
(* What the marks of the steps say.                                        *)

\* Sentinels are those of the calls, decisions those of the suspensions.
MarksFit(p) == \A s \in Step :
    /\ p.mark[s] \in {"dispatched", "completed"} => Kind[s] \in {"notify", "invoke"}
    /\ p.mark[s] \in Decision => Kind[s] = "suspend"

\* Where a run is, or is to be once it has written what it has.
Bound(r) == IF run[r].pc = "save" THEN run[r].then ELSE run[r].pc

\* Who is about to call or to publish has marked its step so; who has not begun, none.
StageFits(r) ==
    /\ Bound(r) = "call"     => run[r].mem.mark[At(r)] = "dispatched"
    /\ Bound(r) = "publish"  => run[r].mem.mark[At(r)] = "suspending"
    /\ Bound(r) = "delegate" => Kind[At(r)] = "task"
    /\ run[r].pc = "idle"    => \A s \in Step : run[r].mem.mark[s] = "none"

MarkInv ==
    /\ MarksFit(saved)
    /\ \A r \in Run : MarksFit(run[r].mem) /\ StageFits(r)
    /\ \A s \in Step : MarksFit(specialist[s].read)

\* A run has not in mind to undo what is written: neither the completion of a call
\* nor a decision, unless it starts the pipeline anew.
Respects(r) ==
    /\ \A s \in Step : run[r].mem.mark[s] = "dispatched" => saved.mark[s] # "completed"
    /\ run[r].pc # "load" => \A s \in Step : saved.mark[s] \in Decision =>
          run[r].mem.mark[s] = saved.mark[s] \/ (run[r].pc = "save" /\ run[r].mem = Fresh)

AllRespect == Undisturbed => \A r \in Run : Active(r) => Respects(r)

\* What a run becomes by the four ways it has to go on.
LEMMA Forms ==
    ASSUME Inv, NEW r \in Run
    PROVE  /\ \A pc \in Pcs : Goto(r, pc) =>
                 run'[r].pc = pc /\ UNCHANGED <<run[r].mem, run[r].then, run[r].txn>>
           /\ \A mem \in Pipeline, then \in Stepping \cup {"release"} : Save(r, mem, then) =>
                 /\ run'[r].pc = "save" /\ run'[r].mem = mem /\ run'[r].then = then
                 /\ run'[r].txn = run[r].txn
           /\ \A ok \in BOOLEAN : Return(r, ok) =>
                 /\ run'[r].pc = IF ok THEN "ok" ELSE "fail"
                 /\ UNCHANGED <<run[r].mem, run[r].txn>>
           /\ \A pc \in {"done", "crashed"} : Over(r, pc) =>
                 run'[r].pc = pc /\ run'[r].mem = NoPipeline /\ run'[r].txn = NoStep
<1>1. run \in [Run -> RunState] /\ run[r] \in RunState
  BY DEF Inv, RunsOK
<1>2. ASSUME NEW pc \in Pcs, Goto(r, pc)
      PROVE  run'[r].pc = pc /\ UNCHANGED <<run[r].mem, run[r].then, run[r].txn>>
  BY <1>1, <1>2 DEF Goto, RunState
<1>3. ASSUME NEW mem \in Pipeline, NEW then \in Stepping \cup {"release"}, Save(r, mem, then)
      PROVE  /\ run'[r].pc = "save" /\ run'[r].mem = mem /\ run'[r].then = then
             /\ run'[r].txn = run[r].txn
  BY <1>1, <1>3 DEF Save, RunState
<1>4. ASSUME NEW ok \in BOOLEAN, Return(r, ok)
      PROVE  /\ run'[r].pc = IF ok THEN "ok" ELSE "fail"
             /\ UNCHANGED <<run[r].mem, run[r].txn>>
  BY <1>1, <1>4 DEF Return, RunState
<1>5. ASSUME NEW pc \in {"done", "crashed"}, Over(r, pc)
      PROVE  run'[r].pc = pc /\ run'[r].mem = NoPipeline /\ run'[r].txn = NoStep
  BY <1>1, <1>5 DEF Over, Idle
<1> QED  BY <1>2, <1>3, <1>4, <1>5

\* What a step of a run does to the marks: reads what is written, or writes what it has;
\* clears those of the calls; makes one mark; leaves them; or ends.
Reads(r) ==
    /\ saved' = saved /\ run[r].pc = "load" /\ Bound(r)' = "step"
    /\ run'[r].mem.mark = saved.mark \/ (run'[r].pc = "save" /\ run'[r].mem = Fresh)
Writes(r) ==
    /\ run[r].pc = "save" /\ run'[r].pc = run[r].then /\ run[r].then # "save"
    /\ saved' = run[r].mem /\ run'[r].mem = run[r].mem
Clears(r) ==
    /\ saved' = saved /\ ~Ahead(r) /\ Bound(r)' = "ok"
    /\ \A s \in Step : run'[r].mem.mark[s] =
          IF Kind[s] = "invoke" THEN "none" ELSE run[r].mem.mark[s]
Makes(r, mark) ==
    /\ saved' = saved /\ ~Ahead(r) /\ run'[r].pc = "save" /\ At(r)' = At(r) /\ At(r) \in Step
    /\ run'[r].mem.mark = [run[r].mem.mark EXCEPT ![At(r)] = mark]
Leaves(r) ==
    /\ saved' = saved /\ run[r].pc \notin {"load", "save"}
    /\ run'[r].mem.mark = run[r].mem.mark
    /\ Bound(r)' \notin {"call", "publish", "idle"}
    /\ Bound(r)' = "delegate" => Kind[At(r)] = "task" /\ At(r)' = At(r)

Ends(r) == saved' = saved /\ run'[r].pc = "done" /\ run'[r].mem = NoPipeline

\* The marks that are made, and when.
Notes(r) ==
    \/ /\ Makes(r, "dispatched") /\ Bound(r)' = "call"
       /\ Kind[At(r)] \in {"notify", "invoke"} /\ run[r].mem.mark[At(r)] # "completed"
    \/ Makes(r, "completed") /\ Bound(r)' = "ok" /\ run[r].pc = "call"
    \/ \E d \in Decision : /\ Makes(r, d) /\ Bound(r)' \in {"ok", "fail"}
                           /\ Kind[At(r)] = "suspend" /\ run[r].mem.mark[At(r)] \notin Decision
    \/ /\ Makes(r, "suspended") /\ Bound(r)' = "suspend"
       /\ run[r].mem.mark[At(r)] \notin Decision
    \/ /\ Makes(r, "suspending") /\ Bound(r)' = "publish"
       /\ run[r].mem.mark[At(r)] \notin Decision
    \/ Makes(r, "published") /\ Bound(r)' = "step" /\ run[r].pc = "publish"

LEMMA MarkedMakes ==
    ASSUME Inv, NEW r \in Run, NEW mark \in Mark, NEW then \in Stepping \cup {"release"},
           Save(r, Marked(r, mark), then), saved' = saved, At(r) \in Step, ~Ahead(r)
    PROVE  Makes(r, mark) /\ Bound(r)' = then
<1>1. run[r].mem \in Pipeline /\ Marked(r, mark) \in Pipeline /\ Marked(r, mark).at = At(r)
  BY MarkedKeeps DEF Inv, RunsOK, RunState
<1>2. run'[r].pc = "save" /\ run'[r].mem = Marked(r, mark) /\ run'[r].then = then
  BY <1>1, Forms
<1>3. Marked(r, mark).mark = [run[r].mem.mark EXCEPT ![At(r)] = mark]
  BY <1>1 DEF Marked, Pipeline
<1> QED  BY <1>1, <1>2, <1>3 DEF Makes, Bound, At

LEMMA LoadReads == ASSUME Inv, NEW r \in Run, Load(r)  PROVE Reads(r)
<1>1. run[r] \in RunState /\ run \in [Run -> RunState] /\ saved \in Pipeline /\ Fresh \in Pipeline
  BY FreshIsPlaced DEF Inv, RunsOK, DataOK
<1>2. CASE saved.status = "in_progress"
  <2>1. run'[r].pc = "step" /\ run'[r].mem = saved
    BY <1>1, <1>2 DEF Load, RunState
  <2> QED  BY <2>1 DEF Load, Reads, Bound
<1>3. CASE saved.status # "in_progress" /\ saved.status = "suspended" /\ run[r].resume # NoStep
  <2> DEFINE mem == [saved EXCEPT !.status = "in_progress"]
  <2>1. mem \in Pipeline /\ mem.mark = saved.mark
    BY <1>1 DEF Pipeline
  <2>2. Save(r, mem, "step")
    BY <1>3 DEF Load
  <2>3. run'[r].pc = "save" /\ run'[r].mem = mem /\ run'[r].then = "step"
    BY <2>1, <2>2, Forms DEF Stepping
  <2> QED  BY <2>1, <2>3 DEF Load, Reads, Bound
<1>4. CASE saved.status # "in_progress" /\ ~(saved.status = "suspended" /\ run[r].resume # NoStep)
  <2>1. Save(r, Fresh, "step")
    BY <1>4 DEF Load
  <2>2. run'[r].pc = "save" /\ run'[r].mem = Fresh /\ run'[r].then = "step"
    BY <1>1, <2>1, Forms DEF Stepping
  <2> QED  BY <2>2 DEF Load, Reads, Bound
<1> QED  BY <1>2, <1>3, <1>4

LEMMA WorkMarks ==
    ASSUME Inv, NEW r \in Run, Works(r)
    PROVE  Reads(r) \/ Writes(r) \/ Clears(r) \/ Notes(r) \/ Leaves(r) \/ Ends(r)
<1>1. run \in [Run -> RunState] /\ run[r] \in RunState /\ RunOK(run[r])
  BY DEF Inv, RunsOK
<1>2. run[r].pc \in Stepping => At(r) \in Step
  BY <1>1 DEF RunOK, At
<1>3. CASE Load(r)
  BY <1>3, LoadReads
<1>4. CASE Persist(r)
  <2>1. run[r].then \in Pcs /\ run[r].then # "save"
    BY <1>1 DEF RunState, Pcs, Stepping
  <2>2. run'[r].pc = run[r].then /\ run'[r].mem = run[r].mem
    BY <1>1, <1>4 DEF Persist, Goto, RunState
  <2> QED  BY <1>4, <2>1, <2>2 DEF Persist, Writes
<1>5. CASE Release(r)
  BY <1>5, Forms DEF Release, Ends
<1>6. CASE Transit(r)
  <2>1. /\ run'[r].pc = "save" /\ run'[r].mem.mark = run[r].mem.mark
        /\ run'[r].then \in {"release", "step"}
    BY <1>1, <1>6 DEF Transit, RunState, Pipeline
  <2> QED  BY <1>6, <2>1 DEF Transit, Leaves, Bound
<1>7. CASE SendBegin(r)
  <2>1. At(r) \in Step /\ Kind[At(r)] \in {"notify", "invoke"} /\ saved' = saved /\ ~Ahead(r)
    BY <1>2, <1>7 DEF SendBegin, IsAt, Stepping, Ahead
  <2>2. CASE run[r].mem.mark[At(r)] = "completed"
    <3>1. run'[r].pc = "ok" /\ run'[r].mem = run[r].mem
      BY <1>7, <2>2, Forms DEF SendBegin
    <3> QED  BY <1>7, <2>1, <3>1 DEF Leaves, Bound, SendBegin, IsAt
  <2>3. CASE run[r].mem.mark[At(r)] # "completed"
    <3>1. Makes(r, "dispatched") /\ Bound(r)' = "call"
      BY <1>7, <2>1, <2>3, MarkedMakes DEF SendBegin, Mark, Stepping
    <3> QED  BY <2>1, <2>3, <3>1 DEF Notes
  <2> QED  BY <2>2, <2>3
<1>8. CASE SendCall(r)
  <2>1. At(r) \in Step /\ saved' = saved /\ ~Ahead(r) /\ run[r].pc = "call"
    BY <1>2, <1>8 DEF SendCall, Stepping, Ahead
  <2>2. CASE Save(r, Marked(r, "completed"), "ok")
    <3>1. Makes(r, "completed") /\ Bound(r)' = "ok"
      BY <2>1, <2>2, MarkedMakes DEF Mark, Stepping
    <3> QED  BY <2>1, <3>1 DEF Notes
  <2>3. CASE Return(r, FALSE)
    <3>1. run'[r].pc = "fail" /\ run'[r].mem = run[r].mem
      BY <2>3, Forms
    <3> QED  BY <2>1, <3>1 DEF Leaves, Bound
  <2> QED  BY <1>8, <2>2, <2>3 DEF SendCall
<1>9. CASE TaskBegin(r) \/ Delegate(r) \/ SetJob(r) \/ Poll(r) \/ ClearJob(r)
  <2>1. /\ run'[r].pc \in {"poll", "delegate", "set_job", "clear_job", "ok", "fail"}
        /\ run'[r].mem = run[r].mem
    BY <1>1, <1>9
       DEF TaskBegin, Delegate, SetJob, Poll, ClearJob, Goto, Return, RunState
  <2>2. run'[r].pc = "delegate" => Kind[At(r)] = "task"
    BY <1>1, <1>9
       DEF TaskBegin, Delegate, SetJob, Poll, ClearJob, Goto, Return, RunState, IsAt
  <2> QED
    BY <1>9, <2>1, <2>2 DEF Leaves, Bound, TaskBegin, Delegate, SetJob, Poll, ClearJob, IsAt, At
<1>10. CASE MenuBegin(r) \/ MenuRenew(r) \/ MenuEnd(r)
  <2>1. run'[r].pc \in {"renew", "wait", "ok", "fail"} /\ run'[r].mem = run[r].mem
    BY <1>1, <1>10 DEF MenuBegin, MenuRenew, MenuEnd, Goto, Return, RunState
  <2> QED  BY <1>10, <2>1 DEF Leaves, Bound, MenuBegin, MenuRenew, MenuEnd, IsAt
<1>11. CASE Begin(r)
  <2>1. /\ run'[r].pc = "ok"
        /\ \A s \in Step : run'[r].mem.mark[s] =
              IF Kind[s] = "invoke" THEN "none" ELSE run[r].mem.mark[s]
    BY <1>1, <1>11 DEF Begin, RunState, Pipeline
  <2> QED  BY <1>11, <2>1 DEF Begin, Clears, Bound, IsAt, Ahead
<1>12. CASE End(r)
  <2>1. run'[r].pc = "ok" /\ run'[r].mem = run[r].mem
    BY <1>1, <1>12 DEF End, RunState
  <2> QED  BY <1>12, <2>1 DEF End, Leaves, Bound, IsAt
<1>13. CASE SuspendBegin(r)
  <2>1. /\ At(r) \in Step /\ Kind[At(r)] = "suspend" /\ saved' = saved /\ ~Ahead(r)
        /\ run[r].pc = "step"
    BY <1>2, <1>13 DEF SuspendBegin, IsAt, Stepping, Ahead
  <2>2. CASE run[r].mem.mark[At(r)] \in Decision
    <3>1. run'[r].pc \in {"ok", "fail"} /\ run'[r].mem = run[r].mem
      BY <1>13, <2>2, Forms DEF SuspendBegin
    <3> QED  BY <2>1, <3>1 DEF Leaves, Bound
  <2>3. CASE run[r].mem.mark[At(r)] \notin Decision /\ run[r].resume = At(r)
    <3>1. run[r].decision \in Decision /\ Decision \subseteq Mark
      BY <1>1 DEF RunState, Mark
    <3>2. Makes(r, run[r].decision) /\ Bound(r)' \in {"ok", "fail"}
      BY <1>13, <2>1, <2>3, <3>1, MarkedMakes DEF SuspendBegin, Decide, Stepping
    <3> QED  BY <2>1, <2>3, <3>1, <3>2 DEF Notes
  <2>4. CASE run[r].mem.mark[At(r)] \notin Decision /\ run[r].resume # At(r)
    <3>1. Stage(r)
      BY <1>13, <2>4 DEF SuspendBegin
    <3>2. CASE run[r].mem.mark[At(r)] = "suspended"
      <4>1. run'[r].pc = "suspend" /\ run'[r].mem = run[r].mem
        BY <3>1, <3>2, Forms DEF Stage, Pcs, Stepping
      <4> QED  BY <2>1, <4>1 DEF Leaves, Bound
    <3>3. CASE run[r].mem.mark[At(r)] = "published"
      <4>1. Save(r, Marked(r, "suspended"), "suspend")
        BY <3>1, <3>3 DEF Stage
      <4>2. Makes(r, "suspended") /\ Bound(r)' = "suspend"
        BY <2>1, <4>1, MarkedMakes DEF Mark, Stepping
      <4> QED  BY <2>4, <4>2 DEF Notes
    <3>4. CASE run[r].mem.mark[At(r)] \notin {"suspended", "published"}
      <4>1. Save(r, Marked(r, "suspending"), "publish")
        BY <3>1, <3>4 DEF Stage
      <4>2. Makes(r, "suspending") /\ Bound(r)' = "publish"
        BY <2>1, <4>1, MarkedMakes DEF Mark, Stepping
      <4> QED  BY <2>4, <4>2 DEF Notes
    <3> QED  BY <3>2, <3>3, <3>4
  <2> QED  BY <2>2, <2>3, <2>4
<1>14. CASE Publish(r)
  <2>1. At(r) \in Step /\ saved' = saved /\ ~Ahead(r) /\ run[r].pc = "publish"
    BY <1>2, <1>14 DEF Publish, Stepping, Ahead
  <2>2. Makes(r, "published") /\ Bound(r)' = "step"
    BY <1>14, <2>1, MarkedMakes DEF Publish, Mark, Stepping
  <2> QED  BY <2>1, <2>2 DEF Notes
<1>15. CASE Suspend(r)
  <2>1. /\ run'[r].pc = "save" /\ run'[r].then = "release"
        /\ run'[r].mem.mark = run[r].mem.mark
    BY <1>1, <1>15 DEF Suspend, Save, RunState, Pipeline
  <2> QED  BY <1>15, <2>1 DEF Suspend, Leaves, Bound
<1> QED
  BY <1>3, <1>4, <1>5, <1>6, <1>7, <1>8, <1>9, <1>10, <1>11, <1>12, <1>13, <1>14, <1>15 DEF Works

LEMMA FreshFits ==
    ASSUME entry \in Entries
    PROVE  /\ MarksFit(Fresh) /\ MarksFit(NoPipeline)
           /\ \A s \in Step : Fresh.mark[s] = "none" /\ NoPipeline.mark[s] = "none"
<1>1. Fresh.mark = [s \in Step |-> "none"] /\ NoPipeline.mark = [s \in Step |-> "none"]
  BY DEF Fresh, NoPipeline
<1> QED  BY <1>1 DEF MarksFit, Decision

LEMMA InitMarks == Init => MarkInv /\ AllRespect
<1> SUFFICES ASSUME Init  PROVE MarkInv /\ AllRespect
  OBVIOUS
<1>1. \A r \in Run : run[r].pc = "idle" /\ run[r].mem = NoPipeline
  BY DEF Init, Idle
<1>2. \A s \in Step : specialist[s].read = NoPipeline
  BY DEF Init
<1> QED
  BY <1>1, <1>2, FreshFits DEF Init, MarkInv, AllRespect, StageFits, Bound, Active

\* What a specialist has read is what was written, or nothing.
LEMMA SpecialistReads ==
    ASSUME Inv, [Next]_vars, NEW s \in Step
    PROVE  specialist'[s].read \in {specialist[s].read, saved, NoPipeline}
<1>1. specialist \in [Step -> [is : {"none", "running", "merging", "merged", "completed", "failed"},
                               read : Pipeline]]
  BY DEF Inv, DataOK
<1>2. ASSUME NEW r \in Run, Works(r)  PROVE specialist'[s].read \in {specialist[s].read, NoPipeline}
  <2>1. CASE Delegate(r)
    <3>1. \/ specialist' = [specialist EXCEPT ![At(r)] = [is |-> "running", read |-> NoPipeline]]
          \/ specialist' = specialist
      BY <2>1 DEF Delegate
    <3> QED  BY <1>1, <3>1
  <2>2. CASE ~Delegate(r)
    BY <1>2, <2>2
       DEF Works, Load, Persist, Transit, Release, SendBegin, SendCall, TaskBegin, SetJob, Poll,
           ClearJob, MenuBegin, MenuRenew, MenuEnd, Begin, End, SuspendBegin, Publish, Suspend,
           environment
  <2> QED  BY <2>1, <2>2
<1>3. ASSUME NEW x \in Step, SpecialistRead(x) \/ SpecialistMerge(x) \/ SpecialistEnds(x)
      PROVE  specialist'[s].read \in {specialist[s].read, saved, NoPipeline}
  BY <1>1, <1>3 DEF SpecialistRead, SpecialistMerge, SpecialistEnds
<1>4. CASE UNCHANGED specialist
  BY <1>4
<1> QED
  BY <1>2, <1>3, <1>4
     DEF Next, vars, environment, Start, Resume, Acquire, Crash, Answer, Tick

\* What a step of the world around a run, or a step into or out of it, does to it.
LEMMA WorldRests ==
    ASSUME Inv, [Next]_vars, \A r \in Run : ~Works(r)
    PROVE  /\ saved' = saved \/ \E s \in Step : SpecialistMerge(s)
           /\ \A r \in Run :
                 \/ UNCHANGED <<run[r].pc, run[r].mem, run[r].then, run[r].txn>>
                 \/ /\ run[r].pc = "idle" /\ run'[r].pc \in {"load", "refused"}
                    /\ UNCHANGED <<run[r].mem, run[r].txn>>
                 \/ Crash(r) /\ run'[r].pc = "crashed" /\ run'[r].mem = NoPipeline
                    /\ run'[r].txn = NoStep
<1>1. run \in [Run -> RunState]
  BY DEF Inv, RunsOK
<1>2. ASSUME NEW r \in Run, NEW s, NEW d, Acquire(r, s, d)
      PROVE  /\ saved' = saved /\ \A q \in Run \ {r} : run'[q] = run[q]
             /\ run[r].pc = "idle" /\ run'[r].pc \in {"load", "refused"}
             /\ UNCHANGED <<run[r].mem, run[r].txn>>
  <2>1. run[r] \in RunState
    BY <1>1
  <2> QED  BY <1>1, <1>2, <2>1 DEF Acquire, RunState
<1>3. ASSUME NEW r \in Run, Crash(r)
      PROVE  /\ saved' = saved /\ \A q \in Run \ {r} : run'[q] = run[q]
             /\ run'[r].pc = "crashed" /\ run'[r].mem = NoPipeline /\ run'[r].txn = NoStep
  <2>1. run'[r].pc = "crashed" /\ run'[r].mem = NoPipeline /\ run'[r].txn = NoStep
    BY <1>3, Forms DEF Crash
  <2> QED  BY <1>1, <1>3, <2>1 DEF Crash, Over
<1>4. CASE Tick
  <2>1. saved' = saved
    BY <1>4 DEF Tick
  <2>2. ASSUME NEW r \in Run
        PROVE  UNCHANGED <<run[r].pc, run[r].mem, run[r].then, run[r].txn>>
    <3>1. run[r] \in RunState
      BY <1>1
    <3> QED  BY <1>4, <3>1 DEF Tick, RunState
  <2> QED  BY <2>1, <2>2
<1>5. CASE UNCHANGED run /\ (saved' = saved \/ \E s \in Step : SpecialistMerge(s))
  BY <1>5
<1>6. ASSUME NEW s \in Step, SpecialistRead(s) \/ SpecialistMerge(s) \/ SpecialistEnds(s)
      PROVE  UNCHANGED run /\ (saved' = saved \/ SpecialistMerge(s))
  BY <1>6 DEF SpecialistRead, SpecialistMerge, SpecialistEnds
<1>7. ASSUME NEW s \in Step, NEW d \in Decision, Answer(s, d)  PROVE UNCHANGED <<run, saved>>
  BY <1>7 DEF Answer
<1>8. CASE UNCHANGED vars
  BY <1>5, <1>8 DEF vars
<1> QED  BY <1>2, <1>3, <1>4, <1>5, <1>6, <1>7, <1>8 DEF Next, Start, Resume

\* The marks of a run fit after each of the things it does to them.
LEMMA WorkFits ==
    ASSUME Inv, MarkInv, NEW r \in Run, Works(r)
    PROVE  MarksFit(run'[r].mem) /\ StageFits(r)' /\ MarksFit(saved')
<1>1. MarksFit(saved) /\ MarksFit(run[r].mem) /\ StageFits(r) /\ MarksFit(Fresh)
  BY FreshFits DEF MarkInv, Inv, DataOK
<1>2. CASE Reads(r)
  BY <1>1, <1>2 DEF Reads, MarksFit, StageFits, Bound
<1>3. CASE Writes(r)
  <2>1. run'[r].pc # "idle"
    BY <1>3 DEF Writes, Inv, RunsOK, RunState, Stepping
  <2> QED  BY <1>1, <1>3, <2>1 DEF Writes, StageFits, Bound, At
<1>4. CASE Clears(r)
  BY <1>1, <1>4 DEF Clears, MarksFit, StageFits, Bound, Decision
<1>5. CASE Leaves(r)
  BY <1>1, <1>5 DEF Leaves, MarksFit, StageFits, Bound
<1>6. CASE Ends(r)
  <2>1. MarksFit(NoPipeline)
    BY FreshFits DEF Inv, DataOK
  <2> QED  BY <1>1, <1>6, <2>1 DEF Ends, StageFits, Bound
<1>7. CASE Notes(r)
  <2>1. PICK mark : Makes(r, mark)
    BY <1>7 DEF Notes
  <2>2. At(r) \in Step /\ At(r)' = At(r) /\ saved' = saved
    BY <2>1 DEF Makes
  <2>3. \A s \in Step : run'[r].mem.mark[s] = IF s = At(r) THEN mark ELSE run[r].mem.mark[s]
    <3>1. run[r].mem.mark \in [Step -> Mark]
      BY DEF Inv, RunsOK, RunState, Pipeline
    <3> QED  BY <2>1, <3>1 DEF Makes
  <2>4. run'[r].mem.mark[At(r)] = mark
    BY <2>2, <2>3
  <2>5. /\ mark \in {"dispatched", "completed"} => Kind[At(r)] \in {"notify", "invoke"}
        /\ mark \in Decision => Kind[At(r)] = "suspend"
    <3>1. ASSUME NEW m, Makes(r, m)  PROVE m = mark
      <4>1. run[r].mem.mark \in [Step -> Mark]
        BY DEF Inv, RunsOK, RunState, Pipeline
      <4> QED  BY <2>1, <2>2, <3>1, <4>1 DEF Makes
    <3>2. run[r].pc = "call" => Kind[At(r)] \in {"notify", "invoke"}
      BY <1>1, <2>2 DEF StageFits, Bound, MarksFit, At
    <3> QED  BY <1>7, <3>1, <3>2 DEF Notes, Decision
  <2>6. MarksFit(run'[r].mem)
    BY <1>1, <2>3, <2>5 DEF MarksFit
  <2>7. StageFits(r)'
    <3>1. ASSUME NEW m, Makes(r, m)  PROVE run'[r].mem.mark[At(r)] = m
      <4>1. run[r].mem.mark \in [Step -> Mark]
        BY DEF Inv, RunsOK, RunState, Pipeline
      <4> QED  BY <2>2, <3>1, <4>1 DEF Makes
    <3>2. At(r)' = run'[r].mem.at
      BY DEF At
    <3> QED  BY <1>7, <2>1, <2>2, <3>1 DEF Notes, Makes, StageFits, Bound, Decision
  <2> QED  BY <1>1, <2>2, <2>6, <2>7
<1> QED  BY <1>2, <1>3, <1>4, <1>5, <1>6, <1>7, WorkMarks

LEMMA StepKeepsMarks == Inv /\ MarkInv /\ [Next]_vars => MarkInv'
<1> SUFFICES ASSUME Inv, MarkInv, [Next]_vars  PROVE MarkInv'
  OBVIOUS
<1>1. MarksFit(NoPipeline)
  BY FreshFits DEF Inv, DataOK
<1>2. \A s \in Step : MarksFit(specialist'[s].read)
  BY <1>1, SpecialistReads DEF MarkInv
<1>3. CASE \E r \in Run : Works(r)
  <2>1. PICK r \in Run : Works(r)
    BY <1>3
  <2>2. \A q \in Run \ {r} : run'[q] = run[q]
    BY <2>1, OthersRest
  <2>3. \A q \in Run \ {r} : MarksFit(run'[q].mem) /\ StageFits(q)'
    BY <2>2 DEF MarkInv, StageFits, Bound, At
  <2> QED  BY <1>2, <2>1, <2>3, WorkFits DEF MarkInv
<1>4. CASE \A r \in Run : ~Works(r)
  <2>1. MarksFit(saved')
    <3>1. ASSUME NEW s \in Step, SpecialistMerge(s)  PROVE saved'.mark = specialist[s].read.mark
      BY <3>1 DEF SpecialistMerge, Inv, DataOK, Pipeline
    <3> QED  BY <1>4, <3>1, WorldRests DEF MarkInv, MarksFit
  <2>2. ASSUME NEW r \in Run  PROVE MarksFit(run'[r].mem) /\ StageFits(r)'
    <3>1. CASE UNCHANGED <<run[r].pc, run[r].mem, run[r].then, run[r].txn>>
      BY <3>1 DEF MarkInv, StageFits, Bound, At
    <3>2. CASE run'[r].pc \in {"load", "refused"} /\ UNCHANGED run[r].mem
      BY <3>2 DEF MarkInv, StageFits, Bound
    <3>3. CASE run'[r].pc = "crashed" /\ run'[r].mem = NoPipeline
      BY <1>1, <3>3 DEF StageFits, Bound
    <3> QED  BY <1>4, <3>1, <3>2, <3>3, WorldRests
  <2> QED  BY <1>2, <2>1, <2>2 DEF MarkInv
<1> QED  BY <1>3, <1>4

\* While nobody is disturbed, a run that works is the only one, and writes over nothing
\* that it does not know.
LEMMA WorkerKnows ==
    ASSUME HolderIsAlone, NothingIsOverwritten, Undisturbed, NEW r \in Run, Active(r)
    PROVE  /\ \A q \in Run : Active(q) => q = r
           /\ ~Ahead(r) => saved = run[r].mem
BY DEF HolderIsAlone, NothingIsOverwritten, Undisturbed, Ahead

LEMMA WorkRespects ==
    ASSUME Inv, MarkInv, NEW r \in Run, Works(r), Respects(r), ~Ahead(r) => saved = run[r].mem,
           Active(r)'
    PROVE  Respects(r)'
<1>0. Fresh' = Fresh
  BY DEF Fresh, Works, Load, Persist, Transit, Release, SendBegin, SendCall, TaskBegin,
     Delegate, SetJob, Poll, ClearJob, MenuBegin, MenuRenew, MenuEnd, Begin, End, SuspendBegin,
     Publish, Suspend, environment
<1>1. MarksFit(saved) /\ MarksFit(run[r].mem) /\ StageFits(r)
  BY DEF MarkInv
<1>2. CASE Reads(r)
  <2>1. \A s \in Step : Fresh.mark[s] = "none"
    BY FreshFits DEF Inv, DataOK
  <2> QED  BY <1>0, <1>2, <2>1 DEF Reads, Respects
<1>3. CASE Writes(r)
  BY <1>3 DEF Writes, Respects
<1>4. CASE Clears(r)
  <2>1. saved = run[r].mem /\ saved' = saved
    BY <1>4 DEF Clears
  <2> QED  BY <1>1, <1>4, <2>1 DEF Clears, Respects, MarksFit, Decision
<1>5. CASE Leaves(r)
  BY <1>0, <1>5 DEF Leaves, Respects
<1>6. CASE Ends(r)
  BY <1>6 DEF Ends, Active
<1>7. CASE Notes(r)
  <2>1. PICK mark : Makes(r, mark)
    BY <1>7 DEF Notes
  <2>2. At(r) \in Step /\ saved' = saved /\ saved = run[r].mem
    BY <2>1 DEF Makes
  <2>3. \A m : Makes(r, m) => \A s \in Step : run'[r].mem.mark[s] =
                                  IF s = At(r) THEN m ELSE run[r].mem.mark[s]
    <3>1. run[r].mem.mark \in [Step -> Mark]
      BY DEF Inv, RunsOK, RunState, Pipeline
    <3> QED  BY <3>1 DEF Makes
  <2>4. \A s \in Step : run'[r].mem.mark[s] = "dispatched" => saved.mark[s] # "completed"
    BY <1>7, <2>2, <2>3 DEF Notes, Decision
  <2>5. saved.mark[At(r)] \notin Decision
    BY <1>1, <1>7, <2>2 DEF Notes, MarksFit, StageFits, Bound, Decision
  <2> QED  BY <2>1, <2>2, <2>3, <2>4, <2>5 DEF Respects
<1> QED  BY <1>2, <1>3, <1>4, <1>5, <1>6, <1>7, WorkMarks

LEMMA StepRespects ==
    Inv /\ HolderIsAlone /\ NothingIsOverwritten /\ MarkInv /\ AllRespect /\ [Next]_vars
        => AllRespect'
<1> SUFFICES ASSUME Inv, HolderIsAlone, NothingIsOverwritten, MarkInv, AllRespect, [Next]_vars,
                    Undisturbed', NEW q \in Run, Active(q)'
             PROVE  Respects(q)'
  BY DEF AllRespect
<1>1. Undisturbed
  BY DisturbedStays
<1>2. CASE \E r \in Run : Works(r)
  <2>1. PICK r \in Run : Works(r)
    BY <1>2
  <2>2. Active(r) /\ \A p \in Run \ {r} : run'[p] = run[p]
    BY <2>1, OthersRest
  <2>3. q = r
    BY <1>1, <2>2, WorkerKnows DEF Active
  <2> QED  BY <1>1, <2>1, <2>2, <2>3, WorkerKnows, WorkRespects DEF AllRespect
<1>3. CASE \A r \in Run : ~Works(r)
  <2>1. saved' = saved
    BY <1>3, WorldRests DEF SpecialistMerge, Undisturbed
  <2>2. Fresh' = Fresh
    BY <1>3 DEF Fresh, Next, vars, environment, Start, Resume, Acquire, Crash, Answer, Tick,
       SpecialistRead, SpecialistMerge, SpecialistEnds
  <2>3. CASE UNCHANGED <<run[q].pc, run[q].mem, run[q].then, run[q].txn>>
    BY <1>1, <2>1, <2>2, <2>3 DEF AllRespect, Respects, Active
  <2>4. CASE run[q].pc = "idle" /\ run'[q].pc \in {"load", "refused"} /\ UNCHANGED run[q].mem
    <3>1. \A s \in Step : run'[q].mem.mark[s] = "none" /\ run'[q].pc = "load"
      BY <2>4 DEF MarkInv, StageFits, Active
    <3> QED  BY <3>1 DEF Respects
  <2>5. CASE run'[q].pc = "crashed"
    BY <2>5 DEF Active
  <2> QED  BY <1>3, <2>3, <2>4, <2>5, WorldRests
<1> QED  BY <1>2, <1>3

-----------------------------------------------------------------------------
(* Effects and decisions.                                                  *)

\* The effects are counted by those that call or delegate, and by a pipeline's start.
LEMMA WorkCounts ==
    ASSUME Inv, MarkInv, NEW r \in Run, Works(r), ~Ahead(r) => saved = run[r].mem
    PROVE  /\ \A s \in Step : saved.mark[s] = "completed" => done'[s] \in {0, done[s]}
           /\ \/ done' = done
              \/ run[r].pc = "load" /\ done' = NothingDone
              \/ run[r].pc \in {"call", "delegate"} /\ done' = [done EXCEPT ![At(r)] = @ + 1]
<1>1. done \in [Step -> Nat] /\ StageFits(r) /\ MarksFit(run[r].mem)
  BY DEF Inv, DataOK, MarkInv
<1>2. CASE Load(r)
  <2>1. run[r].pc = "load" /\ done' \in {done, NothingDone}
    BY <1>2 DEF Load
  <2> QED  BY <1>1, <2>1 DEF NothingDone
<1>3. CASE SendCall(r) \/ Delegate(r)
  <2>1. /\ run[r].pc \in {"call", "delegate"}
        /\ done' = done \/ done' = [done EXCEPT ![At(r)] = @ + 1]
    BY <1>3 DEF SendCall, Delegate
  <2>2. saved = run[r].mem
    BY <2>1 DEF Ahead
  <2>3. run[r].mem.at \in Step
    BY <2>1 DEF Inv, RunsOK, RunOK, Stepping
  <2>4. saved.mark[At(r)] # "completed"
    BY <1>1, <2>1, <2>2, <2>3 DEF StageFits, Bound, MarksFit, At
  <2> QED  BY <1>1, <2>1, <2>4
<1>4. CASE done' = done
  BY <1>4
<1> QED
  BY <1>2, <1>3, <1>4
     DEF Works, Persist, Transit, Release, SendBegin, TaskBegin, SetJob, Poll, ClearJob, MenuBegin,
         MenuRenew, MenuEnd, Begin, End, SuspendBegin, Publish, Suspend

LEMMA WorldCounts == ASSUME [Next]_vars, \A r \in Run : ~Works(r)  PROVE done' = done
BY DEF Next, vars, Start, Resume, Acquire, Crash, Tick, Answer, SpecialistRead, SpecialistMerge,
   SpecialistEnds

\* A call whose completion is written is neither made nor prepared again for this
\* pipeline, whatever runs crash and take over, while nobody outlives its lock.
THEOREM CompletedStays == Spec => CompletedIsNotRepeated
<1> DEFINE Keeps == \A s \in Step : saved.mark[s] = "completed" /\ Undisturbed' =>
                       done'[s] \in {0, done[s]} /\ saved'.mark[s] # "dispatched"
<1>1. Inv /\ HolderIsAlone /\ NothingIsOverwritten /\ MarkInv /\ AllRespect /\ [Next]_vars => Keeps
  <2> SUFFICES ASSUME Inv, HolderIsAlone, NothingIsOverwritten, MarkInv, AllRespect, [Next]_vars,
                      NEW s \in Step, saved.mark[s] = "completed", Undisturbed'
               PROVE  done'[s] \in {0, done[s]} /\ saved'.mark[s] # "dispatched"
    OBVIOUS
  <2>1. Undisturbed
    BY DisturbedStays
  <2>2. CASE \E r \in Run : Works(r)
    <3>1. PICK r \in Run : Works(r)
      BY <2>2
    <3>2. Active(r) /\ Respects(r) /\ (~Ahead(r) => saved = run[r].mem)
      BY <2>1, <3>1, OthersRest, WorkerKnows DEF AllRespect
    <3>3. saved'.mark[s] # "dispatched"
      BY <3>1, <3>2, WorkMarks
         DEF Respects, Reads, Writes, Clears, Notes, Makes, Leaves, Ends
    <3>4. done'[s] \in {0, done[s]}
      BY <3>1, <3>2, WorkCounts
    <3> QED  BY <3>3, <3>4
  <2>3. CASE \A r \in Run : ~Works(r)
    <3>1. saved' = saved
      BY <2>3, WorldRests DEF SpecialistMerge, Undisturbed
    <3>2. done' = done
      BY <2>3, WorldCounts
    <3> QED  BY <3>1, <3>2
  <2> QED  BY <2>2, <2>3
<1>2. Init => HolderIsAlone /\ NothingIsOverwritten
  BY DEF Init, HolderIsAlone, NothingIsOverwritten, Active, Idle
<1>3. Inv /\ HolderIsAlone /\ NothingIsOverwritten /\ MarkInv /\ AllRespect /\ [Next]_vars => [Keeps]_vars
  BY <1>1
<1> QED
  BY <1>2, <1>3, InitInv, StepKeeps, StepKeepsAlone, StepKeepsProgress, InitMarks, StepKeepsMarks,
     StepRespects, PTL DEF Spec, CompletedIsNotRepeated

\* A written decision stands, while nobody outlives its lock: no later or contrary answer,
\* and no run that takes over, changes it, until the pipeline starts anew.
THEOREM DecisionIsKept == Spec => DecisionStands
<1> DEFINE Keeps == \A s \in Step : saved.mark[s] \in Decision /\ Undisturbed' /\ saved' # Fresh =>
                       saved'.mark[s] = saved.mark[s]
<1>1. Inv /\ HolderIsAlone /\ NothingIsOverwritten /\ MarkInv /\ AllRespect /\ [Next]_vars => Keeps
  <2> SUFFICES ASSUME Inv, HolderIsAlone, NothingIsOverwritten, MarkInv, AllRespect, [Next]_vars,
                      NEW s \in Step, saved.mark[s] \in Decision, Undisturbed', saved' # Fresh
               PROVE  saved'.mark[s] = saved.mark[s]
    OBVIOUS
  <2>1. Undisturbed
    BY DisturbedStays
  <2>2. CASE \E r \in Run : Works(r)
    <3>1. PICK r \in Run : Works(r)
      BY <2>2
    <3>2. Respects(r)
      BY <2>1, <3>1, OthersRest DEF AllRespect
    <3> QED
      BY <3>1, <3>2, WorkMarks DEF Respects, Reads, Writes, Clears, Notes, Makes, Leaves, Ends
  <2>3. CASE \A r \in Run : ~Works(r)
    BY <2>3, WorldRests DEF SpecialistMerge, Undisturbed
  <2> QED  BY <2>2, <2>3
<1>2. Init => HolderIsAlone /\ NothingIsOverwritten
  BY DEF Init, HolderIsAlone, NothingIsOverwritten, Active, Idle
<1>3. Inv /\ HolderIsAlone /\ NothingIsOverwritten /\ MarkInv /\ AllRespect /\ [Next]_vars => [Keeps]_vars
  BY <1>1
<1> QED
  BY <1>2, <1>3, InitInv, StepKeeps, StepKeepsAlone, StepKeepsProgress, InitMarks, StepKeepsMarks,
     StepRespects, PTL DEF Spec, DecisionStands

-----------------------------------------------------------------------------
(* How often an effect is had.                                             *)

\* The runs that died.
Dead == {r \in Run : run[r].pc = "crashed"}

\* Where a run may have had the effect of its step.
After(r) == Bound(r) \in {"ok", "fail", "set_job", "poll", "clear_job"}

Brackets == {"begin", "end"}

\* A flow without cycles, the ways that failures take inside transactions included:
\* each transition raises the rank of the step, given where the failures of the
\* transactions that may be open at a step go.
Ranked(rank, open) ==
    /\ rank \in [Place -> Nat] /\ open \in [Step -> SUBSET Place]
    /\ \A s \in Step :
          /\ rank[OnSuccess[s]] > rank[s] /\ rank[OnFailure[s]] > rank[s]
          /\ Kind[s] \notin Brackets => \A f \in open[s] : rank[f] > rank[s]
          /\ OnSuccess[s] \in Step =>
                /\ Kind[s] = "begin" => OnFailure[s] \in open[OnSuccess[s]]
                /\ Kind[s] \notin Brackets => open[s] \subseteq open[OnSuccess[s]]

\* The transaction of a run is one that may be open at its step, or after it.
TxnFits(r, open) ==
    /\ run[r].pc \in {"idle", "load"} => run[r].txn = NoStep
    /\ Bound(r) \in Stepping \ {"step", "ok"} => Kind[At(r)] \notin Brackets
    /\ run[r].txn # NoStep =>
          IF Bound(r) = "ok"
            THEN OnSuccess[At(r)] \in Step => run[r].txn \in open[OnSuccess[At(r)]]
            ELSE At(r) \in Step => run[r].txn \in open[At(r)]

\* A run is at the step that is written, or about to write a step not yet reached.
Advances(r, rank) ==
    \/ At(r) = saved.at
    \/ /\ run[r].pc = "save" /\ Bound(r) \in {"step", "release"}
       /\ \A s \in Step : rank[s] >= rank[At(r)] => done[s] = 0

\* No step beyond the one that is written had its effect; none had it twice but for the
\* deaths; and that one had not, but for the deaths, unless a run has just done it.
CountInv(rank) == Undisturbed =>
    /\ \A s \in Step : rank[s] > rank[saved.at] => done[s] = 0
    /\ \A s \in Step : done[s] <= 1 + Cardinality(Dead)
    /\ \A r \in Run : Active(r) /\ run[r].pc # "load" => Advances(r, rank)
    /\ \A s \in Step : s = saved.at =>
          \/ done[s] <= Cardinality(Dead)
          \/ \E r \in Run : Active(r) /\ run[r].pc # "load" /\ (At(r) # s \/ After(r))

\* What a step of a run does to its place: it takes it from what is written, or writes
\* it; leaves it by a transition; is at work there; opens or closes a transaction.
Enters(r) ==
    /\ saved' = saved /\ run[r].pc = "load" /\ run'[r].txn = run[r].txn
    /\ \/ At(r)' = saved.at /\ done' = done /\ run'[r].pc \in {"step", "save"}
       \/ done' = NothingDone /\ run'[r].pc = "save"
    /\ Bound(r)' = "step"
Settles(r) ==
    /\ Writes(r) /\ done' = done /\ run'[r].txn = run[r].txn
Moves(r) ==
    /\ saved' = saved /\ done' = done /\ run[r].pc \in {"ok", "fail"} /\ run'[r].pc = "save"
    /\ IF run[r].pc = "fail" /\ run[r].txn # NoStep
         THEN At(r)' = run[r].txn /\ run'[r].txn = NoStep
         ELSE /\ At(r)' = IF run[r].pc = "ok" THEN OnSuccess[At(r)] ELSE OnFailure[At(r)]
              /\ run'[r].txn = run[r].txn
    /\ Bound(r)' \in {"step", "release"}
Acts(r) ==
    /\ saved' = saved /\ At(r)' = At(r) /\ run'[r].txn = run[r].txn
    /\ run[r].pc \in Stepping \ {"ok", "fail"}
    /\ run[r].pc = "step" => Kind[At(r)] \notin Brackets
    /\ Bound(r)' \in Stepping \cup {"release"} /\ (Bound(r)' = "release" => run[r].pc = "suspend")
    /\ \/ done' = done /\ (After(r) => After(r)')
       \/ /\ run[r].pc \in {"call", "delegate"} /\ After(r)'
          /\ done' = [done EXCEPT ![At(r)] = @ + 1]
Turns(r) ==
    /\ saved' = saved /\ done' = done /\ At(r)' = At(r)
    /\ run[r].pc = "step" /\ run'[r].pc = "ok"
    /\ \/ Kind[At(r)] = "begin" /\ run'[r].txn = OnFailure[At(r)]
       \/ Kind[At(r)] = "end" /\ run'[r].txn = NoStep
Quits(r) == saved' = saved /\ done' = done /\ run[r].pc = "release" /\ run'[r].pc = "done"
            /\ run'[r].txn = NoStep

LEMMA MarkedActs ==
    ASSUME Inv, NEW r \in Run, NEW mark \in Mark, NEW then \in Stepping,
           Save(r, Marked(r, mark), then), At(r) \in Step
    PROVE  /\ At(r)' = At(r) /\ run'[r].txn = run[r].txn /\ run'[r].pc = "save"
           /\ Bound(r)' = then
<1>1. Marked(r, mark) \in Pipeline /\ Marked(r, mark).at = At(r)
  BY MarkedKeeps DEF Inv
<1> QED  BY <1>1, Forms DEF Bound, At

LEMMA LoadEnters == ASSUME Inv, NEW r \in Run, Load(r)  PROVE Enters(r)
<1>1. run[r] \in RunState /\ run \in [Run -> RunState] /\ saved \in Pipeline /\ Fresh \in Pipeline
  BY FreshIsPlaced DEF Inv, RunsOK, DataOK
<1>2. CASE saved.status = "in_progress"
  <2>1. run'[r].pc = "step" /\ run'[r].mem = saved /\ run'[r].txn = run[r].txn
    BY <1>1, <1>2 DEF Load, RunState
  <2> QED  BY <1>2, <2>1 DEF Load, Enters, Bound, At
<1>3. CASE saved.status # "in_progress" /\ saved.status = "suspended" /\ run[r].resume # NoStep
  <2> DEFINE mem == [saved EXCEPT !.status = "in_progress"]
  <2>1. mem \in Pipeline /\ mem.at = saved.at
    BY <1>1 DEF Pipeline
  <2>2. Save(r, mem, "step") /\ done' = done
    BY <1>3 DEF Load
  <2>3. /\ run'[r].pc = "save" /\ run'[r].mem = mem /\ run'[r].then = "step"
        /\ run'[r].txn = run[r].txn
    BY <2>1, <2>2, Forms DEF Stepping
  <2> QED  BY <2>1, <2>2, <2>3 DEF Load, Enters, Bound, At
<1>4. CASE saved.status # "in_progress" /\ ~(saved.status = "suspended" /\ run[r].resume # NoStep)
  <2>1. Save(r, Fresh, "step") /\ done' = NothingDone
    BY <1>4 DEF Load
  <2>2. run'[r].pc = "save" /\ run'[r].then = "step" /\ run'[r].txn = run[r].txn
    BY <1>1, <2>1, Forms DEF Stepping
  <2> QED  BY <2>1, <2>2 DEF Load, Enters, Bound
<1> QED  BY <1>2, <1>3, <1>4

LEMMA TransitMoves == ASSUME Inv, NEW r \in Run, Transit(r)  PROVE Moves(r)
<1>1. run \in [Run -> RunState] /\ run[r] \in RunState /\ run[r].mem \in Pipeline
  BY DEF Inv, RunsOK, RunState
<1> DEFINE back == run[r].pc = "fail" /\ run[r].txn # NoStep
           to   == IF back THEN run[r].txn
                           ELSE IF run[r].pc = "ok" THEN OnSuccess[At(r)] ELSE OnFailure[At(r)]
           mem  == [run[r].mem EXCEPT !.at = to,
                        !.status = IF to = Complete THEN "completed" ELSE "in_progress"]
<1>2. run' = [run EXCEPT ![r].pc = "save", ![r].mem = mem,
                         ![r].then = IF to = Complete THEN "release" ELSE "step",
                         ![r].txn = IF back THEN NoStep ELSE @]
  BY DEF Transit
<1>3. mem.at = to
  BY <1>1 DEF Pipeline
<1> HIDE DEF mem, to
<1>4. /\ run'[r].pc = "save" /\ run'[r].mem = mem
      /\ run'[r].then \in {"release", "step"}
      /\ run'[r].txn = IF back THEN NoStep ELSE run[r].txn
  BY <1>1, <1>2 DEF RunState
<1> QED  BY <1>3, <1>4 DEF Transit, Moves, Bound, At, to

LEMMA WorkPlaces ==
    ASSUME Inv, NEW r \in Run, Works(r)
    PROVE  Enters(r) \/ Settles(r) \/ Moves(r) \/ Acts(r) \/ Turns(r) \/ Quits(r)
<1>1. run \in [Run -> RunState] /\ run[r] \in RunState /\ RunOK(run[r])
  BY DEF Inv, RunsOK
<1>2. run[r].pc \in Stepping => At(r) \in Step
  BY <1>1 DEF RunOK, At
<1>3. CASE Load(r) \/ Transit(r)
  BY <1>3, LoadEnters, TransitMoves
<1>4. CASE Persist(r)
  <2>1. run[r].then \in Pcs /\ run[r].then # "save"
    BY <1>1 DEF RunState, Pcs, Stepping
  <2>2. run'[r].pc = run[r].then /\ run'[r].mem = run[r].mem /\ run'[r].txn = run[r].txn
    BY <1>1, <1>4 DEF Persist, Goto, RunState
  <2> QED  BY <1>4, <2>1, <2>2 DEF Persist, Writes, Settles
<1>5. CASE Release(r)
  <2>1. run'[r].pc = "done" /\ run'[r].txn = NoStep
    BY <1>5, Forms DEF Release
  <2> QED  BY <1>5, <2>1 DEF Release, Quits
<1>6. CASE SendBegin(r)
  <2>1. /\ At(r) \in Step /\ Kind[At(r)] \notin Brackets /\ saved' = saved /\ done' = done
        /\ run[r].pc = "step"
    BY <1>2, <1>6 DEF SendBegin, IsAt, Stepping, Brackets
  <2>2. CASE run[r].mem.mark[At(r)] = "completed"
    <3>1. run'[r].pc = "ok" /\ run'[r].mem = run[r].mem /\ run'[r].txn = run[r].txn
      BY <1>6, <2>2, Forms DEF SendBegin
    <3> QED  BY <2>1, <3>1 DEF Acts, Bound, At, Stepping, After
  <2>3. CASE run[r].mem.mark[At(r)] # "completed"
    <3>1. /\ At(r)' = At(r) /\ run'[r].txn = run[r].txn /\ run'[r].pc = "save"
          /\ Bound(r)' = "call"
      BY <1>6, <2>1, <2>3, MarkedActs DEF SendBegin, Mark, Stepping
    <3> QED  BY <2>1, <3>1 DEF Acts, Stepping, After, Bound
  <2> QED  BY <2>2, <2>3
<1>7. CASE SendCall(r)
  <2>1. /\ At(r) \in Step /\ saved' = saved /\ run[r].pc = "call"
        /\ done' = done \/ done' = [done EXCEPT ![At(r)] = @ + 1]
    BY <1>2, <1>7 DEF SendCall, Stepping
  <2>2. CASE Save(r, Marked(r, "completed"), "ok")
    <3>1. /\ At(r)' = At(r) /\ run'[r].txn = run[r].txn /\ run'[r].pc = "save"
          /\ Bound(r)' = "ok"
      BY <2>1, <2>2, MarkedActs DEF Mark, Stepping
    <3> QED  BY <2>1, <3>1 DEF Acts, Stepping, After
  <2>3. CASE Return(r, FALSE)
    <3>1. run'[r].pc = "fail" /\ run'[r].mem = run[r].mem /\ run'[r].txn = run[r].txn
      BY <2>3, Forms
    <3> QED  BY <2>1, <3>1 DEF Acts, Stepping, After, Bound, At
  <2> QED  BY <1>7, <2>2, <2>3 DEF SendCall
<1>8. CASE TaskBegin(r) \/ Delegate(r) \/ SetJob(r) \/ Poll(r) \/ ClearJob(r)
  <2>1. /\ run'[r].pc \in {"poll", "delegate", "set_job", "clear_job", "ok", "fail"}
        /\ run'[r].pc = "delegate" => run[r].pc = "step"
        /\ run'[r].mem = run[r].mem /\ run'[r].txn = run[r].txn
    BY <1>1, <1>8
       DEF TaskBegin, Delegate, SetJob, Poll, ClearJob, Goto, Return, RunState, IsAt
  <2>2. /\ run[r].pc \in {"step", "delegate", "set_job", "poll", "clear_job"}
        /\ run[r].pc = "step" => Kind[At(r)] = "task"
        /\ saved' = saved
        /\ \/ done' = done
           \/ run[r].pc = "delegate" /\ done' = [done EXCEPT ![At(r)] = @ + 1]
    BY <1>8 DEF TaskBegin, Delegate, SetJob, Poll, ClearJob, IsAt
  <2> QED  BY <2>1, <2>2 DEF Acts, Bound, At, Stepping, After, Brackets
<1>9. CASE MenuBegin(r) \/ MenuRenew(r) \/ MenuEnd(r)
  <2>1. /\ run'[r].pc \in {"renew", "wait", "ok", "fail"} /\ run'[r].mem = run[r].mem
        /\ run'[r].txn = run[r].txn
    BY <1>1, <1>9 DEF MenuBegin, MenuRenew, MenuEnd, Goto, Return, RunState
  <2>2. /\ run[r].pc \in {"step", "renew", "wait"} /\ saved' = saved /\ done' = done
        /\ run[r].pc = "step" => Kind[At(r)] = "menu"
    BY <1>9 DEF MenuBegin, MenuRenew, MenuEnd, IsAt
  <2> QED  BY <2>1, <2>2 DEF Acts, Bound, At, Stepping, After, Brackets
<1>10. CASE Begin(r)
  <2>1. /\ run'[r].pc = "ok" /\ run'[r].mem.at = run[r].mem.at
        /\ run'[r].txn = OnFailure[At(r)]
    BY <1>1, <1>10 DEF Begin, RunState, Pipeline
  <2> QED  BY <1>10, <2>1 DEF Begin, Turns, IsAt, At
<1>11. CASE End(r)
  <2>1. run'[r].pc = "ok" /\ run'[r].mem = run[r].mem /\ run'[r].txn = NoStep
    BY <1>1, <1>11 DEF End, RunState
  <2> QED  BY <1>11, <2>1 DEF End, Turns, IsAt, At
<1>12. CASE SuspendBegin(r) \/ Publish(r) \/ Suspend(r)
  <2>1. /\ run[r].pc \in {"step", "publish", "suspend"} /\ saved' = saved /\ done' = done
        /\ run[r].pc = "step" => Kind[At(r)] = "suspend"
        /\ At(r) \in Step /\ run[r].decision \in Mark
    BY <1>1, <1>2, <1>12 DEF SuspendBegin, Publish, Suspend, IsAt, Stepping, RunState, Mark
  <2>2. /\ At(r)' = At(r) /\ run'[r].txn = run[r].txn
        /\ Bound(r)' \in {"ok", "fail", "publish", "suspend", "step", "release"}
        /\ Bound(r)' = "release" => run[r].pc = "suspend"
    <3>1. ASSUME NEW ok \in BOOLEAN, Return(r, ok)
          PROVE  /\ At(r)' = At(r) /\ run'[r].txn = run[r].txn /\ Bound(r)' \in {"ok", "fail"}
      BY <3>1, Forms DEF At, Bound
    <3>2. ASSUME Goto(r, "suspend")
          PROVE  At(r)' = At(r) /\ run'[r].txn = run[r].txn /\ Bound(r)' = "suspend"
      BY <3>2, Forms DEF At, Bound, Pcs, Stepping
    <3>3. CASE SuspendBegin(r)
      BY <2>1, <3>1, <3>2, <3>3, MarkedActs DEF SuspendBegin, Decide, Stage, Stepping, Mark
    <3>4. CASE Publish(r)
      BY <2>1, <3>4, MarkedActs DEF Publish, Stepping, Mark
    <3>5. CASE Suspend(r)
      <4>1. /\ run'[r].pc = "save" /\ run'[r].then = "release" /\ run'[r].txn = run[r].txn
            /\ run'[r].mem.at = run[r].mem.at
        BY <1>1, <3>5 DEF Suspend, Save, RunState, Pipeline
      <4> QED  BY <3>5, <4>1 DEF Suspend, At, Bound
    <3> QED  BY <1>12, <3>3, <3>4, <3>5
  <2> QED  BY <2>1, <2>2 DEF Acts, Stepping, After, Bound, Brackets
<1> QED
  BY <1>3, <1>4, <1>5, <1>6, <1>7, <1>8, <1>9, <1>10, <1>11, <1>12 DEF Works

-----------------------------------------------------------------------------
(* The count is kept.                                                      *)

LEMMA WorkFitsTxn ==
    ASSUME NEW rank, NEW open, Ranked(rank, open), Inv, NEW r \in Run, Works(r),
           TxnFits(r, open)
    PROVE  TxnFits(r, open)' /\ run'[r].pc # "crashed"
<1>1. /\ run[r].pc \in Stepping => At(r) \in Step
      /\ run[r].then \in Stepping \cup {"release"}
  BY DEF Inv, RunsOK, RunOK, RunState, At
<1>2. CASE Enters(r)
  BY <1>2 DEF Enters, TxnFits
<1>3. CASE Settles(r)
  <2>1. Bound(r)' = Bound(r) /\ At(r)' = At(r) /\ run'[r].pc \notin {"idle", "load", "crashed"}
    BY <1>1, <1>3 DEF Settles, Writes, Bound, At, Stepping
  <2> QED  BY <1>3, <2>1 DEF Settles, TxnFits
<1>4. CASE Moves(r)
  <2>1. run'[r].pc = "save" /\ Bound(r)' \notin Stepping \ {"step", "ok"}
    BY <1>4 DEF Moves, Stepping
  <2>2. Bound(r)' # "ok"
    BY <1>4 DEF Moves
  <2>3. run'[r].txn # NoStep /\ At(r)' \in Step => run'[r].txn \in open[At(r)']
    <3>1. CASE run[r].pc = "ok"
      <4>1. Bound(r) = "ok" /\ At(r)' = OnSuccess[At(r)] /\ run'[r].txn = run[r].txn
        BY <1>4, <3>1 DEF Moves, Bound
      <4> QED  BY <4>1 DEF TxnFits
    <3>2. CASE run[r].pc = "fail"
      BY <1>4, <3>2 DEF Moves
    <3> QED  BY <1>4, <3>1, <3>2 DEF Moves
  <2> QED  BY <2>1, <2>2, <2>3 DEF TxnFits
<1>5. CASE Acts(r)
  <2>1. Bound(r) = run[r].pc /\ Bound(r) # "ok" /\ At(r) \in Step
    BY <1>1, <1>5 DEF Acts, Bound, Stepping
  <2>2. Kind[At(r)] \notin Brackets
    BY <1>5, <2>1 DEF Acts, TxnFits
  <2>3. run'[r].pc \notin {"idle", "load", "crashed"}
    BY <1>5 DEF Acts, Bound, Stepping
  <2>4. run'[r].txn # NoStep => run'[r].txn \in open[At(r)]
    BY <1>5, <2>1 DEF Acts, TxnFits
  <2> QED  BY <1>5, <2>1, <2>2, <2>3, <2>4 DEF Acts, TxnFits, Ranked
<1>6. CASE Turns(r)
  <2>1. Bound(r)' = "ok" /\ At(r) \in Step
    BY <1>1, <1>6 DEF Turns, Bound, Stepping
  <2> QED  BY <1>6, <2>1 DEF Turns, TxnFits, Ranked
<1>7. CASE Quits(r)
  BY <1>7 DEF Quits, TxnFits, Bound, Stepping
<1> QED  BY <1>2, <1>3, <1>4, <1>5, <1>6, <1>7, WorkPlaces

LEMMA StepFitsTxn ==
    ASSUME NEW rank, NEW open, Ranked(rank, open), Inv, [Next]_vars,
           \A r \in Run : TxnFits(r, open)
    PROVE  \A r \in Run : TxnFits(r, open)'
<1>1. CASE \E r \in Run : Works(r)
  <2>1. PICK r \in Run : Works(r)
    BY <1>1
  <2>2. \A q \in Run \ {r} : TxnFits(q, open)'
    BY <2>1, OthersRest DEF TxnFits, Bound, At
  <2> QED  BY <2>1, <2>2, WorkFitsTxn
<1>2. CASE \A r \in Run : ~Works(r)
  BY <1>2, WorldRests DEF TxnFits, Bound, At, Stepping
<1> QED  BY <1>1, <1>2

LEMMA DeadCount ==
    ASSUME IsFiniteSet(Dead)
    PROVE  /\ Cardinality(Dead) \in Nat
           /\ Dead' = Dead => IsFiniteSet(Dead)' /\ Cardinality(Dead)' = Cardinality(Dead)
           /\ \A r \in Run : Dead' = Dead \cup {r} /\ r \notin Dead =>
                 IsFiniteSet(Dead)' /\ Cardinality(Dead)' = Cardinality(Dead) + 1
BY FS_CardinalityType, FS_AddElement

\* Who dies.
LEMMA StepDead ==
    ASSUME Inv, [Next]_vars
    PROVE  \/ Dead' = Dead /\ \A r \in Run : ~Crash(r)
           \/ \E r \in Run : /\ Crash(r) /\ Active(r) /\ r \notin Dead /\ Dead' = Dead \cup {r}
                             /\ saved' = saved /\ done' = done
                             /\ \A q \in Run \ {r} : run'[q] = run[q]
<1>1. CASE \E r \in Run : Works(r)
  <2>1. PICK r \in Run : Works(r)
    BY <1>1
  <2>2. run'[r].pc # "crashed" /\ run[r].pc # "crashed"
    <3>1. run[r].then # "crashed"
      BY DEF Inv, RunsOK, RunState, Stepping
    <3> QED
      BY <2>1, <3>1, WorkPlaces, OthersRest
         DEF Enters, Settles, Writes, Moves, Acts, Turns, Quits, Bound, Stepping, Active
  <2>3. \A q \in Run \ {r} : run'[q] = run[q]
    BY <2>1, OthersRest
  <2>4. \A q \in Run : ~Crash(q)
    <3>1. ASSUME NEW q \in Run, Crash(q)  PROVE FALSE
      <4>1. run'[q].pc = "crashed" /\ Active(q)
        BY <3>1, Forms DEF Crash
      <4> QED  BY <2>2, <2>3, <4>1 DEF Active
    <3> QED  BY <3>1
  <2> QED  BY <2>2, <2>3, <2>4 DEF Dead
<1>2. CASE \E r \in Run : Crash(r)
  <2>1. PICK r \in Run : Crash(r)
    BY <1>2
  <2>2. run'[r].pc = "crashed" /\ \A q \in Run \ {r} : run'[q] = run[q]
    BY <2>1, Forms DEF Crash, Over, Inv, RunsOK
  <2> QED  BY <2>1, <2>2 DEF Dead, Crash, Active
<1>3. CASE \A r \in Run : ~Works(r) /\ ~Crash(r)
  BY <1>3, WorldRests DEF Dead
<1> QED  BY <1>1, <1>2, <1>3

LEMMA WorkCountsOn ==
    ASSUME NEW rank, NEW open, Ranked(rank, open), Inv, NEW r \in Run, Works(r), Active(r),
           TxnFits(r, open), CountInv(rank), Undisturbed, Undisturbed',
           \A q \in Run : Active(q) => q = r, IsFiniteSet(Dead), Dead' = Dead
    PROVE  CountInv(rank)'
<1> DEFINE n == Cardinality(Dead)
<1>1. n \in Nat /\ Cardinality(Dead)' = n
  BY DeadCount
<1> HIDE DEF n
<1>2. /\ saved.at \in Place /\ At(r) \in Place /\ saved'.at \in Place /\ At(r)' \in Place
      /\ \A s \in Place : rank[s] \in Nat
  BY StepKeeps DEF Inv, DataOK, RunsOK, RunState, Pipeline, At, Ranked, Next
<1>3. \A s \in Step : done[s] \in Nat /\ done'[s] \in Nat
  BY StepKeeps DEF Inv, DataOK, Next
<1>4. /\ \A s \in Step : rank[s] > rank[saved.at] => done[s] = 0
      /\ \A s \in Step : done[s] <= 1 + n
      /\ run[r].pc # "load" => Advances(r, rank)
      /\ \A s \in Step : s = saved.at =>
            done[s] <= n \/ (run[r].pc # "load" /\ (At(r) # s \/ After(r)))
  BY DEF CountInv, n
<1>5. \A q \in Run : Active(q)' => q = r
  BY OthersRest DEF Active
<1>6. SUFFICES
      /\ \A s \in Step : rank[s] > rank[saved'.at] => done'[s] = 0
      /\ \A s \in Step : done'[s] <= 1 + n
      /\ Active(r)' /\ run'[r].pc # "load" => Advances(r, rank)'
      /\ \A s \in Step : s = saved'.at =>
            done'[s] <= n \/ (Active(r)' /\ run'[r].pc # "load" /\ (At(r)' # s \/ After(r)'))
  BY <1>1, <1>5 DEF CountInv
<1>7. CASE Enters(r)
  <2>1. \A s \in Step : done'[s] = done[s] \/ done'[s] = 0
    BY <1>7 DEF Enters, NothingDone
  <2>2. Advances(r, rank)'
    BY <1>7 DEF Enters, Advances, NothingDone
  <2>3. \A s \in Step : s = saved'.at => done'[s] <= n
    BY <1>1, <1>4, <1>7, <2>1 DEF Enters
  <2>4. /\ \A s \in Step : rank[s] > rank[saved'.at] => done'[s] = 0
        /\ \A s \in Step : done'[s] <= 1 + n
    <3>1. saved' = saved
      BY <1>7 DEF Enters
    <3> QED  BY <1>1, <1>4, <2>1, <3>1
  <2> QED  BY <2>2, <2>3, <2>4
<1>8. CASE Settles(r)
  <2>1. /\ done' = done /\ saved'.at = At(r) /\ At(r)' = At(r) /\ Bound(r)' = Bound(r)
        /\ run[r].pc = "save"
    BY <1>8 DEF Settles, Writes, Bound, At
  <2>2. run'[r].pc # "load" /\ Active(r)'
    BY <1>8 DEF Settles, Writes, Inv, RunsOK, RunState, Stepping, Active
  <2>3. CASE At(r) = saved.at
    BY <1>4, <2>1, <2>2, <2>3 DEF Advances, After
  <2>4. CASE \A s \in Step : rank[s] >= rank[At(r)] => done[s] = 0
    <3>1. Advances(r, rank)'
      BY <2>1 DEF Advances
    <3>2. \A s \in Step : rank[s] > rank[saved'.at] => done'[s] = 0
      <4>1. ASSUME NEW s \in Step, rank[s] > rank[saved'.at]  PROVE done'[s] = 0
        <5>1. rank[s] \in Nat /\ rank[At(r)] \in Nat /\ rank[s] > rank[At(r)]
          BY <1>2, <2>1, <4>1 DEF Place
        <5> QED  BY <2>1, <2>4, <5>1
      <4> QED  BY <4>1
    <3>3. \A s \in Step : s = saved'.at => done'[s] <= n
      <4>1. ASSUME NEW s \in Step, s = saved'.at  PROVE done'[s] = 0
        <5>1. s = At(r) /\ rank[At(r)] \in Nat
          BY <1>2, <2>1, <4>1
        <5> QED  BY <2>1, <2>4, <5>1
      <4> QED  BY <1>1, <4>1
    <3> QED  BY <1>4, <2>1, <3>1, <3>2, <3>3
  <2> QED  BY <1>4, <2>1, <2>3, <2>4 DEF Advances
<1>9. CASE Moves(r)
  <2>1. At(r) = saved.at /\ At(r) \in Step /\ saved' = saved /\ done' = done
    BY <1>4, <1>9 DEF Moves, Advances, Inv, RunsOK, RunOK, Stepping, At
  <2>2. rank[At(r)'] > rank[At(r)]
    BY <1>9, <2>1 DEF Moves, TxnFits, Ranked, Bound, Stepping
  <2>3. \A s \in Step : rank[s] >= rank[At(r)'] => done'[s] = 0
    <3>1. rank[saved.at] \in Nat /\ rank[At(r)'] \in Nat /\ rank[At(r)'] > rank[saved.at]
      BY <1>2, <2>1, <2>2
    <3>2. \A s \in Step : rank[s] \in Nat
      BY <1>2 DEF Place
    <3>3. ASSUME NEW s \in Step, rank[s] >= rank[At(r)']  PROVE done'[s] = 0
      <4>1. rank[s] > rank[saved.at]
        BY <3>1, <3>2, <3>3
      <4> QED  BY <1>4, <2>1, <4>1
    <3> QED  BY <3>3
  <2>4. Advances(r, rank)' /\ run'[r].pc = "save"
    BY <1>9, <2>3 DEF Moves, Advances
  <2>5. Active(r)' /\ At(r)' # At(r)
    BY <1>2, <2>2, <2>4 DEF Active
  <2> QED  BY <1>4, <2>1, <2>4, <2>5
<1>10. CASE Acts(r)
  <2>1. /\ At(r) = saved.at /\ At(r) \in Step /\ saved' = saved /\ At(r)' = At(r)
        /\ run[r].pc # "load"
    BY <1>4, <1>10 DEF Acts, Advances, Inv, RunsOK, RunOK, Stepping, At
  <2>2. Advances(r, rank)' /\ Active(r)' /\ run'[r].pc # "load"
    BY <1>10, <2>1 DEF Acts, Advances, Active, Bound, Stepping
  <2>3. CASE done' = done /\ (After(r) => After(r)')
    BY <1>4, <2>1, <2>2, <2>3
  <2>4. CASE /\ run[r].pc \in {"call", "delegate"} /\ After(r)'
             /\ done' = [done EXCEPT ![At(r)] = @ + 1]
    <3>1. ~After(r)
      BY <2>4 DEF After, Bound
    <3>2. done[At(r)] <= n
      BY <1>4, <2>1, <3>1
    <3>3. \A s \in Step : done'[s] = IF s = At(r) THEN done[s] + 1 ELSE done[s]
      BY <2>4 DEF Inv, DataOK
    <3> QED  BY <1>1, <1>2, <1>3, <1>4, <2>1, <2>2, <2>4, <3>2, <3>3
  <2> QED  BY <1>10, <2>3, <2>4 DEF Acts
<1>11. CASE Turns(r)
  <2>1. At(r) = saved.at /\ saved' = saved /\ At(r)' = At(r) /\ done' = done /\ run'[r].pc = "ok"
    BY <1>4, <1>11 DEF Turns, Advances
  <2> QED  BY <1>4, <2>1 DEF Advances, After, Bound, Active
<1>12. CASE Quits(r)
  <2>1. saved' = saved /\ done' = done /\ At(r) = saved.at /\ ~After(r) /\ ~Active(r)'
    BY <1>4, <1>12 DEF Quits, Advances, After, Bound, Active
  <2> QED  BY <1>4, <2>1
<1> QED  BY <1>7, <1>8, <1>9, <1>10, <1>11, <1>12, WorkPlaces

\* A run that dies leaves its place to the next, and counts for one more.
LEMMA WorldCountsOn ==
    ASSUME NEW rank, Inv, HolderIsAlone, [Next]_vars, \A r \in Run : ~Works(r),
           CountInv(rank), Undisturbed, Undisturbed', IsFiniteSet(Dead)
    PROVE  CountInv(rank)'
<1> DEFINE n == Cardinality(Dead)
<1>1. saved' = saved /\ done' = done
  BY WorldRests, WorldCounts DEF SpecialistMerge, Undisturbed
<1>2. /\ \A s \in Step : rank[s] > rank[saved.at] => done[s] = 0
      /\ \A s \in Step : done[s] <= 1 + n
      /\ \A r \in Run : Active(r) /\ run[r].pc # "load" => Advances(r, rank)
      /\ \A s \in Step : s = saved.at =>
            \/ done[s] <= n
            \/ \E r \in Run : Active(r) /\ run[r].pc # "load" /\ (At(r) # s \/ After(r))
  BY DEF CountInv
<1>3. n \in Nat /\ \A s \in Step : done[s] \in Nat
  BY DeadCount DEF Inv, DataOK
<1>4. CASE Dead' = Dead /\ \A r \in Run : ~Crash(r)
  <2>1. Cardinality(Dead)' = n
    BY <1>4, DeadCount
  <2> HIDE DEF n
  <2>2. \A r \in Run :
           \/ UNCHANGED <<run[r].pc, run[r].mem, run[r].then>>
           \/ run[r].pc = "idle" /\ run'[r].pc \in {"load", "refused"}
    BY <1>4, WorldRests
  <2>3. \A r \in Run : Active(r)' /\ run'[r].pc # "load" => Advances(r, rank)'
    BY <1>1, <1>2, <2>2 DEF Active, Advances, At, Bound
  <2>4. \A r \in Run : Active(r) /\ run[r].pc # "load" =>
           Active(r)' /\ run'[r].pc # "load" /\ At(r)' = At(r) /\ (After(r) => After(r)')
    BY <2>2 DEF Active, At, Bound, After
  <2>5. \A s \in Step : s = saved'.at =>
           \/ done'[s] <= n
           \/ \E r \in Run : Active(r)' /\ run'[r].pc # "load" /\ (At(r)' # s \/ After(r)')
    BY <1>1, <1>2, <2>4
  <2>6. /\ \A s \in Step : rank[s] > rank[saved'.at] => done'[s] = 0
        /\ \A s \in Step : done'[s] <= 1 + n
    BY <1>1, <1>2
  <2> QED  BY <2>1, <2>3, <2>5, <2>6 DEF CountInv
<1>5. ASSUME NEW r \in Run, Crash(r), Active(r), r \notin Dead, Dead' = Dead \cup {r},
             \A q \in Run \ {r} : run'[q] = run[q]
      PROVE  CountInv(rank)'
  <2>1. Cardinality(Dead)' = n + 1
    BY <1>5, DeadCount
  <2> HIDE DEF n
  <2>2. \A q \in Run : ~Active(q)'
    <3>1. \A q \in Run : Active(q) => q = r
      BY <1>5 DEF HolderIsAlone, Undisturbed
    <3>2. run'[r].pc = "crashed"
      BY <1>5, Forms DEF Crash
    <3> QED  BY <1>5, <3>1, <3>2 DEF Active
  <2>3. \A s \in Step : done'[s] <= n + 1 /\ done'[s] <= 1 + (n + 1)
    BY <1>1, <1>2, <1>3
  <2>4. \A s \in Step : rank[s] > rank[saved'.at] => done'[s] = 0
    BY <1>1, <1>2
  <2> QED  BY <2>1, <2>2, <2>3, <2>4 DEF CountInv
<1> QED  BY <1>4, <1>5, StepDead

LEMMA StepCounts ==
    ASSUME NEW rank, NEW open, Ranked(rank, open), Inv, HolderIsAlone,
           \A r \in Run : TxnFits(r, open), CountInv(rank), IsFiniteSet(Dead), [Next]_vars
    PROVE  CountInv(rank)' /\ IsFiniteSet(Dead)'
<1>1. IsFiniteSet(Dead)'
  BY DeadCount, StepDead
<1>2. CASE ~Undisturbed'
  BY <1>1, <1>2 DEF CountInv
<1>3. CASE Undisturbed' /\ \E r \in Run : Works(r)
  <2>1. PICK r \in Run : Works(r)
    BY <1>3
  <2>2. Undisturbed
    BY <1>3, DisturbedStays
  <2>3. Active(r) /\ \A q \in Run : Active(q) => q = r
    BY <2>1, <2>2, OthersRest DEF HolderIsAlone, Undisturbed
  <2>4. Dead' = Dead
    <3>1. run'[r].pc # "crashed"
      BY <2>1, WorkFitsTxn
    <3> QED  BY <2>1, <2>3, <3>1, OthersRest DEF Dead, Active
  <2> QED  BY <1>1, <1>3, <2>1, <2>2, <2>3, <2>4, WorkCountsOn
<1>4. CASE Undisturbed' /\ \A r \in Run : ~Works(r)
  BY <1>1, <1>4, DisturbedStays, WorldCountsOn
<1> QED  BY <1>2, <1>3, <1>4

\* In a flow without cycles, while nobody outlives its lock, a step has its effect once,
\* and once more for each run that died: crashes and takeovers repeat a call, nothing else.
THEOREM RepeatsAreDeaths ==
    ASSUME NEW rank, NEW open, Ranked(rank, open)
    PROVE  Spec => []RepeatsNeedCrashes
<1> DEFINE Fits == \A r \in Run : TxnFits(r, open)
           Counted == CountInv(rank) /\ IsFiniteSet(Dead)
<1>1. Init => HolderIsAlone /\ Fits /\ Counted
  <2> SUFFICES ASSUME Init  PROVE HolderIsAlone /\ Fits /\ Counted
    OBVIOUS
  <2>1. \A r \in Run : ~Active(r) /\ TxnFits(r, open)
    BY DEF Init, Idle, Active, TxnFits, Bound, Stepping
  <2>2. Dead = {}
    BY DEF Init, Dead, Idle
  <2>3. IsFiniteSet(Dead) /\ Cardinality(Dead) = 0
    BY <2>2, FS_EmptySet
  <2>4. \A s \in Step : done[s] = 0
    BY DEF Init, NothingDone
  <2> QED  BY <2>1, <2>3, <2>4 DEF CountInv, HolderIsAlone
<1>2. Inv /\ HolderIsAlone /\ Fits /\ [Next]_vars => Fits'
  BY StepFitsTxn
<1>3. Inv /\ HolderIsAlone /\ Fits /\ Counted /\ [Next]_vars => Counted'
  BY StepCounts
<1>4. Counted => RepeatsNeedCrashes
  BY DEF CountInv, Dead, RepeatsNeedCrashes
<1> HIDE DEF Fits, Counted
<1> QED  BY <1>1, <1>2, <1>3, <1>4, InitInv, StepKeeps, StepKeepsAlone, PTL DEF Spec

=============================================================================
