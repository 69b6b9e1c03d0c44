----------------------------- MODULE MCFlowEngine -----------------------------
(* A flow with one step of each kind, three runs of two instances.         *)
EXTENDS FlowEngine, TLC

CONSTANTS i1, i2, tx, call, stop, ask, work, hold, tell

MCRun        == 1..3
MCInstance   == {i1, i2}
MCInstanceOf == <<i1, i2, i1>>
MCStep       == {tx, call, stop, ask, work, hold, tell}
MCKind       == tx :> "begin" @@ call :> "invoke" @@ stop :> "end" @@ ask :> "menu"
                  @@ work :> "task" @@ hold :> "suspend" @@ tell :> "notify"
MCOnSuccess  == tx :> call @@ call :> stop @@ stop :> Complete @@ ask :> work
                  @@ work :> Complete @@ hold :> Complete @@ tell :> Complete
MCOnFailure  == [s \in MCStep |-> IF s \in {tell, call, hold} THEN Complete ELSE tell]
MCEntries    == {tx, ask, hold}
MCCalls      == tx :> 2 @@ ask :> 2 @@ hold :> 3
=============================================================================
