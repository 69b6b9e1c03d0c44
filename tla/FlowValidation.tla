---------------------------- MODULE FlowValidation ----------------------------
(***************************************************************************)
(* validateFlow: before a flow runs, the engine looks for cycles of steps  *)
(* in which no step blocks.  It walks the graph of steps depth first, in   *)
(* three colours; an edge to a grey step closes a cycle, which is the end  *)
(* of the current path.  The walk is kept as the call stack it is: one     *)
(* action per call, per edge followed and per return.                      *)
(***************************************************************************)
EXTENDS Naturals, Sequences

CONSTANT Step       \* ids of the steps of the flow

VARIABLES
    succ,           \* _getSuccessors: step -> the steps that may follow it
    guard,          \* the steps that block: menu, suspend, collect, loop, counted receive
    color,          \* step -> "white", "gray" or "black"
    path,           \* the steps of the current chain of calls
    left,           \* step -> successors its call has still to visit
    violations      \* the cycles reported, as chains of steps

graph == <<succ, guard>>
vars  == <<succ, guard, color, path, left, violations>>

Init ==
    /\ succ \in [Step -> SUBSET Step]
    /\ guard \in SUBSET Step
    /\ color = [s \in Step |-> "white"]
    /\ path = <<>>
    /\ left = [s \in Step |-> {}]
    /\ violations = {}

-----------------------------------------------------------------------------
(* The end of the path, from the step s that is on it.                     *)
IndexOf(s)   == CHOOSE i \in 1..Len(path) : path[i] = s
\* Mutant: the cycle is taken from the start of the path.
MutantCycleFrom(s) == path
CycleFrom(s) == [k \in 1..(Len(path) - IndexOf(s) + 1) |-> path[IndexOf(s) + k - 1]]

Guarded(c) == \E k \in 1..Len(c) : c[k] \in guard

\* A call of dfs on a white step.
Enter(s) ==
    /\ color' = [color EXCEPT ![s] = "gray"]
    /\ path' = Append(path, s)
    /\ left' = [left EXCEPT ![s] = succ[s]]

\* dfs is called on the steps of the flow that are white.
Root(s) ==
    /\ path = <<>> /\ color[s] = "white"
    /\ Enter(s)
    /\ UNCHANGED <<graph, violations>>

Top == path[Len(path)]

\* The call on top of the stack takes one of its successors.
Take(s) == path # <<>> /\ s \in left[Top]

\* Mutant: a step is entered whenever it is not finished.
MutantDescend(s) ==
    /\ Take(s) /\ color[s] # "black"
    /\ Enter(s)
    /\ UNCHANGED <<graph, violations>>

Descend(s) ==
    /\ Take(s) /\ color[s] = "white"
    /\ color' = [color EXCEPT ![s] = "gray"]
    /\ path' = Append(path, s)
    /\ left' = [left EXCEPT ![Top] = @ \ {s}, ![s] = succ[s]]
    /\ UNCHANGED <<graph, violations>>

Skip(s) ==
    /\ Take(s) /\ color[s] = "black"
    /\ left' = [left EXCEPT ![Top] = @ \ {s}]
    /\ UNCHANGED <<graph, color, path, violations>>

\* Mutant: a step on the path is skipped like a finished one.
MutantBackEdge(s) ==
    /\ Take(s) /\ color[s] = "gray"
    /\ left' = [left EXCEPT ![Top] = @ \ {s}]
    /\ UNCHANGED <<graph, color, path, violations>>

BackEdge(s) ==
    /\ Take(s) /\ color[s] = "gray"
    /\ left' = [left EXCEPT ![Top] = @ \ {s}]
    /\ violations' = IF Guarded(CycleFrom(s)) THEN violations
                                              ELSE violations \cup {CycleFrom(s)}
    /\ UNCHANGED <<graph, color, path>>

Return ==
    /\ path # <<>> /\ left[Top] = {}
    /\ color' = [color EXCEPT ![Top] = "black"]
    /\ path' = SubSeq(path, 1, Len(path) - 1)
    /\ UNCHANGED <<graph, left, violations>>

Next ==
    \/ \E s \in Step : Root(s) \/ Descend(s) \/ Skip(s) \/ BackEdge(s)
    \/ Return

Spec == Init /\ [][Next]_vars

-----------------------------------------------------------------------------
(* What the verdict is worth.                                              *)

Finished == path = <<>> /\ \A s \in Step : color[s] = "black"
Accepted == Finished /\ violations = {}

\* The steps of S can be run for ever without leaving S.
Endless(S)       == S # {} /\ \A s \in S : succ[s] \cap S # {}
\* Once in S a run stays in S.
Closed(S)        == \A s \in S : succ[s] \subseteq S

Chain(c) == \A k \in 1..(Len(c) - 1) : c[k + 1] \in succ[c[k]]

\* The colours and the stack tell the same story: the grey steps are those on
\* the path, each once.
ValidationTypeOK ==
    /\ succ \in [Step -> SUBSET Step] /\ guard \in SUBSET Step
    /\ color \in [Step -> {"white", "gray", "black"}]
    /\ path \in Seq(Step)
    /\ left \in [Step -> SUBSET Step]
    /\ violations \subseteq Seq(Step)
    /\ \A i, j \in 1..Len(path) : path[i] = path[j] => i = j
    /\ \A s \in Step : color[s] = "gray" <=> \E i \in 1..Len(path) : path[i] = s

\* What the walk keeps to, from which the verdicts follow: the path is a chain of
\* steps, ...
PathIsChain ==
    /\ Chain(path)
    /\ \A s \in Step : left[s] \subseteq succ[s]

\* ... it does not come out of a region that cannot be left, ...
PathStays ==
    \A S \in SUBSET Step : Closed(S) =>
        \A i, j \in 1..Len(path) : i <= j /\ path[i] \in S => path[j] \in S

\* ... an edge that was followed leads to a finished step, to the next step of the
\* path, or back over a blocking step, ...
EdgesFollowed ==
    violations = {} =>
        \A i \in 1..Len(path) : \A t \in succ[path[i]] \ left[path[i]] :
            \/ color[t] = "black"
            \/ \E j \in 1..Len(path) :
                  /\ path[j] = t
                  /\ j > i \/ \E k \in j..i : path[k] \in guard

\* ... and no step is finished of a region that can neither be left nor blocks.
TrapsStayOpen ==
    violations = {} =>
        \A S \in SUBSET (Step \ guard) : Endless(S) /\ Closed(S) =>
            \A s \in S : color[s] # "black"

\* A flow is never rejected for a cycle that is not there: what the message
\* lists is a chain of steps that closes and has no blocking step.
ReportsAreCycles ==
    \A c \in violations :
        Len(c) > 0 /\ Chain(c) /\ c[1] \in succ[c[Len(c)]] /\ ~Guarded(c)

\* A region that a run can neither leave nor be blocked in is found, whatever
\* the order of the steps and of their successors.
TrapsAreRejected ==
    Accepted => \A S \in SUBSET (Step \ guard) : ~(Endless(S) /\ Closed(S))

\* The doc comment: "every cycle in the flow step graph is controlled".
UnguardedCyclesAreRejected ==
    Accepted => \A S \in SUBSET (Step \ guard) : ~Endless(S)

=============================================================================
