------------------------- MODULE FlowValidationProofs -------------------------
(***************************************************************************)
(* Proofs about validateFlow, for flows of any number of steps, finite or  *)
(* not: what it reports is a cycle without a blocking step, and what it    *)
(* accepts has no region of unblocked steps that a run cannot leave.       *)
(***************************************************************************)
EXTENDS FlowValidation, SequenceTheorems, TLAPS

Inv ==
    /\ ValidationTypeOK
    /\ PathIsChain
    /\ PathStays
    /\ EdgesFollowed
    /\ TrapsStayOpen
    /\ ReportsAreCycles

\* What a push and a pop make of the path, index by index.
Pushed(p, s, q) ==
    /\ q \in Seq(Step) /\ Len(q) = Len(p) + 1
    /\ \A k \in 1..Len(p) : q[k] = p[k]
    /\ q[Len(p) + 1] = s

Popped(p, q) ==
    /\ q \in Seq(Step) /\ Len(q) = Len(p) - 1
    /\ \A k \in 1..(Len(p) - 1) : q[k] = p[k]

LEMMA PushIsAppend ==
    ASSUME NEW p \in Seq(Step), NEW s \in Step
    PROVE  Pushed(p, s, Append(p, s))
BY AppendProperties DEF Pushed

LEMMA PopIsFront ==
    ASSUME NEW p \in Seq(Step), p # <<>>
    PROVE  Popped(p, SubSeq(p, 1, Len(p) - 1))
<1>1. Len(p) \in Nat /\ Len(p) # 0
  BY EmptySeq, LenProperties
<1> DEFINE n == Len(p) - 1
<1>2. n \in Nat /\ \A k \in 1..n : p[k] \in Step
  BY <1>1, ElementOfSeq
<1>3. /\ SubSeq(p, 1, n) \in Seq(Step)
      /\ Len(SubSeq(p, 1, n)) = IF 1 <= n THEN n - 1 + 1 ELSE 0
      /\ \A k \in 1..(n - 1 + 1) : SubSeq(p, 1, n)[k] = p[1 + k - 1]
  <2> HIDE DEF n
  <2> QED  BY <1>2, SubSeqProperties
<1>4. n - 1 + 1 = n /\ \A k \in 1..n : 1 + k - 1 = k
  BY <1>2
<1>5. Len(SubSeq(p, 1, n)) = n /\ \A k \in 1..n : SubSeq(p, 1, n)[k] = p[k]
  <2> HIDE DEF n
  <2> QED  BY <1>2, <1>3, <1>4
<1> QED  BY <1>3, <1>5 DEF Popped

\* The path is not empty: its last step is a step, on the path.
LEMMA TopOnPath ==
    ASSUME path \in Seq(Step), path # <<>>
    PROVE  /\ Len(path) \in Nat \ {0} /\ Len(path) \in 1..Len(path)
           /\ Top \in Step
BY EmptySeq, LenProperties, ElementOfSeq DEF Top

-----------------------------------------------------------------------------
LEMMA InitInv == Init => Inv
<1> SUFFICES ASSUME Init PROVE Inv
  OBVIOUS
<1>1. path \in Seq(Step) /\ Len(path) = 0
  BY EmptySeq DEF Init
<1> QED
  BY <1>1 DEF Init, Inv, ValidationTypeOK, PathIsChain, Chain, PathStays, EdgesFollowed,
              TrapsStayOpen, ReportsAreCycles

\* The cycle found at a back edge: the part of the path from the step it leads to.
LEMMA CycleFound ==
    ASSUME ValidationTypeOK, PathIsChain, NEW s \in Step, Take(s), color[s] = "gray"
    PROVE  /\ IndexOf(s) \in 1..Len(path) /\ path[IndexOf(s)] = s
           /\ CycleFrom(s) \in Seq(Step) /\ Len(CycleFrom(s)) = Len(path) - IndexOf(s) + 1
           /\ \A k \in 1..Len(CycleFrom(s)) : CycleFrom(s)[k] = path[IndexOf(s) + k - 1]
           /\ Chain(CycleFrom(s))
           /\ CycleFrom(s)[1] \in succ[CycleFrom(s)[Len(CycleFrom(s))]]
<1>1. path \in Seq(Step) /\ path # <<>>
  BY DEF ValidationTypeOK, Take
<1>2. Len(path) \in Nat \ {0} /\ Top \in Step
  BY <1>1, TopOnPath
<1>3. IndexOf(s) \in 1..Len(path) /\ path[IndexOf(s)] = s
  BY DEF IndexOf, ValidationTypeOK
<1> DEFINE n == Len(path) - IndexOf(s) + 1
<1>4. n \in Nat \ {0} /\ \A k \in 1..n : IndexOf(s) + k - 1 \in 1..Len(path)
  BY <1>2, <1>3
<1>5. \A k \in 1..n : path[IndexOf(s) + k - 1] \in Step
  BY <1>1, <1>4, ElementOfSeq
<1>6. CycleFrom(s) \in Seq(Step) /\ Len(CycleFrom(s)) = n
  BY <1>4, <1>5, IsASeq DEF CycleFrom
<1>7. \A k \in 1..n : CycleFrom(s)[k] = path[IndexOf(s) + k - 1]
  BY DEF CycleFrom
<1>8. Chain(CycleFrom(s))
  <2> SUFFICES ASSUME NEW k \in 1..(n - 1)
               PROVE  CycleFrom(s)[k + 1] \in succ[CycleFrom(s)[k]]
    BY <1>6 DEF Chain
  <2>1. k \in 1..n /\ k + 1 \in 1..n
    BY <1>4
  <2>2. /\ CycleFrom(s)[k] = path[IndexOf(s) + k - 1]
        /\ CycleFrom(s)[k + 1] = path[(IndexOf(s) + k - 1) + 1]
    BY <1>3, <1>7, <2>1
  <2>3. IndexOf(s) + k - 1 \in 1..(Len(path) - 1)
    BY <1>2, <1>3, <2>1
  <2> QED  BY <2>2, <2>3 DEF PathIsChain, Chain
<1>9. CycleFrom(s)[1] = s /\ CycleFrom(s)[n] = Top
  <2>1. 1 \in 1..n /\ n \in 1..n
    BY <1>4
  <2>2. IndexOf(s) + 1 - 1 = IndexOf(s) /\ IndexOf(s) + n - 1 = Len(path)
    <3>1. \A x, y \in Int : x + 1 - 1 = x /\ x + (y - x + 1) - 1 = y
      OBVIOUS
    <3>2. IndexOf(s) \in Int /\ Len(path) \in Int
      BY <1>2, <1>3
    <3> QED  BY <3>1, <3>2
  <2>3. CycleFrom(s)[1] = path[IndexOf(s) + 1 - 1] /\ CycleFrom(s)[n] = path[IndexOf(s) + n - 1]
    <3> HIDE DEF n
    <3> QED  BY <1>7, <2>1
  <2> QED  BY <1>3, <2>2, <2>3 DEF Top
<1>10. s \in succ[Top]
  BY <1>2 DEF Take, PathIsChain
<1> QED  BY <1>3, <1>6, <1>7, <1>8, <1>9, <1>10

-----------------------------------------------------------------------------
(* The call of dfs on a white step, from the flow or from a step.          *)

\* The stack after a push of a white step, wherever it was called from.
LEMMA PushKeepsType ==
    ASSUME ValidationTypeOK, NEW s \in Step, color[s] = "white",
           Pushed(path, s, path'), color' = [color EXCEPT ![s] = "gray"],
           left' \in [Step -> SUBSET Step], UNCHANGED <<graph, violations>>
    PROVE  ValidationTypeOK'
<1>1. Len(path) \in Nat
  BY LenProperties DEF ValidationTypeOK
<1>2. \A i \in 1..Len(path) : path[i] # s
  BY DEF ValidationTypeOK
<1>3. \A i \in 1..Len(path') : i \in 1..Len(path) \/ i = Len(path) + 1
  BY <1>1 DEF Pushed
<1>4. \A i, j \in 1..Len(path') : path'[i] = path'[j] => i = j
  BY <1>1, <1>2, <1>3 DEF Pushed, ValidationTypeOK
<1>5. \A t \in Step : color'[t] = "gray" <=> \E i \in 1..Len(path') : path'[i] = t
  <2> SUFFICES ASSUME NEW t \in Step
               PROVE  color'[t] = "gray" <=> \E i \in 1..Len(path') : path'[i] = t
    OBVIOUS
  <2>1. CASE t = s
    <3>1. color'[t] = "gray"
      BY <2>1 DEF ValidationTypeOK
    <3>2. Len(path) + 1 \in 1..Len(path') /\ path'[Len(path) + 1] = t
      BY <1>1, <2>1 DEF Pushed
    <3> QED  BY <3>1, <3>2
  <2>2. CASE t # s
    <3>1. color'[t] = color[t]
      BY <2>2 DEF ValidationTypeOK
    <3>2. (\E i \in 1..Len(path') : path'[i] = t) <=> \E i \in 1..Len(path) : path[i] = t
      BY <1>1, <1>3, <2>2 DEF Pushed
    <3> QED  BY <3>1, <3>2 DEF ValidationTypeOK
  <2> QED  BY <2>1, <2>2
<1> QED  BY <1>4, <1>5 DEF ValidationTypeOK, Pushed, graph

\* A white step turns grey: nothing is finished by it.
LEMMA PushFinishesNothing ==
    ASSUME ValidationTypeOK, TrapsStayOpen, NEW s \in Step,
           color' = [color EXCEPT ![s] = "gray"], UNCHANGED <<graph, violations>>
    PROVE  TrapsStayOpen'
BY DEF ValidationTypeOK, TrapsStayOpen, Endless, Closed, graph

LEMMA RootKeeps ==
    ASSUME Inv, NEW s \in Step, Root(s)
    PROVE  Inv'
<1> USE DEF Inv
<1>1. path \in Seq(Step) /\ Len(path) = 0 /\ color[s] = "white"
  BY EmptySeq DEF Root, ValidationTypeOK
<1>2. Pushed(path, s, path') /\ UNCHANGED <<graph, violations>>
  BY <1>1, PushIsAppend DEF Root, Enter
<1>3. path' \in Seq(Step) /\ Len(path') = 1 /\ path'[1] = s /\ \A i \in 1..Len(path') : i = 1
  BY <1>1, <1>2 DEF Pushed
<1>4. left' = [left EXCEPT ![s] = succ[s]] /\ left'[s] = succ[s]
  BY DEF Root, Enter, ValidationTypeOK
<1>5. ValidationTypeOK'
  <2>1. left' \in [Step -> SUBSET Step]
    BY <1>4 DEF ValidationTypeOK
  <2> QED  BY <1>1, <1>2, <2>1, PushKeepsType DEF Root, Enter
<1>6. PathIsChain'
  BY <1>2, <1>3, <1>4 DEF PathIsChain, Chain, ValidationTypeOK, graph
<1>7. PathStays'
  BY <1>3 DEF PathStays
<1>8. EdgesFollowed'
  BY <1>2, <1>3, <1>4 DEF EdgesFollowed, graph
<1>9. TrapsStayOpen'
  BY <1>2, PushFinishesNothing DEF Root, Enter
<1>10. ReportsAreCycles'
  BY <1>2 DEF ReportsAreCycles, Chain, Guarded, graph
<1> QED  BY <1>5, <1>6, <1>7, <1>8, <1>9, <1>10

LEMMA DescendKeeps ==
    ASSUME Inv, NEW s \in Step, Descend(s)
    PROVE  Inv'
<1> USE DEF Inv
<1>1. path \in Seq(Step) /\ path # <<>> /\ color[s] = "white" /\ s \in left[Top]
  BY DEF Descend, Take, ValidationTypeOK
<1>2. Len(path) \in Nat \ {0} /\ Len(path) \in 1..Len(path) /\ Top \in Step
  BY <1>1, TopOnPath
<1>3. Pushed(path, s, path') /\ UNCHANGED <<graph, violations>>
  BY <1>1, PushIsAppend DEF Descend
<1>4. Top # s
  BY <1>1, <1>2 DEF Top, ValidationTypeOK
<1>5. /\ left' \in [Step -> SUBSET Step]
      /\ left'[s] = succ[s] /\ left'[Top] = left[Top] \ {s}
      /\ \A t \in Step \ {s, Top} : left'[t] = left[t]
  BY <1>2, <1>4 DEF Descend, ValidationTypeOK
<1>6. s \in succ[Top]
  BY <1>1, <1>2 DEF PathIsChain
<1>7. /\ path' \in Seq(Step) /\ Len(path') = Len(path) + 1
      /\ \A i \in 1..Len(path) : path'[i] = path[i] /\ i \in 1..Len(path')
      /\ path'[Len(path) + 1] = s /\ Len(path) + 1 \in 1..Len(path')
      /\ \A i \in 1..Len(path') : i \in 1..Len(path) \/ i = Len(path) + 1
  BY <1>2, <1>3 DEF Pushed
<1>8. ValidationTypeOK'
  BY <1>1, <1>3, <1>5, PushKeepsType DEF Descend
<1>9. PathIsChain'
  <2>1. \A k \in 1..(Len(path') - 1) : path'[k + 1] \in succ[path'[k]]
    <3> SUFFICES ASSUME NEW k \in 1..(Len(path') - 1)
                 PROVE  path'[k + 1] \in succ[path'[k]]
      OBVIOUS
    <3>1. CASE k = Len(path)
      BY <1>2, <1>6, <1>7, <3>1 DEF Top
    <3>2. CASE k # Len(path)
      <4>1. k \in 1..(Len(path) - 1) /\ k \in 1..Len(path) /\ k + 1 \in 1..Len(path)
        BY <1>2, <1>7, <3>2
      <4> QED  BY <1>7, <4>1 DEF PathIsChain, Chain
    <3> QED  BY <3>1, <3>2
  <2>2. \A t \in Step : left'[t] \subseteq succ[t]
    BY <1>2, <1>5 DEF PathIsChain
  <2> QED  BY <1>3, <2>1, <2>2 DEF PathIsChain, Chain, graph
<1>10. PathStays'
  <2> SUFFICES ASSUME NEW S \in SUBSET Step, Closed(S),
                      NEW i \in 1..Len(path'), NEW j \in 1..Len(path'),
                      i <= j, path'[i] \in S
               PROVE  path'[j] \in S
    BY <1>3 DEF PathStays, Closed, graph
  <2>1. CASE j \in 1..Len(path)
    <3>1. i \in 1..Len(path)
      BY <1>2, <1>7, <2>1
    <3> QED  BY <1>7, <2>1, <3>1 DEF PathStays
  <2>2. CASE j = Len(path) + 1 /\ i \in 1..Len(path)
    <3>1. Top \in S
      BY <1>2, <1>7, <2>2 DEF PathStays, Top
    <3> QED  BY <1>6, <1>7, <2>2, <3>1 DEF Closed
  <2>3. CASE j = Len(path) + 1 /\ i = Len(path) + 1
    BY <2>3
  <2> QED  BY <1>7, <2>1, <2>2, <2>3
<1>11. EdgesFollowed'
  <2> SUFFICES ASSUME violations = {}, NEW i \in 1..Len(path'),
                      NEW t \in succ[path'[i]] \ left'[path'[i]]
               PROVE  \/ color'[t] = "black"
                      \/ \E j \in 1..Len(path') :
                            /\ path'[j] = t
                            /\ j > i \/ \E k \in j..i : path'[k] \in guard
    BY <1>3 DEF EdgesFollowed, graph
  <2>1. CASE i = Len(path) + 1
    BY <1>5, <1>7, <2>1
  <2>2. CASE i \in 1..Len(path) /\ t = s
    BY <1>2, <1>7, <2>2
  <2>3. CASE i \in 1..Len(path) /\ t # s
    <3>1. path'[i] = path[i] /\ path[i] \in Step /\ path[i] # s
      BY <1>1, <1>7, <2>3, ElementOfSeq DEF ValidationTypeOK
    <3>2. t \in succ[path[i]] \ left[path[i]]
      BY <1>5, <2>3, <3>1
    <3>3. t \in Step
      BY <3>1, <3>2 DEF ValidationTypeOK
    <3>4. CASE color[t] = "black"
      BY <1>1, <3>3, <3>4 DEF Descend, ValidationTypeOK
    <3>5. CASE \E j \in 1..Len(path) :
                  path[j] = t /\ (j > i \/ \E k \in j..i : path[k] \in guard)
      <4>1. PICK j \in 1..Len(path) :
                  path[j] = t /\ (j > i \/ \E k \in j..i : path[k] \in guard)
        BY <3>5
      <4>2. \A k \in j..i : path'[k] = path[k]
        BY <1>2, <1>7, <2>3, <4>1
      <4>3. j \in 1..Len(path') /\ path'[j] = t
        BY <1>7, <4>1
      <4> QED  BY <4>1, <4>2, <4>3
    <3> QED  BY <2>3, <3>2, <3>4, <3>5 DEF EdgesFollowed
  <2> QED  BY <1>7, <2>1, <2>2, <2>3
<1>12. TrapsStayOpen'
  BY <1>3, PushFinishesNothing DEF Descend
<1>13. ReportsAreCycles'
  BY <1>3 DEF ReportsAreCycles, Chain, Guarded, graph
<1> QED  BY <1>8, <1>9, <1>10, <1>11, <1>12, <1>13
-----------------------------------------------------------------------------
(* An edge to a step that was entered before.                              *)

LEMMA SkipKeeps ==
    ASSUME Inv, NEW s \in Step, Skip(s)
    PROVE  Inv'
<1> USE DEF Inv
<1>1. path \in Seq(Step) /\ path # <<>> /\ color[s] = "black"
  BY DEF Skip, Take, ValidationTypeOK
<1>2. Top \in Step /\ UNCHANGED <<graph, color, path, violations>>
  BY <1>1, TopOnPath DEF Skip
<1>3. left' = [left EXCEPT ![Top] = @ \ {s}]
  BY DEF Skip
<1>4. ValidationTypeOK'
  BY <1>2, <1>3 DEF ValidationTypeOK, graph
<1>5. PathIsChain'
  BY <1>2, <1>3 DEF PathIsChain, Chain, ValidationTypeOK, graph
<1>6. PathStays'
  BY <1>2 DEF PathStays, Closed, graph
<1>7. EdgesFollowed'
  <2> SUFFICES ASSUME violations = {}, NEW i \in 1..Len(path),
                      NEW t \in succ[path[i]] \ left'[path[i]]
               PROVE  \/ color[t] = "black"
                      \/ \E j \in 1..Len(path) :
                            path[j] = t /\ (j > i \/ \E k \in j..i : path[k] \in guard)
    BY <1>2 DEF EdgesFollowed, graph
  <2>1. CASE t = s
    BY <1>1, <2>1
  <2>2. CASE t # s
    <3>1. t \in succ[path[i]] \ left[path[i]]
      BY <1>1, <1>2, <1>3, <2>2, ElementOfSeq DEF ValidationTypeOK
    <3> QED  BY <3>1 DEF EdgesFollowed
  <2> QED  BY <2>1, <2>2
<1>8. TrapsStayOpen'
  BY <1>2 DEF TrapsStayOpen, Endless, Closed, graph
<1>9. ReportsAreCycles'
  BY <1>2 DEF ReportsAreCycles, Chain, Guarded, graph
<1> QED  BY <1>4, <1>5, <1>6, <1>7, <1>8, <1>9

LEMMA BackEdgeKeeps ==
    ASSUME Inv, NEW s \in Step, BackEdge(s)
    PROVE  Inv'
<1> USE DEF Inv
<1>1. path \in Seq(Step) /\ path # <<>> /\ Take(s) /\ color[s] = "gray"
  BY DEF BackEdge, Take, ValidationTypeOK
<1>2. /\ Len(path) \in Nat \ {0} /\ Len(path) \in 1..Len(path) /\ Top \in Step
      /\ UNCHANGED <<graph, color, path>>
  BY <1>1, TopOnPath DEF BackEdge
<1>3. left' = [left EXCEPT ![Top] = @ \ {s}]
  BY DEF BackEdge
<1>4. /\ IndexOf(s) \in 1..Len(path) /\ path[IndexOf(s)] = s
      /\ CycleFrom(s) \in Seq(Step) /\ Len(CycleFrom(s)) = Len(path) - IndexOf(s) + 1
      /\ \A k \in 1..Len(CycleFrom(s)) : CycleFrom(s)[k] = path[IndexOf(s) + k - 1]
      /\ Chain(CycleFrom(s))
      /\ CycleFrom(s)[1] \in succ[CycleFrom(s)[Len(CycleFrom(s))]]
  BY <1>1, CycleFound
<1>5. \/ violations' = violations /\ Guarded(CycleFrom(s))
      \/ violations' = violations \cup {CycleFrom(s)} /\ ~Guarded(CycleFrom(s))
  BY DEF BackEdge
<1>6. ValidationTypeOK'
  BY <1>2, <1>3, <1>4, <1>5 DEF ValidationTypeOK, graph
<1>7. PathIsChain'
  BY <1>2, <1>3 DEF PathIsChain, Chain, ValidationTypeOK, graph
<1>8. PathStays'
  BY <1>2 DEF PathStays, Closed, graph
<1>9. EdgesFollowed'
  <2> SUFFICES ASSUME violations' = {}, NEW i \in 1..Len(path),
                      NEW t \in succ[path[i]] \ left'[path[i]]
               PROVE  \/ color[t] = "black"
                      \/ \E j \in 1..Len(path) :
                            path[j] = t /\ (j > i \/ \E k \in j..i : path[k] \in guard)
    BY <1>2 DEF EdgesFollowed, graph
  <2>1. violations = {} /\ Guarded(CycleFrom(s))
    BY <1>5
  <2>2. CASE t \notin left[path[i]]
    BY <2>1, <2>2 DEF EdgesFollowed
  <2>3. CASE t \in left[path[i]]
    <3>1. path[i] = Top /\ t = s
      BY <1>1, <1>2, <1>3, <2>3, ElementOfSeq DEF ValidationTypeOK
    <3>2. i = Len(path)
      BY <1>2, <3>1 DEF Top, ValidationTypeOK
    <3>3. PICK n \in 1..Len(CycleFrom(s)) : CycleFrom(s)[n] \in guard
      BY <2>1 DEF Guarded
    <3>4. \A x, y \in Nat : \A k \in 1..(y - x + 1) : x + k - 1 \in x..y
      OBVIOUS
    <3>5. IndexOf(s) \in Nat /\ n \in 1..(Len(path) - IndexOf(s) + 1)
      BY <1>4
    <3>6. IndexOf(s) + n - 1 \in IndexOf(s)..Len(path)
      BY <1>2, <3>4, <3>5
    <3>7. path[IndexOf(s) + n - 1] \in guard
      BY <1>4, <3>3
    <3> QED  BY <1>4, <3>1, <3>2, <3>6, <3>7
  <2> QED  BY <2>2, <2>3
<1>10. TrapsStayOpen'
  <2>1. violations' = {} => violations = {}
    BY <1>5
  <2> QED  BY <1>2, <2>1 DEF TrapsStayOpen, Endless, Closed, graph
<1>11. ReportsAreCycles'
  <2>1. Len(CycleFrom(s)) > 0
    BY <1>2, <1>4
  <2> SUFFICES ASSUME NEW c \in violations'
               PROVE  Len(c) > 0 /\ Chain(c) /\ c[1] \in succ[c[Len(c)]] /\ ~Guarded(c)
    BY <1>2 DEF ReportsAreCycles, Chain, Guarded, graph
  <2>2. CASE c \in violations
    BY <2>2 DEF ReportsAreCycles
  <2>3. CASE c = CycleFrom(s) /\ ~Guarded(CycleFrom(s))
    BY <1>4, <2>1, <2>3
  <2> QED  BY <1>5, <2>2, <2>3
<1> QED  BY <1>6, <1>7, <1>8, <1>9, <1>10, <1>11

-----------------------------------------------------------------------------
(* The return of a call whose successors were all visited.                 *)

LEMMA ReturnKeeps ==
    ASSUME Inv, Return
    PROVE  Inv'
<1> USE DEF Inv
<1>1. path \in Seq(Step) /\ path # <<>> /\ left[Top] = {}
  BY DEF Return, ValidationTypeOK
<1>2. /\ Len(path) \in Nat \ {0} /\ Len(path) \in 1..Len(path) /\ Top \in Step
      /\ UNCHANGED <<graph, left, violations>>
  BY <1>1, TopOnPath DEF Return
<1>3. Popped(path, path')
  BY <1>1, PopIsFront DEF Return
<1>4. /\ path' \in Seq(Step) /\ Len(path') = Len(path) - 1
      /\ \A i \in 1..Len(path') : path'[i] = path[i] /\ i \in 1..Len(path) /\ i # Len(path)
      /\ \A i \in 1..Len(path) : i \in 1..Len(path') \/ i = Len(path)
  BY <1>2, <1>3 DEF Popped
<1>5. color' = [color EXCEPT ![Top] = "black"] /\ color'[Top] = "black"
  BY <1>2 DEF Return, ValidationTypeOK
<1>6. ValidationTypeOK'
  <2>1. \A i, j \in 1..Len(path') : path'[i] = path'[j] => i = j
    BY <1>4 DEF ValidationTypeOK
  <2>2. \A t \in Step : color'[t] = "gray" <=> \E i \in 1..Len(path') : path'[i] = t
    <3> SUFFICES ASSUME NEW t \in Step
                 PROVE  color'[t] = "gray" <=> \E i \in 1..Len(path') : path'[i] = t
      OBVIOUS
    <3>1. CASE t = Top
      <4>1. \A i \in 1..Len(path') : path'[i] # Top
        BY <1>2, <1>4 DEF Top, ValidationTypeOK
      <4> QED  BY <1>5, <3>1, <4>1
    <3>2. CASE t # Top
      <4>1. color'[t] = color[t]
        BY <1>5, <3>2 DEF ValidationTypeOK
      <4>2. (\E i \in 1..Len(path') : path'[i] = t) <=> \E i \in 1..Len(path) : path[i] = t
        BY <1>4, <3>2 DEF Top
      <4> QED  BY <4>1, <4>2 DEF ValidationTypeOK
    <3> QED  BY <3>1, <3>2
  <2>3. color' \in [Step -> {"white", "gray", "black"}]
    BY <1>5 DEF ValidationTypeOK
  <2> QED  BY <1>2, <1>4, <2>1, <2>2, <2>3 DEF ValidationTypeOK, graph
<1>7. PathIsChain'
  <2>1. \A k \in 1..(Len(path') - 1) : path'[k + 1] \in succ[path'[k]]
    <3> SUFFICES ASSUME NEW k \in 1..(Len(path') - 1)
                 PROVE  path'[k + 1] \in succ[path'[k]]
      OBVIOUS
    <3>1. k \in 1..Len(path') /\ k + 1 \in 1..Len(path') /\ k \in 1..(Len(path) - 1)
      BY <1>2, <1>4
    <3> QED  BY <1>4, <3>1 DEF PathIsChain, Chain
  <2> QED  BY <1>2, <2>1 DEF PathIsChain, Chain, graph
<1>8. PathStays'
  BY <1>2, <1>4 DEF PathStays, Closed, graph
<1>9. EdgesFollowed'
  <2> SUFFICES ASSUME violations = {}, NEW i \in 1..Len(path'),
                      NEW t \in succ[path'[i]] \ left[path'[i]]
               PROVE  \/ color'[t] = "black"
                      \/ \E j \in 1..Len(path') :
                            /\ path'[j] = t
                            /\ j > i \/ \E k \in j..i : path'[k] \in guard
    BY <1>2 DEF EdgesFollowed, graph
  <2>1. path'[i] = path[i] /\ i \in 1..Len(path) /\ path[i] \in Step
    BY <1>1, <1>4, ElementOfSeq
  <2>2. t \in Step
    BY <2>1 DEF ValidationTypeOK
  <2>3. CASE color[t] = "black"
    BY <1>5, <2>2, <2>3 DEF ValidationTypeOK
  <2>4. CASE \E j \in 1..Len(path) :
                path[j] = t /\ (j > i \/ \E k \in j..i : path[k] \in guard)
    <3>1. PICK j \in 1..Len(path) :
                path[j] = t /\ (j > i \/ \E k \in j..i : path[k] \in guard)
      BY <2>4
    <3>2. CASE j = Len(path)
      BY <1>5, <3>1, <3>2 DEF Top
    <3>3. CASE j \in 1..Len(path')
      <4>1. \A k \in j..i : path'[k] = path[k]
        BY <1>2, <1>4, <2>1, <3>3
      <4> QED  BY <1>4, <3>1, <3>3, <4>1
    <3> QED  BY <1>4, <3>2, <3>3
  <2> QED  BY <2>1, <2>3, <2>4 DEF EdgesFollowed
<1>10. TrapsStayOpen'
  <2> SUFFICES ASSUME violations = {}, NEW S \in SUBSET (Step \ guard),
                      Endless(S), Closed(S), NEW s \in S
               PROVE  color'[s] # "black"
    BY <1>2 DEF TrapsStayOpen, Endless, Closed, graph
  <2>1. color[s] # "black"
    BY DEF TrapsStayOpen
  <2>2. CASE s # Top
    BY <1>5, <2>1, <2>2 DEF ValidationTypeOK
  <2>3. CASE s = Top
    <3>1. PICK t \in succ[Top] \cap S : TRUE
      BY <2>3 DEF Endless
    <3>2. color[t] # "black"
      BY <3>1 DEF TrapsStayOpen
    <3>3. t \in succ[path[Len(path)]] \ left[path[Len(path)]]
      BY <1>1, <3>1 DEF Top
    <3>4. PICK j \in 1..Len(path) :
              /\ path[j] = t
              /\ j > Len(path) \/ \E k \in j..Len(path) : path[k] \in guard
      BY <1>2, <3>2, <3>3 DEF EdgesFollowed
    <3>5. PICK k \in j..Len(path) : path[k] \in guard
      BY <1>2, <3>4
    <3>6. k \in 1..Len(path) /\ j <= k
      BY <1>2, <3>4, <3>5
    <3>7. S \in SUBSET Step
      BY DEF ValidationTypeOK
    <3>8. path[k] \in S
      BY <3>1, <3>4, <3>6, <3>7 DEF PathStays
    <3> QED  BY <3>5, <3>8
  <2> QED  BY <2>2, <2>3
<1>11. ReportsAreCycles'
  BY <1>2 DEF ReportsAreCycles, Chain, Guarded, graph
<1> QED  BY <1>6, <1>7, <1>8, <1>9, <1>10, <1>11

-----------------------------------------------------------------------------
LEMMA StepKeeps == Inv /\ [Next]_vars => Inv'
<1> SUFFICES ASSUME Inv, [Next]_vars PROVE Inv'
  OBVIOUS
<1>1. CASE \E s \in Step : Root(s)
  BY <1>1, RootKeeps
<1>2. CASE \E s \in Step : Descend(s)
  BY <1>2, DescendKeeps
<1>3. CASE \E s \in Step : Skip(s)
  BY <1>3, SkipKeeps
<1>4. CASE \E s \in Step : BackEdge(s)
  BY <1>4, BackEdgeKeeps
<1>5. CASE Return
  BY <1>5, ReturnKeeps
<1>6. CASE UNCHANGED vars
  <2> USE <1>6 DEF vars, Inv
  <2>1. ValidationTypeOK'
    BY DEF ValidationTypeOK
  <2>2. PathIsChain' /\ PathStays'
    BY DEF PathIsChain, Chain, PathStays, Closed
  <2>3. EdgesFollowed'
    BY DEF EdgesFollowed
  <2>4. TrapsStayOpen'
    BY DEF TrapsStayOpen, Endless, Closed
  <2>5. ReportsAreCycles'
    BY DEF ReportsAreCycles, Chain, Guarded
  <2> QED  BY <2>1, <2>2, <2>3, <2>4, <2>5
<1> QED  BY <1>1, <1>2, <1>3, <1>4, <1>5, <1>6 DEF Next

\* The walk of validateFlow keeps its colours and its stack in step, and its path a
\* chain of calls.
THEOREM WalkInvariant == Spec => []Inv
BY InitInv, StepKeeps, PTL DEF Spec

\* The grey steps are those on the path, each once.
THEOREM ValidationTypeCorrect == Spec => []ValidationTypeOK
<1>1. Inv => ValidationTypeOK
  BY DEF Inv
<1> QED  BY <1>1, WalkInvariant, PTL

\* What validateFlow throws for is a cycle of the flow that nothing blocks.
THEOREM RejectionIsSound == Spec => []ReportsAreCycles
<1>1. Inv => ReportsAreCycles
  BY DEF Inv
<1> QED  BY <1>1, WalkInvariant, PTL

\* What validateFlow accepts has no region of steps, none of them blocking, that a
\* run can stay in for ever and cannot leave.
THEOREM AcceptedHasNoTrap == Spec => []TrapsAreRejected
<1>1. Inv => TrapsAreRejected
  <2> SUFFICES ASSUME Inv, Accepted, NEW S \in SUBSET (Step \ guard), Endless(S), Closed(S)
               PROVE  FALSE
    BY DEF TrapsAreRejected
  <2>1. PICK s \in S : TRUE
    BY DEF Endless
  <2>2. color[s] = "black" /\ violations = {}
    BY <2>1 DEF Accepted, Finished
  <2> QED  BY <2>1, <2>2 DEF Inv, TrapsStayOpen
<1> QED  BY <1>1, WalkInvariant, PTL

=============================================================================
