------------------------------ MODULE TaskBoard ------------------------------
(***************************************************************************)
(* What the pull queue promises: a work item is on the board, or in the    *)
(* hands of exactly one agent, or done.  Nobody takes an item that is not  *)
(* on the board, only its holder puts it back, and a done item stays done. *)
(***************************************************************************)
CONSTANTS Item, Agent

VARIABLE place      \* item -> where it is

Open == [is |-> "open"]
Done == [is |-> "done"]
New  == [is |-> "new"]
HeldBy(i) == [is |-> "held", by |-> {i}]

Init == place = [x \in Item |-> New]

Post(x)    == place[x] = New /\ place' = [place EXCEPT ![x] = Open]
Take(x, i) == place[x] = Open /\ place' = [place EXCEPT ![x] = HeldBy(i)]
PutBack(x) == (\E i \in Agent : place[x] = HeldBy(i)) /\ place' = [place EXCEPT ![x] = Open]
\* The holder submits it, or its deadline or a supervisor closes it where it is.
Finish(x)  == place[x] \notin {New, Done} /\ place' = [place EXCEPT ![x] = Done]

Next == \E x \in Item :
    \/ Post(x) \/ PutBack(x) \/ Finish(x)
    \/ \E i \in Agent : Take(x, i)

Spec == Init /\ [][Next]_place

=============================================================================
