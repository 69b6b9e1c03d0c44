------------------------------ MODULE SlotLedger ------------------------------
(***************************************************************************)
(* What the slot semaphore promises its callers, without members, tags or  *)
(* clocks: each instance lends at most Max slots, one at a time, to        *)
(* requests (a session in a conference); a slot kept in reserve for the    *)
(* wrap-up of a contact counts against the same Max and comes only of a    *)
(* request that stops being served.                                        *)
(***************************************************************************)
EXTENDS Integers, FiniteSets

CONSTANTS Instance, Request, Max

VARIABLES
    serving,    \* instance -> requests it is serving
    reserved    \* instance -> slots kept for a wrap-up

vars == <<serving, reserved>>

Used(i) == Cardinality(serving[i]) + reserved[i]

Init ==
    /\ serving = [i \in Instance |-> {}]
    /\ reserved = [i \in Instance |-> 0]

\* One more request, in a free slot or in one that was kept in reserve.
Take(i, q) ==
    /\ q \notin serving[i]
    /\ \E r \in 0..reserved[i] :
          /\ Cardinality(serving[i]) + r < Max[i]
          /\ reserved' = [reserved EXCEPT ![i] = r]
    /\ serving' = [serving EXCEPT ![i] = @ \cup {q}]

\* Requests stop being served; one of their slots may stay in reserve.
Stop(i, Q) ==
    /\ Q # {} /\ Q \subseteq serving[i]
    /\ serving' = [serving EXCEPT ![i] = @ \ Q]
    /\ \E kept \in {0, 1} : reserved' = [reserved EXCEPT ![i] = @ + kept]

\* Reserved slots lapse.
Lapse(i) ==
    /\ \E r \in 0..reserved[i] : reserved' = [reserved EXCEPT ![i] = r]
    /\ UNCHANGED serving

Next == \E i \in Instance :
    \/ \E q \in Request : Take(i, q)
    \/ \E Q \in SUBSET serving[i] : Stop(i, Q)
    \/ Lapse(i)

Spec == Init /\ [][Next]_vars

=============================================================================
