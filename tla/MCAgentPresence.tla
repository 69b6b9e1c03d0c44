---------------------------- MODULE MCAgentPresence ----------------------------
(* One agent, connected to two pools, who connects to the first again; or  *)
(* two agents of one pool.                                                 *)
EXTENDS AgentPresence, TLC

CONSTANTS ana, bob, retention, approval, c1, c2, c3

MCAnaAlone  == [c \in Conn |-> ana]
MCTwoAgents == [c \in Conn |-> IF c = c2 THEN bob ELSE ana]
MCPoolOf    == [c \in Conn |-> IF c = c3 THEN approval ELSE retention]

\* The properties except whose record is torn: the run stops there.
Whole == torn = {}
=============================================================================
