----------------------------- MODULE MCPushQueue -----------------------------
(* One contact, two agents, a task of the engine, runs of the queue agent.  *)
(* A deployment is what a pool has: a queue agent, agents that announce     *)
(* themselves.                                                              *)
EXTENDS PushQueue

CONSTANTS ana, bob, k1, k2, q1, q2

MCQuiet == {<<FALSE, FALSE>>, <<TRUE, FALSE>>}
MCAnnounced == {<<FALSE, TRUE>>, <<TRUE, TRUE>>}
MCMute == {<<FALSE, FALSE>>}
MCMost == MCQuiet \cup {<<FALSE, TRUE>>}
=============================================================================
