---------------------------- MODULE MCResumeToken ----------------------------
(* An agent, a supervisor and the scanner.                                 *)
EXTENDS ResumeToken, TLC

CONSTANTS agent, supervisor

MCCaller == {agent, supervisor}
=============================================================================
