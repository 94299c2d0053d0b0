---------------------------- MODULE MCAgentLoop ----------------------------
(* Instances of AgentLoop: two sessions, the first with a message and a    *)
(* "/stop" after it, the second with a message of its own.                 *)
EXTENDS AgentLoop, TLC

CONSTANTS m1, m2, stop1, s1, s2

MCSessionOf == (m1 :> s1) @@ (m2 :> s2) @@ (stop1 :> s1)
MCStop == {stop1}
=============================================================================
