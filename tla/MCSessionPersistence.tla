------------------------ MODULE MCSessionPersistence ------------------------
(* Instances of SessionPersistence with one or two sessions.               *)
EXTENDS SessionPersistence
CONSTANTS s1, s2
OneSession == {s1}
TwoSessions == {s1, s2}
ShardEach == [s \in Sessions |-> s]
ShardShared == [s \in Sessions |-> s1]
=============================================================================
