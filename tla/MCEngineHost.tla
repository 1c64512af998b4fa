---------------------------- MODULE MCEngineHost ----------------------------
(***************************************************************************)
(* Small instances of EngineHost for TLC: which agent each call is with.   *)
(***************************************************************************)
EXTENDS EngineHost

CONSTANTS s1, s2, s3, a1, a2

SameAgent == [s \in Session |-> a1]

\* The second call is with another agent than the first and the third.
TwoAgents == [s \in Session |-> IF s = s2 THEN a2 ELSE a1]

=============================================================================
