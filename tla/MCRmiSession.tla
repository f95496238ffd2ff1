---------------------------- MODULE MCRmiSession ----------------------------
(* A small workstation for RmiSession: application a1 runs two sessions that *)
(* compete for r1 (a policy over both resources and a preempting teleop),    *)
(* and a second application competes for r2.                                 *)
EXTENDS RmiSession

CONSTANTS a1, a2, s1, s2, s3, r1, r2

MCAppOf == [s \in Session |-> IF s = s3 THEN a2 ELSE a1]
MCParts == [s \in Session |-> IF s = s1 THEN {r1, r2}
                              ELSE IF s = s2 THEN {r1} ELSE {r2}]

MCOnePart == [s \in Session |-> {r1}]
=============================================================================
