-------------------------- MODULE MCCommandClient --------------------------
(* CommandClient for a session over an arm and a gripper that is entered     *)
(* twice.                                                                    *)
EXTENDS CommandClient

CONSTANTS arm, gripper
=============================================================================
