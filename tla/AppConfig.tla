----------------------------- MODULE AppConfig -----------------------------
(***************************************************************************)
(* What the interactive applications read from the profile and the command *)
(* line, with the bound of their models.                                   *)
(***************************************************************************)
EXTENDS Naturals, Sequences

CONSTANTS
  Leaders,     \* the configured teleoperators, in their order
  Target,      \* target_episodes of apps/record.py
  MaxAttempt   \* bound: how many attempts it records

ASSUME ConfigAssumption ==
  /\ Leaders \in Seq({Leaders[i] : i \in DOMAIN Leaders})
  /\ Leaders # << >>
  /\ \A i, j \in DOMAIN Leaders : Leaders[i] = Leaders[j] => i = j
  /\ Target \in Nat \ {0} /\ MaxAttempt \in Nat \ {0}
=============================================================================
