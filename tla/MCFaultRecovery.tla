-------------------------- MODULE MCFaultRecovery --------------------------
(* FaultRecovery with a record of what its recoveries take from sessions.    *)
EXTENDS FaultRecovery

VARIABLE robbed   \* history: resources that a recovery took out of a session

RecordedInit == Init /\ robbed = {}

RecordedNext ==
  /\ Next
  /\ robbed' = robbed \cup
       {r \in Resource : /\ \E a \in App : auth[r] = Session(a)
                         /\ \E a \in App : auth'[r] \in Recoveries(a)}

RecordedSpec == RecordedInit /\ [][RecordedNext]_<<recoveryVars, robbed>>

\* context.py:164, of prepare_execution: "clear FAULT, leave OWNED alone".  A
\* resource that a session owns is never taken away by a recovery.
OwnedIsNeverTaken == robbed = {}
=============================================================================
