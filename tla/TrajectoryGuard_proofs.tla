----------------------- MODULE TrajectoryGuard_proofs -----------------------
(***************************************************************************)
(* Proofs about TrajectoryGuard, for any number of goals and of tasks that *)
(* cancel: its type invariant, MotionWatched, OneGoal and                  *)
(* DisarmedByItsOwnEnd.                                                    *)
(*                                                                         *)
(* MotionWatched needs to know that a false heartbeat is only under way    *)
(* when nothing moves and nothing is about to; that rests on the order in  *)
(* which goals are sent and arrive, which makes the tracked goal the last  *)
(* one that can run.                                                       *)
(***************************************************************************)
EXTENDS TrajectoryGuard, TLAPS

-----------------------------------------------------------------------------
(* The inductive invariant.                                                 *)

Started == {"running"} \cup Done

\* Nothing runs, or will run, that a disarmed guard would be needed for.
Quiet == (\A g \in Goal : goal[g] # "sent") /\ Running \subseteq disarmed

\* A goal is sent by its dispatch, and goals are taken up in their order.
SentInOrder ==
  /\ \A g \in Goal : task[g] \in {"unsent", "ready"} => goal[g] = "none"
  /\ \A g, h \in Goal : h < g /\ task[h] = "unsent" => task[g] = "unsent"
  /\ \A g \in Goal : task[g] \in {"ready", "dispatched"} \/ handle = g =>
       \A h \in Goal : g < h => task[h] = "unsent"

\* The controller takes them in that order, one at a time.
TakenInOrder ==
  /\ \A g, h \in Goal : h < g /\ goal[h] = "sent" => goal[g] \in {"none", "sent"}
  /\ \A g, h \in Goal : h < g /\ goal[g] \in Started => goal[h] \notin {"sent", "running"}

\* What the client knows of a goal is true.
KnownGoal ==
  /\ \A g \in Goal : task[g] = "accepted" => goal[g] \in Started
  /\ \A g \in Goal : handle = g => goal[g] \in Started /\ task[g] \in {"accepted", "left"}
  /\ \A c \in Canceller, g, h \in Goal :
       <<c, g>> \in calls /\ <<c, h>> \in calls => g = h
  /\ \A c \in Canceller, g \in Goal :
       <<c, g>> \in calls => /\ goal[g] \in Started
                             /\ c \in served => goal[g] \in Done

\* Without a guard on watch there is nothing to watch.
Supervised ==
  /\ Watched \/ Quiet
  /\ beat = "false" => Quiet

IInv == TypeOK /\ OneGoal /\ SentInOrder /\ TakenInOrder /\ KnownGoal /\ Supervised

-----------------------------------------------------------------------------
(* Type correctness.                                                        *)

LEMMA TypeKept == IInv /\ [Next]_vars => TypeOK'
<1> SUFFICES ASSUME IInv, [Next]_vars PROVE TypeOK'
  OBVIOUS
<1> USE DEF IInv, TypeOK, Goal, NoGoal, clientVars, cancelVars, rtVars
<1>1. ASSUME NEW g \in Goal, RtAccepts(g) PROVE TypeOK'
  BY <1>1 DEF RtAccepts, Arrives, Done
<1>2. ASSUME NEW g \in Goal, RtRejects(g) PROVE TypeOK'
  BY <1>2 DEF RtRejects, Arrives
<1>3. ASSUME NEW g \in Goal, RequestLost(g) PROVE TypeOK'
  BY <1>3 DEF RequestLost, Arrives
<1>4. ASSUME NEW g \in Goal, RtFinishes(g) PROVE TypeOK'
  BY <1>4 DEF RtFinishes, Done
<1>5. ASSUME NEW g \in Goal, SendBegins(g) PROVE TypeOK'
  BY <1>5 DEF SendBegins, Task
<1>6. ASSUME NEW g \in Goal, SendUnavailable(g) PROVE TypeOK'
  BY <1>6 DEF SendUnavailable, Task
<1>7. ASSUME NEW g \in Goal, Dispatch(g) PROVE TypeOK'
  BY <1>7 DEF Dispatch, Task
<1>8. ASSUME NEW g \in Goal, SendAccepted(g) PROVE TypeOK'
  BY <1>8 DEF SendAccepted, Task
<1>9. ASSUME NEW g \in Goal, SendRejected(g) PROVE TypeOK'
  BY <1>9 DEF SendRejected, Task, Running
<1>10. ASSUME NEW g \in Goal, SendUncertain(g) PROVE TypeOK'
  BY <1>10 DEF SendUncertain, Task
<1>11. ASSUME NEW g \in Goal, WaitReturns(g) PROVE TypeOK'
  BY <1>11 DEF WaitReturns, MarkTerminal, Task
<1>12. ASSUME NEW g \in Goal, WaitFails(g) PROVE TypeOK'
  BY <1>12 DEF WaitFails, Abandon, Task
<1>13. ASSUME NEW c \in Canceller, NEW g \in Goal, RtCancels(c, g) PROVE TypeOK'
  BY <1>13 DEF RtCancels, CanceledGoal, Done
<1>14. ASSUME NEW c \in Canceller, NEW g \in Goal, CancelReturns(c, g) PROVE TypeOK'
  BY <1>14 DEF CancelReturns, MarkTerminal
<1>15. ASSUME NEW c \in Canceller, NEW g \in Goal, CancelFails(c, g) PROVE TypeOK'
  BY <1>15 DEF CancelFails, Abandon, CanceledGoal, Done
<1>16. ASSUME NEW c \in Canceller, NEW g \in Goal, CancelInterrupted(c, g) PROVE TypeOK'
  BY <1>16 DEF CancelInterrupted, CanceledGoal, Done
<1>17. ASSUME NEW c \in Canceller, Cancel(c) PROVE TypeOK'
  BY <1>17 DEF Cancel
<1>18. ASSUME BeatArrives PROVE TypeOK'
  BY <1>18 DEF BeatArrives
<1>19. ASSUME GuardFires PROVE TypeOK'
  BY <1>19 DEF GuardFires, Done
<1>20. ASSUME PublishHeartbeat PROVE TypeOK'
  BY <1>20 DEF PublishHeartbeat
<1>21. ASSUME Crash PROVE TypeOK'
  BY <1>21 DEF Crash, Task
<1>22. CASE UNCHANGED vars
  BY <1>22 DEF vars, Watched
<1>. QED BY <1>1, <1>2, <1>3, <1>4, <1>5, <1>6, <1>7, <1>8, <1>9, <1>10,
  <1>11, <1>12, <1>13, <1>14, <1>15, <1>16, <1>17, <1>18, <1>19, <1>20, <1>21,
  <1>22 DEF Next, RtNext, TaskNext

-----------------------------------------------------------------------------
(* The client is busy from SendBegins to the end of the goal it tracks.     *)

LEMMA OneGoalKept == IInv /\ [Next]_vars => OneGoal'
<1> SUFFICES ASSUME IInv, [Next]_vars PROVE OneGoal'
  OBVIOUS
<1> USE DEF IInv, TypeOK, Goal, NoGoal, clientVars, cancelVars, rtVars
<1>1. ASSUME NEW g \in Goal, RtAccepts(g) PROVE OneGoal'
  BY <1>1 DEF RtAccepts, Arrives, OneGoal, Running, Task, SentInOrder,
    KnownGoal, Started, Done
<1>2. ASSUME NEW g \in Goal, RtRejects(g) PROVE OneGoal'
  BY <1>2 DEF RtRejects, Arrives, OneGoal, Running
<1>3. ASSUME NEW g \in Goal, RequestLost(g) PROVE OneGoal'
  BY <1>3 DEF RequestLost, Arrives, OneGoal, Running
<1>4. ASSUME NEW g \in Goal, RtFinishes(g) PROVE OneGoal'
  BY <1>4 DEF RtFinishes, OneGoal, Running
<1>5. ASSUME NEW g \in Goal, SendBegins(g) PROVE OneGoal'
  BY <1>5 DEF SendBegins, OneGoal, Running
<1>6. ASSUME NEW g \in Goal, SendUnavailable(g) PROVE OneGoal'
  BY <1>6 DEF SendUnavailable, OneGoal, Running
<1>7. ASSUME NEW g \in Goal, Dispatch(g) PROVE OneGoal'
  BY <1>7 DEF Dispatch, OneGoal, Running
<1>8. ASSUME NEW g \in Goal, SendAccepted(g) PROVE OneGoal'
  BY <1>8 DEF SendAccepted, OneGoal, Running
<1>9. ASSUME NEW g \in Goal, SendRejected(g) PROVE OneGoal'
  BY <1>9 DEF SendRejected, OneGoal, Running
<1>10. ASSUME NEW g \in Goal, SendUncertain(g) PROVE OneGoal'
  BY <1>10 DEF SendUncertain, OneGoal, Running
<1>11. ASSUME NEW g \in Goal, WaitReturns(g) PROVE OneGoal'
  BY <1>11 DEF WaitReturns, MarkTerminal, OneGoal, Running
<1>12. ASSUME NEW g \in Goal, WaitFails(g) PROVE OneGoal'
  BY <1>12 DEF WaitFails, Abandon, OneGoal, Running
<1>13. ASSUME NEW c \in Canceller, NEW g \in Goal, RtCancels(c, g) PROVE OneGoal'
  BY <1>13 DEF RtCancels, CanceledGoal, OneGoal, Running
<1>14. ASSUME NEW c \in Canceller, NEW g \in Goal, CancelReturns(c, g) PROVE OneGoal'
  BY <1>14 DEF CancelReturns, MarkTerminal, OneGoal, Running, KnownGoal, Done
<1>15. ASSUME NEW c \in Canceller, NEW g \in Goal, CancelFails(c, g) PROVE OneGoal'
  BY <1>15 DEF CancelFails, Abandon, CanceledGoal, OneGoal, Running
<1>16. ASSUME NEW c \in Canceller, NEW g \in Goal, CancelInterrupted(c, g) PROVE OneGoal'
  BY <1>16 DEF CancelInterrupted, CanceledGoal, OneGoal, Running
<1>17. ASSUME NEW c \in Canceller, Cancel(c) PROVE OneGoal'
  BY <1>17 DEF Cancel, OneGoal, Running
<1>18. ASSUME BeatArrives PROVE OneGoal'
  BY <1>18 DEF BeatArrives, OneGoal, Running
<1>19. ASSUME GuardFires PROVE OneGoal'
  BY <1>19 DEF GuardFires, OneGoal, Running
<1>20. ASSUME PublishHeartbeat PROVE OneGoal'
  BY <1>20 DEF PublishHeartbeat, OneGoal, Running
<1>21. ASSUME Crash PROVE OneGoal'
  BY <1>21 DEF Crash, OneGoal, Running, KnownGoal
<1>22. CASE UNCHANGED vars
  BY <1>22 DEF vars, OneGoal, Running, Watched
<1>. QED BY <1>1, <1>2, <1>3, <1>4, <1>5, <1>6, <1>7, <1>8, <1>9, <1>10,
  <1>11, <1>12, <1>13, <1>14, <1>15, <1>16, <1>17, <1>18, <1>19, <1>20, <1>21,
  <1>22 DEF Next, RtNext, TaskNext

-----------------------------------------------------------------------------
(* Goals are sent one after the other.                                      *)

LEMMA SentInOrderKept == IInv /\ [Next]_vars => SentInOrder'
<1> SUFFICES ASSUME IInv, [Next]_vars PROVE SentInOrder'
  OBVIOUS
<1> USE DEF IInv, TypeOK, Goal, NoGoal, clientVars, cancelVars, rtVars
<1>1. ASSUME NEW g \in Goal, RtAccepts(g) PROVE SentInOrder'
  BY <1>1 DEF RtAccepts, Arrives, SentInOrder
<1>2. ASSUME NEW g \in Goal, RtRejects(g) PROVE SentInOrder'
  BY <1>2 DEF RtRejects, Arrives, SentInOrder
<1>3. ASSUME NEW g \in Goal, RequestLost(g) PROVE SentInOrder'
  BY <1>3 DEF RequestLost, Arrives, SentInOrder
<1>4. ASSUME NEW g \in Goal, RtFinishes(g) PROVE SentInOrder'
  BY <1>4 DEF RtFinishes, SentInOrder
<1>5. ASSUME NEW g \in Goal, SendBegins(g) PROVE SentInOrder'
  BY <1>5 DEF SendBegins, SentInOrder, OneGoal
<1>6. ASSUME NEW g \in Goal, SendUnavailable(g) PROVE SentInOrder'
  BY <1>6 DEF SendUnavailable, SentInOrder
<1>7. ASSUME NEW g \in Goal, Dispatch(g) PROVE SentInOrder'
  BY <1>7 DEF Dispatch, SentInOrder
<1>8. ASSUME NEW g \in Goal, SendAccepted(g) PROVE SentInOrder'
  BY <1>8 DEF SendAccepted, SentInOrder
<1>9. ASSUME NEW g \in Goal, SendRejected(g) PROVE SentInOrder'
  BY <1>9 DEF SendRejected, SentInOrder
<1>10. ASSUME NEW g \in Goal, SendUncertain(g) PROVE SentInOrder'
  BY <1>10 DEF SendUncertain, SentInOrder
<1>11. ASSUME NEW g \in Goal, WaitReturns(g) PROVE SentInOrder'
  BY <1>11 DEF WaitReturns, MarkTerminal, SentInOrder
<1>12. ASSUME NEW g \in Goal, WaitFails(g) PROVE SentInOrder'
  BY <1>12 DEF WaitFails, Abandon, SentInOrder
<1>13. ASSUME NEW c \in Canceller, NEW g \in Goal, RtCancels(c, g) PROVE SentInOrder'
  BY <1>13 DEF RtCancels, CanceledGoal, SentInOrder
<1>14. ASSUME NEW c \in Canceller, NEW g \in Goal, CancelReturns(c, g) PROVE SentInOrder'
  BY <1>14 DEF CancelReturns, MarkTerminal, SentInOrder
<1>15. ASSUME NEW c \in Canceller, NEW g \in Goal, CancelFails(c, g) PROVE SentInOrder'
  BY <1>15 DEF CancelFails, Abandon, CanceledGoal, SentInOrder
<1>16. ASSUME NEW c \in Canceller, NEW g \in Goal, CancelInterrupted(c, g) PROVE SentInOrder'
  BY <1>16 DEF CancelInterrupted, CanceledGoal, SentInOrder
<1>17. ASSUME NEW c \in Canceller, Cancel(c) PROVE SentInOrder'
  BY <1>17 DEF Cancel, SentInOrder
<1>18. ASSUME BeatArrives PROVE SentInOrder'
  BY <1>18 DEF BeatArrives, SentInOrder
<1>19. ASSUME GuardFires PROVE SentInOrder'
  BY <1>19 DEF GuardFires, SentInOrder
<1>20. ASSUME PublishHeartbeat PROVE SentInOrder'
  BY <1>20 DEF PublishHeartbeat, SentInOrder
<1>21. ASSUME Crash PROVE SentInOrder'
  BY <1>21 DEF Crash, SentInOrder
<1>22. CASE UNCHANGED vars
  BY <1>22 DEF vars, SentInOrder, Watched
<1>. QED BY <1>1, <1>2, <1>3, <1>4, <1>5, <1>6, <1>7, <1>8, <1>9, <1>10,
  <1>11, <1>12, <1>13, <1>14, <1>15, <1>16, <1>17, <1>18, <1>19, <1>20, <1>21,
  <1>22 DEF Next, RtNext, TaskNext

-----------------------------------------------------------------------------
(* The controller takes them up in that order.                              *)

LEMMA TakenInOrderKept == IInv /\ [Next]_vars => TakenInOrder'
<1> SUFFICES ASSUME IInv, [Next]_vars PROVE TakenInOrder'
  OBVIOUS
<1> USE DEF IInv, TypeOK, Goal, NoGoal, clientVars, cancelVars, rtVars
<1>1. ASSUME NEW g \in Goal, RtAccepts(g) PROVE TakenInOrder'
  BY <1>1 DEF RtAccepts, Arrives, TakenInOrder
<1>2. ASSUME NEW g \in Goal, RtRejects(g) PROVE TakenInOrder'
  BY <1>2 DEF RtRejects, Arrives, TakenInOrder, Started, Done
<1>3. ASSUME NEW g \in Goal, RequestLost(g) PROVE TakenInOrder'
  BY <1>3 DEF RequestLost, Arrives, TakenInOrder, Started, Done
<1>4. ASSUME NEW g \in Goal, RtFinishes(g) PROVE TakenInOrder'
  BY <1>4 DEF RtFinishes, TakenInOrder, Started
<1>5. ASSUME NEW g \in Goal, SendBegins(g) PROVE TakenInOrder'
  BY <1>5 DEF SendBegins, TakenInOrder
<1>6. ASSUME NEW g \in Goal, SendUnavailable(g) PROVE TakenInOrder'
  BY <1>6 DEF SendUnavailable, TakenInOrder
<1>7. ASSUME NEW g \in Goal, Dispatch(g) PROVE TakenInOrder'
  BY <1>7 DEF Dispatch, TakenInOrder, Started, Done, SentInOrder
<1>8. ASSUME NEW g \in Goal, SendAccepted(g) PROVE TakenInOrder'
  BY <1>8 DEF SendAccepted, TakenInOrder
<1>9. ASSUME NEW g \in Goal, SendRejected(g) PROVE TakenInOrder'
  BY <1>9 DEF SendRejected, TakenInOrder
<1>10. ASSUME NEW g \in Goal, SendUncertain(g) PROVE TakenInOrder'
  BY <1>10 DEF SendUncertain, TakenInOrder
<1>11. ASSUME NEW g \in Goal, WaitReturns(g) PROVE TakenInOrder'
  BY <1>11 DEF WaitReturns, MarkTerminal, TakenInOrder
<1>12. ASSUME NEW g \in Goal, WaitFails(g) PROVE TakenInOrder'
  BY <1>12 DEF WaitFails, Abandon, TakenInOrder
<1>13. ASSUME NEW c \in Canceller, NEW g \in Goal, RtCancels(c, g) PROVE TakenInOrder'
  BY <1>13 DEF RtCancels, CanceledGoal, TakenInOrder, Started
<1>14. ASSUME NEW c \in Canceller, NEW g \in Goal, CancelReturns(c, g) PROVE TakenInOrder'
  BY <1>14 DEF CancelReturns, MarkTerminal, TakenInOrder
<1>15. ASSUME NEW c \in Canceller, NEW g \in Goal, CancelFails(c, g) PROVE TakenInOrder'
  BY <1>15 DEF CancelFails, Abandon, CanceledGoal, TakenInOrder, Started
<1>16. ASSUME NEW c \in Canceller, NEW g \in Goal, CancelInterrupted(c, g) PROVE TakenInOrder'
  BY <1>16 DEF CancelInterrupted, CanceledGoal, TakenInOrder, Started
<1>17. ASSUME NEW c \in Canceller, Cancel(c) PROVE TakenInOrder'
  BY <1>17 DEF Cancel, TakenInOrder
<1>18. ASSUME BeatArrives PROVE TakenInOrder'
  BY <1>18 DEF BeatArrives, TakenInOrder
<1>19. ASSUME GuardFires PROVE TakenInOrder'
  BY <1>19 DEF GuardFires, TakenInOrder
<1>20. ASSUME PublishHeartbeat PROVE TakenInOrder'
  BY <1>20 DEF PublishHeartbeat, TakenInOrder
<1>21. ASSUME Crash PROVE TakenInOrder'
  BY <1>21 DEF Crash, TakenInOrder
<1>22. CASE UNCHANGED vars
  BY <1>22 DEF vars, TakenInOrder, Watched
<1>. QED BY <1>1, <1>2, <1>3, <1>4, <1>5, <1>6, <1>7, <1>8, <1>9, <1>10,
  <1>11, <1>12, <1>13, <1>14, <1>15, <1>16, <1>17, <1>18, <1>19, <1>20, <1>21,
  <1>22 DEF Next, RtNext, TaskNext

-----------------------------------------------------------------------------
(* Acceptances and answers to cancel requests tell the truth.               *)

LEMMA KnownGoalKept == IInv /\ [Next]_vars => KnownGoal'
<1> SUFFICES ASSUME IInv, [Next]_vars PROVE KnownGoal'
  OBVIOUS
<1> USE DEF IInv, TypeOK, Goal, NoGoal, clientVars, cancelVars, rtVars
<1>1. ASSUME NEW g \in Goal, RtAccepts(g) PROVE KnownGoal'
  BY <1>1 DEF RtAccepts, Arrives, KnownGoal, Started, Done
<1>2. ASSUME NEW g \in Goal, RtRejects(g) PROVE KnownGoal'
  BY <1>2 DEF RtRejects, Arrives, KnownGoal, Started, Done
<1>3. ASSUME NEW g \in Goal, RequestLost(g) PROVE KnownGoal'
  BY <1>3 DEF RequestLost, Arrives, KnownGoal, Started, Done
<1>4. ASSUME NEW g \in Goal, RtFinishes(g) PROVE KnownGoal'
  BY <1>4 DEF RtFinishes, KnownGoal, Started, Done
<1>5. ASSUME NEW g \in Goal, SendBegins(g) PROVE KnownGoal'
  BY <1>5 DEF SendBegins, KnownGoal
<1>6. ASSUME NEW g \in Goal, SendUnavailable(g) PROVE KnownGoal'
  BY <1>6 DEF SendUnavailable, KnownGoal
<1>7. ASSUME NEW g \in Goal, Dispatch(g) PROVE KnownGoal'
  BY <1>7 DEF Dispatch, KnownGoal, Started, Done, SentInOrder
<1>8. ASSUME NEW g \in Goal, SendAccepted(g) PROVE KnownGoal'
  BY <1>8 DEF SendAccepted, KnownGoal, Started
<1>9. ASSUME NEW g \in Goal, SendRejected(g) PROVE KnownGoal'
  BY <1>9 DEF SendRejected, KnownGoal
<1>10. ASSUME NEW g \in Goal, SendUncertain(g) PROVE KnownGoal'
  BY <1>10 DEF SendUncertain, KnownGoal
<1>11. ASSUME NEW g \in Goal, WaitReturns(g) PROVE KnownGoal'
  BY <1>11 DEF WaitReturns, MarkTerminal, KnownGoal
<1>12. ASSUME NEW g \in Goal, WaitFails(g) PROVE KnownGoal'
  BY <1>12 DEF WaitFails, Abandon, KnownGoal
<1>13. ASSUME NEW c \in Canceller, NEW g \in Goal, RtCancels(c, g) PROVE KnownGoal'
  BY <1>13 DEF RtCancels, CanceledGoal, KnownGoal, Started, Done
<1>14. ASSUME NEW c \in Canceller, NEW g \in Goal, CancelReturns(c, g) PROVE KnownGoal'
  BY <1>14 DEF CancelReturns, MarkTerminal, KnownGoal
<1>15. ASSUME NEW c \in Canceller, NEW g \in Goal, CancelFails(c, g) PROVE KnownGoal'
  BY <1>15 DEF CancelFails, Abandon, CanceledGoal, KnownGoal, Started, Done
<1>16. ASSUME NEW c \in Canceller, NEW g \in Goal, CancelInterrupted(c, g) PROVE KnownGoal'
  BY <1>16 DEF CancelInterrupted, CanceledGoal, KnownGoal, Started, Done
<1>17. ASSUME NEW c \in Canceller, Cancel(c) PROVE KnownGoal'
  BY <1>17 DEF Cancel, KnownGoal
<1>18. ASSUME BeatArrives PROVE KnownGoal'
  BY <1>18 DEF BeatArrives, KnownGoal
<1>19. ASSUME GuardFires PROVE KnownGoal'
  BY <1>19 DEF GuardFires, KnownGoal, Started, Done
<1>20. ASSUME PublishHeartbeat PROVE KnownGoal'
  BY <1>20 DEF PublishHeartbeat, KnownGoal
<1>21. ASSUME Crash PROVE KnownGoal'
  BY <1>21 DEF Crash, KnownGoal
<1>22. CASE UNCHANGED vars
  BY <1>22 DEF vars, KnownGoal, Watched
<1>. QED BY <1>1, <1>2, <1>3, <1>4, <1>5, <1>6, <1>7, <1>8, <1>9, <1>10,
  <1>11, <1>12, <1>13, <1>14, <1>15, <1>16, <1>17, <1>18, <1>19, <1>20, <1>21,
  <1>22 DEF Next, RtNext, TaskNext

-----------------------------------------------------------------------------
(* The guard watches, or there is nothing to watch.                         *)

LEMMA SupervisedKept == IInv /\ [Next]_vars => Supervised'
<1> SUFFICES ASSUME IInv, [Next]_vars PROVE Supervised'
  OBVIOUS
<1> USE DEF IInv, TypeOK, Goal, NoGoal, clientVars, cancelVars, rtVars
<1>1. ASSUME NEW g \in Goal, RtAccepts(g) PROVE Supervised'
  BY <1>1 DEF RtAccepts, Arrives, Supervised, Watched, Quiet
<1>2. ASSUME NEW g \in Goal, RtRejects(g) PROVE Supervised'
  BY <1>2 DEF RtRejects, Arrives, Supervised, Watched, Quiet
<1>3. ASSUME NEW g \in Goal, RequestLost(g) PROVE Supervised'
  BY <1>3 DEF RequestLost, Arrives, Supervised, Watched, Quiet
<1>4. ASSUME NEW g \in Goal, RtFinishes(g) PROVE Supervised'
  BY <1>4 DEF RtFinishes, Supervised, Watched, Quiet, Running
<1>5. ASSUME NEW g \in Goal, SendBegins(g) PROVE Supervised'
  BY <1>5 DEF SendBegins, Supervised, Watched, Quiet, Running
<1>6. ASSUME NEW g \in Goal, SendUnavailable(g) PROVE Supervised'
  BY <1>6 DEF SendUnavailable, Supervised, Watched, Quiet, Running
<1>7. ASSUME NEW g \in Goal, Dispatch(g) PROVE Supervised'
  BY <1>7 DEF Dispatch, Supervised, Watched, Quiet
<1>8. ASSUME NEW g \in Goal, SendAccepted(g) PROVE Supervised'
  BY <1>8 DEF SendAccepted, Supervised, Watched, Quiet, Running
<1>9. ASSUME NEW g \in Goal, SendRejected(g) PROVE Supervised'
  BY <1>9 DEF SendRejected, Supervised, Watched, Quiet, Running, SentInOrder,
    TakenInOrder
<1>10. ASSUME NEW g \in Goal, SendUncertain(g) PROVE Supervised'
  BY <1>10 DEF SendUncertain, Supervised, Watched, Quiet, Running
<1>11. ASSUME NEW g \in Goal, WaitReturns(g) PROVE Supervised'
  BY <1>11 DEF WaitReturns, MarkTerminal, Supervised, Watched, Quiet, Running,
    Started, Done, SentInOrder, TakenInOrder
<1>12. ASSUME NEW g \in Goal, WaitFails(g) PROVE Supervised'
  BY <1>12 DEF WaitFails, Abandon, Supervised, Watched, Quiet, Running
<1>13. ASSUME NEW c \in Canceller, NEW g \in Goal, RtCancels(c, g) PROVE Supervised'
  BY <1>13 DEF RtCancels, CanceledGoal, Supervised, Watched, Quiet, Running
<1>14. ASSUME NEW c \in Canceller, NEW g \in Goal, CancelReturns(c, g) PROVE Supervised'
  BY <1>14 DEF CancelReturns, MarkTerminal, Supervised, Watched, Quiet,
    Running, Done, SentInOrder, TakenInOrder, KnownGoal
<1>15. ASSUME NEW c \in Canceller, NEW g \in Goal, CancelFails(c, g) PROVE Supervised'
  BY <1>15 DEF CancelFails, Abandon, CanceledGoal, Supervised, Watched, Quiet,
    Running
<1>16. ASSUME NEW c \in Canceller, NEW g \in Goal, CancelInterrupted(c, g) PROVE Supervised'
  BY <1>16 DEF CancelInterrupted, CanceledGoal, Supervised, Watched, Quiet,
    Running
<1>17. ASSUME NEW c \in Canceller, Cancel(c) PROVE Supervised'
  BY <1>17 DEF Cancel, Supervised, Watched, Quiet, Running
<1>18. ASSUME BeatArrives PROVE Supervised'
  BY <1>18 DEF BeatArrives, Supervised, Watched, Quiet, Running
<1>19. ASSUME GuardFires PROVE Supervised'
  BY <1>19 DEF GuardFires, Supervised, Watched, Quiet, Running
<1>20. ASSUME PublishHeartbeat PROVE Supervised'
  BY <1>20 DEF PublishHeartbeat, Supervised, Watched, Quiet
<1>21. ASSUME Crash PROVE Supervised'
  BY <1>21 DEF Crash, Supervised, Watched, Quiet, Running
<1>22. CASE UNCHANGED vars
  BY <1>22 DEF vars, Supervised, Watched, Quiet, Running, Watched
<1>. QED BY <1>1, <1>2, <1>3, <1>4, <1>5, <1>6, <1>7, <1>8, <1>9, <1>10,
  <1>11, <1>12, <1>13, <1>14, <1>15, <1>16, <1>17, <1>18, <1>19, <1>20, <1>21,
  <1>22 DEF Next, RtNext, TaskNext

-----------------------------------------------------------------------------
(* The theorems.                                                            *)

LEMMA InitInvariant == Init => IInv
<1> SUFFICES ASSUME Init PROVE IInv
  OBVIOUS
<1> USE DEF Init, Goal, NoGoal
<1>1. TypeOK
  BY ConstantAssumption DEF TypeOK, Task
<1>2. OneGoal
  BY DEF OneGoal, Running
<1>3. SentInOrder
  BY DEF SentInOrder
<1>4. TakenInOrder
  BY DEF TakenInOrder, Started, Done
<1>5. KnownGoal
  BY DEF KnownGoal
<1>6. Supervised
  BY DEF Supervised, Quiet, Running
<1>. QED BY <1>1, <1>2, <1>3, <1>4, <1>5, <1>6 DEF IInv

LEMMA StepInvariant == IInv /\ [Next]_vars => IInv'
BY TypeKept, OneGoalKept, SentInOrderKept, TakenInOrderKept, KnownGoalKept,
   SupervisedKept DEF IInv

\* The inductive invariant holds in every reachable state of the client, the
\* trajectory controller and its guard.
THEOREM Invariance == Spec => []IInv
BY InitInvariant, StepInvariant, PTL DEF Spec

\* The variables of the trajectory client, the controller and the guard keep
\* their types.
THEOREM TypeCorrect == Spec => []TypeOK
<1>1. IInv => TypeOK
  BY DEF IInv
<1>. QED BY <1>1, Invariance, PTL

\* No motion without supervision: a goal that runs is under a guard that watches,
\* unless the rejection of another goal has disarmed it (controllers.py, send,
\* wait_for_result, cancel, abandon).
THEOREM MotionWatchedHolds == Spec => []MotionWatched
<1>1. IInv => MotionWatched
  BY DEF IInv, Supervised, Quiet, MotionWatched
<1>. QED BY <1>1, Invariance, PTL

\* The client has one goal in hand at most, and every running goal is the one it
\* tracks, one that is being accepted, or one it has given up.
THEOREM OneGoalHolds == Spec => []OneGoal
<1>1. IInv => OneGoal
  BY DEF IInv
<1>. QED BY <1>1, Invariance, PTL

\* The end of the goal in hand leaves nothing running that the client tracks or
\* waits for.
LEMMA EndIsSafe ==
  ASSUME IInv, NEW g \in Goal, goal[g] # "running",
         handle = g \/ task[g] = "dispatched",
         NEW h \in Goal, goal[h] = "running"
  PROVE  handle # h /\ task[h] = "left"
BY DEF IInv, TypeOK, OneGoal, Running, Goal, NoGoal

\* A false heartbeat, which disarms the guard, is only sent when no goal that the
\* client tracks or waits for is running.
THEOREM DisarmedByItsOwnEndHolds == Spec => DisarmedByItsOwnEnd
<1> DEFINE Disarms == beat' = "false" /\ beat' # beat
           Safe == \A g \in Goal : goal[g] = "running" => handle # g /\ task[g] = "left"
<1>1. ASSUME IInv, Next, Disarms PROVE Safe
  <2>1. ASSUME NEW g \in Goal, SendRejected(g) PROVE Safe
    BY <1>1, <2>1, EndIsSafe DEF SendRejected
  <2>2. ASSUME NEW g \in Goal, WaitReturns(g) PROVE Safe
    BY <1>1, <2>2, EndIsSafe DEF WaitReturns, MarkTerminal, Done
  <2>3. ASSUME NEW c \in Canceller, NEW g \in Goal, CancelReturns(c, g) PROVE Safe
    <3>1. handle = g /\ goal[g] # "running"
      BY <1>1, <2>3 DEF CancelReturns, MarkTerminal, IInv, KnownGoal, Done
    <3>. QED BY <1>1, <3>1, EndIsSafe
  <2>4. ASSUME NEW g \in Goal, Dispatch(g) PROVE Safe
    BY <1>1, <2>4 DEF Dispatch
  <2>5. CASE BeatArrives \/ PublishHeartbeat
    BY <1>1, <2>5 DEF BeatArrives, PublishHeartbeat
  <2>6. CASE UNCHANGED beat
    BY <1>1, <2>6
  <2>7. \/ UNCHANGED beat \/ BeatArrives \/ PublishHeartbeat
        \/ \E g \in Goal : SendRejected(g) \/ WaitReturns(g) \/ Dispatch(g)
        \/ \E c \in Canceller, g \in Goal : CancelReturns(c, g)
    BY <1>1 DEF Next, RtNext, TaskNext, RtAccepts, RtRejects, RequestLost,
      RtFinishes, RtCancels, GuardFires, SendBegins, SendUnavailable,
      SendAccepted, SendUncertain, WaitFails, Cancel, CancelFails,
      CancelInterrupted, Crash
  <2>. QED BY <2>1, <2>2, <2>3, <2>4, <2>5, <2>6, <2>7
<1>2. IInv /\ [Next]_vars => [Disarms => Safe]_vars
  BY <1>1
<1>. QED BY <1>2, Invariance, PTL DEF Spec, DisarmedByItsOwnEnd
=============================================================================
