-------------------------- MODULE TrajectoryGuard --------------------------
(***************************************************************************)
(* The trajectory client of rmi/controllers.py,                            *)
(* JointTrajectoryControllerClient, with the two things it talks to on the *)
(* real-time host: the trajectory controller, which moves the robot, and   *)
(* the guard, which cancels every goal when the client's heartbeats stop.  *)
(*                                                                         *)
(* The tasks that send, wait for and cancel goals are coroutines of one    *)
(* event loop: they interleave at their awaits only, and may be cancelled  *)
(* at each.  The heartbeat timer runs in the executor's thread; the lock   *)
(* makes each of the client's blocks atomic.  The workstation may crash,   *)
(* and starts again with a new client.                                     *)
(*                                                                         *)
(* The controller and the guard are outside src/.  Goal requests arrive    *)
(* in their order, within the guard's timeout or not at all; heartbeats    *)
(* are not lost, but only the last one waits (RELIABLE, depth 1).          *)
(***************************************************************************)
EXTENDS Naturals, FiniteSets

CONSTANTS
  MaxGoal,     \* bound: how many goals are sent, each once
  Canceller    \* the tasks that call cancel()

ASSUME ConstantAssumption == MaxGoal \in Nat

VARIABLES
  pending,     \* _goal_pending
  handle,      \* _goal_handle
  active,      \* _guard_active
  task,        \* where the task that sends and waits for a goal is
  calls,       \* the cancellers and the goals they ask to cancel
  served,      \* the cancellers whose request has been carried out
  beat,        \* the heartbeat on its way to the guard
  armed,       \* the guard: watches for silence
  goal,        \* the controller: the state of each goal
  disarmed     \* history: goals that ran when a rejection disarmed the guard

clientVars == <<pending, handle, active, task>>
cancelVars == <<calls, served>>
rtVars     == <<armed, goal>>
vars == <<clientVars, cancelVars, beat, rtVars, disarmed>>

-----------------------------------------------------------------------------
Goal   == 1..MaxGoal
NoGoal == 0

Task  == {"unsent", "ready", "dispatched", "accepted", "left"}
Done  == {"succeeded", "aborted", "canceled"}
Running == {g \in Goal : goal[g] = "running"}

TypeOK ==
  /\ pending \in BOOLEAN
  /\ handle \in Goal \cup {NoGoal}
  /\ active \in BOOLEAN
  /\ task \in [Goal -> Task]
  /\ calls \in SUBSET (Canceller \X Goal)
  /\ served \in SUBSET Canceller
  /\ beat \in {"none", "true", "false"}
  /\ armed \in BOOLEAN
  /\ goal \in [Goal -> {"none", "sent", "running", "rejected", "lost"} \cup Done]
  /\ disarmed \in SUBSET Goal

Init ==
  /\ pending = FALSE /\ handle = NoGoal /\ active = FALSE
  /\ task = [g \in Goal |-> "unsent"]
  /\ calls = {} /\ served = {}
  /\ beat = "none" /\ armed = FALSE
  /\ goal = [g \in Goal |-> "none"]
  /\ disarmed = {}

-----------------------------------------------------------------------------
(* The real-time host.                                                      *)

\* The oldest request that is on its way.
Arrives(g) ==
  /\ goal[g] = "sent"
  /\ \A h \in Goal : h < g => goal[h] # "sent"

\* A new goal takes the place of the one that runs.
RtAccepts(g) ==
  /\ Arrives(g)
  /\ goal' = [h \in Goal |-> IF h = g THEN "running"
                             ELSE IF goal[h] = "running" THEN "aborted" ELSE goal[h]]
  /\ UNCHANGED <<clientVars, cancelVars, beat, armed, disarmed>>

RtRejects(g) ==
  /\ Arrives(g)
  /\ goal' = [goal EXCEPT ![g] = "rejected"]
  /\ UNCHANGED <<clientVars, cancelVars, beat, armed, disarmed>>

RequestLost(g) ==
  /\ Arrives(g)
  /\ goal' = [goal EXCEPT ![g] = "lost"]
  /\ UNCHANGED <<clientVars, cancelVars, beat, armed, disarmed>>

RtFinishes(g) ==
  /\ goal[g] = "running"
  /\ \E end \in {"succeeded", "aborted"} : goal' = [goal EXCEPT ![g] = end]
  /\ UNCHANGED <<clientVars, cancelVars, beat, armed, disarmed>>

CanceledGoal(g) ==
  [goal EXCEPT ![g] = IF @ = "running" THEN "canceled" ELSE @]

RtCancels(c, g) ==
  /\ <<c, g>> \in calls /\ c \notin served
  /\ served' = served \cup {c}
  /\ goal' = CanceledGoal(g)
  /\ UNCHANGED <<clientVars, calls, beat, armed, disarmed>>

BeatArrives ==
  /\ beat # "none"
  /\ armed' = (beat = "true")
  /\ beat' = "none"
  /\ UNCHANGED <<clientVars, cancelVars, goal, disarmed>>

\* No heartbeat for too long, for whatever reason: every goal is cancelled.
GuardFires ==
  /\ armed
  /\ \A g \in Goal : goal[g] # "sent"
  /\ armed' = FALSE
  /\ goal' = [g \in Goal |-> IF goal[g] = "running" THEN "canceled" ELSE goal[g]]
  /\ UNCHANGED <<clientVars, cancelVars, beat, disarmed>>

-----------------------------------------------------------------------------
(* send().                                                                  *)

\* Mutant of SendBegins: an accepted goal is not in the way of another.
SendBeginsBusy(g) ==
  /\ task[g] = "unsent" /\ \A h \in Goal : h < g => task[h] # "unsent"
  /\ ~pending
  /\ pending' = TRUE
  /\ task' = [task EXCEPT ![g] = "ready"]
  /\ UNCHANGED <<handle, active, cancelVars, beat, rtVars, disarmed>>

\* The client is free: the task waits for the action server.
SendBegins(g) ==
  /\ task[g] = "unsent" /\ \A h \in Goal : h < g => task[h] # "unsent"
  /\ ~pending /\ handle = NoGoal
  /\ pending' = TRUE
  /\ task' = [task EXCEPT ![g] = "ready"]
  /\ UNCHANGED <<handle, active, cancelVars, beat, rtVars, disarmed>>

\* The server does not turn up, or the task is cancelled.
SendUnavailable(g) ==
  /\ task[g] = "ready"
  /\ pending' = FALSE
  /\ task' = [task EXCEPT ![g] = "left"]
  /\ UNCHANGED <<handle, active, cancelVars, beat, rtVars, disarmed>>

\* Arm the guard, then send the goal.
Dispatch(g) ==
  /\ task[g] = "ready"
  /\ active' = TRUE /\ beat' = "true"
  /\ goal' = [goal EXCEPT ![g] = "sent"]
  /\ task' = [task EXCEPT ![g] = "dispatched"]
  /\ UNCHANGED <<pending, handle, cancelVars, armed, disarmed>>

SendAccepted(g) ==
  /\ task[g] = "dispatched" /\ goal[g] \in {"running"} \cup Done
  /\ pending' = FALSE /\ handle' = g
  /\ task' = [task EXCEPT ![g] = "accepted"]
  /\ UNCHANGED <<active, cancelVars, beat, rtVars, disarmed>>

SendRejected(g) ==
  /\ task[g] = "dispatched" /\ goal[g] = "rejected"
  /\ pending' = FALSE /\ active' = FALSE
  /\ beat' = "false"
  /\ disarmed' = disarmed \cup Running
  /\ task' = [task EXCEPT ![g] = "left"]
  /\ UNCHANGED <<handle, cancelVars, rtVars>>

\* Mutant of SendUncertain: a dispatch without an answer disarms the guard.
SendGivenUp(g) ==
  /\ task[g] = "dispatched"
  /\ pending' = FALSE /\ active' = FALSE
  /\ beat' = "false"
  /\ task' = [task EXCEPT ![g] = "left"]
  /\ UNCHANGED <<handle, cancelVars, rtVars, disarmed>>

\* No answer in time, or the task is cancelled: the heartbeats stop.
SendUncertain(g) ==
  /\ task[g] = "dispatched"
  /\ pending' = FALSE /\ active' = FALSE
  /\ task' = [task EXCEPT ![g] = "left"]
  /\ UNCHANGED <<handle, cancelVars, beat, rtVars, disarmed>>

-----------------------------------------------------------------------------
(* wait_for_result(), cancel() and what they share.                         *)

\* Mutant of mark_terminal: the handle is not compared.
MarkAnyTerminal(g) ==
  /\ handle' = NoGoal /\ active' = FALSE /\ beat' = "false"

\* Disarm the guard, if g is still the tracked goal.
MarkTerminal(g) ==
  IF handle = g THEN handle' = NoGoal /\ active' = FALSE /\ beat' = "false"
                ELSE UNCHANGED <<handle, active, beat>>

\* Mutant of Abandon: the heartbeats go on.
AbandonNothing(g) == UNCHANGED active

\* Stop the heartbeats and leave the guard armed, if g is the tracked goal.
Abandon(g) == active' = (active /\ handle # g)

\* The result arrives (a timeout before it changes nothing).
WaitReturns(g) ==
  /\ task[g] = "accepted" /\ goal[g] \in Done
  /\ MarkTerminal(g)
  /\ task' = [task EXCEPT ![g] = "left"]
  /\ UNCHANGED <<pending, cancelVars, rtVars, disarmed>>

\* The task is cancelled, or the result cannot be had.
WaitFails(g) ==
  /\ task[g] = "accepted"
  /\ Abandon(g)
  /\ task' = [task EXCEPT ![g] = "left"]
  /\ UNCHANGED <<pending, handle, cancelVars, beat, rtVars, disarmed>>

\* cancel() asks for the tracked goal, if there is one.
Cancel(c) ==
  /\ handle # NoGoal
  /\ \A g \in Goal : <<c, g>> \notin calls
  /\ calls' = calls \cup {<<c, handle>>}
  /\ served' = served \ {c}
  /\ UNCHANGED <<clientVars, beat, rtVars, disarmed>>

\* Whether the goal was cancelled or had already ended.
CancelReturns(c, g) ==
  /\ <<c, g>> \in calls /\ c \in served
  /\ MarkTerminal(g)
  /\ calls' = calls \ {<<c, g>>}
  /\ UNCHANGED <<pending, task, served, rtVars, disarmed>>

\* An error or a timeout; the request may be carried out yet.
CancelFails(c, g) ==
  /\ <<c, g>> \in calls
  /\ Abandon(g)
  /\ goal' \in {goal, CanceledGoal(g)}
  /\ calls' = calls \ {<<c, g>>}
  /\ UNCHANGED <<pending, handle, task, served, beat, armed, disarmed>>

\* The cancelling task is itself cancelled: nothing handles that.
CancelInterrupted(c, g) ==
  /\ <<c, g>> \in calls
  /\ goal' \in {goal, CanceledGoal(g)}
  /\ calls' = calls \ {<<c, g>>}
  /\ UNCHANGED <<clientVars, served, beat, armed, disarmed>>

\* The guard timer.
PublishHeartbeat ==
  /\ active
  /\ beat' = "true"
  /\ UNCHANGED <<clientVars, cancelVars, rtVars, disarmed>>

\* The workstation crashes and starts again; what it has sent is on its way.
Crash ==
  /\ \E g \in Goal : task[g] \in {"ready", "dispatched", "accepted"}
  /\ pending' = FALSE /\ handle' = NoGoal /\ active' = FALSE
  /\ task' = [g \in Goal |-> IF task[g] = "unsent" THEN "unsent" ELSE "left"]
  /\ calls' = {}
  /\ UNCHANGED <<served, beat, rtVars, disarmed>>

-----------------------------------------------------------------------------
RtNext ==
  \/ \E g \in Goal : RtAccepts(g) \/ RtRejects(g) \/ RequestLost(g) \/ RtFinishes(g)
  \/ \E c \in Canceller, g \in Goal : RtCancels(c, g)
  \/ BeatArrives \/ GuardFires

TaskNext ==
  \/ \E g \in Goal :
       \/ SendBegins(g) \/ SendUnavailable(g) \/ Dispatch(g)
       \/ SendAccepted(g) \/ SendRejected(g) \/ SendUncertain(g)
       \/ WaitReturns(g) \/ WaitFails(g)
  \/ \E c \in Canceller : Cancel(c)
  \/ \E c \in Canceller, g \in Goal :
       CancelReturns(c, g) \/ CancelFails(c, g) \/ CancelInterrupted(c, g)

Next == RtNext \/ TaskNext \/ PublishHeartbeat \/ Crash

Spec == Init /\ [][Next]_vars

\* Fairness: a heartbeat arrives, the guard notices a lasting silence, and
\* _bounded() gives up on an answer.
FairSpec ==
  /\ Spec
  /\ WF_vars(BeatArrives)
  /\ WF_vars(GuardFires /\ ~active)
  /\ \A g \in Goal : WF_vars(RtAccepts(g) \/ RtRejects(g) \/ RequestLost(g))
  /\ \A g \in Goal : WF_vars(SendUncertain(g))

-----------------------------------------------------------------------------
(* Properties.                                                              *)

\* The guard is armed, or about to be.
Watched == armed \/ beat = "true"

\* No motion without supervision: while a goal runs, whoever sent it and whatever
\* became of him, silence will stop it, except after a rejected goal has disarmed
\* the guard.
MotionWatched == Running \subseteq disarmed \/ Watched

\* A running goal is never disarmed by the end of another: a false heartbeat goes
\* out only when no goal that the client tracks or waits for is running.
DisarmedByItsOwnEnd ==
  [][(beat' = "false" /\ beat' # beat) =>
       \A g \in Goal : goal[g] = "running" => handle # g /\ task[g] = "left"]_vars

\* One goal at a time: nothing is dispatched while the client tracks a goal, and
\* a goal that runs is tracked, about to be, or given up.
OneGoal ==
  /\ pending => handle = NoGoal
  /\ \A g \in Goal : task[g] \in {"ready", "dispatched"} =>
       pending /\ \A h \in Goal : task[h] \in {"ready", "dispatched"} => h = g
  /\ \A g \in Running : handle = g \/ task[g] \in {"dispatched", "left"}

\* A running goal whose task has gone, by an error, a cancellation or a crash, is
\* stopped in the end.
AbandonedGoalStops ==
  \A g \in Goal : (goal[g] = "running" /\ task[g] = "left")
                    ~> (goal[g] # "running" \/ g \in disarmed)

\* controllers.py:118 "Stop true heartbeats without disarming so RT independently
\* cancels any goal that arrived": no running goal is ever left without
\* supervision.
UncertainGoalWatched == Running = {} \/ Watched
=============================================================================
