--------------------------- MODULE PlanExecution ---------------------------
(***************************************************************************)
(* Planned motion of one part through a control session: Agent.execute,    *)
(* the action half of ActionProviderClient and the PlanExecution handle.   *)
(*                                                                         *)
(* Every plan has one caller that executes, waits and cancels; they all    *)
(* share ONE goal-handle slot of the command client.  The coroutines run   *)
(* on one event loop, so what lies between two awaits is one step.  The    *)
(* Execution Manager, the controller behind it and other applications are  *)
(* the environment.                                                        *)
(***************************************************************************)
EXTENDS Naturals, Sequences

CONSTANTS
  Plan,       \* the plans that callers may execute
  Trajectory, \* the trajectories a plan may hold: sequences of [t, width]
  Joints      \* the number of joints of the part

None == "none"

VARIABLES
  leased,     \* the command client is bound to a lease
  handle,     \* _goal_handles[part]: the goal a cancel would reach
  goal,       \* goal[p]: what became of p's goal at the controller
  start,      \* start[p]: how far start_joint_trajectory got
  state,      \* PlanExecution.state, None before the object exists
  waits,      \* waits[p]: no, on (awaiting), or over (result in hand)
  asks,       \* asks[p]: no, or the goal cancel() is awaiting an answer for
  own,        \* own[p]: PlanExecution._cancel_requested
  reached,    \* reached[p]: goals that p's own cancel() was sent to
  displaced,  \* plans whose slot entry was taken by someone else's step
  absorbed    \* plans whose wait() returned None for a canceled goal

planVars == <<leased, handle, goal, start, state, waits, asks, own, reached,
              displaced, absorbed>>

Running == {p \in Plan : goal[p] = "running"}
Ended == {"succeeded", "aborted", "canceled"}
ExecState == {"ACCEPTED", "COMPLETED", "CANCEL_REQUESTED", "CANCELED",
              "FAILED", "TIMED_OUT"}

TypeOK ==
  /\ leased \in BOOLEAN
  /\ handle \in Plan \cup {None}
  /\ goal \in [Plan -> {None, "sent", "running", "rejected"} \cup Ended]
  /\ start \in [Plan -> {None, "ready", "sent", "raised", "accepted"}]
  /\ state \in [Plan -> ExecState \cup {None}]
  /\ waits \in [Plan -> {"no", "on", "over"}]
  /\ asks \in [Plan -> Plan \cup {"no", None}]
  /\ own \in [Plan -> BOOLEAN]
  /\ reached \in [Plan -> SUBSET Plan]
  /\ displaced \subseteq Plan
  /\ absorbed \subseteq Plan

Init ==
  /\ leased = TRUE
  /\ handle = None
  /\ goal = [p \in Plan |-> None]
  /\ start = [p \in Plan |-> None]
  /\ state = [p \in Plan |-> None]
  /\ waits = [p \in Plan |-> "no"]
  /\ asks = [p \in Plan |-> "no"]
  /\ own = [p \in Plan |-> FALSE]
  /\ reached = [p \in Plan |-> {}]
  /\ displaced = {}
  /\ absorbed = {}

-----------------------------------------------------------------------------
\* A trajectory that the conversion accepts: it has points, each as wide as
\* the joint names, at strictly increasing times.
Sendable(points) ==
  /\ points # <<>>
  /\ \A i \in DOMAIN points : points[i].width = Joints
  /\ \A i \in DOMAIN points \ {1} : points[i - 1].t < points[i].t

\* execute(): the plan is checked and converted, the action client is there.
Execute(p) ==
  /\ start[p] = None
  /\ \E points \in Trajectory :
       start' = [start EXCEPT ![p] =
                   IF leased /\ Sendable(points) THEN "ready" ELSE "raised"]
  /\ UNCHANGED <<leased, handle, goal, state, waits, asks, own, reached,
                 displaced, absorbed>>

\* The server was ready in time and the goal goes out with the lease; or it
\* was not, and nothing is sent.
Send(p) ==
  /\ start[p] = "ready"
  /\ \/ /\ start' = [start EXCEPT ![p] = "sent"]
        /\ goal' = [goal EXCEPT ![p] = "sent"]
     \/ start' = [start EXCEPT ![p] = "raised"] /\ UNCHANGED goal
  /\ UNCHANGED <<leased, handle, state, waits, asks, own, reached, displaced,
                 absorbed>>

\* The slot of the handle now holds h: a handle that step of plan p threw out
\* belongs to somebody else.
Slot(p, h) ==
  /\ handle' = h
  /\ displaced' = displaced \cup ({handle} \ {p, None})

\* Mutant of Accepted: the handle is returned but not remembered.
AcceptedUnstored(p) ==
  /\ leased /\ start[p] = "sent" /\ goal[p] \in {"running"} \cup Ended
  /\ start' = [start EXCEPT ![p] = "accepted"]
  /\ state' = [state EXCEPT ![p] = "ACCEPTED"]
  /\ UNCHANGED <<leased, handle, displaced, goal, waits, asks, own, reached,
                 absorbed>>

\* The acceptance arrives: the handle goes into the slot, whatever was there.
Accepted(p) ==
  /\ leased /\ start[p] = "sent" /\ goal[p] \in {"running"} \cup Ended
  /\ start' = [start EXCEPT ![p] = "accepted"]
  /\ state' = [state EXCEPT ![p] = "ACCEPTED"]
  /\ Slot(p, p)
  /\ UNCHANGED <<leased, goal, waits, asks, own, reached, absorbed>>

\* The goal was rejected, or no answer came in time: execute() raises, and
\* there is neither a handle nor a PlanExecution.
NotAccepted(p) ==
  /\ start[p] = "sent"
  /\ start' = [start EXCEPT ![p] = "raised"]
  /\ UNCHANGED <<leased, handle, goal, state, waits, asks, own, reached,
                 displaced, absorbed>>

\* A caller waits for an execution that is not known to be over.
Wait(p) ==
  /\ state[p] \in {"ACCEPTED", "TIMED_OUT", "CANCEL_REQUESTED"}
  /\ waits[p] = "no" /\ asks[p] = "no"
  /\ waits' = [waits EXCEPT ![p] = "on"]
  /\ UNCHANGED <<leased, handle, goal, start, state, asks, own, reached,
                 displaced, absorbed>>

\* Only the local wait ends; the goal and its handle stay.
WaitTimesOut(p) ==
  /\ waits[p] = "on"
  /\ waits' = [waits EXCEPT ![p] = "no"]
  /\ state' = [state EXCEPT ![p] = "TIMED_OUT"]
  /\ UNCHANGED <<leased, handle, goal, start, asks, own, reached, displaced,
                 absorbed>>

\* The action client that would bring the result was destroyed by unbind().
WaitBreaks(p) ==
  /\ ~leased /\ waits[p] = "on"
  /\ waits' = [waits EXCEPT ![p] = "no"]
  /\ state' = [state EXCEPT ![p] = "FAILED"]
  /\ UNCHANGED <<leased, handle, goal, start, asks, own, reached, displaced,
                 absorbed>>

\* The result arrives on the loop: the slot is emptied, whoever's handle it
\* holds.
ResultArrives(p) ==
  /\ leased /\ waits[p] = "on" /\ goal[p] \in Ended
  /\ waits' = [waits EXCEPT ![p] = "over"]
  /\ Slot(p, None)
  /\ UNCHANGED <<leased, goal, start, state, asks, own, reached, absorbed>>

\* wait() goes on in the caller's thread: a canceled goal raises unless the
\* execution was canceled through its own cancel().
WaitReturns(p) ==
  /\ waits[p] = "over"
  /\ waits' = [waits EXCEPT ![p] = "no"]
  /\ state' = [state EXCEPT ![p] = CASE goal[p] = "succeeded" -> "COMPLETED"
                                     [] goal[p] = "canceled" -> "CANCELED"
                                     [] OTHER -> "FAILED"]
  /\ absorbed' = IF goal[p] = "canceled" /\ own[p]
                 THEN absorbed \cup {p} ELSE absorbed
  /\ UNCHANGED <<leased, handle, goal, start, asks, own, reached, displaced>>

\* cancel() of an execution that is not over: the slot is emptied first, what
\* was in it is asked to stop.
Cancel(p) ==
  /\ state[p] \in {"ACCEPTED", "TIMED_OUT"}
  /\ waits[p] = "no" /\ asks[p] = "no"
  /\ asks' = [asks EXCEPT ![p] = handle]
  /\ reached' = [reached EXCEPT ![p] = @ \cup ({handle} \ {None})]
  /\ Slot(p, None)
  /\ UNCHANGED <<leased, goal, start, state, waits, own, absorbed>>

\* cancel() returns; with no handle in the slot it asked nobody.
CancelReturns(p) ==
  /\ asks[p] # "no"
  /\ asks' = [asks EXCEPT ![p] = "no"]
  /\ own' = [own EXCEPT ![p] = TRUE]
  /\ state' = [state EXCEPT ![p] = "CANCEL_REQUESTED"]
  /\ UNCHANGED <<leased, handle, goal, start, waits, reached, displaced,
                 absorbed>>

\* The answer to the cancel request does not come: cancel() raises.
CancelTimesOut(p) ==
  /\ asks[p] \in Plan
  /\ asks' = [asks EXCEPT ![p] = "no"]
  /\ UNCHANGED <<leased, handle, goal, start, state, waits, own, reached,
                 displaced, absorbed>>

\* The session ends or loses its lease: the client is unbound, the action
\* client destroyed, the slot emptied.
Unbind ==
  /\ leased
  /\ leased' = FALSE
  /\ Slot(None, None)
  /\ UNCHANGED <<goal, start, state, waits, asks, own, reached, absorbed>>

\* Environment: the controller accepts a goal, which preempts the active one.
GoalAccepted(p) ==
  /\ goal[p] = "sent"
  /\ goal' = [q \in Plan |-> IF q = p THEN "running"
                             ELSE IF goal[q] = "running" THEN "canceled"
                             ELSE goal[q]]
  /\ UNCHANGED <<leased, handle, start, state, waits, asks, own, reached,
                 displaced, absorbed>>

\* Environment: a goal is rejected, or it ends; it may also be canceled by
\* this application's request or by an application that takes over.
GoalEnds(p) ==
  /\ \/ goal[p] = "sent" /\ goal' = [goal EXCEPT ![p] = "rejected"]
     \/ /\ goal[p] = "running"
        /\ \E e \in Ended : goal' = [goal EXCEPT ![p] = e]
  /\ UNCHANGED <<leased, handle, start, state, waits, asks, own, reached,
                 displaced, absorbed>>

Next ==
  \/ Unbind
  \/ \E p \in Plan :
       \/ Execute(p) \/ Send(p) \/ Accepted(p) \/ NotAccepted(p)
       \/ Wait(p) \/ WaitTimesOut(p) \/ WaitBreaks(p)
       \/ ResultArrives(p) \/ WaitReturns(p)
       \/ Cancel(p) \/ CancelReturns(p) \/ CancelTimesOut(p)
       \/ GoalAccepted(p) \/ GoalEnds(p)

Spec == Init /\ [][Next]_planVars

-----------------------------------------------------------------------------
\* A cancel() that returned has asked its own goal to stop, unless another
\* plan's step (or the end of the lease) had taken the handle out of the
\* shared slot, or the goal was over anyway.  In particular a wait() that
\* timed out leaves the goal within reach of cancel().
CancelReachesItsGoal ==
  \A p \in Plan :
    own[p] => p \in reached[p] \/ p \in displaced \/ goal[p] \in Ended

\* wait() takes a canceled goal for its own cancellation only when its own
\* cancel() was sent to it: "an external cancellation still raises so
\* takeovers are not silently absorbed".
TakeoversRaise == \A p \in absorbed : p \in reached[p]
=============================================================================
