----------------------------- MODULE ReplayApp -----------------------------
(***************************************************************************)
(* The replay application (apps/replay.py): load an episode, bring every   *)
(* arm to the pose where its recording starts with a planner session, then *)
(* send the recorded poses with a policy session.  Between the looks and   *)
(* the sessions other applications may move the robot or take it over.     *)
(***************************************************************************)
EXTENDS Naturals, Sequences, FiniteSets, FiniteSetsExt

CONSTANTS
  Arm,        \* parts with several joints: homed before the replay
  Gripper,    \* parts with one joint: not homed
  Pose,       \* poses of a part
  Recordings  \* episodes: [actions, states], sequences of [t, poses] in file
              \* order; poses is a function on some parts, on one in actions

Part == Arm \cup Gripper
None == "none"

VARIABLES
  phase,      \* resolve, load, look, claim, home, replay, stopping or ended
  events,     \* the actions, or else the joint states, by their log time
  merged,     \* the frames of the timeline accumulate: events are actions
  frame,      \* the next frame of the timeline
  obs,        \* obs[p]: the pose seen before homing; None if not all joints
  homed,      \* arms that homing is done with
  pose,       \* pose[p]: where the part is
  moved,      \* arms that somebody else moved since the observation
  holds,      \* the session of this phase has its lease
  active,     \* it believes so: a status that is too old says nothing
  skipped,    \* arms of which a frame was dropped
  jumped,     \* arms that got a first point, or one after dropped frames,
              \* where they were not
  closed      \* ctx.close() was called

appVars == <<phase, events, merged, frame, obs, homed, pose, moved, holds,
             active, skipped, jumped, closed>>

TypeOK ==
  /\ phase \in {"resolve", "load", "look", "claim", "home", "replay",
               "stopping", "ended"}
  /\ frame \in 1..Len(events) + 1
  /\ obs \in [Part -> Pose \cup {None}]
  /\ homed \subseteq Arm /\ moved \subseteq Arm
  /\ skipped \subseteq Arm /\ jumped \subseteq Arm
  /\ pose \in [Part -> Pose]
  /\ merged \in BOOLEAN /\ holds \in BOOLEAN /\ active \in BOOLEAN /\ closed \in BOOLEAN

Init ==
  /\ phase = "resolve" /\ events = <<>> /\ merged = FALSE /\ frame = 1
  /\ obs = [p \in Part |-> None]
  /\ homed = {} /\ moved = {} /\ skipped = {} /\ jumped = {}
  /\ pose = [p \in Part |-> CHOOSE x \in Pose : TRUE]
  /\ holds = FALSE /\ active = FALSE /\ closed = FALSE

-----------------------------------------------------------------------------
\* A session is entered, or is left or lost.
Session(on) == holds' = on /\ active' = on

\* sys.exit, an exception or Ctrl+C before the replay loop ends the process
\* without ctx.close(); sessions are left on the way out.
Quit ==
  /\ phase \in {"resolve", "load", "look", "claim", "home"}
  /\ phase' = "ended" /\ Session(FALSE)
  /\ UNCHANGED <<events, merged, frame, obs, homed, pose, moved, skipped, jumped,
                 closed>>

\* An episode was found and the robot is ready.
Resolve ==
  /\ phase = "resolve" /\ phase' = "load"
  /\ UNCHANGED <<events, merged, frame, obs, homed, pose, moved, holds,
                 active, skipped, jumped, closed>>

\* Messages in the order of their log time; those of one time stay in file
\* order.  Number k has k - 1 messages before it.
Before(rec, i) ==
  {j \in DOMAIN rec : rec[j].t < rec[i].t \/ (rec[j].t = rec[i].t /\ j < i)}

ByTime(rec) ==
  [k \in DOMAIN rec |->
     rec[CHOOSE i \in DOMAIN rec : Cardinality(Before(rec, i)) = k - 1]]

\* load_mcap_trajectory(): the actions, without any the joint states; an
\* episode with neither raises.
LoadTrajectory ==
  /\ phase = "load" /\ phase' = "look"
  /\ \E rec \in Recordings :
       LET chosen == IF rec.actions # <<>> THEN rec.actions ELSE rec.states
       IN /\ chosen # <<>>
          /\ events' = ByTime(chosen)
          /\ merged' = (rec.actions # <<>>)
  /\ UNCHANGED <<frame, obs, homed, pose, moved, holds, active, skipped, jumped, closed>>

\* The events up to number k that tell a pose of p.
Telling(p, k) == {i \in 1..k : p \in DOMAIN events[i].poses}

Recorded == UNION {DOMAIN events[i].poses : i \in DOMAIN events}

\* Mutant of StartPose: the last pose instead of the first one.
FinalPose(p) == events[Max(Telling(p, Len(events)))].poses[p]

\* start_poses: the first recorded pose of a part.
StartPose(p) == events[Min(Telling(p, Len(events)))].poses[p]

\* Frame k of the timeline: of actions the latest of each part so far, of
\* joint states its own.
FramePoses(k) ==
  IF merged
  THEN [p \in {q \in Part : Telling(q, k) # {}} |->
          events[Max(Telling(p, k))].poses[p]]
  ELSE events[k].poses

\* get_observation().
Look ==
  /\ phase = "look" /\ phase' = "claim"
  /\ \E seen \in SUBSET Part :
       obs' = [p \in Part |-> IF p \in seen THEN pose[p] ELSE None]
  /\ moved' = {}
  /\ UNCHANGED <<events, merged, frame, homed, pose, holds, active, skipped, jumped, closed>>

\* The planner session has its parts.
EnterPlanner ==
  /\ phase = "claim" /\ phase' = "home" /\ Session(TRUE)
  /\ UNCHANGED <<events, merged, frame, obs, homed, pose, moved, skipped, jumped,
                 closed>>

\* One arm: nothing to do when it was seen at its start pose or not seen at
\* all; otherwise a plan from the observed pose brings it there.
HomePart(p) ==
  /\ phase = "home" /\ p \in (Recorded \cap Arm) \ homed
  /\ homed' = homed \cup {p}
  /\ IF obs[p] \in {None, StartPose(p)}
     THEN UNCHANGED <<pose, jumped>>
     ELSE /\ active
          /\ pose' = [pose EXCEPT ![p] = StartPose(p)]
          /\ jumped' = IF pose[p] = obs[p] THEN jumped ELSE jumped \cup {p}
  /\ UNCHANGED <<phase, events, merged, frame, obs, moved, holds, active, skipped, closed>>

\* All arms are done: the planner session is left, the policy session taken.
\* When that claim fails the context is closed at least.
StartReplay ==
  /\ phase = "home" /\ Recorded \cap Arm \subseteq homed
  /\ \/ phase' = "replay" /\ Session(TRUE)
     \/ phase' = "stopping" /\ Session(FALSE)
  /\ UNCHANGED <<events, merged, frame, obs, homed, pose, moved, skipped, jumped,
                 closed>>

\* An arm has not had a point yet, or frames of its were dropped since.
FirstPoint(p, k) == Telling(p, k) = {k} \/ p \in skipped

\* One frame is sent; without authority all of it is dropped and the loop
\* goes on.
ReplayFrame ==
  /\ phase = "replay" /\ frame <= Len(events)
  /\ frame' = frame + 1
  /\ LET poses == FramePoses(frame) IN
       IF active
       THEN /\ pose' = [p \in Part |-> IF p \in DOMAIN poses THEN poses[p]
                                       ELSE pose[p]]
            /\ jumped' = jumped \cup
                 {p \in Arm \cap DOMAIN poses :
                    FirstPoint(p, frame) /\ pose[p] # poses[p]}
            /\ UNCHANGED skipped
       ELSE /\ skipped' = skipped \cup (Arm \cap DOMAIN poses)
            /\ UNCHANGED <<pose, jumped>>
  /\ UNCHANGED <<phase, events, merged, obs, homed, moved, holds, active, closed>>

\* The timeline is through, or Ctrl+C or an error ends it.
ReplayEnds ==
  /\ phase = "replay"
  /\ phase' = "stopping" /\ Session(FALSE)
  /\ UNCHANGED <<events, merged, frame, obs, homed, pose, moved, skipped, jumped,
                 closed>>

\* The finally clause.
CloseContext ==
  /\ phase = "stopping" /\ phase' = "ended" /\ closed' = TRUE
  /\ UNCHANGED <<events, merged, frame, obs, homed, pose, moved, holds,
                 active, skipped, jumped>>

\* Environment: another application takes the parts over.
Displaced ==
  /\ holds /\ Session(FALSE)
  /\ UNCHANGED <<phase, events, merged, frame, obs, homed, pose, moved, skipped,
                 jumped, closed>>

\* The session's status grows too old, or a new one arrives.
StatusTurns ==
  /\ holds /\ active' = ~active
  /\ UNCHANGED <<phase, events, merged, frame, obs, homed, pose, moved, holds,
                 skipped, jumped, closed>>

\* Environment: an arm that this application does not hold is moved (where the
\* grippers are, nobody looks).
MovedByOther(p, x) ==
  /\ ~holds /\ phase # "ended"
  /\ pose[p] # x /\ pose' = [pose EXCEPT ![p] = x]
  /\ moved' = moved \cup {p}
  /\ UNCHANGED <<phase, events, merged, frame, obs, homed, holds, active,
                 skipped, jumped, closed>>

Next ==
  \/ Quit \/ Resolve \/ LoadTrajectory \/ Look \/ EnterPlanner \/ StartReplay
  \/ ReplayFrame \/ ReplayEnds \/ CloseContext \/ Displaced
  \/ StatusTurns
  \/ \E p \in Arm : HomePart(p)
  \/ \E p \in Arm, x \in Pose : MovedByOther(p, x)

Spec == Init /\ [][Next]_appVars

-----------------------------------------------------------------------------
\* No arm jumps: the first point of its homing plan, and the first recorded
\* pose sent to it, find the arm at that pose, also when its recording starts
\* later than that of the other parts; unless another application moved it
\* after the observation, its joints were not all observed, or frames of its
\* were dropped while the authority status was too old: all three pass
\* unnoticed, and after dropped frames the replay goes on where it is by then.
ReplayStartsWhereItStands ==
  \A p \in jumped : p \in moved \cup skipped \/ obs[p] = None
=============================================================================
