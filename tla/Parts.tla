------------------------------- MODULE Parts -------------------------------
(***************************************************************************)
(* The independent parts of the application and its host, side by side:    *)
(* a behaviour is one of one part, which it picks at the start, while the  *)
(* others stay in their initial states.  Every part keeps its own          *)
(* variables, under other names where two parts use the same one.          *)
(***************************************************************************)
EXTENDS Naturals, Sequences, FiniteSets

CONSTANTS
  Plan, Trajectory, Joints, Waiter, Capacity, MaxSeq, MaxCalls, App, Resource,
  MaxTry, Controller, Caller, Scope, MaxUse, Kind, Config, Episode, Ahead, MaxTime,
  MaxPass, Arm, Gripper, Pose, Recordings, Count, Frame, Robot

\* The bounds are numbers, recorded times too; a plan is not called "none".
ASSUME ConstantAssumption ==
  /\ Capacity \in Nat /\ MaxSeq \in Nat /\ MaxCalls \in Nat
  /\ MaxTry \in Nat \ {0} /\ MaxUse \in Nat
  /\ Ahead \in Nat /\ MaxTime \in Nat /\ MaxPass \in Nat
  /\ "none" \notin Plan /\ "no" \notin Plan
  /\ \A e \in Episode : e \in Seq(Nat)
  /\ \A rec \in Recordings : \A s \in {rec.actions, rec.states} :
       s \in Seq([t : Nat,
                 poses : UNION {[d -> Pose] : d \in SUBSET (Arm \cup Gripper)}])
  /\ Pose # {} /\ Count \subseteq Nat
  /\ \A f \in Frame : f \in Seq({"FF", "D8", "D9", "xx"})
  /\ Robot \subseteq {"marvin", "piper", "franka"}

VARIABLE part
VARIABLES
  leased, handle, goal, start, state, waits, asks, own, reached, displaced,
  absorbed,
  sequence, samples, open, taken, wpc, after, expired, calls,
  auth, cache, rpc, faulted, asked, answer, gaveUp, since, tries,
  known, working, cpc, wish, request, reply, disturbed,
  facade, service, entered, discarded, recorded, unsure, uses,
  stage, owns, up, made, at, failed, slow, cut, late,
  clock, opened, opens, episode, next, origin, last, due, sent, halted, pass,
  began,
  phase, events, merged, frame, obs, homed, pose, moved, holds, active,
  skipped, jumped, closed,
  life, fd, granted, mapped, driver, filled, memory, running, loop, held,
  took, message,
  robot, args, launch, proc, unseen, loaded, switchedOn, helpers, gone

P == INSTANCE PlanExecution
S == INSTANCE Sensing WITH late <- expired
F == INSTANCE FaultRecovery
W == INSTANCE ControllerSwitch WITH loaded <- known, active <- working
E == INSTANCE EpisodeStore
L == INSTANCE ContextLife WITH life <- stage
R == INSTANCE ReplayPlayer
A == INSTANCE ReplayApp
C == INSTANCE CameraCapture WITH opened <- fd, sent <- message
B == INSTANCE Bringup WITH working <- switchedOn

planVars ==
  <<leased, handle, goal, start, state, waits, asks, own,
    reached, displaced, absorbed>>
sensorVars ==
  <<sequence, samples, open, taken, wpc, after, expired, calls>>
recoveryVars ==
  <<auth, cache, rpc, faulted, asked, answer,
    gaveUp, since, tries>>
switchVars ==
  <<known, working, cpc, wish, request, reply, disturbed>>
episodeVars ==
  <<facade, service, entered, discarded, recorded, unsure,
    uses>>
contextVars ==
  <<stage, owns, up, made, at, failed, slow, cut, late>>
playerVars ==
  <<clock, opened, opens, episode, next, origin, last, due,
    sent, halted, pass, began>>
replayVars ==
  <<phase, events, merged, frame, obs, homed, pose, moved,
    holds, active, skipped, jumped, closed>>
cameraVars ==
  <<life, fd, granted, mapped, driver, filled, memory, running,
    loop, held, took, message>>
bringupVars ==
  <<robot, args, launch, proc, unseen, loaded, switchedOn,
    helpers, gone>>

vars ==
  <<part, planVars, sensorVars, recoveryVars, switchVars,
    episodeVars, contextVars, playerVars, replayVars, cameraVars, bringupVars>>

\* Every variable has its type, in every part.
TypeOK ==
  /\ P!TypeOK /\ S!TypeOK /\ F!TypeOK /\ W!TypeOK /\ E!TypeOK
  /\ L!TypeOK /\ R!TypeOK /\ A!TypeOK /\ C!TypeOK /\ B!TypeOK

Init ==
  /\ part \in {"plan", "sensor", "recovery", "switch", "episode", "context",
               "player", "replay", "camera", "bringup"}
  /\ P!Init /\ S!Init /\ F!Init /\ W!Init /\ E!Init
  /\ L!Init /\ R!Init /\ A!Init /\ C!Init /\ B!Init

\* A step of part x leaves all others alone.
On(x) ==
  /\ part = x /\ UNCHANGED part
  /\ IF x = "plan" THEN TRUE ELSE UNCHANGED planVars
  /\ IF x = "sensor" THEN TRUE ELSE UNCHANGED sensorVars
  /\ IF x = "recovery" THEN TRUE ELSE UNCHANGED recoveryVars
  /\ IF x = "switch" THEN TRUE ELSE UNCHANGED switchVars
  /\ IF x = "episode" THEN TRUE ELSE UNCHANGED episodeVars
  /\ IF x = "context" THEN TRUE ELSE UNCHANGED contextVars
  /\ IF x = "player" THEN TRUE ELSE UNCHANGED playerVars
  /\ IF x = "replay" THEN TRUE ELSE UNCHANGED replayVars
  /\ IF x = "camera" THEN TRUE ELSE UNCHANGED cameraVars
  /\ IF x = "bringup" THEN TRUE ELSE UNCHANGED bringupVars

Next ==
  \/ On("plan") /\ P!Unbind
  \/ \E p \in Plan : On("plan") /\ P!Execute(p)
  \/ \E p \in Plan : On("plan") /\ P!Send(p)
  \/ \E p \in Plan : On("plan") /\ P!Accepted(p)
  \/ \E p \in Plan : On("plan") /\ P!NotAccepted(p)
  \/ \E p \in Plan : On("plan") /\ P!Wait(p)
  \/ \E p \in Plan : On("plan") /\ P!WaitTimesOut(p)
  \/ \E p \in Plan : On("plan") /\ P!WaitBreaks(p)
  \/ \E p \in Plan : On("plan") /\ P!ResultArrives(p)
  \/ \E p \in Plan : On("plan") /\ P!WaitReturns(p)
  \/ \E p \in Plan : On("plan") /\ P!Cancel(p)
  \/ \E p \in Plan : On("plan") /\ P!CancelReturns(p)
  \/ \E p \in Plan : On("plan") /\ P!CancelTimesOut(p)
  \/ \E p \in Plan : On("plan") /\ P!GoalAccepted(p)
  \/ \E p \in Plan : On("plan") /\ P!GoalEnds(p)
  \/ On("sensor") /\ S!TakeMessage
  \/ On("sensor") /\ S!AddSample
  \/ On("sensor") /\ S!Close
  \/ \E w \in Waiter : On("sensor") /\ S!CheckReady(w)
  \/ \E w \in Waiter : On("sensor") /\ S!WaitNext(w)
  \/ \E w \in Waiter : On("sensor") /\ S!Expire(w)
  \/ \E w \in Waiter : On("sensor") /\ S!Recheck(w)
  \/ \E a \in App : On("recovery") /\ F!Unavailable(a)
  \/ \E a \in App : On("recovery") /\ F!Describe(a)
  \/ \E a \in App : On("recovery") /\ F!Filter(a)
  \/ \E a \in App : On("recovery") /\ F!ServeClaim(a)
  \/ \E a \in App : On("recovery") /\ F!ClaimReturns(a)
  \/ \E a \in App : On("recovery") /\ F!GivesUp(a)
  \/ \E a \in App : On("recovery") /\ F!Release(a)
  \/ \E a \in App : On("recovery") /\ F!PollEnds(a)
  \/ \E a \in App : On("recovery") /\ F!Restart(a)
  \/ \E a \in App : On("recovery") /\ F!StatusArrives(a)
  \/ \E a \in App, n \in 1..MaxTry : On("recovery") /\ F!ReleaseLate(a, n)
  \/ \E a \in App, r \in Resource : On("recovery") /\ F!TakeForSession(a, r)
  \/ \E a \in App, r \in Resource : On("recovery") /\ F!LeaveSession(a, r)
  \/ \E r \in Resource : On("recovery") /\ F!FaultOccurs(r)
  \/ \E k \in Caller : On("switch") /\ W!Begin(k)
  \/ \E k \in Caller : On("switch") /\ W!Listed(k)
  \/ \E k \in Caller : On("switch") /\ W!ServeSwitch(k)
  \/ \E k \in Caller : On("switch") /\ W!Switched(k)
  \/ \E k \in Caller : On("switch") /\ W!ServeList(k)
  \/ \E k \in Caller : On("switch") /\ W!Verify(k)
  \/ \E k \in Caller : On("switch") /\ W!TimesOut(k)
  \/ \E c \in Controller : On("switch") /\ W!Load(c)
  \/ On("episode") /\ E!Activate
  \/ On("episode") /\ E!DiscardAny
  \/ On("episode") /\ E!Close
  \/ \E s \in Scope : On("episode") /\ E!Enter(s)
  \/ \E s \in Scope : On("episode") /\ E!Discard(s)
  \/ \E s \in Scope : On("episode") /\ E!ExitByError(s)
  \/ \E s \in Scope : On("episode") /\ E!ExitNormally(s)
  \/ \E mine, spin \in BOOLEAN : On("context") /\ L!FromProfile(mine, spin)
  \/ \E k \in Kind, c \in Config : On("context") /\ L!Make(k, c)
  \/ On("context") /\ L!MakeRecorder
  \/ On("context") /\ L!Close
  \/ On("context") /\ L!CloseStep
  \/ On("context") /\ L!CloseDone
  \/ On("context") /\ L!CloseCut
  \/ On("player") /\ R!Open
  \/ On("player") /\ R!ClosePlayer
  \/ On("player") /\ R!Iterate
  \/ On("player") /\ R!Rewrite
  \/ On("player") /\ R!ReadClosed
  \/ On("player") /\ R!Yield
  \/ On("player") /\ R!Tick
  \/ On("replay") /\ A!Quit
  \/ On("replay") /\ A!Resolve
  \/ On("replay") /\ A!LoadTrajectory
  \/ On("replay") /\ A!Look
  \/ On("replay") /\ A!EnterPlanner
  \/ On("replay") /\ A!StartReplay
  \/ On("replay") /\ A!ReplayFrame
  \/ On("replay") /\ A!ReplayEnds
  \/ On("replay") /\ A!CloseContext
  \/ On("replay") /\ A!Displaced
  \/ On("replay") /\ A!StatusTurns
  \/ \E p \in Arm : On("replay") /\ A!HomePart(p)
  \/ \E p \in Arm, x \in Pose : On("replay") /\ A!MovedByOther(p, x)
  \/ On("camera") /\ C!OpeningFails
  \/ On("camera") /\ C!OpenDevice
  \/ On("camera") /\ C!QueryCapability
  \/ On("camera") /\ C!SetFormat
  \/ On("camera") /\ C!RequestBuffers
  \/ On("camera") /\ C!PrepareBuffer
  \/ On("camera") /\ C!StreamOn
  \/ On("camera") /\ C!LoopHead
  \/ On("camera") /\ C!Select
  \/ On("camera") /\ C!Dequeue
  \/ On("camera") /\ C!Publish
  \/ On("camera") /\ C!Requeue
  \/ On("camera") /\ C!StopLoop
  \/ On("camera") /\ C!JoinAndClose
  \/ \E b \in C!Slots : On("camera") /\ C!DriverFills(b)
  \/ On("bringup") /\ B!CallLaunch
  \/ On("bringup") /\ B!RefuseLaunch
  \/ On("bringup") /\ B!StartMarvin
  \/ On("bringup") /\ B!StartPiper
  \/ On("bringup") /\ B!StartFranka
  \/ On("bringup") /\ B!BroadcasterSpawnerExits
  \/ On("bringup") /\ B!RouteSpawnerExits
  \/ On("bringup") /\ B!ManagerExits
  \/ \E h \in B!Unwatched : On("bringup") /\ B!HelperExits(h)
  \/ \E p \in B!Process : On("bringup") /\ B!HandleExit(p)
  \/ On("bringup") /\ B!EndAll

\* Waiting threads are woken by their timeout and get the lock.
Spec == Init /\ [][Next]_vars /\ S!Fairness

-----------------------------------------------------------------------------
\* The properties of the parts, under the names they have there.

\* PlanExecution: a cancel() that returned asked its own goal to stop.
CancelReachesItsGoal == P!CancelReachesItsGoal

\* SampleBuffer: no thread sleeps while a sample it waits for is there.
NoSleepOnNews == S!NoSleepOnNews

\* SampleBuffer: every wait_next() ends, also when the sensor is closed.
WaitsEnd == S!WaitsEnd

\* clear_fault: a recovery takes a resource out of a session only if a session
\* took it after the status that the recovery acts on.
OwnedIsLeftAlone == F!OwnedIsLeftAlone

\* clear_fault: no recovery lease outlives it unless its claim or release raised.
NoRecoveryLeaseLeft == F!NoRecoveryLeaseLeft

\* switch_controller: a verified return tells the truth of what it asked for.
ReturnedMeansSwitched == W!ReturnedMeansSwitched

\* EpisodeScope: no recording goes on that nobody will end.
RecordingHasAnEnd == E!RecordingHasAnEnd

\* Context.close: nothing stays up because of another step's failure.  Threads
\* may outlast it, and agents of the caller's node.
CloseIsComplete == L!CloseIsComplete

\* ReplayPlayer: replay keeps the recorded pace and never runs backwards.
PlayedAtRecordedPace == R!PlayedAtRecordedPace

\* apps/replay.py: the first recorded pose finds every arm at that pose.
ReplayStartsWhereItStands == A!ReplayStartsWhereItStands

\* MjpegCamNode: buffers go round, and close_device leaves none behind.
BuffersGoRound == C!BuffersGoRound

\* Bring-up launch files: no half of a robot stays up, but for the failures
\* that they do not look at.
NoHalfRobot == B!NoHalfRobot
=============================================================================
