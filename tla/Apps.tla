-------------------------------- MODULE Apps --------------------------------
(***************************************************************************)
(* Three programs of a workstation, side by side: the trajectory client    *)
(* with the guard, the teleoperation application and the recording         *)
(* application.  They do not run at the same time: a behaviour is one of   *)
(* one of them, which it picks at the start, while the others stay in      *)
(* their initial states.                                                   *)
(***************************************************************************)
EXTENDS TrajectoryGuard, AppConfig

VARIABLE app
VARIABLES
  \* TeleopApp, with its pc, struck and unsure
  teleopPc, i, isActive, sessions, stack, adopted, confirmed, ending,
  contextOk, teleopStruck, held, leader, late, teleopUnsure, unreleased,
  \* RecordApp
  pc, episode, attempt, saved, entered, failing, homing, reader, stopped,
  struck, recorder, floating, lost, unsure, swallowed

T == INSTANCE TeleopApp
       WITH pc <- teleopPc, struck <- teleopStruck, unsure <- teleopUnsure
R == INSTANCE RecordApp

teleopVars ==
  <<teleopPc, i, isActive, sessions, stack, adopted, confirmed, ending,
    contextOk, teleopStruck, held, leader, late, teleopUnsure, unreleased>>
recordVars ==
  <<pc, episode, attempt, saved, entered, failing, homing, reader, stopped,
    struck, recorder, floating, lost, unsure, swallowed>>
appsVars == <<app, vars, teleopVars, recordVars>>

\* Every variable has its type, in every program.
AppsTypeOK == TypeOK /\ T!TypeOK /\ R!TypeOK

AppsInit ==
  /\ app \in {"trajectory", "teleop", "record"}
  /\ Init /\ T!Init /\ R!Init

\* A step of program x leaves the others alone.
On(x) ==
  /\ app = x /\ UNCHANGED app
  /\ IF x = "trajectory" THEN TRUE ELSE UNCHANGED vars
  /\ IF x = "teleop" THEN TRUE ELSE UNCHANGED teleopVars
  /\ IF x = "record" THEN TRUE ELSE UNCHANGED recordVars

AppsNext ==
  \/ \E g \in Goal : On("trajectory") /\ RtAccepts(g)
  \/ \E g \in Goal : On("trajectory") /\ RtRejects(g)
  \/ \E g \in Goal : On("trajectory") /\ RequestLost(g)
  \/ \E g \in Goal : On("trajectory") /\ RtFinishes(g)
  \/ \E c \in Canceller, g \in Goal : On("trajectory") /\ RtCancels(c, g)
  \/ On("trajectory") /\ BeatArrives
  \/ On("trajectory") /\ GuardFires
  \/ \E g \in Goal : On("trajectory") /\ SendBegins(g)
  \/ \E g \in Goal : On("trajectory") /\ SendUnavailable(g)
  \/ \E g \in Goal : On("trajectory") /\ Dispatch(g)
  \/ \E g \in Goal : On("trajectory") /\ SendAccepted(g)
  \/ \E g \in Goal : On("trajectory") /\ SendRejected(g)
  \/ \E g \in Goal : On("trajectory") /\ SendUncertain(g)
  \/ \E g \in Goal : On("trajectory") /\ WaitReturns(g)
  \/ \E g \in Goal : On("trajectory") /\ WaitFails(g)
  \/ \E c \in Canceller : On("trajectory") /\ Cancel(c)
  \/ \E c \in Canceller, g \in Goal : On("trajectory") /\ CancelReturns(c, g)
  \/ \E c \in Canceller, g \in Goal : On("trajectory") /\ CancelFails(c, g)
  \/ \E c \in Canceller, g \in Goal : On("trajectory") /\ CancelInterrupted(c, g)
  \/ On("trajectory") /\ PublishHeartbeat
  \/ On("trajectory") /\ Crash
  \/ \E d \in T!Leader : On("teleop") /\ T!EmPreempts(d)
  \/ \E d \in T!Leader, mode \in T!Mode : On("teleop") /\ T!LeaderLate(d, mode)
  \/ On("teleop") /\ T!PressEnter
  \/ On("teleop") /\ T!CtrlC
  \/ On("teleop") /\ T!CtrlCClosing
  \/ On("teleop") /\ T!CtrlCAsking
  \/ On("teleop") /\ T!EnterSession
  \/ On("teleop") /\ T!EnterRaises
  \/ On("teleop") /\ T!LeaderFloats
  \/ On("teleop") /\ T!LeaderDoesNotFloat
  \/ On("teleop") /\ T!Engaged
  \/ On("teleop") /\ T!NotEngaged
  \/ On("teleop") /\ T!LeaderShadows
  \/ On("teleop") /\ T!LeaderDoesNotShadow
  \/ On("teleop") /\ T!NobodyAsked
  \/ On("teleop") /\ T!ForgetSessions
  \/ On("teleop") /\ T!CloseSession
  \/ On("teleop") /\ T!RolledBack
  \/ On("teleop") /\ T!Released
  \/ On("teleop") /\ T!ReleaseInterrupted
  \/ On("teleop") /\ T!Close
  \/ On("record") /\ R!Staged
  \/ On("record") /\ R!PressReady
  \/ On("record") /\ R!Fails
  \/ On("record") /\ R!StartRecording
  \/ On("record") /\ R!StartFails
  \/ On("record") /\ R!EnterSession
  \/ On("record") /\ R!EnterFails
  \/ On("record") /\ R!Engaged
  \/ On("record") /\ R!NotEngaged
  \/ On("record") /\ R!Disengage
  \/ On("record") /\ R!PressStop
  \/ On("record") /\ R!Stop
  \/ On("record") /\ R!MaxDuration
  \/ On("record") /\ R!Release
  \/ On("record") /\ R!LeaveSession
  \/ On("record") /\ R!LeftAll
  \/ On("record") /\ R!Seal
  \/ On("record") /\ R!SealFails
  \/ On("record") /\ R!DiscardFailed
  \/ On("record") /\ R!DiscardFails
  \/ On("record") /\ R!LaunchHoming
  \/ On("record") /\ R!HomingEnds
  \/ \E line \in {"save", "discard", "replay", "quit"} : On("record") /\ R!Swallow(line)
  \/ On("record") /\ R!ChooseSave
  \/ On("record") /\ R!ChooseDiscard
  \/ On("record") /\ R!ChooseReplay
  \/ On("record") /\ R!Replayed
  \/ On("record") /\ R!ChooseQuit
  \/ On("record") /\ R!Join
  \/ On("record") /\ R!CtrlCScoped
  \/ On("record") /\ R!CtrlCLeaving
  \/ On("record") /\ R!CtrlCRecorder
  \/ On("record") /\ R!CtrlC
  \/ On("record") /\ R!Finally

\* FairSpec of TrajectoryGuard; nothing is fair in the other two.
AppsSpec ==
  /\ AppsInit /\ [][AppsNext]_appsVars
  /\ WF_vars(BeatArrives)
  /\ WF_vars(GuardFires /\ ~active)
  /\ \A g \in Goal : WF_vars(RtAccepts(g) \/ RtRejects(g) \/ RequestLost(g))
  /\ \A g \in Goal : WF_vars(SendUncertain(g))

-----------------------------------------------------------------------------
\* The properties of the two applications, under the names they have there.

\* apps/teleop.py: the relay callbacks find only sessions that are entered.
RelayReachesEntered == T!RelayReachesEntered

\* apps/teleop.py: while the ROS context is up, a leader floats under its session
\* only, unless a request to it went wrong.
FloatOnlyUnderControl == T!FloatOnlyUnderControl

\* apps/teleop.py: the active prompt means that every leader is engaged.
ActiveMeansAll == T!ActiveMeansAll

\* apps/teleop.py: standby and the end leave nothing behind but what an exception
\* was raised about.
NothingLeftBehind == T!NothingLeftBehind

\* apps/record.py: what is reported as saved is a sealed episode on disk.
SavedIsSealed == R!SavedIsSealed

\* apps/record.py: the recorder does not go on without its scope.
NoUnattendedRecording == R!NoUnattendedRecording

\* apps/record.py: the leaders float while their attempt is recorded.
FloatIsRecorded == R!FloatIsRecorded

\* apps/record.py: nothing else moves the robot while it goes home.
OneMover == R!OneMover
=============================================================================
