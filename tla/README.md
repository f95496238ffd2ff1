# A TLA+ verification project for the physical AI runtime

The repository is the workstation side of a robot runtime: the **RMI Python SDK**
(`src/interfaces/rmi/rmi/`), the applications built on it (`apps/`), bringup
launch files, a camera node and host set-up scripts. The SDK drives a robot that
several applications share. Who may command which part is decided by the
**Execution Manager** (EM), a C++ process that is not in this repository; the SDK
claims *leases* from it, sends every command with its lease id, and follows the
EM's status topic to learn whether the lease still stands.

This directory holds TLA+ modules of that code, TLC configurations that check
them on small instances, and TLAPS proofs of the main results for all values of
the constants. Paths in this text are relative to the repository;
`session.py` and the other SDK files are in `src/interfaces/rmi/rmi/`.

    tlc -config RmiSession.cfg MCRmiSession      # any row of the table of runs
    tlapm RmiSession_proofs.tla                  # the proofs

`PROJECT.json` maps every definition to the lines it models, and lists the
runs, the hazards, the findings and, for every property, a *mutant*: a plausible
bug which, put in place of a definition, makes the run fail.

## 1. Inventory

| Component | State it keeps | Operations | Talks to |
|---|---|---|---|
| Session (`session.py`), Robot (`robot.py`) | `lease_id`, `_entered`; `_control_stack` shared by all sessions of a robot | `__enter__`, `__exit__`, `act`, `active`, `_push_control`, `_pop_control`, `control` | EM client, command client |
| EM client (`selection.py`) | cached authority table with its age, event log | `claim`, `release`, `get_allocations`, `clear_fault`, `_on_status`, `_on_event` | EM services and topics |
| Command client (`provider.py`) | lease id, bindings, publishers, goal handles | `bind`, `send`, `unbind`, leased trajectories | EM command topics and action |
| Trajectory client (`controllers.py`) | `_goal_pending`, `_goal_handle`, `_guard_active` | `send`, `wait_for_result`, `cancel`, `mark_terminal`, `abandon`, heartbeat timer | trajectory controller and its guard on the real-time host |
| Other controller clients (`controllers.py`) | a publisher or an action handle | one call each | controllers |
| Controller manager client (`controllers.py`) | none | `switch_controller`, listing, diagnostics | ros2_control |
| Context (`context.py`) | executor, `_execution_prepared`, `_closed`, named objects | `from_profile`, `prepare_execution`, factories, `close` | all of the above |
| Agent, PlanExecution (`agent.py`) | plan state, feedback | `run`, `send`, `execute`, `wait`, `cancel` | command client |
| Recording (`recording.py`) | `EpisodeRecorder._active`, `EpisodeScope._entered`, `discarded`; the replay buffer | `activate`, episode scope, `discard`, `close` | recorder process |
| Replay (`replay.py`, `apps/replay.py`) | timeline origins, the reader; the application's phase | `rewrite`, player loop; load, home, replay | sessions |
| Sensing (`sensing.py`) | bounded sample buffers | `add`, `latest`, `wait_next`, `close` | subscriptions |
| Teleop application (`apps/teleop.py`) | engaged or not, sessions reachable by callbacks, ExitStack | engage, release, quit | sessions, leader drivers |
| Record application (`apps/record.py`) | episode counter, saved paths, two helper threads | one attempt after the other, quality gate | sessions, recorder, leader drivers |
| Evaluation application (`apps/eval.py`) | none | reads and prints | status, sensors |
| MJPEG camera node (`src/toolbox/mjpeg_cam`) | V4L2 buffers | open, capture loop, close | kernel driver |
| Controller bring-up (`src/bringup/*/rt_launch/launch/controller_bringup.launch.py`) | processes and event handlers of one launch | set-up, `on_exit` handlers | ros2_control, spawners, guards |
| Scripts, policy examples, configuration, other launch files | none or declarative | | |

**What is hard here.** Four things make this code difficult, and none of them
is easy to reach in a unit test:

* *Staleness.* A session's belief about its lease is a cached table, fed by a
  latched topic, with an age limit; preemption also comes as an event on another
  topic. The two arrive in either order, or not at all.
* *Uncertain outcomes.* Claims, releases, goal dispatches, mode changes of the
  leader arms and recorder calls all may time out, and then may or may not have
  happened, or happen later.
* *Two threads without locks.* Relay callbacks run in the executor's thread
  while the main thread enters and leaves sessions; helper threads read the
  terminal and move the robot.
* *Unwinding.* Exceptions and Ctrl+C (a `KeyboardInterrupt`, which no
  `except Exception` catches) leave nested scopes at any line.

**What makes each component correct.** Sessions: no lease without somebody who
answers for it, never two believers in one resource, no resumption after a
displacement, the control stack in step with the entered scopes. Command client:
commands carry the lease that was checked, unbinding never meets a sending
callback. Trajectory client: no motion without supervision, one goal at a time.
Teleop: leaders float only under control, engagement is all or nothing, nothing
is left behind. Record: what is saved was sealed, the recorder and the floating
leaders do not outlive the attempt, one mover at a time. Fault recovery: clearing
a fault takes nobody's lease and leaves none behind. Plans: cancelling reaches the
plan's own goal. Controller switches: a normal return is the truth. Episode scopes:
every recording has somebody who ends it. Context: `close` gives back all that can be
given back. Replay: the recorded pace, on a monotonic timeline, from where the arm
stands. Sensing: no lost wake-up, no endless wait. Camera: buffers go round.
Bring-up: no half of a robot stays up.

## 2. Modules

| Module | Models | Checked by | Proved in |
|---|---|---|---|
| `ControlScope` | abstract: what `with agent.run(robot)` promises | refined by `RmiSession` | `RmiSession_proofs` (the refinement) |
| `RmiSession` | `session.py`, `selection.py`, bind/unbind, control stack | `MCRmiSession` | `RmiSession_proofs` |
| `CommandClient` | `provider.py` between main thread and relay callback | `MCCommandClient` | `CommandClient_proofs` |
| `TrajectoryGuard` | `JointTrajectoryControllerClient`, controller, guard | `MCApps`, `MCTrajectoryGuard` | `TrajectoryGuard_proofs` |
| `TeleopApp` | `apps/teleop.py` | `MCApps`, `MCTeleopApp` | `TeleopApp_proofs` |
| `RecordApp` | `apps/record.py` with `EpisodeScope` | `MCApps`, `MCRecordApp` | `RecordApp_proofs` |
| `AppConfig` | the constants of both applications and their assumptions | with them | |
| `Apps` | the three modules above, side by side | `MCApps` | theirs |
| `PlanExecution` | `Agent.execute`, `PlanExecution`, the leased trajectory of `provider.py` | `MCParts`, `MCPlanExecution` | `ServiceParts_proofs` |
| `Sensing` | `SampleBuffer`, `Sensor` | `MCParts` | `DeviceParts_proofs` |
| `FaultRecovery` | `prepare_execution`, `clear_fault` | `MCParts`, `MCFaultRecovery` | `ServiceParts_proofs` |
| `ControllerSwitch` | `ControllerManagerClient` | `MCParts` | `ServiceParts_proofs` |
| `EpisodeStore` | `EpisodeRecorder`, `EpisodeScope` | `MCParts` | `ServiceParts_proofs` |
| `ContextLife` | `Context`: construction, factories, `close` | `MCParts` | `AppParts_proofs` |
| `ReplayPlayer` | rebaser, action source, player of `replay.py` | `MCParts` | `AppParts_proofs` |
| `ReplayApp` | `apps/replay.py` | `MCParts` | `AppParts_proofs` |
| `CameraCapture` | `node.cpp`, `jpeg.hpp` of the camera node | `MCParts` | `DeviceParts_proofs` |
| `Bringup` | the controller bring-up of Marvin, Piper and FR3 | `MCParts` | `DeviceParts_proofs` |
| `Parts` | the ten modules from `PlanExecution` on, side by side | `MCParts` | the three `...Parts_proofs` |

They are layers of one system. `RmiSession` is the protocol of many sessions
against the EM. `CommandClient` zooms into one session of it and keeps the
threads apart. `TeleopApp` and `RecordApp` sit on top and use of a session only
what the layer below shows: entering succeeds or raises, leaving may raise.
`TrajectoryGuard` is the independent path to a trajectory controller.
`PlanExecution` is the third way to command: a plan through the session's command
client. The other nine are the parts around them, each with its own environment.

### RmiSession and ControlScope

One action per thing a thread does between two points where others may act.
`CallClaim`, `ClaimReturns`, `ClaimRefused`, `ClaimIncomplete`, `ClaimTimesOut`
are `ExecutionManagerClient.claim` as `Session.__enter__` calls it; `Confirm`,
`AcquireTimesOut` and `Interrupt` are the polling loop; `ExitDisplaced`,
`ExitReleases`, `ReleaseReturns` and `ReleaseFails` are `__exit__` and
`_release_claim` with unbind and `_pop_control`. `OnStatus`, `StatusExpires` and
`OnEvent` are the callbacks that fill the caches. All sessions of one application
share one cache, one event log and one stack, as in the code. The EM's own
actions (`Em...`) say what the SDK's tests assume of it: a claim without preempt
fails when a resource is owned; a preempting claim displaces the whole lease of
every owner it overlaps, with a PREEMPTED event; ids are fresh; release is by
exact id and idempotent; a fault ends a lease; a claim whose caller timed out may
still be granted. Leases are atomic: a lease is lost on all its parts at once.

Properties. `DisplacedMeansGone`: `__exit__` skips the release only when the lease is really
gone. `NoSilentLeak`: every lease the EM holds has a live scope that answers for it, is on its
way to one, or was given up while an exception was raised (`lost`: a claim that timed out or
had the wrong endpoints, a release that failed, Ctrl+C). It does not say that nothing leaks,
but that no leak is silent. `ExclusiveBelief`: two scopes of one application are never both
active on a resource. `ControlStackSound`: on every path the stack holds exactly the entered
scopes. `ReplacedIsFinal`: from the moment a status has named another lease on one of its
parts, a scope is *never* active again under the lease it lost, whatever arrives or expires
later (the formula has a `[]` after the displacement, for every scope and lease).
`ImplementsScope`: the protocol refines `ControlScope`. `BeliefEnds` (liveness): a scope whose
lease is gone stops being active, even if the EM never says another word. Its fairness is weak
fairness of the status callback *or* the expiry of the cache, that is, the executor spins and
the clock runs; nothing is asked of the EM.

### CommandClient

The main thread enters, leaves and polls; the executor runs one callback at a
time, because every subscription and client is in the node's default mutually
exclusive group. A relay callback (`apps/teleop.py`, `apps/record.py`) is split
at each of its accesses to the client: the check in `act()`, the binding, the
publisher lookup, the lease read, the publish. `unbind()` is split likewise: it
loops over `_publishers`, which `send()` may grow.

The release may fail at any moment, whatever the callback is doing: it is refused or
times out; it finds no service, at once when Ctrl+C has shut the ROS context down;
Ctrl+C may also end the wait for its answer. The finally block unbinds in every case
(`ReleaseFails`). A fault may end the lease without a word of preemption (`EmFault`).

`QuietRelease`, `NoStrayPublisher`: as long as every scope was left by a release that
was *answered*, callback and `unbind` never meet, since the answer is delivered between
two callbacks and by then no new one reaches the session. A displaced exit waits for
nothing and a failed release for no callback; there the two threads do meet, and the run
`unleased_command` shows what follows. `NoCommandOnceDisplaced` holds on every path: no
command goes out once the callback group has processed a status with another lease.
One thing is left out: a second Ctrl+C, inside `unbind()` itself.

### TeleopApp

`main()` of `apps/teleop.py`: the prompt, the engage loop with its candidate
`ExitStack`, the rollback, `_release_teleop` and the finally block. Claims,
releases and mode changes fail one by one, others preempt, a mode request that
timed out is served late, and Ctrl+C strikes once anywhere (rclpy's own signal
handler then takes down the context or not: both happen). Without the context nobody is
asked any more (`NobodyAsked`): the leaders stay in the mode they are in, and nothing
excuses them. Assumed: a driver serves requests in order.

`RelayReachesEntered`, `ActiveMeansAll` and `NothingLeftBehind` are stated in the module;
their exceptions (a failed service, the points where Ctrl+C does leave something) are part
of their statement. `FloatOnlyUnderControl` is said of the time the ROS context is up: a
leader floats only while its session is entered, unless a request to that leader failed,
timed out or was cut short (`unsure`). What becomes of floating leaders when the context
is gone is the question of `QuitLeavesNobodyFloating`, which the code violates
(`teleop_float`).

### TrajectoryGuard

`send` is cut at its awaits: `SendBegins` claims the client, `SendUnavailable` or
`Dispatch` follows the wait for the server, and `SendAccepted`, `SendRejected` or
`SendUncertain` ends it; `wait_for_result`, `cancel` with any number of
concurrent callers, `mark_terminal`, `abandon` and the heartbeat timer follow. The
guard on the real-time host arms on a true heartbeat, disarms on a false one, and
when armed may find silence and cancel every goal. A refused cancel changes nothing and
is no action of its own: the goal stays tracked. The workstation may crash and
start again. Assumed: goal requests arrive in their order, within the guard's
timeout or not at all; heartbeats are reliable with depth one; an accepted goal
preempts the one that runs.

`MotionWatched`: a goal that runs is under a guard that watches, unless a later
goal's rejection disarmed it. `OneGoal`: one goal in hand, and every running goal
is tracked, about to be, or given up. `DisarmedByItsOwnEnd`: a false heartbeat goes
out only when no goal the client cares for is running. `AbandonedGoalStops`
(liveness, under `FairSpec`): what was given up is stopped by the guard. Its
fairness: the network delivers or drops what is under way, and the guard's timer
runs.

### RecordApp

The episode loop of `apps/record.py` and the `EpisodeScope` transaction inside it:
staging, ready gate, start, one session per leader, engagement, the loop that ends by
ENTER (`Stop`) or by `max_duration_s` (`MaxDuration`), release, the exits of the
sessions, seal or discard, and the quality gate beside the homing thread. Every call
that leaves the process may fail, with its effect done or not; one Ctrl+C strikes
anywhere; the thread that waits longest for the terminal gets the next line.

`SavedIsSealed`, `NoUnattendedRecording`, `FloatIsRecorded` and `OneMover` are the
safety properties. The history variables `lost` and `unsure` mark the attempts and
mode changes whose outcome the application cannot know.

### PlanExecution

Several callers execute, wait for and cancel plans on one part. The command client
remembers *one* goal handle per part (`handle`): `Accepted` overwrites it,
`ResultArrives`, `Cancel` and `Unbind` empty it, whoever's it was. `Execute` and `Send`
are the checks before the goal leaves; `GoalAccepted` preempts the active goal, as
trajectory controllers do. `CancelReachesItsGoal`: a `cancel()` that returned has asked
its own goal to stop, unless another plan's step took the handle out of the slot
(`displaced`) or the goal was over; so a `wait()` that timed out leaves the goal within
reach. `TakeoversRaise` is what the docstring of `wait` promises, and is violated.

### FaultRecovery

Two applications come up after a fault; each may start a second time. `Describe`,
`Filter` and `ClaimReturns`, `Release`, `PollEnds` are `prepare_execution` and
`clear_fault`; the EM serves claims and releases when it gets to them, also late ones. A
claim raises when it was refused, when the grant names other endpoints than were asked
for (the lease id is dropped then), when it times out or on Ctrl+C; so does a release,
and both may have happened or happen later (`gaveUp`, by try). A prepared application
takes resources for its sessions: free ones, or with `preempt=True` any, FAULT included,
as the docstring of `prepare_execution` advises.

`NoRecoveryLeaseLeft`: a recovery lease belongs to a recovery under way, or to a try
whose claim or release raised. `OwnedIsLeftAlone`: a recovery takes a resource out of a
session only when a session took it after the status that the recovery acts on (`since`).
That this does happen, against the docstring's "clear FAULT, leave OWNED alone", is shown
by `OwnedIsNeverTaken` of `MCFaultRecovery`, which records what recoveries take.

### ControllerSwitch

`switch_controller` by two callers on controllers that exclude each other: list,
switch, list again, each answered late or never. The second list is answered
(`ServeList`) and received (`Verify`) in two steps: what the caller is told may be over.
`ReturnedMeansSwitched`: after a verified return the requested states held when that list
was answered, and hold until another caller's switch changes them (`disturbed`, counted
from that answer). A switch that was undone before the second list raises. Of
controllers that were not loaded, and left out of the request, a normal return says
nothing.

### EpisodeStore

Two scopes on one recorder, each entered up to twice, with an error or without, with
`discard()` by hand. Every service call may fail before or after its effect;
`activate()` is two calls. `RecordingHasAnEnd`: what is being recorded belongs to a
scope that is still entered, whose call failed (`unsure`), or which was discarded and
entered again. The last is the code as it is: `discarded` is never reset, so neither
branch of `__exit__` touches the second recording.

### ContextLife

`from_profile` with or without a node of the caller's, named objects bound to their
first configuration, one recorder, and `close()` step by step in its order. A step works,
raises, or, for the two that wait half a second for a thread (`executor`, `spinner`),
returns with the thread still up. Agents have no step: what they created goes with the
node, when the context owns it and could destroy it. `CloseIsComplete`: whatever fails,
every other step is done, so what is still up has failed, has outlasted its timeout, or
is an agent of a node that is not owned or still there; and the node is never gone under
an executor whose own step went well. Two exceptions are part of the statement: Ctrl+C in
`close()` (no later call resumes it, because `_closed` is set first), and objects made
during or after it, which nothing refuses.

### Sensing

The executor's callback and two waiting threads under one condition variable.
`NoSleepOnNews` is the absence of lost wake-ups; `WaitsEnd` (liveness): every wait ends,
also after `close()`. Its fairness: the condition's own timeout wakes the thread, and a
thread that was woken gets the lock. No message is assumed to arrive.

### ReplayPlayer and ReplayApp

`ReplayPlayer` rewrites record times onto the present clocks and waits for each deadline:
stamps are times of the ROS clock, deadlines of the steady clock, and the two differ by
`Ahead`, so that taking one for the other shows;
its consumer takes its time, an iteration may be left half way, the player closed, opened
and iterated again. `PlayedAtRecordedPace` relates the stamps of an iteration to the
recorded times, to its beginning and to when each action went out. Equal times pass,
decreasing ones end the iteration with an exception.

`ReplayApp` is `apps/replay.py`: the loading with its two sources (actions, or joint states
where there are none) and its stable sort by log time (`ByTime`, by rank: message number k is
the one with k - 1 others before it), the observation, the planner session that homes every
arm, the policy session with the frames of the merged timeline. `ReplayStartsWhereItStands`:
an arm gets no first point away from where it is, neither by homing nor when its recording
begins late, unless somebody else moved it after the observation, its joints were not all
observed, or frames of its were dropped. `StatusTurns` is why frames are dropped although the
lease is still held: a status that is too old, and a new one later, after which the replay
goes on where it is by then. A part that is held is moved by nobody else.

### CameraCapture

`open_device` call by call with failures, the capture loop cut at each system call, the
destructor, and a driver that writes into queued buffers at any time. `BuffersGoRound`:
between two frames every buffer is with the driver, the buffer in hand is mapped and not
overwritten, and a device that failed to open or was closed leaves nothing behind.

### Bringup

The three `controller_bringup.launch.py`: which processes and controllers follow from the
arguments, and what the launch does on each exit. Exits are handled one at a time, later.
Guards and state publishers have neither an exit handler nor a respawn, and may exit at
any time (`HelperExits`). `NoHalfRobot`: a launch that is still up when everything was
handled has its broadcaster active, its routes loaded and a guard for every arm, but for
what it does not look at, and that is part of the statement: Marvin and Piper do not notice
a controller manager that dies; the FR3 does, but goes on after a failed broadcaster
spawner and has no handler for the route spawner; none notices a guard or a state
publisher that exits.

### Apps, Parts and the MC modules

`Apps` puts `TrajectoryGuard`, `TeleopApp` and `RecordApp` side by side in one run: a
behaviour picks one program (`app`) and the others stay in their initial states, so its
properties are theirs. `MCTrajectoryGuard`, `MCTeleopApp` and `MCRecordApp` check the
promises that one of them breaks.

The other ten modules share no state, so `Parts` treats them alike: a behaviour
picks one (`part`) and the others stay in their initial states. It adds nothing to
them but names for variables that two of them use and the assumptions on their
constants; its properties are theirs, and so are its theorems. `MCParts` gives the
constants that TLC needs.

## 3. Runs

| Run | Configuration | Bounds, and why they suffice | Result |
|---|---|---|---|
| `session_safety` | `RmiSession.cfg` | two sessions of one application, one over both resources and one that preempts on the first; two leases, so one is displaced, released, late or lost while another lives | holds |
| `session_liveness` | `RmiSessionLive.cfg` | the same with one resource: the properties that need a look at whole behaviours | holds |
| `command_client` | `CommandClient.cfg` | two keys (so that `_publishers` grows under the loop), two scopes one after the other | holds |
| `unleased_command` | `CommandClientUnleased.cfg` | one lease is enough | **violated** |
| `applications` | `Apps.cfg` | trajectories: three goals, two concurrent cancels (an old, a current and a next goal), safety and liveness; teleoperation: two leaders (one can fail when the other has succeeded); recording: two episodes in three attempts, two leaders (one retry, one failing leader) | holds |
| `teleop_quit` | `TeleopAppQuit.cfg` | two leaders | **violated** |
| `teleop_float` | `TeleopAppFloat.cfg` | two leaders | **violated** |
| `trajectory_rejected` | `TrajectoryGuardRejected.cfg` | three goals, two cancels | **violated** |
| `record_gate` | `RecordAppGate.cfg` | two episodes, three attempts | **violated** |
| `application_parts` | `MCParts.cfg` | per part: two plans; two waiters, history of two, three messages; two applications that start twice, one resource; two callers, two controllers; two scopes entered twice; two named objects with two configurations; clock to 5, with a ROS clock 7 ahead, two iterations of equal, decreasing and spread record times; two arms and a gripper with actions out of order, joint states, or neither; one to three buffers from the driver (one is refused as too few); all arguments of the three robots | holds |
| `plan_takeover` | `PlanExecutionTakeover.cfg` | two plans: one that is preempted by the other | **violated** |
| `fault_recovery_owned` | `FaultRecoveryOwned.cfg` | two applications that start once, one resource | **violated** |

Bounds are constants: `MaxLease`, `MaxGoal` (each goal is sent once), `MaxAttempt`,
`MaxTry` (starts of an application), `MaxUse` (entries of a scope), `MaxSeq` (messages),
`MaxCalls` (calls of a waiting thread), `MaxTime` and `MaxPass` (clock and iterations of
the player). Besides, Ctrl+C strikes once in `TeleopApp` and `RecordApp` (`struck`), each plan
is executed once, and in `ControllerSwitch` a caller whose request is still unserved
makes no new call.
Deadlock is checked where the system runs on for ever. It is switched off where
the system stops: applications that quit (`TeleopApp`, `RecordApp`, and in `MCParts` the
replay application, closed contexts, the camera node that is gone, a launch that is
over), and `TrajectoryGuard` and the plans, which are done once their goals are spent.

### What the code does otherwise than it says

* **`unleased_command`.** `send()` reads `_lease_id` after it has looked up the publisher. On
  the displaced path, and when the release fails at once, `unbind()` runs without waiting for
  the callback, and a command is published with an empty lease id, although `provider.py:33`
  says "Publishes typed leased commands only". The EM drops it.
* **`teleop_quit`.** Ctrl+C in the engage loop passes `except Exception`
  (`apps/teleop.py:207`), so the candidate stack is never closed: the leases stay with the EM
  while the application prints that it closed safely.
* **`teleop_float`.** Ctrl+C at the active prompt lets rclpy's signal handler shut the ROS
  context down; `set_teleop_preempt(False)` then returns at once (`apps/teleop.py:40`), its
  result is not looked at, and the leaders float on after their sessions were left.
  `apps/teleop.py:156` says "Press [Ctrl+C] to quit safely", and `apps/README.md:33` promises
  the return to shadow mode.
* **`trajectory_rejected`.** A dispatch that got no answer leaves the client free; a retry
  that is rejected publishes a false heartbeat and so disarms the guard under the first goal,
  which may be running (`controllers.py:128`, against the comment at `controllers.py:118`).
* **`record_gate`.** When an attempt ends by `max_duration_s` its `stop_thread` still waits in
  `input()` and takes the first line typed at the quality gate.
* **`plan_takeover`.** The docstring of `PlanExecution.wait` says that "an external
  cancellation still raises so takeovers are not silently absorbed" (`agent.py:228`). When a
  second plan on the same part has preempted the first, `cancel()` of the first pops and
  cancels the *second* plan's handle (`provider.py:235`), and `wait()` of the first then
  returns `None`: the takeover is absorbed, and the wrong motion was stopped.
* **`fault_recovery_owned`.** `context.py:164` says of the start of an application "clear
  FAULT, leave OWNED alone". `clear_fault` looks for FAULT in its cached status and then
  claims with preempt (`selection.py:303`): a session that has taken the resource since then,
  as the same docstring tells the operator to do by an explicit preempt, loses it.

Documentation only, without a run: `recording.py:329` describes `last_episode` as the
transitions of the most recently *closed* scope; entering a scope empties the list, so
until its exit it shows the open one. And `apps/README.md` promises that sealing and
homing proceed in parallel; the seal is done in `EpisodeScope.__exit__`, before the
homing thread starts.

## 4. Proofs

TLAPS checks the following for all values of the constants: every number of applications,
sessions, leases, leaders, attempts, plans, threads, buffers, recordings and so on. The
assumptions are the `ConstantAssumption` and `ConfigAssumption` of the modules, no more:
bounds are natural numbers, the list of the leaders names each of them once, every session
asks for some parts, and in `Parts` recorded messages carry poses of known parts and the
marker values of a plan's fields are not themselves plans.

Every invariant and action property of a passing run has its theorem. Each proof has the
same shape: an invariant `IInv` (`...Inv` for a part) of named conjuncts, which TLC
confirmed first; one step per action; and the property from the invariant. Why the
property is not inductive as it stands, and what has to be added, is the interesting
part:

**`RmiSession_proofs`.** `TypeCorrect`, `Invariance`, `DisplacedMeansGoneHolds`,
`NoSilentLeakHolds`, `ExclusiveBeliefHolds`, `ControlStackSoundHolds`, `ReplacedIsFinalHolds`,
`ImplementsScopeHolds`, `AuthorityIsExclusive`. The inductive invariant adds four things to
the properties. *GrantedOnly*: no table names a lease that was not granted, so a fresh id is
nowhere. *WholeLeases*: a table shows a lease on all its parts or on none, so a session that
sees another id on one part has lost all of them. *SessionFields* and *OneOwner*: the thread's
position determines its fields, and ids are not shared. *InOrder*: EM, topic and cache are
three moments of one history; for a lease that was confirmed, missing at a later place means
gone at every earlier one. The last is why a stale cache is harmless: `Displaced` looks at
*another* lease or an event, never at absence or age. It also gives `ReplacedIsFinalHolds`:
once a status has named another lease on its part, the lost lease has *vanished* from all
three tables, none of them can get it back, and nobody is active under a lease that is in no
table.

`ImplementsScopeHolds` is the refinement of `ControlScope`, step by step: a call begins a
scope, a grant obtains its parts from whoever overlaps, a release, a fault or a late
grant loses authority, `Confirm` starts the body, an exit without an exception leaves,
every exception fails, and all else is invisible. It needs `RefinementInv`, which adds
*WithinSpan* (a lease is shown on nothing but what it was granted for; otherwise a grant
could take it from a scope that does not overlap) and *LeftEmpty* (a scope left without an
exception holds nothing for good; otherwise entering it again would start with
authority). From the same invariant, `AuthorityIsExclusive`: no two sessions, of whatever
applications, have authority over a common part at once.

**`CommandClient_proofs`.** `TypeCorrect`, `Invariance`, `QuietReleaseHolds`,
`NoStrayPublisherHolds`, `NoCommandOnceDisplacedHolds`. The heart is *Apart*: as long as
every release was answered, a callback runs only while its session is entered and the
answer to the release has not been delivered. *Bindings* and *Publishers* say what the client
has meanwhile; *Admission* that the cache does not change under a callback but by growing
old, which gives the action property.

**`TrajectoryGuard_proofs`.** `TypeCorrect`, `Invariance`, `MotionWatchedHolds`,
`OneGoalHolds`, `DisarmedByItsOwnEndHolds`. `MotionWatched` alone is not inductive: a
false heartbeat under way will disarm the guard later, so nothing may run, or be
on its way to run, while it travels (`Supervised`). That holds because the client
only sends it for the goal it tracks, and that goal is the last one started:
`SentInOrder` and `TakenInOrder` say that goals are sent and taken up in order, one
at a time, and `KnownGoal` that what the client and the cancellers know of a goal
is true.

**`TeleopApp_proofs`.** `TypeCorrect`, `Invariance`, `RelayReachesEnteredHolds`,
`FloatOnlyUnderControlHolds`, `ActiveMeansAllHolds`, `NothingLeftBehindHolds`. *StackInOrder*
and *SessionsKnown* tie the ExitStack, the callbacks' sessions and the loop counter
together; *Asked* says of each leader already asked that it is in its mode or unsure, and
that a request still under way makes it unsure; *Interrupted* that only Ctrl+C takes the
ROS context down, and leads to the finally block; *Accounted* that outside the places where
Ctrl+C does leave something, every lease is on a stack that will be closed or was
reported.

**`RecordApp_proofs`.** `TypeCorrect`, `Invariance`, `SavedIsSealedHolds`,
`NoUnattendedRecordingHolds`, `FloatIsRecordedHolds`, `OneMoverHolds`. *SavedBefore*: what is
saved was judged before, so neither the present attempt nor a later one touches it;
*RecorderInStep*, *EnteredInside* and *HomingInside* tie the recorder, the sessions and the
homing thread to the line `main()` is at.

**`ServiceParts_proofs`** (plans, fault recovery, controller switches, episode scopes).
`CancelReachesItsGoalHolds`: *Handles*, an accepted goal is in the slot, or nothing is left to
cancel. `NoRecoveryLeaseLeftHolds` and `OwnedIsLeftAloneHolds`: *Claims*, the claims of an
application under way are of different tries, in their order; *Leases*, every claim not
served and every lease is of the recovery that runs or of a try whose call raised;
*Since*, what an application wants and is in a session was taken by one since it looked.
`ReturnedMeansSwitchedHolds`: *Requests*, what is asked of the manager is loaded, a
caller that returned asks nothing, and what the second list confirmed is so until
disturbed. `RecordingHasAnEndHolds` is inductive with the types.

**`DeviceParts_proofs`** (sensors, bring-up, camera). `NoSleepOnNewsHolds` needs that the
executor takes a message only while there is one. `NoHalfRobotHolds`: *Launched*, *Staged*,
*Loaded* and *Noticed*, what each process and handler has done by the time it ended, and where
the guards are. `BuffersGoRoundHolds`: *Opening*, what `open_device` has done up to each of
its failures, and *Round*, where the buffers are while the loop runs.

**`AppParts_proofs`** (context, replay), which also gathers the types of all parts in one
`TypeCorrect`. `CloseIsCompleteHolds`: *Passed*, what `close()` has gone past is down, failed
or timed out; *Unspun*, for the executor that is so whatever was made meanwhile, and the node
comes after it. `PlayedAtRecordedPaceHolds`: *Based* and *Paced*, every stamp and every
deadline is as far from its own origin as its record time. `ByTimeSorts`: the sort of a
recording is a permutation in the order of time that keeps equal times in file order.
`ReplayStartsWhereItStandsHolds`: *Standing*, an arm left alone is where it was seen, then at
its start pose, until the first frame that tells of it, if no frame of its was dropped. For
these proofs `ByTime` is defined by rank, not by recursion.

Model-checked only: the liveness properties `BeliefEnds`, `AbandonedGoalStops` and
`WaitsEnd`, because fairness and ENABLED are out of the prover's reach. The runs that show a
disagreement are counterexamples, for which there is nothing to prove.

## 5. Not modelled, and the plan

Left out for good: profile parsing, data contracts and the evaluation application
(no state), host scripts and examples (declarative or straight-line), the launch files
that only list nodes, the Marvin error-clearing tool (a vendor SDK), and the one-call
controller clients. The memory replay buffer is a bounded list used by one thread.
Text, logging and the values of commands are abstracted everywhere; time appears
only as "may time out" and "may expire", except in `ReplayPlayer`, which is about it.

What could still be added is the safety half of the liveness properties: for `BeliefEnds`,
that no step makes a session whose lease is gone active again but the delivery of a message
that was published before; for `WaitsEnd`, that a waiting thread always has a step that
brings it nearer to its end.
