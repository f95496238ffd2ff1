------------------------------ MODULE Bringup ------------------------------
(***************************************************************************)
(* The controller bring-up launch files of the three robots: which         *)
(* processes are started, which controllers are asked for, and what the    *)
(* launch does when a process exits.  A spawner is a process that loads    *)
(* controllers into the controller manager and exits; the launch handles   *)
(* exits one at a time, some time after they happened.  For the other      *)
(* processes it has neither an exit handler nor a respawn.                 *)
(***************************************************************************)
EXTENDS Naturals

CONSTANTS
  Robot       \* the robots to bring up, of "marvin", "piper" and "franka"

Broadcaster == <<"robot", "joint_state_broadcaster">>
Process == {"manager", "broadcaster", "routes"}

VARIABLES
  robot,      \* whose launch file it is, "none" before the launch
  args,       \* its arguments: [arms, grippers], sets of sides
  launch,     \* off, called, up, refused (the set-up raised) or shutdown
  proc,       \* proc[p]: absent, running, ok (exit code 0) or failed
  unseen,     \* processes whose exit the launch has not handled
  loaded,     \* controllers that the manager has loaded
  working,    \* those of them that are active
  helpers,    \* processes running whose exit has no handler
  gone        \* those that exited by themselves

bringupVars ==
  <<robot, args, launch, proc, unseen, loaded, working, helpers, gone>>

-----------------------------------------------------------------------------
\* What the launch arguments can select.  Marvin always has both arms, each
\* with a gripper or not; Piper any of its arms and grippers on these; the
\* FR3 has one arm.
MarvinArguments ==
  [arms : {{"left", "right"}}, grippers : SUBSET {"left", "right"}]

PiperArguments ==
  {a \in [arms : (SUBSET {"left", "right"}) \ {{}},
          grippers : SUBSET {"left", "right"}] : a.grippers \subseteq a.arms}

FrankaArguments == [arms : {{"arm"}}, grippers : SUBSET {"arm"}]

Arguments(r) ==
  IF r = "marvin" THEN MarvinArguments
  ELSE IF r = "piper" THEN PiperArguments ELSE FrankaArguments

\* The route controllers: three for every arm and one for every gripper.
MarvinRoutes(a) ==
  (a.arms \X {"tskpc", "jspc", "jtc"}) \cup (a.grippers \X {"pika_gripper_fwd"})

PiperRoutes(a) ==
  (a.arms \X {"jspc", "tskpc", "jtc"}) \cup (a.grippers \X {"gripper_fwd"})

FrankaRoutes(a) ==
  (a.arms \X {"tsjic", "jsic", "jtc"}) \cup (a.grippers \X {"pika_gripper_fwd"})

Routes ==
  IF robot = "marvin" THEN MarvinRoutes(args)
  ELSE IF robot = "piper" THEN PiperRoutes(args) ELSE FrankaRoutes(args)

\* jtc_guard_node, which cancels a trajectory whose sender falls silent: one
\* for each arm.
Guard(side) == <<side, "guard">>
Guards == {Guard(side) : side \in args.arms}

\* The processes that nothing watches.  The FR3's joint states pass through a
\* publisher of their own.
Unwatched ==
  Guards \cup {<<"robot", "robot_state_publisher">>}
    \cup {<<x, "joint_state_publisher">> : x \in {robot} \cap {"franka"}}

TypeOK ==
  /\ robot \in Robot \cup {"none"}
  /\ robot \in Robot => args \in Arguments(robot)
  /\ launch \in {"off", "called", "up", "refused", "shutdown"}
  /\ proc \in [Process -> {"absent", "running", "ok", "failed"}]
  /\ unseen \subseteq Process
  /\ loaded \subseteq Routes \cup {Broadcaster} /\ working \subseteq loaded
  /\ helpers \subseteq Unwatched /\ gone \subseteq Unwatched

Init ==
  /\ robot = "none" /\ args = [arms |-> {}, grippers |-> {}]
  /\ launch = "off" /\ proc = [p \in Process |-> "absent"] /\ unseen = {}
  /\ loaded = {} /\ working = {} /\ helpers = {} /\ gone = {}

-----------------------------------------------------------------------------
\* ros2 launch, with arguments.
CallLaunch ==
  /\ launch = "off" /\ launch' = "called"
  /\ robot' \in Robot /\ args' \in Arguments(robot')
  /\ UNCHANGED <<proc, unseen, loaded, working, helpers, gone>>

\* The set-up function raises: an argument has no valid value, or (Piper) two
\* real arms share a CAN interface.
RefuseLaunch ==
  /\ launch = "called" /\ launch' = "refused"
  /\ UNCHANGED <<robot, args, proc, unseen, loaded, working, helpers, gone>>

\* Controller manager, broadcaster spawner and the unwatched processes.
StartMarvin ==
  /\ robot = "marvin" /\ launch = "called" /\ launch' = "up"
  /\ proc' = [proc EXCEPT !["manager"] = "running", !["broadcaster"] = "running"]
  /\ helpers' = Unwatched
  /\ UNCHANGED <<robot, args, unseen, loaded, working, gone>>

StartPiper ==
  /\ robot = "piper" /\ launch = "called" /\ launch' = "up"
  /\ proc' = [proc EXCEPT !["manager"] = "running", !["broadcaster"] = "running"]
  /\ helpers' = Unwatched
  /\ UNCHANGED <<robot, args, unseen, loaded, working, gone>>

StartFranka ==
  /\ robot = "franka" /\ launch = "called" /\ launch' = "up"
  /\ proc' = [proc EXCEPT !["manager"] = "running", !["broadcaster"] = "running"]
  /\ helpers' = Unwatched
  /\ UNCHANGED <<robot, args, unseen, loaded, working, gone>>

Exits(p, code) ==
  /\ proc[p] = "running" /\ proc' = [proc EXCEPT ![p] = code]
  /\ unseen' = unseen \cup {p}

\* The broadcaster's spawner ends.  It may fail over a broadcaster that it
\* had activated: on Marvin and Piper a look at the active controllers then
\* turns the failure into success.
BroadcasterSpawnerExits ==
  /\ \/ /\ proc["manager"] = "running"
        /\ loaded' = loaded \cup {Broadcaster}
        /\ working' = working \cup {Broadcaster}
        /\ \/ Exits("broadcaster", "ok")
           \/ robot = "franka" /\ Exits("broadcaster", "failed")
     \/ Exits("broadcaster", "failed") /\ UNCHANGED <<loaded, working>>
  /\ UNCHANGED <<robot, args, launch, helpers, gone>>

\* The route spawner ends: with all controllers loaded and inactive, or with
\* some of them.
RouteSpawnerExits ==
  /\ \/ /\ proc["manager"] = "running"
        /\ loaded' = loaded \cup Routes
        /\ Exits("routes", "ok")
     \/ /\ Exits("routes", "failed")
        /\ \E some \in {{}} \cup {{c} : c \in Routes} :
             /\ proc["manager"] = "running" \/ some = {}
             /\ loaded' = loaded \cup some
  /\ UNCHANGED <<robot, args, launch, working, helpers, gone>>

\* The controller manager dies, and with it all controllers.
ManagerExits ==
  /\ Exits("manager", "failed")
  /\ loaded' = {} /\ working' = {}
  /\ UNCHANGED <<robot, args, launch, helpers, gone>>

\* A guard or a state publisher dies: nobody is told.
HelperExits(h) ==
  /\ launch = "up" /\ h \in helpers
  /\ helpers' = helpers \ {h} /\ gone' = gone \cup {h}
  /\ UNCHANGED <<robot, args, launch, proc, unseen, loaded, working>>

StartRoutes == proc' = [proc EXCEPT !["routes"] = "running"] /\ UNCHANGED launch
ShutDown == launch' = "shutdown" /\ UNCHANGED proc

\* Mutant of AfterBroadcaster: the routes follow whatever the exit code.
AfterBroadcasterRegardless == StartRoutes

\* on_exit of the broadcaster's spawner: Marvin and Piper go on only after
\* success, the FR3 in any case.
AfterBroadcaster ==
  IF proc["broadcaster"] = "ok" \/ robot = "franka" THEN StartRoutes ELSE ShutDown

\* on_exit of the route spawner: the FR3's launch has no handler for it.
AfterRoutes ==
  IF proc["routes"] = "ok" \/ robot = "franka"
  THEN UNCHANGED <<proc, launch>> ELSE ShutDown

\* Only the FR3's launch ends with its controller manager.
AfterManager ==
  IF robot = "franka" THEN ShutDown ELSE UNCHANGED <<proc, launch>>

\* The launch handles the exit of a process.
HandleExit(p) ==
  /\ launch = "up" /\ p \in unseen /\ unseen' = unseen \ {p}
  /\ \/ p = "broadcaster" /\ AfterBroadcaster
     \/ p = "routes" /\ AfterRoutes
     \/ p = "manager" /\ AfterManager
  /\ UNCHANGED <<robot, args, loaded, working, helpers, gone>>

\* After a shutdown the launch ends what is still running.
EndAll ==
  /\ launch = "shutdown"
  /\ proc' = [p \in Process |-> "absent"] /\ unseen' = {}
  /\ loaded' = {} /\ working' = {} /\ helpers' = {}
  /\ UNCHANGED <<robot, args, launch, gone>>

Next ==
  \/ CallLaunch \/ RefuseLaunch \/ StartMarvin \/ StartPiper \/ StartFranka
  \/ BroadcasterSpawnerExits \/ RouteSpawnerExits \/ ManagerExits
  \/ \E h \in Unwatched : HelperExits(h)
  \/ \E p \in Process : HandleExit(p)
  \/ EndAll

Spec == Init /\ [][Next]_bringupVars

-----------------------------------------------------------------------------
Settled ==
  /\ launch = "up" /\ unseen = {}
  /\ proc["broadcaster"] # "running" /\ proc["routes"] # "running"

\* No half of a robot stays up, but for what the launch files do not look at:
\* once the spawners are through and their exits handled, a launch that is
\* still up has its broadcaster active and all its routes loaded, and it never
\* has routes before the broadcaster's stage was over.  What goes unnoticed: on
\* Marvin and Piper a controller manager that died, on the FR3 a spawner that
\* failed, on all three a guard or a state publisher that exited; with nothing
\* of that, every trajectory controller has its guard.
NoHalfRobot ==
  /\ Settled =>
       /\ \/ Broadcaster \in working /\ Routes \subseteq loaded
          \/ robot # "franka" /\ proc["manager"] = "failed"
          \/ robot = "franka" /\ "failed" \in {proc["broadcaster"], proc["routes"]}
       /\ gone = {} => Guards \subseteq helpers
  /\ robot # "franka" /\ proc["routes"] # "absent" => proc["broadcaster"] = "ok"
=============================================================================
