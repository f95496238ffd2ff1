------------------------- MODULE DeviceParts_proofs -------------------------
(***************************************************************************)
(* Proofs about the parts of Parts on the host's side, for any number of   *)
(* threads, buffers and robots: Sensing, Bringup and CameraCapture.        *)
(***************************************************************************)
EXTENDS Parts, FiniteSetTheorems, SequenceTheorems, WellFoundedInduction, TLAPS

-----------------------------------------------------------------------------
(* Sensing.                                                                *)

\* The executor takes a message only while another one may come.
Room == taken => sequence < MaxSeq

SensorInv == S!TypeOK /\ Room /\ NoSleepOnNews

\* A step of the whole is one of this part, or leaves it alone.
LEMMA SensorSteps == [Next]_vars => [S!Next]_sensorVars
<1> SUFFICES ASSUME [Next]_vars PROVE [S!Next]_sensorVars
  OBVIOUS
<1>1. CASE part = "sensor" /\ Next
  BY <1>1 DEF Next, On, S!Next
<1>2. CASE part # "sensor" /\ Next
  BY <1>2 DEF Next, On
<1>3. CASE UNCHANGED vars
  BY <1>3 DEF vars
<1>. QED BY <1>1, <1>2, <1>3

LEMMA SensorInitially == Init => SensorInv
<1> SUFFICES ASSUME Init PROVE SensorInv
  OBVIOUS
<1>1. samples \in Seq(1..MaxSeq) /\ Len(samples) <= Capacity
  BY EmptySeq, ConstantAssumption DEF Init, S!Init
<1>2. /\ sequence \in 0..MaxSeq
      /\ after \in [Waiter -> 0..MaxSeq] /\ calls \in [Waiter -> 0..MaxCalls]
  BY ConstantAssumption DEF Init, S!Init
<1>3. /\ wpc \in [Waiter -> {"idle", "checked", "asleep", "awake", "got", "timeout"}]
      /\ expired \in [Waiter -> BOOLEAN]
  BY DEF Init, S!Init
<1>4. open \in BOOLEAN /\ taken \in BOOLEAN
  BY DEF Init, S!Init
<1>5. S!TypeOK
  BY <1>1, <1>2, <1>3, <1>4 DEF S!TypeOK
<1>. QED BY <1>5 DEF Init, S!Init, SensorInv, Room, NoSleepOnNews, S!NoSleepOnNews

\* The newest sample is a sequence number, 0 without one.
LEMMA NewestTyped == S!TypeOK => S!Newest \in 0..MaxSeq
BY ConstantAssumption, ElementOfSeq, EmptySeq, LenProperties
  DEF S!TypeOK, S!Newest

\* The buffer stays one of sequence numbers and within its capacity.
LEMMA AddedTyped ==
  ASSUME S!TypeOK, NEW n \in 1..MaxSeq
  PROVE  S!Added(n) \in Seq(1..MaxSeq) /\ Len(S!Added(n)) <= Capacity
<1>1. PICK all : all = Append(samples, n)
  OBVIOUS
<1>2. samples \in Seq(1..MaxSeq) /\ Len(samples) \in Nat /\ Len(samples) <= Capacity
  BY LenProperties DEF S!TypeOK
<1>3. all \in Seq(1..MaxSeq) /\ all # << >> /\ Len(all) = Len(samples) + 1
  BY <1>1, <1>2, AppendProperties
<1>4. Tail(all) \in Seq(1..MaxSeq) /\ Len(Tail(all)) = Len(all) - 1
  BY <1>3, HeadTailProperties
<1>5. S!Added(n) = IF Len(all) > Capacity THEN Tail(all) ELSE all
  BY <1>1 DEF S!Added
<1>6. CASE Len(all) > Capacity
  BY <1>2, <1>3, <1>4, <1>5, <1>6
<1>7. CASE ~(Len(all) > Capacity)
  BY <1>2, <1>3, <1>5, <1>7, ConstantAssumption
<1>. QED BY <1>6, <1>7

LEMMA SensorTypeKept == SensorInv /\ [S!Next]_sensorVars => S!TypeOK'
<1> SUFFICES ASSUME SensorInv, [S!Next]_sensorVars PROVE S!TypeOK'
  OBVIOUS
<1> USE ConstantAssumption DEF SensorInv, S!TypeOK, Room
<1>1. ASSUME S!TakeMessage PROVE S!TypeOK'
  BY <1>1 DEF S!TakeMessage
<1>2. ASSUME S!AddSample PROVE S!TypeOK'
  <2>1. sequence + 1 \in 1..MaxSeq
    BY <1>2 DEF S!AddSample
  <2>2. samples' \in Seq(1..MaxSeq) /\ Len(samples') <= Capacity
    BY <1>2, <2>1, AddedTyped DEF S!AddSample
  <2>3. wpc' \in [Waiter -> {"idle", "checked", "asleep", "awake", "got", "timeout"}]
    BY <1>2 DEF S!AddSample
  <2>4. taken' \in BOOLEAN
    BY <1>2 DEF S!AddSample
  <2>5. UNCHANGED <<open, after, expired, calls>>
    BY <1>2 DEF S!AddSample
  <2>6. sequence' \in 0..MaxSeq
    BY <1>2, <2>1 DEF S!AddSample
  <2>. QED BY <2>2, <2>3, <2>4, <2>5, <2>6
<1>3. ASSUME S!Close PROVE S!TypeOK'
  BY <1>3 DEF S!Close
<1>4. ASSUME NEW w \in Waiter, S!CheckReady(w) PROVE S!TypeOK'
  BY <1>4 DEF S!CheckReady
<1>5. ASSUME NEW w \in Waiter, S!WaitNext(w) PROVE S!TypeOK'
  <2>1. S!Newest \in 0..MaxSeq /\ \A a \in 0..sequence : a \in 0..MaxSeq
    BY NewestTyped
  <2>2. PICK a \in 0..MaxSeq : S!EnterWait(w, a)
    BY <1>5, <2>1 DEF S!WaitNext
  <2>3. /\ after' \in [Waiter -> 0..MaxSeq] /\ expired' \in [Waiter -> BOOLEAN]
        /\ wpc' \in [Waiter -> {"idle", "checked", "asleep", "awake", "got",
                                "timeout"}]
        /\ UNCHANGED <<sequence, samples, open, taken>>
    BY <2>2 DEF S!EnterWait
  <2>4. CASE UNCHANGED calls
    BY <2>3, <2>4
  <2>5. CASE calls[w] < MaxCalls /\ calls' = [calls EXCEPT ![w] = calls[w] + 1]
    BY <2>3, <2>5
  <2>6. UNCHANGED calls \/ (calls[w] < MaxCalls /\ calls' = [calls EXCEPT ![w] = calls[w] + 1])
    BY <1>5 DEF S!WaitNext
  <2>. QED BY <2>4, <2>5, <2>6
<1>6. ASSUME NEW w \in Waiter, S!Expire(w) PROVE S!TypeOK'
  BY <1>6 DEF S!Expire
<1>7. ASSUME NEW w \in Waiter, S!Recheck(w) PROVE S!TypeOK'
  BY <1>7 DEF S!Recheck
<1>8. CASE UNCHANGED sensorVars
  BY <1>8 DEF sensorVars
<1>. QED BY <1>1, <1>2, <1>3, <1>4, <1>5, <1>6, <1>7, <1>8 DEF S!Next

LEMMA RoomKept == SensorInv /\ [S!Next]_sensorVars => Room'
<1> SUFFICES ASSUME SensorInv, [S!Next]_sensorVars PROVE Room'
  OBVIOUS
<1> USE ConstantAssumption DEF SensorInv, S!TypeOK, Room
<1>1. ASSUME S!TakeMessage PROVE Room'
  BY <1>1 DEF S!TakeMessage
<1>2. ASSUME S!AddSample PROVE Room'
  BY <1>2 DEF S!AddSample
<1>3. ASSUME S!Close PROVE Room'
  BY <1>3 DEF S!Close
<1>4. ASSUME NEW w \in Waiter, S!CheckReady(w) PROVE Room'
  BY <1>4 DEF S!CheckReady
<1>5. ASSUME NEW w \in Waiter, S!WaitNext(w) PROVE Room'
  BY <1>5 DEF S!WaitNext, S!EnterWait
<1>6. ASSUME NEW w \in Waiter, S!Expire(w) PROVE Room'
  BY <1>6 DEF S!Expire
<1>7. ASSUME NEW w \in Waiter, S!Recheck(w) PROVE Room'
  BY <1>7 DEF S!Recheck
<1>8. CASE UNCHANGED sensorVars
  BY <1>8 DEF sensorVars
<1>. QED BY <1>1, <1>2, <1>3, <1>4, <1>5, <1>6, <1>7, <1>8 DEF S!Next

\* The newest sample depends on the buffer only.
LEMMA NewestKept == ASSUME UNCHANGED samples PROVE S!Newest' = S!Newest
BY DEF S!Newest

LEMMA SleepKept == SensorInv /\ [S!Next]_sensorVars => NoSleepOnNews'
<1> SUFFICES ASSUME SensorInv, [S!Next]_sensorVars PROVE NoSleepOnNews'
  OBVIOUS
<1> USE NewestTyped, ConstantAssumption DEF SensorInv, S!TypeOK,
  NoSleepOnNews, S!NoSleepOnNews
<1>1. ASSUME S!TakeMessage PROVE NoSleepOnNews'
  BY <1>1, NewestKept DEF S!TakeMessage
<1>2. ASSUME S!AddSample PROVE NoSleepOnNews'
  BY <1>2 DEF S!AddSample
<1>3. ASSUME S!Close PROVE NoSleepOnNews'
  BY <1>3, NewestKept DEF S!Close
<1>4. ASSUME NEW w \in Waiter, S!CheckReady(w) PROVE NoSleepOnNews'
  BY <1>4, NewestKept DEF S!CheckReady
<1>5. ASSUME NEW w \in Waiter, S!WaitNext(w) PROVE NoSleepOnNews'
  <2>1. S!Newest \in 0..MaxSeq /\ \A a \in 0..sequence : a \in 0..MaxSeq
    BY NewestTyped
  <2>2. PICK a \in 0..MaxSeq : S!EnterWait(w, a)
    BY <1>5, <2>1 DEF S!WaitNext
  <2>3. S!Newest' = S!Newest
    BY <2>2, NewestKept DEF S!EnterWait
  <2>. QED BY <2>1, <2>2, <2>3 DEF S!EnterWait
<1>6. ASSUME NEW w \in Waiter, S!Expire(w) PROVE NoSleepOnNews'
  BY <1>6, NewestKept DEF S!Expire
<1>7. ASSUME NEW w \in Waiter, S!Recheck(w) PROVE NoSleepOnNews'
  BY <1>7, NewestKept DEF S!Recheck
<1>8. CASE UNCHANGED sensorVars
  BY <1>8, NewestKept DEF sensorVars
<1>. QED BY <1>1, <1>2, <1>3, <1>4, <1>5, <1>6, <1>7, <1>8 DEF S!Next

LEMMA SensorKept == SensorInv /\ [S!Next]_sensorVars => SensorInv'
BY SensorTypeKept, RoomKept, SleepKept DEF SensorInv

\* sensing.py, SampleBuffer: no wakeup is lost, for any number of threads and any
\* history size.
THEOREM NoSleepOnNewsHolds == Spec => []NoSleepOnNews
<1>1. SensorInv => NoSleepOnNews
  BY DEF SensorInv, NoSleepOnNews
<1>. QED BY SensorInitially, SensorSteps, SensorKept, <1>1, PTL DEF Spec

-----------------------------------------------------------------------------
(* Bringup.                                                                *)

\* Until the launch is up there are no processes; from then on a robot is known
\* and has been given its processes, of which some may be gone.
Launched ==
  /\ launch \in {"off", "called", "refused"} =>
       /\ \A p \in B!Process : proc[p] = "absent"
       /\ unseen = {} /\ loaded = {} /\ switchedOn = {}
       /\ helpers = {} /\ gone = {}
  /\ launch # "off" => robot \in Robot
  /\ launch = "up" =>
       /\ proc["manager"] \in {"running", "failed"}
       /\ proc["broadcaster"] # "absent"
       /\ B!Unwatched \subseteq helpers \cup gone

\* The routes wait for the broadcaster's spawner, whose exit starts them or ends
\* the launch.
Staged ==
  /\ proc["broadcaster"] = "running" \/ "broadcaster" \in unseen =>
       proc["routes"] = "absent"
  /\ launch = "up" /\ proc["routes"] = "absent" =>
       proc["broadcaster"] = "running" \/ "broadcaster" \in unseen
  /\ \A p \in unseen : proc[p] \in {"ok", "failed"}

\* What the spawners did lasts as long as the controller manager.
Loaded ==
  proc["manager"] = "running" =>
    /\ proc["broadcaster"] = "ok" => B!Broadcaster \in switchedOn
    /\ proc["routes"] = "ok" => B!Routes \subseteq loaded

\* A failure that the launch goes on with has not been handled, but for those
\* that no handler looks at.
Noticed ==
  /\ launch = "up" /\ robot # "franka" =>
       \A p \in {"broadcaster", "routes"} : proc[p] = "failed" => p \in unseen
  /\ launch = "up" /\ robot = "franka" /\ proc["manager"] = "failed" =>
       "manager" \in unseen
  /\ robot # "franka" /\ proc["routes"] # "absent" => proc["broadcaster"] = "ok"

BringupInv == B!TypeOK /\ Launched /\ Staged /\ Loaded /\ Noticed

\* A step of the whole is one of this part, or leaves it alone.
LEMMA BringupSteps == [Next]_vars => [B!Next]_bringupVars
<1> SUFFICES ASSUME [Next]_vars PROVE [B!Next]_bringupVars
  OBVIOUS
<1>1. CASE part = "bringup" /\ Next
  BY <1>1 DEF Next, On, B!Next
<1>2. CASE part # "bringup" /\ Next
  BY <1>2 DEF Next, On
<1>3. CASE UNCHANGED vars
  BY <1>3 DEF vars
<1>. QED BY <1>1, <1>2, <1>3

LEMMA BringupInitially == Init => BringupInv
BY ConstantAssumption DEF Init, B!Init, BringupInv, B!TypeOK, Launched, Staged,
  Loaded, Noticed, B!Process

LEMMA BringupTypeKept == BringupInv /\ [B!Next]_bringupVars => B!TypeOK'
<1> SUFFICES ASSUME BringupInv, [B!Next]_bringupVars PROVE B!TypeOK'
  OBVIOUS
<1> USE ConstantAssumption DEF BringupInv, B!TypeOK, B!Process, Launched, B!Unwatched, B!Guards, B!Guard
<1>1. ASSUME B!CallLaunch PROVE B!TypeOK'
  BY <1>1 DEF B!CallLaunch, B!Routes
<1>2. ASSUME B!RefuseLaunch PROVE B!TypeOK'
  BY <1>2 DEF B!RefuseLaunch, B!Routes
<1>3. ASSUME B!StartMarvin PROVE B!TypeOK'
  BY <1>3 DEF B!StartMarvin, B!Routes
<1>4. ASSUME B!StartPiper PROVE B!TypeOK'
  BY <1>4 DEF B!StartPiper, B!Routes, B!Arguments, B!PiperArguments
<1>5. ASSUME B!StartFranka PROVE B!TypeOK'
  BY <1>5 DEF B!StartFranka, B!Routes
<1>6. ASSUME B!BroadcasterSpawnerExits PROVE B!TypeOK'
  BY <1>6 DEF B!BroadcasterSpawnerExits, B!Exits, B!Routes
<1>7. ASSUME B!RouteSpawnerExits PROVE B!TypeOK'
  BY <1>7 DEF B!RouteSpawnerExits, B!Exits, B!Routes
<1>8. ASSUME B!ManagerExits PROVE B!TypeOK'
  BY <1>8 DEF B!ManagerExits, B!Exits, B!Routes
<1>9. ASSUME NEW h \in B!Unwatched, B!HelperExits(h) PROVE B!TypeOK'
  BY <1>9 DEF B!HelperExits, B!Routes
<1>10. ASSUME NEW p \in B!Process, B!HandleExit(p) PROVE B!TypeOK'
  BY <1>10 DEF B!HandleExit, B!AfterBroadcaster, B!AfterRoutes, B!AfterManager,
    B!StartRoutes, B!ShutDown, B!Routes
<1>11. ASSUME B!EndAll PROVE B!TypeOK'
  BY <1>11 DEF B!EndAll, B!Routes
<1>12. CASE UNCHANGED bringupVars
  BY <1>12 DEF bringupVars, B!Routes
<1>. QED BY <1>1, <1>2, <1>3, <1>4, <1>5, <1>6, <1>7, <1>8, <1>9, <1>10, <1>11, <1>12
  DEF B!Next

LEMMA LaunchedKept == BringupInv /\ [B!Next]_bringupVars => Launched'
<1> SUFFICES ASSUME BringupInv, [B!Next]_bringupVars PROVE Launched'
  OBVIOUS
<1> USE ConstantAssumption DEF BringupInv, B!TypeOK, B!Process, Launched, B!Unwatched, B!Guards, B!Guard,
  Staged
<1>1. ASSUME B!CallLaunch PROVE Launched'
  BY <1>1 DEF B!CallLaunch
<1>2. ASSUME B!RefuseLaunch PROVE Launched'
  BY <1>2 DEF B!RefuseLaunch
<1>3. ASSUME B!StartMarvin PROVE Launched'
  BY <1>3 DEF B!StartMarvin, B!Arguments, B!MarvinArguments, B!PiperArguments,
    B!FrankaArguments
<1>4. ASSUME B!StartPiper PROVE Launched'
  BY <1>4 DEF B!StartPiper, B!Arguments, B!MarvinArguments, B!PiperArguments,
    B!FrankaArguments
<1>5. ASSUME B!StartFranka PROVE Launched'
  BY <1>5 DEF B!StartFranka, B!Arguments, B!MarvinArguments, B!PiperArguments,
    B!FrankaArguments
<1>6. ASSUME B!BroadcasterSpawnerExits PROVE Launched'
  BY <1>6 DEF B!BroadcasterSpawnerExits, B!Exits
<1>7. ASSUME B!RouteSpawnerExits PROVE Launched'
  BY <1>7 DEF B!RouteSpawnerExits, B!Exits
<1>8. ASSUME B!ManagerExits PROVE Launched'
  BY <1>8 DEF B!ManagerExits, B!Exits
<1>9. ASSUME NEW h \in B!Unwatched, B!HelperExits(h) PROVE Launched'
  BY <1>9 DEF B!HelperExits
<1>10. ASSUME NEW p \in B!Process, B!HandleExit(p) PROVE Launched'
  BY <1>10 DEF B!HandleExit, B!AfterBroadcaster, B!AfterRoutes, B!AfterManager,
    B!StartRoutes, B!ShutDown
<1>11. ASSUME B!EndAll PROVE Launched'
  BY <1>11 DEF B!EndAll
<1>12. CASE UNCHANGED bringupVars
  BY <1>12 DEF bringupVars
<1>. QED BY <1>1, <1>2, <1>3, <1>4, <1>5, <1>6, <1>7, <1>8, <1>9, <1>10, <1>11, <1>12
  DEF B!Next

LEMMA StagedKept == BringupInv /\ [B!Next]_bringupVars => Staged'
<1> SUFFICES ASSUME BringupInv, [B!Next]_bringupVars PROVE Staged'
  OBVIOUS
<1> USE ConstantAssumption DEF BringupInv, B!TypeOK, B!Process, Launched,
  Staged
<1>1. ASSUME B!CallLaunch PROVE Staged'
  BY <1>1 DEF B!CallLaunch
<1>2. ASSUME B!RefuseLaunch PROVE Staged'
  BY <1>2 DEF B!RefuseLaunch
<1>3. ASSUME B!StartMarvin PROVE Staged'
  BY <1>3 DEF B!StartMarvin
<1>4. ASSUME B!StartPiper PROVE Staged'
  BY <1>4 DEF B!StartPiper
<1>5. ASSUME B!StartFranka PROVE Staged'
  BY <1>5 DEF B!StartFranka
<1>6. ASSUME B!BroadcasterSpawnerExits PROVE Staged'
  BY <1>6 DEF B!BroadcasterSpawnerExits, B!Exits
<1>7. ASSUME B!RouteSpawnerExits PROVE Staged'
  BY <1>7 DEF B!RouteSpawnerExits, B!Exits
<1>8. ASSUME B!ManagerExits PROVE Staged'
  BY <1>8 DEF B!ManagerExits, B!Exits
<1>9. ASSUME NEW h \in B!Unwatched, B!HelperExits(h) PROVE Staged'
  BY <1>9 DEF B!HelperExits
<1>10. ASSUME NEW p \in B!Process, B!HandleExit(p) PROVE Staged'
  BY <1>10 DEF B!HandleExit, B!AfterBroadcaster, B!AfterRoutes, B!AfterManager,
    B!StartRoutes, B!ShutDown
<1>11. ASSUME B!EndAll PROVE Staged'
  BY <1>11 DEF B!EndAll
<1>12. CASE UNCHANGED bringupVars
  BY <1>12 DEF bringupVars
<1>. QED BY <1>1, <1>2, <1>3, <1>4, <1>5, <1>6, <1>7, <1>8, <1>9, <1>10, <1>11, <1>12
  DEF B!Next

LEMMA LoadedKept == BringupInv /\ [B!Next]_bringupVars => Loaded'
<1> SUFFICES ASSUME BringupInv, [B!Next]_bringupVars PROVE Loaded'
  OBVIOUS
<1> USE ConstantAssumption DEF BringupInv, B!TypeOK, B!Process, Launched,
  Staged, Loaded
<1>1. ASSUME B!CallLaunch PROVE Loaded'
  BY <1>1 DEF B!CallLaunch, B!Routes
<1>2. ASSUME B!RefuseLaunch PROVE Loaded'
  BY <1>2 DEF B!RefuseLaunch, B!Routes
<1>3. ASSUME B!StartMarvin PROVE Loaded'
  BY <1>3 DEF B!StartMarvin, B!Routes
<1>4. ASSUME B!StartPiper PROVE Loaded'
  BY <1>4 DEF B!StartPiper, B!Routes
<1>5. ASSUME B!StartFranka PROVE Loaded'
  BY <1>5 DEF B!StartFranka, B!Routes
<1>6. ASSUME B!BroadcasterSpawnerExits PROVE Loaded'
  BY <1>6 DEF B!BroadcasterSpawnerExits, B!Exits, B!Routes
<1>7. ASSUME B!RouteSpawnerExits PROVE Loaded'
  BY <1>7 DEF B!RouteSpawnerExits, B!Exits, B!Routes
<1>8. ASSUME B!ManagerExits PROVE Loaded'
  BY <1>8 DEF B!ManagerExits, B!Exits, B!Routes
<1>9. ASSUME NEW h \in B!Unwatched, B!HelperExits(h) PROVE Loaded'
  BY <1>9 DEF B!HelperExits, B!Routes
<1>10. ASSUME NEW p \in B!Process, B!HandleExit(p) PROVE Loaded'
  BY <1>10 DEF B!HandleExit, B!AfterBroadcaster, B!AfterRoutes, B!AfterManager,
    B!StartRoutes, B!ShutDown, B!Routes
<1>11. ASSUME B!EndAll PROVE Loaded'
  BY <1>11 DEF B!EndAll, B!Routes
<1>12. CASE UNCHANGED bringupVars
  BY <1>12 DEF bringupVars, B!Routes
<1>. QED BY <1>1, <1>2, <1>3, <1>4, <1>5, <1>6, <1>7, <1>8, <1>9, <1>10, <1>11, <1>12
  DEF B!Next

LEMMA NoticedKept == BringupInv /\ [B!Next]_bringupVars => Noticed'
<1> SUFFICES ASSUME BringupInv, [B!Next]_bringupVars PROVE Noticed'
  OBVIOUS
<1> USE ConstantAssumption DEF BringupInv, B!TypeOK, B!Process, Launched,
  Staged, Noticed
<1>1. ASSUME B!CallLaunch PROVE Noticed'
  BY <1>1 DEF B!CallLaunch
<1>2. ASSUME B!RefuseLaunch PROVE Noticed'
  BY <1>2 DEF B!RefuseLaunch
<1>3. ASSUME B!StartMarvin PROVE Noticed'
  BY <1>3 DEF B!StartMarvin
<1>4. ASSUME B!StartPiper PROVE Noticed'
  BY <1>4 DEF B!StartPiper
<1>5. ASSUME B!StartFranka PROVE Noticed'
  BY <1>5 DEF B!StartFranka
<1>6. ASSUME B!BroadcasterSpawnerExits PROVE Noticed'
  BY <1>6 DEF B!BroadcasterSpawnerExits, B!Exits
<1>7. ASSUME B!RouteSpawnerExits PROVE Noticed'
  BY <1>7 DEF B!RouteSpawnerExits, B!Exits
<1>8. ASSUME B!ManagerExits PROVE Noticed'
  BY <1>8 DEF B!ManagerExits, B!Exits
<1>9. ASSUME NEW h \in B!Unwatched, B!HelperExits(h) PROVE Noticed'
  BY <1>9 DEF B!HelperExits
<1>10. ASSUME NEW p \in B!Process, B!HandleExit(p) PROVE Noticed'
  BY <1>10 DEF B!HandleExit, B!AfterBroadcaster, B!AfterRoutes, B!AfterManager,
    B!StartRoutes, B!ShutDown
<1>11. ASSUME B!EndAll PROVE Noticed'
  BY <1>11 DEF B!EndAll
<1>12. CASE UNCHANGED bringupVars
  BY <1>12 DEF bringupVars
<1>. QED BY <1>1, <1>2, <1>3, <1>4, <1>5, <1>6, <1>7, <1>8, <1>9, <1>10, <1>11, <1>12
  DEF B!Next

LEMMA BringupKept == BringupInv /\ [B!Next]_bringupVars => BringupInv'
BY BringupTypeKept, LaunchedKept, StagedKept, LoadedKept, NoticedKept
  DEF BringupInv

\* Launch files: no half of a robot stays up but for the failures that they do
\* not look at, for any set of the three robots and all their arguments.
THEOREM NoHalfRobotHolds == Spec => []NoHalfRobot
<1>1. ASSUME BringupInv PROVE NoHalfRobot
  <2> USE <1>1 DEF BringupInv
  <2>1. ASSUME B!Settled PROVE
          /\ \/ B!Broadcaster \in switchedOn /\ B!Routes \subseteq loaded
             \/ robot # "franka" /\ proc["manager"] = "failed"
             \/ robot = "franka" /\ "failed" \in {proc["broadcaster"], proc["routes"]}
          /\ gone = {} => B!Guards \subseteq helpers
    <3>1. /\ launch = "up" /\ unseen = {}
          /\ proc["broadcaster"] \in {"ok", "failed"}
          /\ proc["routes"] \in {"ok", "failed"}
      BY <2>1 DEF B!Settled, B!TypeOK, B!Process, Launched, Staged
    <3>2. proc["manager"] \in {"running", "failed"}
      BY <3>1 DEF Launched
    <3>. QED BY <3>1, <3>2 DEF Launched, Loaded, Noticed, B!Unwatched
  <2>2. robot # "franka" /\ proc["routes"] # "absent" => proc["broadcaster"] = "ok"
    BY DEF Noticed
  <2>. QED BY <2>1, <2>2 DEF NoHalfRobot, B!NoHalfRobot
<1>. QED BY BringupInitially, BringupSteps, BringupKept, <1>1, PTL DEF Spec

-----------------------------------------------------------------------------
(* CameraCapture.                                                          *)

\* The buffers of the device.
Buffers == 1..granted

\* While the device is opened its buffers are mapped and queued in their order;
\* a device that failed to open or was closed has none.
Opening ==
  /\ life \in {"open", "query", "format", "request"} =>
       mapped = {} /\ driver = {} /\ filled = {}
  /\ life \in {"prepare", "stream", "live", "joining"} => granted \in Count \ {0}
  /\ life = "prepare" =>
       /\ filled = {}
       /\ \E k \in 0..granted - 1 : driver = 1..k /\ mapped \in {1..k, 1..k + 1}
  /\ life = "stream" => filled = {} /\ driver = Buffers
  /\ life \in {"stream", "live", "joining"} => mapped = Buffers
  /\ life \in {"failed", "gone"} => mapped = {} /\ ~fd
  /\ life \in {"live", "joining"} <=> loop # "none" /\ life # "gone"
  /\ life = "gone" => loop = "ended"

\* While the loop runs every buffer is in the driver, or one of them is in the
\* loop's hand with the frame that was in it when it was dequeued.
Round ==
  /\ driver \cap filled = {}
  /\ loop \in {"head", "select", "dequeue"} => driver \cup filled = Buffers
  /\ loop \in {"publish", "requeue"} =>
       held \in Buffers /\ driver \cup filled = Buffers \ {held}
  /\ loop = "publish" => memory[held] = took

CameraInv == C!TypeOK /\ Opening /\ Round

\* A step of the whole is one of this part, or leaves it alone.
LEMMA CameraSteps == [Next]_vars => [C!Next]_cameraVars
<1> SUFFICES ASSUME [Next]_vars PROVE [C!Next]_cameraVars
  OBVIOUS
<1>1. CASE part = "camera" /\ Next
  BY <1>1 DEF Next, On, C!Next
<1>2. CASE part # "camera" /\ Next
  BY <1>2 DEF Next, On
<1>3. CASE UNCHANGED vars
  BY <1>3 DEF vars
<1>. QED BY <1>1, <1>2, <1>3

LEMMA CameraInitially == Init => CameraInv
<1> SUFFICES ASSUME Init PROVE CameraInv
  OBVIOUS
<1>1. memory \in [C!Slots -> Frame \cup {<<>>}] /\ message \in Seq(C!Byte)
  BY EmptySeq DEF Init, C!Init
<1>2. C!TypeOK
  BY <1>1 DEF Init, C!Init, C!TypeOK
<1>. QED BY <1>2 DEF Init, C!Init, CameraInv, Opening, Round

\* The buffers of a granted number are slots.
LEMMA BuffersAreSlots == ASSUME NEW n \in Count PROVE 1..n \subseteq C!Slots
BY DEF C!Slots

\* A set of numbers below a number, other than the empty one, has a greatest one.
LEMMA Greatest ==
  ASSUME NEW n \in Nat, NEW T, T \subseteq 1..n, T # {}
  PROVE  \E i \in T : \A j \in T : j <= i
<1> DEFINE Bounds == {m \in Nat : \A j \in T : j <= m}
<1> DEFINE less == OpToRel(<, Nat)
<1>1. n \in Bounds
  OBVIOUS
<1>2. \E m \in Bounds : \A k \in Bounds : ~(<<k, m>> \in less)
  <2> HIDE DEF less
  <2>1. IsWellFoundedOn(less, Nat)
    BY NatLessThanWellFounded DEF less
  <2>2. Bounds \subseteq Nat /\ Bounds # {}
    BY <1>1
  <2> HIDE DEF Bounds
  <2>. QED BY <2>1, <2>2, WFMin
<1>3. \A k, m \in Nat : k < m => <<k, m>> \in less
  BY Zenon DEF OpToRel
<1> HIDE DEF less
<1>4. PICK m \in Bounds : \A k \in Bounds : ~(<<k, m>> \in less)
  BY <1>2
<1>5. m \in Nat /\ \A j \in T : j <= m /\ j \in Nat \ {0}
  BY <1>4
<1>6. m # 0
  <2>1. PICK j \in T : TRUE
    OBVIOUS
  <2>. QED BY <1>5, <2>1
<1>7. m - 1 \in Nat /\ m - 1 < m
  BY <1>5, <1>6
<1>8. m - 1 \notin Bounds
  BY <1>3, <1>4, <1>5, <1>7
<1>9. PICK j \in T : ~(j <= m - 1)
  BY <1>7, <1>8
<1>10. j = m
  BY <1>5, <1>7, <1>9
<1>. QED BY <1>5, <1>10

\* The payload of a frame is a sequence of bytes.
LEMMA PayloadTyped ==
  ASSUME NEW d \in Seq(C!Byte), Len(d) >= 4
  PROVE  C!Payload(d) \in Seq(C!Byte)
<1> DEFINE ends == {i \in 2..Len(d) : d[i - 1] = "FF" /\ d[i] = "D9"}
<1> DEFINE final == CHOOSE i \in ends : \A j \in ends : j <= i
<1>1. Len(d) \in Nat /\ \A i \in 1..Len(d) : d[i] \in C!Byte
  BY LenProperties, ElementOfSeq
<1>2. C!Payload(d) =
        IF Len(d) < 4 \/ d[1] # "FF" \/ d[2] # "D8" \/ ends = {}
        THEN d ELSE SubSeq(d, 1, final)
  BY DEF C!Payload
<1>3. CASE ends = {}
  BY <1>2, <1>3
<1>4. CASE ends # {}
  <2>1. ends \subseteq 1..Len(d)
    BY <1>1
  <2> HIDE DEF ends
  <2>2. \E i \in ends : \A j \in ends : j <= i
    BY <1>1, <1>4, <2>1, Greatest
  <2>3. final \in ends
    BY <2>2
  <2> HIDE DEF final
  <2>4. final \in 1..Len(d)
    BY <2>1, <2>3
  <2>5. \A i \in 1..final : d[i] \in C!Byte
    BY <1>1, <2>4
  <2>6. SubSeq(d, 1, final) \in Seq(C!Byte)
    BY <1>1, <2>4, <2>5, SubSeqProperties
  <2>. QED BY <1>2, <2>6
<1>. QED BY <1>3, <1>4

\* The next buffer to prepare.
LEMMA NextBuffer ==
  ASSUME NEW k \in Nat
  PROVE  C!Cardinality(1..k) + 1 = k + 1
<1>1. Cardinality(1..k) = k
  BY FS_Interval
<1>2. C!Cardinality(1..k) = Cardinality(1..k)
  BY DEF C!Cardinality, Cardinality
<1>. QED BY <1>1, <1>2

\* One buffer after the other is mapped, then queued.
LEMMA Prepares ==
  ASSUME CameraInv, C!PrepareBuffer
  PROVE  /\ granted \in Count \ {0} /\ granted \in Nat /\ life = "prepare"
         /\ \E k \in 0..granted - 1 :
              /\ driver = 1..k
              /\ \/ /\ mapped = 1..k /\ mapped' = 1..k + 1
                    /\ UNCHANGED <<driver, life>>
                 \/ /\ mapped = 1..k + 1 /\ driver' = 1..k + 1
                    /\ life' = IF k + 1 = granted THEN "stream" ELSE "prepare"
                    /\ UNCHANGED mapped
         /\ UNCHANGED <<fd, granted, filled, memory, running, loop, held, took, message>>
<1>1. granted \in Count \ {0} /\ granted \in Nat /\ life = "prepare"
  BY ConstantAssumption DEF C!PrepareBuffer, CameraInv, Opening
<1>2. PICK k \in 0..granted - 1 : driver = 1..k /\ mapped \in {1..k, 1..k + 1}
  BY <1>1 DEF CameraInv, Opening
<1>3. C!Cardinality(driver) + 1 = k + 1
  BY <1>1, <1>2, NextBuffer
<1>4. (1..k) \cup {k + 1} = 1..k + 1 /\ k + 1 \notin 1..k
  BY <1>1, <1>2
<1>5. \/ /\ k + 1 \notin mapped /\ mapped' = mapped \cup {k + 1}
         /\ UNCHANGED <<driver, life>>
      \/ /\ k + 1 \in mapped /\ driver' = driver \cup {k + 1}
         /\ life' = IF k + 1 = granted THEN "stream" ELSE "prepare"
         /\ UNCHANGED mapped
  BY <1>3 DEF C!PrepareBuffer
<1>6. k + 1 \in 1..k + 1
  BY <1>1, <1>2
<1>7. UNCHANGED <<fd, granted, filled, memory, running, loop, held, took, message>>
  BY DEF C!PrepareBuffer
<1>. QED BY <1>1, <1>2, <1>4, <1>5, <1>6, <1>7

LEMMA CameraTypeKept == CameraInv /\ [C!Next]_cameraVars => C!TypeOK'
<1> SUFFICES ASSUME CameraInv, [C!Next]_cameraVars PROVE C!TypeOK'
  OBVIOUS
<1> USE ConstantAssumption, BuffersAreSlots DEF CameraInv, C!TypeOK, Opening
<1>1. ASSUME C!OpeningFails PROVE C!TypeOK'
  BY <1>1 DEF C!OpeningFails, C!CloseDevice
<1>2. ASSUME C!OpenDevice PROVE C!TypeOK'
  BY <1>2 DEF C!OpenDevice
<1>3. ASSUME C!QueryCapability PROVE C!TypeOK'
  BY <1>3 DEF C!QueryCapability
<1>4. ASSUME C!SetFormat PROVE C!TypeOK'
  BY <1>4 DEF C!SetFormat
<1>5. ASSUME C!RequestBuffers PROVE C!TypeOK'
  <2>1. granted' \in Count /\ life' = "prepare"
    BY <1>5 DEF C!RequestBuffers
  <2>. QED BY <1>5, <2>1 DEF C!RequestBuffers
<1>6. ASSUME C!PrepareBuffer PROVE C!TypeOK'
  <2>1. granted \in Count \ {0} /\ granted \in Nat /\ life = "prepare"
    BY <1>6, Prepares
  <2>2. PICK k \in 0..granted - 1 :
          /\ driver = 1..k
          /\ \/ /\ mapped = 1..k /\ mapped' = 1..k + 1
                /\ UNCHANGED <<driver, life>>
             \/ /\ mapped = 1..k + 1 /\ driver' = 1..k + 1
                /\ life' = IF k + 1 = granted THEN "stream" ELSE "prepare"
                /\ UNCHANGED mapped
    BY <1>6, Prepares
  <2>3. UNCHANGED <<fd, granted, filled, memory, running, loop, held, took, message>>
    BY <1>6, Prepares
  <2>4. 1..k + 1 \subseteq 1..granted /\ 1..granted \subseteq C!Slots
    BY <2>1, <2>2, BuffersAreSlots
  <2>. QED BY <2>2, <2>3, <2>4
<1>7. ASSUME C!StreamOn PROVE C!TypeOK'
  BY <1>7 DEF C!StreamOn
<1>8. ASSUME C!LoopHead PROVE C!TypeOK'
  BY <1>8 DEF C!LoopHead
<1>9. ASSUME C!Select PROVE C!TypeOK'
  BY <1>9 DEF C!Select
<1>10. ASSUME C!Dequeue PROVE C!TypeOK'
  BY <1>10 DEF C!Dequeue
<1>11. ASSUME C!Publish PROVE C!TypeOK'
  <2>1. message' \in Seq(C!Byte)
    <3>1. CASE held \in mapped /\ C!Len(memory[held]) >= 4
      <4>1. memory[held] \in Seq(C!Byte)
        BY <3>1, ConstantAssumption, EmptySeq DEF C!Byte
      <4>. QED BY <1>11, <3>1, <4>1, PayloadTyped DEF C!Publish
    <3>2. CASE ~(held \in mapped /\ C!Len(memory[held]) >= 4)
      BY <1>11, <3>2 DEF C!Publish
    <3>. QED BY <3>1, <3>2
  <2>. QED BY <1>11, <2>1 DEF C!Publish
<1>12. ASSUME C!Requeue PROVE C!TypeOK'
  <2>1. loop = "requeue" /\ held \in C!Slots
    BY <1>12, ConstantAssumption DEF C!Requeue, Round, Buffers
  <2>. QED BY <1>12, <2>1 DEF C!Requeue
<1>13. ASSUME C!StopLoop PROVE C!TypeOK'
  BY <1>13 DEF C!StopLoop
<1>14. ASSUME C!JoinAndClose PROVE C!TypeOK'
  BY <1>14 DEF C!JoinAndClose, C!CloseDevice
<1>15. ASSUME NEW b \in C!Slots, C!DriverFills(b) PROVE C!TypeOK'
  BY <1>15 DEF C!DriverFills
<1>16. CASE UNCHANGED cameraVars
  BY <1>16 DEF cameraVars
<1>. QED BY <1>1, <1>2, <1>3, <1>4, <1>5, <1>6, <1>7, <1>8, <1>9, <1>10,
  <1>11, <1>12, <1>13, <1>14, <1>15, <1>16 DEF C!Next

LEMMA OpeningKept == CameraInv /\ [C!Next]_cameraVars => Opening'
<1> SUFFICES ASSUME CameraInv, [C!Next]_cameraVars PROVE Opening'
  OBVIOUS
<1> USE ConstantAssumption DEF CameraInv, C!TypeOK, Opening, Round, Buffers
<1>1. ASSUME C!OpeningFails PROVE Opening'
  BY <1>1 DEF C!OpeningFails, C!CloseDevice
<1>2. ASSUME C!OpenDevice PROVE Opening'
  BY <1>2 DEF C!OpenDevice
<1>3. ASSUME C!QueryCapability PROVE Opening'
  BY <1>3 DEF C!QueryCapability
<1>4. ASSUME C!SetFormat PROVE Opening'
  BY <1>4 DEF C!SetFormat
<1>5. ASSUME C!RequestBuffers PROVE Opening'
  <2>1. PICK n \in Count : n >= 2 /\ granted' = n
    BY <1>5 DEF C!RequestBuffers
  <2>2. n \in Nat /\ n # 0 /\ 0 \in 0..n - 1 /\ 1..0 = {}
    BY <2>1
  <2>3. \E k \in 0..granted' - 1 : driver' = 1..k /\ mapped' \in {1..k, 1..k + 1}
    BY <1>5, <2>1, <2>2 DEF C!RequestBuffers
  <2>. QED BY <1>5, <2>1, <2>2, <2>3 DEF C!RequestBuffers
<1>6. ASSUME C!PrepareBuffer PROVE Opening'
  <2>1. granted \in Count \ {0} /\ granted \in Nat /\ life = "prepare"
    BY <1>6, Prepares
  <2>2. PICK k \in 0..granted - 1 :
          /\ driver = 1..k
          /\ \/ /\ mapped = 1..k /\ mapped' = 1..k + 1
                /\ UNCHANGED <<driver, life>>
             \/ /\ mapped = 1..k + 1 /\ driver' = 1..k + 1
                /\ life' = IF k + 1 = granted THEN "stream" ELSE "prepare"
                /\ UNCHANGED mapped
    BY <1>6, Prepares
  <2>3. UNCHANGED <<fd, granted, filled, memory, running, loop, held, took, message>>
    BY <1>6, Prepares
  <2>4. CASE mapped = 1..k /\ mapped' = 1..k + 1 /\ UNCHANGED <<driver, life>>
    BY <2>1, <2>2, <2>3, <2>4
  <2>5. CASE /\ mapped = 1..k + 1 /\ driver' = 1..k + 1 /\ UNCHANGED mapped
             /\ k + 1 = granted /\ life' = "stream"
    BY <2>1, <2>2, <2>3, <2>5
  <2>6. CASE /\ mapped = 1..k + 1 /\ driver' = 1..k + 1 /\ UNCHANGED mapped
             /\ k + 1 # granted /\ life' = "prepare"
    <3>1. k + 1 \in 0..granted' - 1 /\ driver' = 1..k + 1 /\ mapped' = 1..k + 1
      BY <2>1, <2>2, <2>3, <2>6
    <3>. QED BY <2>1, <2>2, <2>3, <2>6, <3>1
  <2>. QED BY <2>2, <2>4, <2>5, <2>6
<1>7. ASSUME C!StreamOn PROVE Opening'
  BY <1>7 DEF C!StreamOn
<1>8. ASSUME C!LoopHead PROVE Opening'
  BY <1>8 DEF C!LoopHead
<1>9. ASSUME C!Select PROVE Opening'
  BY <1>9 DEF C!Select
<1>10. ASSUME C!Dequeue PROVE Opening'
  BY <1>10 DEF C!Dequeue
<1>11. ASSUME C!Publish PROVE Opening'
  BY <1>11 DEF C!Publish
<1>12. ASSUME C!Requeue PROVE Opening'
  BY <1>12 DEF C!Requeue
<1>13. ASSUME C!StopLoop PROVE Opening'
  BY <1>13 DEF C!StopLoop
<1>14. ASSUME C!JoinAndClose PROVE Opening'
  BY <1>14 DEF C!JoinAndClose, C!CloseDevice
<1>15. ASSUME NEW b \in C!Slots, C!DriverFills(b) PROVE Opening'
  BY <1>15 DEF C!DriverFills
<1>16. CASE UNCHANGED cameraVars
  BY <1>16 DEF cameraVars
<1>. QED BY <1>1, <1>2, <1>3, <1>4, <1>5, <1>6, <1>7, <1>8, <1>9, <1>10,
  <1>11, <1>12, <1>13, <1>14, <1>15, <1>16 DEF C!Next

LEMMA RoundKept == CameraInv /\ [C!Next]_cameraVars => Round'
<1> SUFFICES ASSUME CameraInv, [C!Next]_cameraVars PROVE Round'
  OBVIOUS
<1> USE ConstantAssumption DEF CameraInv, C!TypeOK, Opening, Round, Buffers
<1>1. ASSUME C!OpeningFails PROVE Round'
  BY <1>1 DEF C!OpeningFails, C!CloseDevice
<1>2. ASSUME C!OpenDevice PROVE Round'
  BY <1>2 DEF C!OpenDevice
<1>3. ASSUME C!QueryCapability PROVE Round'
  BY <1>3 DEF C!QueryCapability
<1>4. ASSUME C!SetFormat PROVE Round'
  BY <1>4 DEF C!SetFormat
<1>5. ASSUME C!RequestBuffers PROVE Round'
  BY <1>5 DEF C!RequestBuffers
<1>6. ASSUME C!PrepareBuffer PROVE Round'
  BY <1>6, Prepares DEF C!PrepareBuffer
<1>7. ASSUME C!StreamOn PROVE Round'
  BY <1>7 DEF C!StreamOn
<1>8. ASSUME C!LoopHead PROVE Round'
  BY <1>8 DEF C!LoopHead
<1>9. ASSUME C!Select PROVE Round'
  BY <1>9 DEF C!Select
<1>10. ASSUME C!Dequeue PROVE Round'
  BY <1>10 DEF C!Dequeue
<1>11. ASSUME C!Publish PROVE Round'
  BY <1>11 DEF C!Publish
<1>12. ASSUME C!Requeue PROVE Round'
  BY <1>12 DEF C!Requeue
<1>13. ASSUME C!StopLoop PROVE Round'
  BY <1>13 DEF C!StopLoop
<1>14. ASSUME C!JoinAndClose PROVE Round'
  BY <1>14 DEF C!JoinAndClose, C!CloseDevice
<1>15. ASSUME NEW b \in C!Slots, C!DriverFills(b) PROVE Round'
  BY <1>15 DEF C!DriverFills
<1>16. CASE UNCHANGED cameraVars
  BY <1>16 DEF cameraVars
<1>. QED BY <1>1, <1>2, <1>3, <1>4, <1>5, <1>6, <1>7, <1>8, <1>9, <1>10,
  <1>11, <1>12, <1>13, <1>14, <1>15, <1>16 DEF C!Next

LEMMA CameraKept == CameraInv /\ [C!Next]_cameraVars => CameraInv'
BY CameraTypeKept, OpeningKept, RoundKept DEF CameraInv

\* mjpeg_cam_node.cpp: buffers go round, the one in the loop's hand is untouched,
\* and a closed device leaves none behind, for any numbers of buffers.
THEOREM BuffersGoRoundHolds == Spec => []BuffersGoRound
<1>1. CameraInv => BuffersGoRound
  BY DEF CameraInv, Opening, Round, Buffers, BuffersGoRound, C!BuffersGoRound
<1>. QED BY CameraInitially, CameraSteps, CameraKept, <1>1, PTL DEF Spec
=============================================================================
