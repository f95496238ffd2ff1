------------------------ MODULE ServiceParts_proofs ------------------------
(***************************************************************************)
(* Proofs about the parts of Parts that call services, for any number of   *)
(* callers, plans, scopes and applications: EpisodeStore,                  *)
(* ControllerSwitch, PlanExecution and FaultRecovery.                      *)
(*                                                                         *)
(* Each part has its own inductive invariant over its own variables, and a *)
(* lemma says that every step of the whole is a step of the part or leaves *)
(* it alone.                                                               *)
(***************************************************************************)
EXTENDS Parts, FiniteSetTheorems, SequenceTheorems, TLAPS

-----------------------------------------------------------------------------
(* EpisodeStore.                                                           *)

EpisodeInv == E!TypeOK /\ RecordingHasAnEnd

\* A step of the whole is one of this part, or leaves it alone.
LEMMA EpisodeSteps == [Next]_vars => [E!Next]_episodeVars
<1> SUFFICES ASSUME [Next]_vars PROVE [E!Next]_episodeVars
  OBVIOUS
<1>1. CASE part = "episode" /\ Next
  BY <1>1 DEF Next, On, E!Next
<1>2. CASE part # "episode" /\ Next
  BY <1>2 DEF Next, On
<1>3. CASE UNCHANGED vars
  BY <1>3 DEF vars
<1>. QED BY <1>1, <1>2, <1>3

LEMMA EpisodeInitially == Init => EpisodeInv
<1> SUFFICES ASSUME Init PROVE EpisodeInv
  OBVIOUS
<1>1. facade \in BOOLEAN
  BY DEF Init, E!Init
<1>2. E!TypeOK
  BY <1>1, ConstantAssumption DEF Init, E!Init, E!TypeOK
<1>. QED BY <1>2 DEF Init, E!Init, EpisodeInv, RecordingHasAnEnd,
  E!RecordingHasAnEnd

LEMMA EpisodeKept == EpisodeInv /\ [E!Next]_episodeVars => EpisodeInv'
<1> SUFFICES ASSUME EpisodeInv, [E!Next]_episodeVars PROVE EpisodeInv'
  OBVIOUS
<1> USE ConstantAssumption DEF EpisodeInv, E!TypeOK, RecordingHasAnEnd,
  E!RecordingHasAnEnd
<1>1. ASSUME E!Activate PROVE EpisodeInv'
  BY <1>1 DEF E!Activate
<1>2. ASSUME E!DiscardAny PROVE EpisodeInv'
  BY <1>2 DEF E!DiscardAny
<1>3. ASSUME E!Close PROVE EpisodeInv'
  BY <1>3 DEF E!Close
<1>4. ASSUME NEW s \in Scope, E!Enter(s) PROVE EpisodeInv'
  BY <1>4 DEF E!Enter
<1>5. ASSUME NEW s \in Scope, E!Discard(s) PROVE EpisodeInv'
  BY <1>5 DEF E!Discard, E!Ended
<1>6. ASSUME NEW s \in Scope, E!ExitByError(s) PROVE EpisodeInv'
  BY <1>6 DEF E!ExitByError, E!Ended
<1>7. ASSUME NEW s \in Scope, E!ExitNormally(s) PROVE EpisodeInv'
  BY <1>7 DEF E!ExitNormally, E!Ended
<1>8. CASE UNCHANGED episodeVars
  BY <1>8 DEF episodeVars
<1>. QED BY <1>1, <1>2, <1>3, <1>4, <1>5, <1>6, <1>7, <1>8 DEF E!Next

\* recording.py, EpisodeScope: whoever started the recording that goes on is
\* still there to end it, or a call of its failed, or its scope is worn out.
THEOREM RecordingHasAnEndHolds == Spec => []RecordingHasAnEnd
<1>1. EpisodeInv => RecordingHasAnEnd
  BY DEF EpisodeInv, RecordingHasAnEnd
<1>. QED BY EpisodeInitially, EpisodeSteps, EpisodeKept, <1>1, PTL DEF Spec

-----------------------------------------------------------------------------
(* ControllerSwitch.                                                       *)

\* What is asked of the manager is loaded, a caller that has returned asks
\* nothing any more, and what the second list has confirmed is so.
Requests ==
  \A k \in Caller :
    /\ request[k].on \subseteq known
    /\ cpc[k] = "done" => W!Bare(request[k])
    /\ cpc[k] = "verify" /\ reply[k] = "confirmed" /\ k \notin disturbed =>
         W!Confirmed(k)

SwitchInv == W!TypeOK /\ Requests /\ ReturnedMeansSwitched

\* A step of the whole is one of this part, or leaves it alone.
LEMMA SwitchSteps == [Next]_vars => [W!Next]_switchVars
<1> SUFFICES ASSUME [Next]_vars PROVE [W!Next]_switchVars
  OBVIOUS
<1>1. CASE part = "switch" /\ Next
  BY <1>1 DEF Next, On, W!Next
<1>2. CASE part # "switch" /\ Next
  BY <1>2 DEF Next, On
<1>3. CASE UNCHANGED vars
  BY <1>3 DEF vars
<1>. QED BY <1>1, <1>2, <1>3

LEMMA SwitchInitially == Init => SwitchInv
<1> SUFFICES ASSUME Init PROVE SwitchInv
  OBVIOUS
<1>1. W!Cardinality(working) <= 1
  BY FS_EmptySet DEF Init, W!Init, W!Cardinality, Cardinality
<1>2. W!Nothing \in W!Request
  BY DEF W!Nothing, W!Request
<1>3. /\ wish \in [Caller -> W!Request] /\ request \in [Caller -> W!Request]
      /\ cpc \in [Caller -> {"idle", "list", "switch", "verify", "done", "skipped",
                             "raised"}]
      /\ reply \in [Caller -> {"none", "ok", "rejected", "confirmed", "refuted"}]
  BY <1>2 DEF Init, W!Init
<1>4. known \subseteq Controller /\ working \subseteq known /\ disturbed \subseteq Caller
  BY DEF Init, W!Init
<1>5. W!TypeOK
  BY <1>1, <1>3, <1>4 DEF W!TypeOK
<1>. QED BY <1>5 DEF Init, W!Init, SwitchInv, Requests,
  ReturnedMeansSwitched, W!ReturnedMeansSwitched, W!Nothing, W!Bare

LEMMA SwitchTypeKept == SwitchInv /\ [W!Next]_switchVars => W!TypeOK'
<1> SUFFICES ASSUME SwitchInv, [W!Next]_switchVars PROVE W!TypeOK'
  OBVIOUS
<1> USE DEF SwitchInv, W!TypeOK, Requests, W!Request, W!Nothing
<1>1. ASSUME NEW k \in Caller, W!Begin(k) PROVE W!TypeOK'
  BY <1>1 DEF W!Begin
<1>2. ASSUME NEW k \in Caller, W!Listed(k) PROVE W!TypeOK'
  BY <1>2 DEF W!Listed
<1>3. ASSUME NEW k \in Caller, W!ServeSwitch(k) PROVE W!TypeOK'
  BY <1>3 DEF W!ServeSwitch, W!Told
<1>4. ASSUME NEW k \in Caller, W!Switched(k) PROVE W!TypeOK'
  BY <1>4 DEF W!Switched
<1>5. ASSUME NEW k \in Caller, W!Verify(k) PROVE W!TypeOK'
  BY <1>5 DEF W!Verify
<1>6. ASSUME NEW k \in Caller, W!TimesOut(k) PROVE W!TypeOK'
  BY <1>6 DEF W!TimesOut
<1>7. ASSUME NEW c \in Controller, W!Load(c) PROVE W!TypeOK'
  BY <1>7 DEF W!Load
<1>8. ASSUME NEW k \in Caller, W!ServeList(k) PROVE W!TypeOK'
  BY <1>8 DEF W!ServeList
<1>9. CASE UNCHANGED switchVars
  BY <1>9 DEF switchVars
<1>. QED BY <1>1, <1>2, <1>3, <1>4, <1>5, <1>6, <1>7, <1>8, <1>9 DEF W!Next

LEMMA RequestsKept == SwitchInv /\ [W!Next]_switchVars => Requests'
<1> SUFFICES ASSUME SwitchInv, [W!Next]_switchVars PROVE Requests'
  OBVIOUS
<1> USE DEF SwitchInv, W!TypeOK, Requests, W!Request, W!Nothing, W!Bare,
  W!Confirmed
<1>1. ASSUME NEW k \in Caller, W!Begin(k) PROVE Requests'
  BY <1>1 DEF W!Begin
<1>2. ASSUME NEW k \in Caller, W!Listed(k) PROVE Requests'
  BY <1>2 DEF W!Listed
<1>3. ASSUME NEW k \in Caller, W!ServeSwitch(k) PROVE Requests'
  BY <1>3 DEF W!ServeSwitch, W!Told
<1>4. ASSUME NEW k \in Caller, W!Switched(k) PROVE Requests'
  BY <1>4 DEF W!Switched
<1>5. ASSUME NEW k \in Caller, W!Verify(k) PROVE Requests'
  BY <1>5 DEF W!Verify
<1>6. ASSUME NEW k \in Caller, W!TimesOut(k) PROVE Requests'
  BY <1>6 DEF W!TimesOut
<1>7. ASSUME NEW c \in Controller, W!Load(c) PROVE Requests'
  BY <1>7 DEF W!Load
<1>8. ASSUME NEW k \in Caller, W!ServeList(k) PROVE Requests'
  BY <1>8 DEF W!ServeList
<1>9. CASE UNCHANGED switchVars
  BY <1>9 DEF switchVars
<1>. QED BY <1>1, <1>2, <1>3, <1>4, <1>5, <1>6, <1>7, <1>8, <1>9 DEF W!Next

LEMMA ReturnedKept == SwitchInv /\ [W!Next]_switchVars => ReturnedMeansSwitched'
<1> SUFFICES ASSUME SwitchInv, [W!Next]_switchVars PROVE ReturnedMeansSwitched'
  OBVIOUS
<1> USE DEF SwitchInv, W!TypeOK, Requests, W!Request, W!Nothing, W!Bare,
  ReturnedMeansSwitched, W!ReturnedMeansSwitched
<1>1. ASSUME NEW k \in Caller, W!Begin(k) PROVE ReturnedMeansSwitched'
  BY <1>1 DEF W!Begin
<1>2. ASSUME NEW k \in Caller, W!Listed(k) PROVE ReturnedMeansSwitched'
  BY <1>2 DEF W!Listed
<1>3. ASSUME NEW k \in Caller, W!ServeSwitch(k) PROVE ReturnedMeansSwitched'
  BY <1>3 DEF W!ServeSwitch, W!Told
<1>4. ASSUME NEW k \in Caller, W!Switched(k) PROVE ReturnedMeansSwitched'
  BY <1>4 DEF W!Switched
<1>5. ASSUME NEW k \in Caller, W!Verify(k) PROVE ReturnedMeansSwitched'
  BY <1>5 DEF W!Verify, W!Confirmed
<1>6. ASSUME NEW k \in Caller, W!TimesOut(k) PROVE ReturnedMeansSwitched'
  BY <1>6 DEF W!TimesOut
<1>7. ASSUME NEW c \in Controller, W!Load(c) PROVE ReturnedMeansSwitched'
  BY <1>7 DEF W!Load
<1>8. ASSUME NEW k \in Caller, W!ServeList(k) PROVE ReturnedMeansSwitched'
  BY <1>8 DEF W!ServeList
<1>9. CASE UNCHANGED switchVars
  BY <1>9 DEF switchVars
<1>. QED BY <1>1, <1>2, <1>3, <1>4, <1>5, <1>6, <1>7, <1>8, <1>9 DEF W!Next

LEMMA SwitchKept == SwitchInv /\ [W!Next]_switchVars => SwitchInv'
BY SwitchTypeKept, RequestsKept, ReturnedKept DEF SwitchInv

\* controllers.py, switch_controller: a verified return tells the truth of what
\* was asked for until another caller's switch changes it.
THEOREM ReturnedMeansSwitchedHolds == Spec => []ReturnedMeansSwitched
<1>1. SwitchInv => ReturnedMeansSwitched
  BY DEF SwitchInv, ReturnedMeansSwitched
<1>. QED BY SwitchInitially, SwitchSteps, SwitchKept, <1>1, PTL DEF Spec

-----------------------------------------------------------------------------
(* PlanExecution.                                                          *)

\* A cancel of p has nothing left to reach: it was sent to p's goal, somebody
\* else took the handle away, or the goal was over.
Answered(p) == p \in reached[p] \/ p \in displaced \/ goal[p] \in P!Ended

\* The handle of a goal that was accepted stays in the slot until then.
Handles ==
  \A p \in Plan :
    /\ start[p] \in {P!None, "ready"} => goal[p] = P!None
    /\ state[p] # P!None \/ waits[p] # "no" \/ asks[p] # "no" =>
         start[p] = "accepted"
    /\ start[p] = "accepted" => handle = p \/ Answered(p)
    /\ asks[p] # "no" \/ own[p] => Answered(p)

PlanInv == P!TypeOK /\ Handles

\* A step of the whole is one of this part, or leaves it alone.
LEMMA PlanSteps == [Next]_vars => [P!Next]_planVars
<1> SUFFICES ASSUME [Next]_vars PROVE [P!Next]_planVars
  OBVIOUS
<1>1. CASE part = "plan" /\ Next
  BY <1>1 DEF Next, On, P!Next
<1>2. CASE part # "plan" /\ Next
  BY <1>2 DEF Next, On
<1>3. CASE UNCHANGED vars
  BY <1>3 DEF vars
<1>. QED BY <1>1, <1>2, <1>3

LEMMA PlanInitially == Init => PlanInv
BY ConstantAssumption DEF Init, P!Init, PlanInv, P!TypeOK, P!None, Handles

LEMMA PlanTypeKept == PlanInv /\ [P!Next]_planVars => P!TypeOK'
<1> SUFFICES ASSUME PlanInv, [P!Next]_planVars PROVE P!TypeOK'
  OBVIOUS
<1> USE DEF PlanInv, P!TypeOK, P!None, P!Ended, P!ExecState
<1>1. ASSUME P!Unbind PROVE P!TypeOK'
  BY <1>1 DEF P!Unbind, P!Slot
<1>2. ASSUME NEW p \in Plan, P!Execute(p) PROVE P!TypeOK'
  BY <1>2 DEF P!Execute
<1>3. ASSUME NEW p \in Plan, P!Send(p) PROVE P!TypeOK'
  BY <1>3 DEF P!Send
<1>4. ASSUME NEW p \in Plan, P!Accepted(p) PROVE P!TypeOK'
  BY <1>4 DEF P!Accepted, P!Slot
<1>5. ASSUME NEW p \in Plan, P!NotAccepted(p) PROVE P!TypeOK'
  BY <1>5 DEF P!NotAccepted
<1>6. ASSUME NEW p \in Plan, P!Wait(p) PROVE P!TypeOK'
  BY <1>6 DEF P!Wait
<1>7. ASSUME NEW p \in Plan, P!WaitTimesOut(p) PROVE P!TypeOK'
  BY <1>7 DEF P!WaitTimesOut
<1>8. ASSUME NEW p \in Plan, P!WaitBreaks(p) PROVE P!TypeOK'
  BY <1>8 DEF P!WaitBreaks
<1>9. ASSUME NEW p \in Plan, P!ResultArrives(p) PROVE P!TypeOK'
  BY <1>9 DEF P!ResultArrives, P!Slot
<1>10. ASSUME NEW p \in Plan, P!WaitReturns(p) PROVE P!TypeOK'
  BY <1>10 DEF P!WaitReturns
<1>11. ASSUME NEW p \in Plan, P!Cancel(p) PROVE P!TypeOK'
  BY <1>11 DEF P!Cancel, P!Slot
<1>12. ASSUME NEW p \in Plan, P!CancelReturns(p) PROVE P!TypeOK'
  BY <1>12 DEF P!CancelReturns
<1>13. ASSUME NEW p \in Plan, P!CancelTimesOut(p) PROVE P!TypeOK'
  BY <1>13 DEF P!CancelTimesOut
<1>14. ASSUME NEW p \in Plan, P!GoalAccepted(p) PROVE P!TypeOK'
  BY <1>14 DEF P!GoalAccepted
<1>15. ASSUME NEW p \in Plan, P!GoalEnds(p) PROVE P!TypeOK'
  BY <1>15 DEF P!GoalEnds
<1>16. CASE UNCHANGED planVars
  BY <1>16 DEF planVars
<1>. QED BY <1>1, <1>2, <1>3, <1>4, <1>5, <1>6, <1>7, <1>8, <1>9, <1>10,
  <1>11, <1>12, <1>13, <1>14, <1>15, <1>16 DEF P!Next

LEMMA HandlesKept == PlanInv /\ [P!Next]_planVars => Handles'
<1> SUFFICES ASSUME PlanInv, [P!Next]_planVars PROVE Handles'
  OBVIOUS
<1> USE ConstantAssumption DEF PlanInv, P!TypeOK, P!None, P!Ended, Answered,
  Handles
<1>1. ASSUME P!Unbind PROVE Handles'
  BY <1>1 DEF P!Unbind, P!Slot
<1>2. ASSUME NEW p \in Plan, P!Execute(p) PROVE Handles'
  BY <1>2 DEF P!Execute
<1>3. ASSUME NEW p \in Plan, P!Send(p) PROVE Handles'
  BY <1>3 DEF P!Send
<1>4. ASSUME NEW p \in Plan, P!Accepted(p) PROVE Handles'
  BY <1>4 DEF P!Accepted, P!Slot
<1>5. ASSUME NEW p \in Plan, P!NotAccepted(p) PROVE Handles'
  BY <1>5 DEF P!NotAccepted
<1>6. ASSUME NEW p \in Plan, P!Wait(p) PROVE Handles'
  BY <1>6 DEF P!Wait
<1>7. ASSUME NEW p \in Plan, P!WaitTimesOut(p) PROVE Handles'
  BY <1>7 DEF P!WaitTimesOut
<1>8. ASSUME NEW p \in Plan, P!WaitBreaks(p) PROVE Handles'
  BY <1>8 DEF P!WaitBreaks
<1>9. ASSUME NEW p \in Plan, P!ResultArrives(p) PROVE Handles'
  BY <1>9 DEF P!ResultArrives, P!Slot
<1>10. ASSUME NEW p \in Plan, P!WaitReturns(p) PROVE Handles'
  BY <1>10 DEF P!WaitReturns
<1>11. ASSUME NEW p \in Plan, P!Cancel(p) PROVE Handles'
  BY <1>11 DEF P!Cancel, P!Slot
<1>12. ASSUME NEW p \in Plan, P!CancelReturns(p) PROVE Handles'
  BY <1>12 DEF P!CancelReturns
<1>13. ASSUME NEW p \in Plan, P!CancelTimesOut(p) PROVE Handles'
  BY <1>13 DEF P!CancelTimesOut
<1>14. ASSUME NEW p \in Plan, P!GoalAccepted(p) PROVE Handles'
  BY <1>14 DEF P!GoalAccepted
<1>15. ASSUME NEW p \in Plan, P!GoalEnds(p) PROVE Handles'
  BY <1>15 DEF P!GoalEnds
<1>16. CASE UNCHANGED planVars
  BY <1>16 DEF planVars
<1>. QED BY <1>1, <1>2, <1>3, <1>4, <1>5, <1>6, <1>7, <1>8, <1>9, <1>10,
  <1>11, <1>12, <1>13, <1>14, <1>15, <1>16 DEF P!Next

LEMMA PlanKept == PlanInv /\ [P!Next]_planVars => PlanInv'
BY PlanTypeKept, HandlesKept DEF PlanInv

\* agent.py, PlanExecution.cancel: a cancel() that returned asked its own goal to
\* stop, unless it was displaced or over.
THEOREM CancelReachesItsGoalHolds == Spec => []CancelReachesItsGoal
<1>1. PlanInv => CancelReachesItsGoal
  BY DEF PlanInv, Handles, Answered, CancelReachesItsGoal,
    P!CancelReachesItsGoal
<1>. QED BY PlanInitially, PlanSteps, PlanKept, <1>1, PTL DEF Spec

-----------------------------------------------------------------------------
(* FaultRecovery.                                                          *)

\* The claims of an application under way are of different tries, in their order;
\* the last one can be of the present try, which gets its answer then.
ClaimsOf(a) ==
  /\ \A k \in DOMAIN asked[a] : asked[a][k].try <= tries[a]
  /\ \A j, k \in DOMAIN asked[a] : j < k => asked[a][j].try < asked[a][k].try
  /\ rpc[a] \in {"start", "faulted"} =>
       \A k \in DOMAIN asked[a] : asked[a][k].try < tries[a]
  /\ rpc[a] = "claim" /\ answer[a] # "none" => asked[a] = << >>
  /\ rpc[a] = "release" => asked[a] = << >>

Claims == \A a \in App : ClaimsOf(a)

\* A claim not served, and a lease, belong to a recovery under way, or their call
\* raised on their try.
LeasesOf(a) ==
  /\ \A k \in DOMAIN asked[a] :
       \/ rpc[a] = "claim" /\ asked[a][k].try = tries[a]
       \/ <<a, asked[a][k].try, "claim">> \in gaveUp
  /\ \A r \in Resource, n \in 1..MaxTry : auth[r] = F!Recovery(a, n) =>
       \/ /\ n = tries[a]
          /\ rpc[a] = "release" \/ (rpc[a] = "claim" /\ answer[a] = "granted")
       \/ \E call \in {"claim", "release"} : <<a, n, call>> \in gaveUp

Leases == \A a \in App : LeasesOf(a)

InSession(r) == \E b \in App : auth[r] = F!Session(b)

\* The resources that a may be going to claim, or has claimed.
Wanted(a) ==
  {r \in Resource : \/ cache[a][r] = F!Fault /\ rpc[a] \in {"start", "faulted"}
                    \/ \E k \in DOMAIN asked[a] : r \in asked[a][k].targets}

\* One in a session was taken since the status that says FAULT of it.
Since == \A a \in App : \A r \in Wanted(a) : InSession(r) => r \in since[a]

RecoveryInv == F!TypeOK /\ Claims /\ Leases /\ Since

\* A step of the whole is one of this part, or leaves it alone.
LEMMA RecoverySteps == [Next]_vars => [F!Next]_recoveryVars
<1> SUFFICES ASSUME [Next]_vars PROVE [F!Next]_recoveryVars
  OBVIOUS
<1>1. CASE part = "recovery" /\ Next
  BY <1>1 DEF Next, On, F!Next
<1>2. CASE part # "recovery" /\ Next
  BY <1>2 DEF Next, On
<1>3. CASE UNCHANGED vars
  BY <1>3 DEF vars
<1>. QED BY <1>1, <1>2, <1>3

\* The states of a resource are told apart.
LEMMA Owners ==
  /\ \A a \in App : F!Session(a) \notin {F!Free, F!Fault, F!Unknown}
  /\ \A a \in App, n \in 1..MaxTry :
       F!Recovery(a, n) \notin {F!Free, F!Fault, F!Unknown}
  /\ F!Free # F!Fault /\ F!Free # F!Unknown /\ F!Fault # F!Unknown
  /\ \A a, b \in App, n \in 1..MaxTry : F!Session(a) # F!Recovery(b, n)
  /\ \A a, b \in App, m, n \in 1..MaxTry :
       F!Recovery(a, m) = F!Recovery(b, n) => a = b /\ m = n
BY DEF F!Session, F!Recovery, F!Free, F!Fault, F!Unknown

LEMMA OwnersTyped ==
  /\ \A a \in App : F!Session(a) \in F!Owner
  /\ \A a \in App, n \in 1..MaxTry : F!Recovery(a, n) \in F!Owner
BY DEF F!Owner, F!Recoveries

\* The claims of one application: taking the first one.
LEMMA Served ==
  ASSUME NEW T, NEW q \in Seq(T), q # << >>
  PROVE  /\ DOMAIN q = 1..Len(q) /\ Len(q) \in Nat \ {0}
         /\ Head(q) \in T /\ Head(q) = q[1]
         /\ Tail(q) \in Seq(T) /\ Len(Tail(q)) = Len(q) - 1
         /\ DOMAIN Tail(q) = 1..Len(q) - 1
         /\ \A k \in DOMAIN Tail(q) : k + 1 \in DOMAIN q /\ Tail(q)[k] = q[k + 1]
BY HeadTailProperties, EmptySeq, SeqEqual, LenProperties

\* Adding one.
LEMMA Added ==
  ASSUME NEW T, NEW q \in Seq(T), NEW x \in T
  PROVE  /\ Append(q, x) \in Seq(T)
         /\ DOMAIN q = 1..Len(q) /\ DOMAIN Append(q, x) = 1..Len(q) + 1
         /\ Len(q) \in Nat
         /\ \A k \in DOMAIN q : Append(q, x)[k] = q[k]
         /\ Append(q, x)[Len(q) + 1] = x
BY AppendProperties, LenProperties

LEMMA RecoveryInitially == Init => RecoveryInv
<1> SUFFICES ASSUME Init PROVE RecoveryInv
  OBVIOUS
<1>1. F!TypeOK
  <2>1. /\ auth \in [Resource -> F!Owner \cup {F!Free, F!Fault}]
        /\ cache \in [App -> [Resource -> F!Owner \cup {F!Free, F!Fault, F!Unknown}]]
    BY DEF Init, F!Init
  <2>2. asked \in [App -> Seq([try : 1..MaxTry, targets : SUBSET Resource])]
    BY EmptySeq DEF Init, F!Init
  <2>3. /\ rpc \in [App -> {"start", "faulted", "claim", "release", "poll",
                            "prepared", "raised"}]
        /\ faulted \in [App -> SUBSET Resource]
        /\ answer \in [App -> {"none", "granted", "refused"}]
        /\ gaveUp \in SUBSET (App \X (1..MaxTry) \X {"claim", "release"})
        /\ since \in [App -> SUBSET Resource]
    BY DEF Init, F!Init
  <2>4. tries \in [App -> 1..MaxTry]
    BY ConstantAssumption DEF Init, F!Init
  <2>. QED BY <2>1, <2>2, <2>3, <2>4 DEF F!TypeOK
<1>2. Claims
  BY DEF Init, F!Init, Claims, ClaimsOf
<1>3. Leases
  BY Owners DEF Init, F!Init, Leases, LeasesOf
<1>4. Since
  BY Owners DEF Init, F!Init, Since, InSession, Wanted
<1>. QED BY <1>1, <1>2, <1>3, <1>4 DEF RecoveryInv

Claim == [try : 1..MaxTry, targets : SUBSET Resource]

\* The manager answers one claim, the first; the answer is for the present try
\* or for nobody.
LEMMA ServesFirst ==
  ASSUME F!TypeOK, NEW a \in App, F!ServeClaim(a)
  PROVE  /\ DOMAIN asked[a] = 1..Len(asked[a]) /\ Len(asked[a]) \in Nat \ {0}
         /\ asked[a] # << >> /\ asked[a][1] \in Claim
         /\ asked' \in [App -> Seq(Claim)]
         /\ DOMAIN asked'[a] = 1..Len(asked[a]) - 1
         /\ \A k \in DOMAIN asked'[a] :
              k + 1 \in DOMAIN asked[a] /\ asked'[a][k] = asked[a][k + 1]
         /\ Len(asked[a]) = 1 => asked'[a] = << >>
         /\ \A b \in App \ {a} : asked'[b] = asked[b]
         /\ auth' \in [Resource -> F!Owner \cup {F!Free, F!Fault}]
         /\ answer' \in [App -> {"none", "granted", "refused"}]
         /\ \A b \in App \ {a} : answer'[b] = answer[b]
         /\ ~(asked[a][1].try = tries[a] /\ rpc[a] = "claim") => answer'[a] = answer[a]
         /\ \A r \in Resource :
              \/ auth'[r] = auth[r]
              \/ /\ r \in asked[a][1].targets
                 /\ auth'[r] = F!Recovery(a, asked[a][1].try)
                 /\ asked[a][1].try = tries[a] /\ rpc[a] = "claim" => answer'[a] = "granted"
         /\ UNCHANGED <<cache, rpc, faulted, gaveUp, since, tries>>
<1>1. asked[a] \in Seq(Claim) /\ asked[a] # << >>
  BY DEF F!ServeClaim, F!TypeOK, Claim
<1>2. /\ DOMAIN asked[a] = 1..Len(asked[a]) /\ Len(asked[a]) \in Nat \ {0}
      /\ Head(asked[a]) \in Claim /\ Head(asked[a]) = asked[a][1]
      /\ Tail(asked[a]) \in Seq(Claim) /\ Len(Tail(asked[a])) = Len(asked[a]) - 1
      /\ DOMAIN Tail(asked[a]) = 1..Len(asked[a]) - 1
      /\ \A k \in DOMAIN Tail(asked[a]) :
           k + 1 \in DOMAIN asked[a] /\ Tail(asked[a])[k] = asked[a][k + 1]
  BY <1>1, Served
<1>3. asked' = [asked EXCEPT ![a] = Tail(asked[a])]
  BY DEF F!ServeClaim
<1>4. asked'[a] = Tail(asked[a]) /\ \A b \in App \ {a} : asked'[b] = asked[b]
  BY <1>3 DEF F!TypeOK
<1>5. asked' \in [App -> Seq(Claim)]
  BY <1>2, <1>3 DEF F!TypeOK, Claim
<1>6. Len(asked[a]) = 1 => Tail(asked[a]) = << >>
  BY <1>2, EmptySeq
<1>7. \/ /\ auth' = [r \in Resource |-> IF r \in asked[a][1].targets
                        THEN F!Recovery(a, asked[a][1].try) ELSE auth[r]]
         /\ answer' = [answer EXCEPT ![a] =
              IF asked[a][1].try = tries[a] /\ rpc[a] = "claim" THEN "granted" ELSE @]
      \/ /\ auth' = auth
         /\ answer' = [answer EXCEPT ![a] =
              IF asked[a][1].try = tries[a] /\ rpc[a] = "claim" THEN "refused" ELSE @]
  BY <1>2 DEF F!ServeClaim
<1>8. UNCHANGED <<cache, rpc, faulted, gaveUp, since, tries>>
  BY DEF F!ServeClaim
<1>9. F!Recovery(a, asked[a][1].try) \in F!Owner
  BY <1>2, OwnersTyped DEF Claim
<1>10. /\ auth' \in [Resource -> F!Owner \cup {F!Free, F!Fault}]
       /\ answer' \in [App -> {"none", "granted", "refused"}]
       /\ \A b \in App \ {a} : answer'[b] = answer[b]
       /\ ~(asked[a][1].try = tries[a] /\ rpc[a] = "claim") => answer'[a] = answer[a]
       /\ \A r \in Resource :
            \/ auth'[r] = auth[r]
            \/ /\ r \in asked[a][1].targets
               /\ auth'[r] = F!Recovery(a, asked[a][1].try)
               /\ asked[a][1].try = tries[a] /\ rpc[a] = "claim" => answer'[a] = "granted"
  <2>1. CASE /\ auth' = [r \in Resource |-> IF r \in asked[a][1].targets
                           THEN F!Recovery(a, asked[a][1].try) ELSE auth[r]]
             /\ answer' = [answer EXCEPT ![a] =
                  IF asked[a][1].try = tries[a] /\ rpc[a] = "claim" THEN "granted" ELSE @]
    BY <1>9, <2>1 DEF F!TypeOK
  <2>2. CASE /\ auth' = auth
             /\ answer' = [answer EXCEPT ![a] =
                  IF asked[a][1].try = tries[a] /\ rpc[a] = "claim" THEN "refused" ELSE @]
    BY <2>2 DEF F!TypeOK
  <2>. QED BY <1>7, <2>1, <2>2
<1>. QED BY <1>1, <1>2, <1>4, <1>5, <1>6, <1>8, <1>10

LEMMA RecoveryTypeKept == RecoveryInv /\ [F!Next]_recoveryVars => F!TypeOK'
<1> SUFFICES ASSUME RecoveryInv, [F!Next]_recoveryVars PROVE F!TypeOK'
  OBVIOUS
<1> USE ConstantAssumption, OwnersTyped DEF RecoveryInv, F!TypeOK
<1>1. ASSUME NEW a \in App, F!Unavailable(a) PROVE F!TypeOK'
  BY <1>1 DEF F!Unavailable, F!Go
<1>2. ASSUME NEW a \in App, F!Describe(a) PROVE F!TypeOK'
  BY <1>2 DEF F!Describe, F!LooksFaulty, F!Go
<1>3. ASSUME NEW a \in App, F!Filter(a) PROVE F!TypeOK'
  <2>1. PICK still \in {{}, faulted[a] \cap F!LooksFaulty(a)} :
          /\ asked' = [asked EXCEPT ![a] =
               IF still = {} THEN asked[a]
               ELSE Append(asked[a], [try |-> tries[a], targets |-> still])]
          /\ rpc' = [rpc EXCEPT ![a] = IF still = {} THEN "prepared" ELSE "claim"]
    BY <1>3 DEF F!Filter, F!Go
  <2>2. [try |-> tries[a], targets |-> still] \in Claim
    BY <2>1 DEF F!LooksFaulty, Claim
  <2>3. asked[a] \in Seq(Claim)
    BY DEF Claim
  <2>4. Append(asked[a], [try |-> tries[a], targets |-> still]) \in Seq(Claim)
    BY <2>2, <2>3, Added
  <2>5. asked' \in [App -> Seq(Claim)]
    BY <2>1, <2>3, <2>4 DEF Claim
  <2>6. answer' = [answer EXCEPT ![a] = "none"]
    BY <1>3 DEF F!Filter
  <2>. QED BY <1>3, <2>1, <2>5, <2>6 DEF F!Filter, Claim
<1>4. ASSUME NEW a \in App, F!ServeClaim(a) PROVE F!TypeOK'
  <2>1. asked[a][1] \in Claim /\ asked' \in [App -> Seq(Claim)]
    BY <1>4, ServesFirst
  <2>2. auth' \in [Resource -> F!Owner \cup {F!Free, F!Fault}]
    BY <1>4, <2>1, ServesFirst DEF Claim
  <2>3. answer' \in [App -> {"none", "granted", "refused"}]
    BY <1>4, ServesFirst
  <2>4. UNCHANGED <<cache, rpc, faulted, gaveUp, since, tries>>
    BY <1>4, ServesFirst
  <2>. QED BY <2>1, <2>2, <2>3, <2>4 DEF Claim
<1>5. ASSUME NEW a \in App, F!ClaimReturns(a) PROVE F!TypeOK'
  <2>1. rpc' \in {[rpc EXCEPT ![a] = "release"], [rpc EXCEPT ![a] = "raised"]}
    BY <1>5 DEF F!ClaimReturns, F!Raises, F!Go
  <2>2. gaveUp' \in {gaveUp, gaveUp \cup {<<a, tries[a], "claim">>}}
    BY <1>5 DEF F!ClaimReturns, F!Raises
  <2>3. gaveUp' \in SUBSET (App \X (1..MaxTry) \X {"claim", "release"})
    BY <2>2
  <2>4. /\ answer' = [answer EXCEPT ![a] = "none"]
        /\ UNCHANGED <<auth, cache, faulted, asked, since, tries>>
    BY <1>5 DEF F!ClaimReturns
  <2>. QED BY <2>1, <2>3, <2>4
<1>6. ASSUME NEW a \in App, F!GivesUp(a) PROVE F!TypeOK'
  <2>1. PICK call \in {"claim", "release"} :
          /\ rpc' = [rpc EXCEPT ![a] = "raised"]
          /\ gaveUp' = gaveUp \cup {<<a, tries[a], call>>}
    BY <1>6 DEF F!GivesUp, F!Raises, F!Go
  <2>2. gaveUp' \in SUBSET (App \X (1..MaxTry) \X {"claim", "release"})
    BY <2>1
  <2>3. /\ answer' = [answer EXCEPT ![a] = "none"]
        /\ UNCHANGED <<auth, cache, faulted, asked, since, tries>>
    BY <1>6 DEF F!GivesUp
  <2>. QED BY <2>1, <2>2, <2>3
<1>7. ASSUME NEW a \in App, F!Release(a) PROVE F!TypeOK'
  BY <1>7 DEF F!Release, F!FreedBy, F!Go
<1>8. ASSUME NEW a \in App, F!PollEnds(a) PROVE F!TypeOK'
  BY <1>8 DEF F!PollEnds, F!Go
<1>9. ASSUME NEW a \in App, F!Restart(a) PROVE F!TypeOK'
  <2>1. tries' \in [App -> 1..MaxTry]
    BY <1>9 DEF F!Restart
  <2>2. cache' \in [App -> [Resource -> F!Owner \cup {F!Free, F!Fault, F!Unknown}]]
    BY <1>9 DEF F!Restart
  <2>3. rpc' = [rpc EXCEPT ![a] = "start"]
    BY <1>9 DEF F!Restart, F!Go
  <2>. QED BY <1>9, <2>1, <2>2, <2>3 DEF F!Restart
<1>10. ASSUME NEW a \in App, F!StatusArrives(a) PROVE F!TypeOK'
  BY <1>10 DEF F!StatusArrives
<1>11. ASSUME NEW a \in App, NEW n \in 1..MaxTry, F!ReleaseLate(a, n) PROVE
  F!TypeOK'
  BY <1>11 DEF F!ReleaseLate, F!FreedBy
<1>12. ASSUME NEW a \in App, NEW r \in Resource, F!TakeForSession(a, r) PROVE
  F!TypeOK'
  BY <1>12 DEF F!TakeForSession
<1>13. ASSUME NEW a \in App, NEW r \in Resource, F!LeaveSession(a, r) PROVE
  F!TypeOK'
  BY <1>13 DEF F!LeaveSession
<1>14. ASSUME NEW r \in Resource, F!FaultOccurs(r) PROVE F!TypeOK'
  BY <1>14 DEF F!FaultOccurs
<1>15. CASE UNCHANGED recoveryVars
  BY <1>15 DEF recoveryVars
<1>. QED BY <1>1, <1>2, <1>3, <1>4, <1>5, <1>6, <1>7, <1>8, <1>9, <1>10,
  <1>11, <1>12, <1>13, <1>14, <1>15 DEF F!Next

LEMMA ClaimsKept == RecoveryInv /\ [F!Next]_recoveryVars => Claims'
<1> SUFFICES ASSUME RecoveryInv, [F!Next]_recoveryVars PROVE Claims'
  OBVIOUS
<1> USE ConstantAssumption DEF RecoveryInv, F!TypeOK, Claims, ClaimsOf
<1>1. ASSUME NEW a \in App, F!Unavailable(a) PROVE Claims'
  BY <1>1 DEF F!Unavailable, F!Go
<1>2. ASSUME NEW a \in App, F!Describe(a) PROVE Claims'
  BY <1>2 DEF F!Describe, F!LooksFaulty, F!Go
<1>3. ASSUME NEW a \in App, F!Filter(a) PROVE Claims'
  <2>1. PICK still \in {{}, faulted[a] \cap F!LooksFaulty(a)} :
          /\ asked' = [asked EXCEPT ![a] =
               IF still = {} THEN asked[a]
               ELSE Append(asked[a], [try |-> tries[a], targets |-> still])]
          /\ rpc' = [rpc EXCEPT ![a] = IF still = {} THEN "prepared" ELSE "claim"]
    BY <1>3 DEF F!Filter, F!Go
  <2>2. /\ rpc[a] = "faulted" /\ UNCHANGED tries
        /\ answer' = [answer EXCEPT ![a] = "none"]
    BY <1>3 DEF F!Filter
  <2>3. [try |-> tries[a], targets |-> still] \in Claim
    BY <2>1 DEF F!LooksFaulty, Claim
  <2>4. asked[a] \in Seq(Claim)
    BY DEF Claim
  <2>5. ASSUME NEW b \in App, b # a PROVE ClaimsOf(b)'
    BY <2>1, <2>2, <2>5
  <2>6. CASE still = {}
    BY <2>1, <2>2, <2>5, <2>6
  <2>7. CASE still # {}
    <3> DEFINE q == Append(asked[a], [try |-> tries[a], targets |-> still])
    <3>1. /\ Len(asked[a]) \in Nat /\ DOMAIN asked[a] = 1..Len(asked[a])
          /\ DOMAIN q = 1..Len(asked[a]) + 1
          /\ \A k \in DOMAIN asked[a] : q[k] = asked[a][k]
          /\ q[Len(asked[a]) + 1] = [try |-> tries[a], targets |-> still]
      BY <2>3, <2>4, Added
    <3>2. asked'[a] = q /\ rpc'[a] = "claim" /\ answer'[a] = "none"
      BY <2>1, <2>2, <2>7
    <3> HIDE DEF q
    <3>3. ASSUME NEW k \in DOMAIN q
          PROVE  \/ k \in DOMAIN asked[a] /\ q[k].try < tries[a]
                 \/ k = Len(asked[a]) + 1 /\ q[k].try = tries[a]
      BY <2>2, <3>1
    <3>4. ASSUME NEW j \in DOMAIN q, NEW k \in DOMAIN q, j < k
          PROVE  q[j].try < q[k].try
      <4>1. j \in DOMAIN asked[a]
        BY <3>1, <3>4
      <4>2. CASE k \in DOMAIN asked[a]
        BY <3>1, <3>4, <4>1, <4>2
      <4>3. CASE k \notin DOMAIN asked[a]
        BY <2>2, <3>1, <3>3, <4>1, <4>3
      <4>. QED BY <4>2, <4>3
    <3>5. \A k \in DOMAIN q : q[k].try <= tries[a]
      <4>1. tries[a] \in Nat
        OBVIOUS
      <4>2. \A k \in DOMAIN asked[a] : q[k].try <= tries[a]
        BY <3>1
      <4>. QED BY <3>3, <4>1, <4>2
    <3>6. ClaimsOf(a)'
      BY <2>2, <3>2, <3>4, <3>5
    <3> HIDE DEF ClaimsOf
    <3>. QED BY <2>5, <3>6
  <2>. QED BY <2>6, <2>7
<1>4. ASSUME NEW a \in App, F!ServeClaim(a) PROVE Claims'
  <2>1. /\ DOMAIN asked[a] = 1..Len(asked[a]) /\ Len(asked[a]) \in Nat \ {0}
        /\ asked[a] # << >>
        /\ DOMAIN asked'[a] = 1..Len(asked[a]) - 1
        /\ \A k \in DOMAIN asked'[a] :
             k + 1 \in DOMAIN asked[a] /\ asked'[a][k] = asked[a][k + 1]
        /\ Len(asked[a]) = 1 => asked'[a] = << >>
        /\ \A b \in App \ {a} : asked'[b] = asked[b]
        /\ UNCHANGED <<rpc, tries>>
    BY <1>4, ServesFirst
  <2>2. \A b \in App \ {a} : answer'[b] = answer[b]
    BY <1>4, ServesFirst
  <2>3. answer'[a] # answer[a] => asked[a][1].try = tries[a] /\ rpc[a] = "claim"
    BY <1>4, ServesFirst
  <2>4. asked[a][1].try = tries[a] => Len(asked[a]) = 1
    <3>1. CASE Len(asked[a]) > 1
      <4>1. 1 \in DOMAIN asked[a] /\ 2 \in DOMAIN asked[a]
        BY <2>1, <3>1
      <4>2. asked[a][1].try < asked[a][2].try /\ asked[a][2].try <= tries[a]
        BY <4>1
      <4> HIDE DEF ClaimsOf
      <4>3. asked[a] \in Seq(Claim) /\ tries[a] \in 1..MaxTry
        BY DEF Claim
      <4>5. asked[a][1] \in Claim /\ asked[a][2] \in Claim
        BY <4>1, <4>3
      <4>4. asked[a][1].try \in 1..MaxTry /\ asked[a][2].try \in 1..MaxTry
        BY <4>5 DEF Claim
      <4>. QED BY <4>2, <4>3, <4>4
    <3>. QED BY <2>1, <3>1
  <2>5. ASSUME NEW b \in App, b # a PROVE ClaimsOf(b)'
    BY <2>1, <2>2, <2>5
  <2>6. ASSUME NEW j \in DOMAIN asked'[a]
        PROVE  /\ asked'[a][j].try <= tries'[a]
               /\ \A k \in DOMAIN asked'[a] : j < k =>
                    asked'[a][j].try < asked'[a][k].try
               /\ rpc'[a] \in {"start", "faulted"} => asked'[a][j].try < tries'[a]
    <3>1. ClaimsOf(a) /\ j + 1 \in DOMAIN asked[a] /\ asked'[a][j] = asked[a][j + 1]
      BY <2>1
    <3>2. \A k \in DOMAIN asked'[a] : j < k => j + 1 < k + 1
      BY <2>1
    <3>3. \A k \in DOMAIN asked'[a] : j < k =>
            asked[a][j + 1].try < asked[a][k + 1].try
      BY <2>1, <3>1, <3>2
    <3>. QED BY <2>1, <3>1, <3>3
  <2>7. /\ rpc'[a] = "claim" /\ answer'[a] # "none" => asked'[a] = << >>
        /\ rpc'[a] = "release" => asked'[a] = << >>
    BY <2>1, <2>3, <2>4
  <2>8. ClaimsOf(a)'
    BY <2>6, <2>7
  <2> HIDE DEF ClaimsOf
  <2>. QED BY <2>5, <2>8
<1>5. ASSUME NEW a \in App, F!ClaimReturns(a) PROVE Claims'
  BY <1>5 DEF F!ClaimReturns, F!Raises, F!Go
<1>6. ASSUME NEW a \in App, F!GivesUp(a) PROVE Claims'
  BY <1>6 DEF F!GivesUp, F!Raises, F!Go
<1>7. ASSUME NEW a \in App, F!Release(a) PROVE Claims'
  BY <1>7 DEF F!Release, F!FreedBy, F!Go
<1>8. ASSUME NEW a \in App, F!PollEnds(a) PROVE Claims'
  BY <1>8 DEF F!PollEnds, F!Go
<1>9. ASSUME NEW a \in App, F!Restart(a) PROVE Claims'
  <2>1. /\ \A b \in App \ {a} : tries'[b] = tries[b] /\ rpc'[b] = rpc[b]
        /\ tries'[a] = tries[a] + 1 /\ rpc'[a] = "start"
        /\ UNCHANGED <<asked, answer>>
    BY <1>9 DEF F!Restart, F!Go
  <2>2. \A k \in DOMAIN asked[a] :
          asked[a][k].try \in 1..MaxTry /\ asked[a][k].try <= tries[a]
    <3> SUFFICES ASSUME NEW k \in DOMAIN asked[a]
                 PROVE asked[a][k].try \in 1..MaxTry
      OBVIOUS
    <3>1. asked[a] \in Seq(Claim)
      BY DEF Claim
    <3>2. asked[a][k] \in Claim
      BY <3>1
    <3>. QED BY <3>2 DEF Claim
  <2>3. tries[a] \in 1..MaxTry
    OBVIOUS
  <2>. QED BY <2>1, <2>2, <2>3
<1>10. ASSUME NEW a \in App, F!StatusArrives(a) PROVE Claims'
  BY <1>10 DEF F!StatusArrives
<1>11. ASSUME NEW a \in App, NEW n \in 1..MaxTry, F!ReleaseLate(a, n) PROVE
  Claims'
  BY <1>11 DEF F!ReleaseLate, F!FreedBy
<1>12. ASSUME NEW a \in App, NEW r \in Resource, F!TakeForSession(a, r) PROVE
  Claims'
  BY <1>12 DEF F!TakeForSession
<1>13. ASSUME NEW a \in App, NEW r \in Resource, F!LeaveSession(a, r) PROVE
  Claims'
  BY <1>13 DEF F!LeaveSession
<1>14. ASSUME NEW r \in Resource, F!FaultOccurs(r) PROVE Claims'
  BY <1>14 DEF F!FaultOccurs
<1>15. CASE UNCHANGED recoveryVars
  BY <1>15 DEF recoveryVars
<1>. QED BY <1>1, <1>2, <1>3, <1>4, <1>5, <1>6, <1>7, <1>8, <1>9, <1>10,
  <1>11, <1>12, <1>13, <1>14, <1>15 DEF F!Next

LEMMA LeasesKept == RecoveryInv /\ [F!Next]_recoveryVars => Leases'
<1> SUFFICES ASSUME RecoveryInv, [F!Next]_recoveryVars PROVE Leases'
  OBVIOUS
<1> USE ConstantAssumption, Owners DEF RecoveryInv, F!TypeOK, Leases, LeasesOf
<1>1. ASSUME NEW a \in App, F!Unavailable(a) PROVE Leases'
  BY <1>1, SMTT(30) DEF F!Unavailable, F!Go
<1>2. ASSUME NEW a \in App, F!Describe(a) PROVE Leases'
  BY <1>2 DEF F!Describe, F!LooksFaulty, F!Go
<1>3. ASSUME NEW a \in App, F!Filter(a) PROVE Leases'
  <2>1. PICK still \in {{}, faulted[a] \cap F!LooksFaulty(a)} :
          /\ asked' = [asked EXCEPT ![a] =
               IF still = {} THEN asked[a]
               ELSE Append(asked[a], [try |-> tries[a], targets |-> still])]
          /\ rpc' = [rpc EXCEPT ![a] = IF still = {} THEN "prepared" ELSE "claim"]
    BY <1>3 DEF F!Filter, F!Go
  <2>2. /\ rpc[a] = "faulted" /\ UNCHANGED <<auth, gaveUp, tries>>
        /\ answer' = [answer EXCEPT ![a] = "none"]
    BY <1>3 DEF F!Filter
  <2>3. [try |-> tries[a], targets |-> still] \in Claim /\ asked[a] \in Seq(Claim)
    BY <2>1 DEF F!LooksFaulty, Claim
  <2>4. ASSUME NEW b \in App, b # a PROVE LeasesOf(b)'
    BY <2>1, <2>2, <2>4
  <2>5. \A k \in DOMAIN asked[a] : <<a, asked[a][k].try, "claim">> \in gaveUp
    BY <2>2
  <2>6. ASSUME NEW k \in DOMAIN asked'[a]
        PROVE  \/ rpc'[a] = "claim" /\ asked'[a][k].try = tries'[a]
               \/ <<a, asked'[a][k].try, "claim">> \in gaveUp'
    <3>1. CASE still = {}
      BY <2>1, <2>2, <2>5, <3>1
    <3>2. CASE still # {}
      <4>1. /\ asked'[a] = Append(asked[a], [try |-> tries[a], targets |-> still])
            /\ rpc'[a] = "claim"
        BY <2>1, <3>2
      <4>2. /\ Len(asked[a]) \in Nat /\ DOMAIN asked[a] = 1..Len(asked[a])
            /\ DOMAIN asked'[a] = 1..Len(asked[a]) + 1
            /\ \A j \in DOMAIN asked[a] : asked'[a][j] = asked[a][j]
            /\ asked'[a][Len(asked[a]) + 1] = [try |-> tries[a], targets |-> still]
        BY <2>3, <4>1, Added
      <4>3. k \in DOMAIN asked[a] \/ k = Len(asked[a]) + 1
        BY <4>2
      <4>. QED BY <2>2, <2>5, <4>1, <4>2, <4>3
    <3>. QED BY <3>1, <3>2
  <2>7. \A r \in Resource, n \in 1..MaxTry : auth[r] = F!Recovery(a, n) =>
          \E call \in {"claim", "release"} : <<a, n, call>> \in gaveUp
    BY <2>2
  <2>8. LeasesOf(a)'
    BY <2>2, <2>6, <2>7
  <2> HIDE DEF LeasesOf
  <2>. QED BY <2>4, <2>8
<1>4. ASSUME NEW a \in App, F!ServeClaim(a) PROVE Leases'
  <2>1. /\ DOMAIN asked[a] = 1..Len(asked[a]) /\ Len(asked[a]) \in Nat \ {0}
        /\ asked[a] # << >> /\ asked[a][1] \in Claim
        /\ \A k \in DOMAIN asked'[a] :
             k + 1 \in DOMAIN asked[a] /\ asked'[a][k] = asked[a][k + 1]
        /\ \A b \in App \ {a} : asked'[b] = asked[b]
        /\ UNCHANGED <<rpc, tries, gaveUp>>
    BY <1>4, ServesFirst
  <2>2. \A b \in App \ {a} : answer'[b] = answer[b]
    BY <1>4, ServesFirst
  <2>3. \A r \in Resource : \/ auth'[r] = auth[r]
                            \/ /\ auth'[r] = F!Recovery(a, asked[a][1].try)
                               /\ asked[a][1].try = tries[a] /\ rpc[a] = "claim"
                                    => answer'[a] = "granted"
    BY <1>4, ServesFirst
  <2>4. asked[a][1].try \in 1..MaxTry /\ 1 \in DOMAIN asked[a]
    BY <2>1 DEF Claim
  <2>5. rpc[a] = "claim" => answer[a] = "none"
    BY <2>1 DEF Claims, ClaimsOf
  <2>6. ASSUME NEW b \in App, b # a PROVE LeasesOf(b)'
    <3>1. ASSUME NEW r \in Resource, NEW n \in 1..MaxTry, auth'[r] = F!Recovery(b, n)
          PROVE auth[r] = F!Recovery(b, n)
      BY <2>3, <2>4, <2>6, <3>1
    <3>2. LeasesOf(b) /\ asked'[b] = asked[b] /\ answer'[b] = answer[b]
      BY <2>1, <2>2, <2>6
    <3>. QED BY <2>1, <3>1, <3>2
  <2>7. \A k \in DOMAIN asked'[a] :
          \/ rpc[a] = "claim" /\ asked'[a][k].try = tries[a]
          \/ <<a, asked'[a][k].try, "claim">> \in gaveUp
    BY <2>1
  <2>8. ASSUME NEW r \in Resource, NEW n \in 1..MaxTry, auth'[r] = F!Recovery(a, n)
        PROVE  \/ n = tries[a] /\ rpc[a] = "claim" /\ answer'[a] = "granted"
               \/ n = tries[a] /\ rpc[a] = "release"
               \/ \E call \in {"claim", "release"} : <<a, n, call>> \in gaveUp
    <3>1. CASE auth[r] = F!Recovery(a, n)
      BY <2>5, <3>1
    <3>2. CASE auth[r] # F!Recovery(a, n)
      <4>1. n = asked[a][1].try
        BY <2>3, <2>4, <2>8, <3>2
      <4>2. n = tries[a] /\ rpc[a] = "claim" => answer'[a] = "granted"
        BY <2>3, <2>8, <3>2, <4>1
      <4>3. \/ rpc[a] = "claim" /\ n = tries[a]
            \/ <<a, n, "claim">> \in gaveUp
        BY <2>4, <4>1
      <4>. QED BY <4>2, <4>3
    <3>. QED BY <3>1, <3>2
  <2>9. LeasesOf(a)'
    BY <2>1, <2>7, <2>8
  <2> HIDE DEF LeasesOf
  <2>. QED BY <2>6, <2>9
<1>5. ASSUME NEW a \in App, F!ClaimReturns(a) PROVE Leases'
  <2>1. asked[a] = << >>
    BY <1>5 DEF F!ClaimReturns, Claims, ClaimsOf
  <2>2. /\ rpc[a] = "claim" /\ UNCHANGED <<auth, asked, tries>>
        /\ \A b \in App \ {a} : rpc'[b] = rpc[b] /\ answer'[b] = answer[b]
        /\ gaveUp \subseteq gaveUp'
    BY <1>5 DEF F!ClaimReturns, F!Raises, F!Go
  <2>3. \/ answer[a] = "granted" /\ rpc'[a] = "release"
        \/ answer[a] = "granted" /\ <<a, tries[a], "claim">> \in gaveUp'
        \/ answer[a] = "refused"
    BY <1>5 DEF F!ClaimReturns, F!Raises, F!Go
  <2>4. ASSUME NEW b \in App, b # a PROVE LeasesOf(b)'
    BY <2>2, <2>4
  <2>5. \A r \in Resource, n \in 1..MaxTry : auth[r] = F!Recovery(a, n) =>
          \/ n = tries[a] /\ answer[a] = "granted"
          \/ \E call \in {"claim", "release"} : <<a, n, call>> \in gaveUp'
    BY <2>2
  <2>6. \A r \in Resource, n \in 1..MaxTry : auth[r] = F!Recovery(a, n) =>
          \/ n = tries[a] /\ rpc'[a] = "release"
          \/ \E call \in {"claim", "release"} : <<a, n, call>> \in gaveUp'
    BY <2>3, <2>5
  <2>7. DOMAIN asked'[a] = {}
    BY <2>1, <2>2, EmptySeq
  <2>8. LeasesOf(a)'
    BY <2>2, <2>6, <2>7
  <2> HIDE DEF LeasesOf
  <2>. QED BY <2>4, <2>8
<1>6. ASSUME NEW a \in App, F!GivesUp(a) PROVE Leases'
  <2>1. PICK call \in {"claim", "release"} :
          /\ rpc[a] = call /\ gaveUp' = gaveUp \cup {<<a, tries[a], call>>}
          /\ rpc' = [rpc EXCEPT ![a] = "raised"]
    BY <1>6 DEF F!GivesUp, F!Raises, F!Go
  <2>2. UNCHANGED <<auth, asked, tries>> /\ \A b \in App \ {a} : answer'[b] = answer[b]
    BY <1>6 DEF F!GivesUp
  <2>3. <<a, tries[a], call>> \in gaveUp' /\ gaveUp \subseteq gaveUp'
    BY <2>1
  <2>4. ASSUME NEW b \in App, b # a PROVE LeasesOf(b)'
    BY <2>1, <2>2, <2>3, <2>4, ZenonT(60)
  <2>5. \A k \in DOMAIN asked[a] : <<a, asked[a][k].try, "claim">> \in gaveUp'
    BY <2>1, <2>3
  <2>6. \A r \in Resource, n \in 1..MaxTry : auth[r] = F!Recovery(a, n) =>
          \E c \in {"claim", "release"} : <<a, n, c>> \in gaveUp'
    BY <2>1, <2>3
  <2>7. LeasesOf(a)'
    BY <2>2, <2>5, <2>6
  <2> HIDE DEF LeasesOf
  <2>. QED BY <2>4, <2>7
<1>7. ASSUME NEW a \in App, F!Release(a) PROVE Leases'
  BY <1>7 DEF F!Release, F!FreedBy, F!Go
<1>8. ASSUME NEW a \in App, F!PollEnds(a) PROVE Leases'
  BY <1>8 DEF F!PollEnds, F!Go
<1>9. ASSUME NEW a \in App, F!Restart(a) PROVE Leases'
  BY <1>9 DEF F!Restart, F!Go
<1>10. ASSUME NEW a \in App, F!StatusArrives(a) PROVE Leases'
  BY <1>10 DEF F!StatusArrives
<1>11. ASSUME NEW a \in App, NEW n \in 1..MaxTry, F!ReleaseLate(a, n) PROVE
  Leases'
  BY <1>11 DEF F!ReleaseLate, F!FreedBy
<1>12. ASSUME NEW a \in App, NEW r \in Resource, F!TakeForSession(a, r) PROVE
  Leases'
  BY <1>12 DEF F!TakeForSession
<1>13. ASSUME NEW a \in App, NEW r \in Resource, F!LeaveSession(a, r) PROVE
  Leases'
  BY <1>13 DEF F!LeaveSession
<1>14. ASSUME NEW r \in Resource, F!FaultOccurs(r) PROVE Leases'
  BY <1>14 DEF F!FaultOccurs
<1>15. CASE UNCHANGED recoveryVars
  BY <1>15 DEF recoveryVars
<1>. QED BY <1>1, <1>2, <1>3, <1>4, <1>5, <1>6, <1>7, <1>8, <1>9, <1>10,
  <1>11, <1>12, <1>13, <1>14, <1>15 DEF F!Next

LEMMA SinceKept == RecoveryInv /\ [F!Next]_recoveryVars => Since'
<1> SUFFICES ASSUME RecoveryInv, [F!Next]_recoveryVars PROVE Since'
  OBVIOUS
<1> USE ConstantAssumption, Owners DEF RecoveryInv, F!TypeOK, Since, Wanted,
  InSession
<1>1. ASSUME NEW a \in App, F!Unavailable(a) PROVE Since'
  BY <1>1 DEF F!Unavailable, F!Go
<1>2. ASSUME NEW a \in App, F!Describe(a) PROVE Since'
  BY <1>2 DEF F!Describe, F!LooksFaulty, F!Go
<1>3. ASSUME NEW a \in App, F!Filter(a) PROVE Since'
  <2>1. PICK still \in {{}, faulted[a] \cap F!LooksFaulty(a)} :
          /\ asked' = [asked EXCEPT ![a] =
               IF still = {} THEN asked[a]
               ELSE Append(asked[a], [try |-> tries[a], targets |-> still])]
          /\ rpc' = [rpc EXCEPT ![a] = IF still = {} THEN "prepared" ELSE "claim"]
    BY <1>3 DEF F!Filter, F!Go
  <2>2. rpc[a] = "faulted" /\ UNCHANGED <<auth, cache, since>>
    BY <1>3 DEF F!Filter
  <2>3. [try |-> tries[a], targets |-> still] \in Claim /\ asked[a] \in Seq(Claim)
    BY <2>1 DEF F!LooksFaulty, Claim
  <2>4. ASSUME NEW b \in App, b # a PROVE Wanted(b)' = Wanted(b)
    BY <2>1, <2>2, <2>4
  <2>5. ASSUME NEW r \in Wanted(a)' PROVE r \in Wanted(a)
    <3>1. CASE still = {}
      BY <2>1, <2>2, <2>5, <3>1
    <3>2. CASE still # {}
      <4>1. /\ asked'[a] = Append(asked[a], [try |-> tries[a], targets |-> still])
            /\ rpc'[a] = "claim"
        BY <2>1, <3>2
      <4>2. /\ Len(asked[a]) \in Nat /\ DOMAIN asked[a] = 1..Len(asked[a])
            /\ DOMAIN asked'[a] = 1..Len(asked[a]) + 1
            /\ \A j \in DOMAIN asked[a] : asked'[a][j] = asked[a][j]
            /\ asked'[a][Len(asked[a]) + 1] = [try |-> tries[a], targets |-> still]
        BY <2>3, <4>1, Added
      <4>3. PICK k \in DOMAIN asked'[a] : r \in asked'[a][k].targets
        BY <2>5, <4>1
      <4>4. CASE k \in DOMAIN asked[a]
        BY <2>5, <4>2, <4>3, <4>4
      <4>5. CASE k = Len(asked[a]) + 1
        <5>1. r \in still
          BY <4>2, <4>3, <4>5
        <5>2. cache[a][r] = F!Fault
          BY <2>1, <5>1 DEF F!LooksFaulty
        <5>. QED BY <2>2, <2>5, <5>2
      <4>. QED BY <4>2, <4>3, <4>4, <4>5
    <3>. QED BY <3>1, <3>2
  <2>6. /\ \A r \in Resource : InSession(r)' <=> InSession(r)
        /\ \A b \in App : Wanted(b)' \subseteq Resource
    BY <2>2
  <2> HIDE DEF Wanted, InSession
  <2>. SUFFICES ASSUME NEW b \in App, NEW r \in Wanted(b)', InSession(r)'
                PROVE  r \in since'[b]
    OBVIOUS
  <2>7. r \in Wanted(b)
    BY <2>4, <2>5
  <2>8. InSession(r)
    BY <2>6
  <2>9. r \in since[b]
    BY <2>7, <2>8
  <2>. QED BY <2>2, <2>9
<1>4. ASSUME NEW a \in App, F!ServeClaim(a) PROVE Since'
  <2>1. /\ \A k \in DOMAIN asked'[a] :
             k + 1 \in DOMAIN asked[a] /\ asked'[a][k] = asked[a][k + 1]
        /\ \A b \in App \ {a} : asked'[b] = asked[b]
        /\ asked[a][1] \in Claim
        /\ UNCHANGED <<cache, rpc, since>>
    BY <1>4, ServesFirst
  <2>2. asked[a][1].try \in 1..MaxTry
    BY <2>1 DEF Claim
  <2>3. \A r \in Resource : \/ auth'[r] = auth[r]
                            \/ auth'[r] = F!Recovery(a, asked[a][1].try)
    BY <1>4, ServesFirst
  <2>4. ASSUME NEW r \in Resource, InSession(r)' PROVE InSession(r)
    BY <2>2, <2>3, <2>4
  <2>5. ASSUME NEW b \in App, NEW r \in Wanted(b)' PROVE r \in Wanted(b)
    <3>1. CASE cache[b][r] = F!Fault /\ rpc[b] \in {"start", "faulted"}
      BY <2>5, <3>1
    <3>2. CASE ~(cache[b][r] = F!Fault /\ rpc[b] \in {"start", "faulted"})
      <4>1. PICK k \in DOMAIN asked'[b] : r \in asked'[b][k].targets
        BY <2>1, <2>5, <3>2
      <4>2. CASE b = a
        <5>1. k + 1 \in DOMAIN asked[a] /\ r \in asked[a][k + 1].targets
          BY <2>1, <4>1, <4>2
        <5>. QED BY <2>5, <4>2, <5>1
      <4>3. CASE b # a
        BY <2>1, <2>5, <4>1, <4>3
      <4>. QED BY <4>2, <4>3
    <3>. QED BY <3>1, <3>2
  <2>. QED BY <2>1, <2>4, <2>5
<1>5. ASSUME NEW a \in App, F!ClaimReturns(a) PROVE Since'
  BY <1>5, ZenonT(60) DEF F!ClaimReturns, F!Raises, F!Go
<1>6. ASSUME NEW a \in App, F!GivesUp(a) PROVE Since'
  BY <1>6 DEF F!GivesUp, F!Raises, F!Go
<1>7. ASSUME NEW a \in App, F!Release(a) PROVE Since'
  <2>1. /\ UNCHANGED <<cache, asked, since>> /\ rpc'[a] = "poll"
        /\ \A b \in App \ {a} : rpc'[b] = rpc[b]
    BY <1>7 DEF F!Release, F!FreedBy, F!Go
  <2>2. \A r \in Resource : auth'[r] = F!Free \/ auth'[r] = auth[r]
    BY <1>7 DEF F!Release, F!FreedBy
  <2>3. \A b \in App : Wanted(b)' \subseteq Wanted(b) /\ Wanted(b) \subseteq Resource
    BY <2>1
  <2>4. \A r \in Resource : InSession(r)' => InSession(r)
    BY <2>2
  <2> HIDE DEF Wanted, InSession
  <2>. QED BY <2>1, <2>3, <2>4
<1>8. ASSUME NEW a \in App, F!PollEnds(a) PROVE Since'
  BY <1>8 DEF F!PollEnds, F!Go
<1>9. ASSUME NEW a \in App, F!Restart(a) PROVE Since'
  BY <1>9 DEF F!Restart, F!Go
<1>10. ASSUME NEW a \in App, F!StatusArrives(a) PROVE Since'
  <2>1. /\ UNCHANGED <<auth, rpc, asked>> /\ cache'[a] = auth
        /\ \A b \in App \ {a} : cache'[b] = cache[b] /\ since'[b] = since[b]
        /\ asked[a] # << >> => since'[a] = since[a]
    BY <1>10 DEF F!StatusArrives
  <2>2. ASSUME NEW b \in App, b # a PROVE Wanted(b)' = Wanted(b)
    BY <2>1, <2>2
  <2>3. ASSUME NEW r \in Wanted(a)', InSession(r)'
        PROVE  r \in Wanted(a) /\ asked[a] # << >>
    <3>1. auth[r] # F!Fault
      BY <2>1, <2>3
    <3>2. PICK k \in DOMAIN asked[a] : r \in asked[a][k].targets
      BY <2>1, <2>3, <3>1
    <3>. QED BY <2>3, <3>2
  <2>4. \A r \in Resource : InSession(r)' <=> InSession(r)
    BY <2>1
  <2>5. \A b \in App : Wanted(b)' \subseteq Resource
    OBVIOUS
  <2> HIDE DEF Wanted, InSession
  <2>. QED BY <2>1, <2>2, <2>3, <2>4, <2>5
<1>11. ASSUME NEW a \in App, NEW n \in 1..MaxTry, F!ReleaseLate(a, n) PROVE
  Since'
  <2>1. UNCHANGED <<cache, rpc, asked, since>>
    BY <1>11 DEF F!ReleaseLate
  <2>2. \A s \in Resource : InSession(s)' => InSession(s)
    BY <1>11 DEF F!ReleaseLate, F!FreedBy
  <2>3. \A b \in App : Wanted(b)' = Wanted(b)
    BY <2>1
  <2> HIDE DEF Wanted, InSession
  <2>. QED BY <2>1, <2>2, <2>3 DEF Wanted
<1>12. ASSUME NEW a \in App, NEW r \in Resource, F!TakeForSession(a, r) PROVE
  Since'
  <2>1. /\ UNCHANGED <<cache, rpc, asked>>
        /\ \A b \in App : since'[b] = since[b] \cup {r}
        /\ \A s \in Resource \ {r} : auth'[s] = auth[s]
    BY <1>12 DEF F!TakeForSession
  <2>2. \A s \in Resource \ {r} : InSession(s)' => InSession(s)
    BY <2>1
  <2>3. \A b \in App : Wanted(b)' = Wanted(b) /\ Wanted(b) \subseteq Resource
    BY <2>1
  <2> HIDE DEF Wanted, InSession
  <2>. QED BY <2>1, <2>2, <2>3
<1>13. ASSUME NEW a \in App, NEW r \in Resource, F!LeaveSession(a, r) PROVE
  Since'
  <2>1. UNCHANGED <<cache, rpc, asked, since>>
    BY <1>13 DEF F!LeaveSession
  <2>2. \A s \in Resource : InSession(s)' => InSession(s)
    BY <1>13 DEF F!LeaveSession
  <2>3. \A b \in App : Wanted(b)' = Wanted(b)
    BY <2>1
  <2> HIDE DEF Wanted, InSession
  <2>. QED BY <2>1, <2>2, <2>3 DEF Wanted
<1>14. ASSUME NEW r \in Resource, F!FaultOccurs(r) PROVE Since'
  <2>1. UNCHANGED <<cache, rpc, asked, since>>
    BY <1>14 DEF F!FaultOccurs
  <2>2. \A s \in Resource : InSession(s)' => InSession(s)
    BY <1>14 DEF F!FaultOccurs
  <2>3. \A b \in App : Wanted(b)' = Wanted(b)
    BY <2>1
  <2> HIDE DEF Wanted, InSession
  <2>. QED BY <2>1, <2>2, <2>3 DEF Wanted
<1>15. CASE UNCHANGED recoveryVars
  BY <1>15 DEF recoveryVars
<1>. QED BY <1>1, <1>2, <1>3, <1>4, <1>5, <1>6, <1>7, <1>8, <1>9, <1>10,
  <1>11, <1>12, <1>13, <1>14, <1>15 DEF F!Next

LEMMA RecoveryKept == RecoveryInv /\ [F!Next]_recoveryVars => RecoveryInv'
BY RecoveryTypeKept, ClaimsKept, LeasesKept, SinceKept DEF RecoveryInv

\* selection.py, clear_fault: a recovery lease belongs to a recovery under way,
\* or the claim or the release of it raised, on the try that made it.
THEOREM NoRecoveryLeaseLeftHolds == Spec => []NoRecoveryLeaseLeft
<1>1. RecoveryInv => NoRecoveryLeaseLeft
  BY DEF RecoveryInv, Leases, LeasesOf, NoRecoveryLeaseLeft, F!NoRecoveryLeaseLeft
<1>. QED BY RecoveryInitially, RecoverySteps, RecoveryKept, <1>1, PTL DEF Spec

\* Only the manager, when it serves a claim, gives a resource to a recovery.
LEMMA OnlyServed ==
  ASSUME F!TypeOK, F!Next, NEW a \in App, NEW n \in 1..MaxTry, NEW r \in Resource,
         auth'[r] = F!Recovery(a, n), auth'[r] # auth[r]
  PROVE  \E c \in App : F!ServeClaim(c)
<1>1. ASSUME NEW b \in App, F!Release(b) PROVE FALSE
  BY <1>1, Owners DEF F!Release, F!FreedBy
<1>2. ASSUME NEW b \in App, NEW m \in 1..MaxTry, F!ReleaseLate(b, m) PROVE FALSE
  BY <1>2, Owners DEF F!ReleaseLate, F!FreedBy
<1>3. ASSUME NEW b \in App, NEW s \in Resource, F!TakeForSession(b, s) PROVE FALSE
  BY <1>3, Owners DEF F!TakeForSession, F!TypeOK
<1>4. ASSUME NEW b \in App, NEW s \in Resource, F!LeaveSession(b, s) PROVE FALSE
  BY <1>4, Owners DEF F!LeaveSession, F!TypeOK
<1>5. ASSUME NEW s \in Resource, F!FaultOccurs(s) PROVE FALSE
  BY <1>5, Owners DEF F!FaultOccurs, F!TypeOK
<1>. QED BY <1>1, <1>2, <1>3, <1>4, <1>5 DEF F!Next, F!Unavailable, F!Describe,
  F!Filter, F!ClaimReturns, F!GivesUp, F!PollEnds, F!Restart, F!StatusArrives

\* selection.py, clear_fault, "clear FAULT, leave OWNED alone": a recovery takes a
\* resource out of a session only if a session took it after the status that the
\* recovery acts on.
THEOREM OwnedIsLeftAloneHolds == Spec => OwnedIsLeftAlone
<1> DEFINE Alone == \A a, b \in App, r \in Resource :
      auth[r] = F!Session(b) /\ auth'[r] \in F!Recoveries(a) => r \in since[a]
<1>1. ASSUME RecoveryInv, [F!Next]_recoveryVars PROVE Alone
  <2> SUFFICES ASSUME NEW a \in App, NEW b \in App, NEW r \in Resource,
                      auth[r] = F!Session(b), auth'[r] \in F!Recoveries(a)
               PROVE  r \in since[a]
    OBVIOUS
  <2>1. PICK n \in 1..MaxTry : auth'[r] = F!Recovery(a, n)
    BY DEF F!Recoveries
  <2>2. auth'[r] # auth[r]
    BY <2>1, Owners
  <2>3. PICK c \in App : F!ServeClaim(c)
    BY <1>1, <2>1, <2>2, OnlyServed DEF recoveryVars, RecoveryInv
  <2>4. asked[c][1] \in Claim /\ 1 \in DOMAIN asked[c]
    BY <1>1, <2>3, ServesFirst DEF RecoveryInv
  <2>5. r \in asked[c][1].targets /\ auth'[r] = F!Recovery(c, asked[c][1].try)
    BY <1>1, <2>2, <2>3, ServesFirst DEF RecoveryInv
  <2>6. c = a
    BY <2>1, <2>4, <2>5, Owners DEF Claim
  <2>7. r \in Wanted(a) /\ InSession(r)
    BY <2>4, <2>5, <2>6 DEF Wanted, InSession
  <2>. QED BY <1>1, <2>7 DEF RecoveryInv, Since
<1>2. RecoveryInv /\ [F!Next]_recoveryVars => [Alone]_(F!recoveryVars)
  BY <1>1
<1>. QED BY RecoveryInitially, RecoverySteps, RecoveryKept, <1>2, PTL
  DEF Spec, OwnedIsLeftAlone, F!OwnedIsLeftAlone

=============================================================================
