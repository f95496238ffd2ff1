-------------------------- MODULE RecordApp_proofs --------------------------
(***************************************************************************)
(* Proofs about RecordApp, for any target, any number of leaders and any   *)
(* number of attempts: its type invariant, SavedIsSealed,                  *)
(* NoUnattendedRecording, FloatIsRecorded and OneMover.                    *)
(*                                                                         *)
(* The four speak of the recorder, the leaders and the homing thread; the  *)
(* inductive invariant ties each of them to the place main() has reached.  *)
(***************************************************************************)
EXTENDS RecordApp, SequenceTheorems, TLAPS

\* There is a target, a bound and at least one teleoperator.
LEMMA Configured ==
  Target \in Nat \ {0} /\ LeaderCount \in Nat \ {0} /\ MaxAttempt \in Nat \ {0}
<1>1. LeaderCount \in Nat \ {0}
  BY ConfigAssumption, LenProperties, EmptySeq, SeqEqual DEF LeaderCount
<1>. QED BY <1>1, ConfigAssumption

-----------------------------------------------------------------------------
(* The inductive invariant.                                                 *)

Judging == {"launching", "gate", "replaying"}

\* Where the attempt under way is not judged yet.
Pending == Scoped \cup Judging \cup {"starting", "leaving", "closing"}

\* There is an attempt under way, and an episode it belongs to.
Underway ==
  /\ pc \notin {"joining", "finally", "closed"} => episode <= Target
  /\ pc \in Pending => attempt \in Attempt

\* What is saved was judged before: never the attempt under way, nor one to come.
SavedBefore ==
  /\ \A a \in saved : a <= attempt
  /\ pc \in Pending => attempt \notin saved

\* The recorder runs inside the scopes and is done when the operator judges.
RecorderInStep ==
  /\ pc \in Scoped => recorder[attempt] = "recording"
  /\ pc \in Judging => recorder[attempt] = "sealed"

\* Sessions are entered inside their ExitStack only.
EnteredInside == pc \notin Scoped \cup {"leaving"} => entered = 0

\* The homing thread has been joined before main() goes on.
HomingInside == homing => pc \in {"gate", "joining", "finally", "closed"}

IInv ==
  /\ TypeOK /\ Underway /\ SavedBefore /\ RecorderInStep /\ EnteredInside
  /\ HomingInside /\ SavedIsSealed /\ NoUnattendedRecording /\ FloatIsRecorded

-----------------------------------------------------------------------------
(* Type correctness.                                                        *)

LEMMA TypeKept == IInv /\ [Next]_vars => TypeOK'
<1> SUFFICES ASSUME IInv, [Next]_vars PROVE TypeOK'
  OBVIOUS
<1> USE Configured DEF IInv, TypeOK, progressVars, scopeVars,
  otherVars, recordVars, leaderVars, inputVars, PC, Attempt
<1>1. ASSUME Staged PROVE TypeOK'
  BY <1>1 DEF Staged
<1>2. ASSUME PressReady PROVE TypeOK'
  <2>1. attempt' \in 0..MaxAttempt /\ stopped' \in BOOLEAN
    <3>1. attempt' \in 0..MaxAttempt
      BY <1>2 DEF PressReady
    <3>2. stopped' \in BOOLEAN
      BY <1>2 DEF PressReady
    <3>. QED BY <3>1, <3>2
  <2>. QED BY <1>2, <2>1 DEF PressReady
<1>3. ASSUME Fails PROVE TypeOK'
  BY <1>3 DEF Fails
<1>4. ASSUME StartRecording PROVE TypeOK'
  BY <1>4 DEF StartRecording
<1>5. ASSUME StartFails PROVE TypeOK'
  BY <1>5 DEF StartFails, Underway, Pending
<1>6. ASSUME EnterSession PROVE TypeOK'
  BY <1>6 DEF EnterSession
<1>7. ASSUME EnterFails PROVE TypeOK'
  BY <1>7 DEF EnterFails, Unwind
<1>8. ASSUME Engaged PROVE TypeOK'
  BY <1>8 DEF Engaged
<1>9. ASSUME NotEngaged PROVE TypeOK'
  BY <1>9 DEF NotEngaged
<1>10. ASSUME Disengage PROVE TypeOK'
  BY <1>10 DEF Disengage, Shadow, Unwind
<1>11. ASSUME PressStop PROVE TypeOK'
  BY <1>11 DEF PressStop
<1>12. ASSUME Stop PROVE TypeOK'
  BY <1>12 DEF Stop
<1>13. ASSUME MaxDuration PROVE TypeOK'
  BY <1>13 DEF MaxDuration
<1>14. ASSUME Release PROVE TypeOK'
  BY <1>14 DEF Release, Shadow
<1>15. ASSUME LeaveSession PROVE TypeOK'
  <2>1. failing' \in BOOLEAN
    BY <1>15 DEF LeaveSession
  <2>2. entered' \in 0..LeaderCount
    BY <1>15 DEF LeaveSession
  <2>. QED BY <1>15, <2>1, <2>2 DEF LeaveSession
<1>16. ASSUME LeftAll PROVE TypeOK'
  BY <1>16 DEF LeftAll
<1>17. ASSUME Seal PROVE TypeOK'
  BY <1>17 DEF Seal
<1>18. ASSUME SealFails PROVE TypeOK'
  BY <1>18 DEF SealFails, Underway, Pending
<1>19. ASSUME DiscardFailed PROVE TypeOK'
  BY <1>19 DEF DiscardFailed
<1>20. ASSUME DiscardFails PROVE TypeOK'
  BY <1>20 DEF DiscardFails, Underway, Pending
<1>21. ASSUME LaunchHoming PROVE TypeOK'
  BY <1>21 DEF LaunchHoming
<1>22. ASSUME HomingEnds PROVE TypeOK'
  BY <1>22 DEF HomingEnds
<1>23. ASSUME NEW line \in {"save", "discard", "replay", "quit"},
  Swallow(line) PROVE TypeOK'
  BY <1>23 DEF Swallow
<1>24. ASSUME ChooseSave PROVE TypeOK'
  BY <1>24 DEF ChooseSave, Heard, Underway, Judging, Pending
<1>25. ASSUME ChooseDiscard PROVE TypeOK'
  BY <1>25 DEF ChooseDiscard, Heard
<1>26. ASSUME ChooseReplay PROVE TypeOK'
  BY <1>26 DEF ChooseReplay, Heard
<1>27. ASSUME Replayed PROVE TypeOK'
  BY <1>27 DEF Replayed
<1>28. ASSUME ChooseQuit PROVE TypeOK'
  BY <1>28 DEF ChooseQuit, Heard
<1>29. ASSUME Join PROVE TypeOK'
  BY <1>29 DEF Join
<1>30. ASSUME CtrlCScoped PROVE TypeOK'
  BY <1>30 DEF CtrlCScoped, Unwind
<1>31. ASSUME CtrlCLeaving PROVE TypeOK'
  BY <1>31 DEF CtrlCLeaving
<1>32. ASSUME CtrlCRecorder PROVE TypeOK'
  BY <1>32 DEF CtrlCRecorder, Underway, Pending
<1>33. ASSUME CtrlC PROVE TypeOK'
  BY <1>33 DEF CtrlC
<1>34. ASSUME Finally PROVE TypeOK'
  BY <1>34 DEF Finally, Shadow
<1>35. CASE UNCHANGED vars
  BY <1>35 DEF vars
<1>. QED BY <1>1, <1>2, <1>3, <1>4, <1>5, <1>6, <1>7, <1>8, <1>9, <1>10,
  <1>11, <1>12, <1>13, <1>14, <1>15, <1>16, <1>17, <1>18, <1>19, <1>20, <1>21,
  <1>22, <1>23, <1>24, <1>25, <1>26, <1>27, <1>28, <1>29, <1>30, <1>31, <1>32,
  <1>33, <1>34, <1>35 DEF Next, EpisodeNext, GateNext

-----------------------------------------------------------------------------
(* The progress.                                                            *)

LEMMA UnderwayKept == IInv /\ [Next]_vars => Underway'
<1> SUFFICES ASSUME IInv, [Next]_vars PROVE Underway'
  OBVIOUS
<1> USE Configured DEF IInv, TypeOK, progressVars, scopeVars,
  otherVars, recordVars, leaderVars, inputVars, Underway, Attempt, Scoped,
  Judging, Pending
<1>1. ASSUME Staged PROVE Underway'
  BY <1>1 DEF Staged
<1>2. ASSUME PressReady PROVE Underway'
  BY <1>2 DEF PressReady
<1>3. ASSUME Fails PROVE Underway'
  BY <1>3 DEF Fails
<1>4. ASSUME StartRecording PROVE Underway'
  BY <1>4 DEF StartRecording
<1>5. ASSUME StartFails PROVE Underway'
  BY <1>5 DEF StartFails
<1>6. ASSUME EnterSession PROVE Underway'
  BY <1>6 DEF EnterSession
<1>7. ASSUME EnterFails PROVE Underway'
  BY <1>7 DEF EnterFails, Unwind
<1>8. ASSUME Engaged PROVE Underway'
  BY <1>8 DEF Engaged
<1>9. ASSUME NotEngaged PROVE Underway'
  BY <1>9 DEF NotEngaged
<1>10. ASSUME Disengage PROVE Underway'
  BY <1>10 DEF Disengage, Shadow, Unwind
<1>11. ASSUME PressStop PROVE Underway'
  BY <1>11 DEF PressStop
<1>12. ASSUME Stop PROVE Underway'
  BY <1>12 DEF Stop
<1>13. ASSUME MaxDuration PROVE Underway'
  BY <1>13 DEF MaxDuration
<1>14. ASSUME Release PROVE Underway'
  BY <1>14 DEF Release, Shadow
<1>15. ASSUME LeaveSession PROVE Underway'
  BY <1>15 DEF LeaveSession
<1>16. ASSUME LeftAll PROVE Underway'
  BY <1>16 DEF LeftAll
<1>17. ASSUME Seal PROVE Underway'
  BY <1>17 DEF Seal
<1>18. ASSUME SealFails PROVE Underway'
  BY <1>18 DEF SealFails
<1>19. ASSUME DiscardFailed PROVE Underway'
  BY <1>19 DEF DiscardFailed
<1>20. ASSUME DiscardFails PROVE Underway'
  BY <1>20 DEF DiscardFails
<1>21. ASSUME LaunchHoming PROVE Underway'
  BY <1>21 DEF LaunchHoming
<1>22. ASSUME HomingEnds PROVE Underway'
  BY <1>22 DEF HomingEnds
<1>23. ASSUME NEW line \in {"save", "discard", "replay", "quit"},
  Swallow(line) PROVE Underway'
  BY <1>23 DEF Swallow
<1>24. ASSUME ChooseSave PROVE Underway'
  BY <1>24 DEF ChooseSave, Heard
<1>25. ASSUME ChooseDiscard PROVE Underway'
  BY <1>25 DEF ChooseDiscard, Heard
<1>26. ASSUME ChooseReplay PROVE Underway'
  BY <1>26 DEF ChooseReplay, Heard
<1>27. ASSUME Replayed PROVE Underway'
  BY <1>27 DEF Replayed
<1>28. ASSUME ChooseQuit PROVE Underway'
  BY <1>28 DEF ChooseQuit, Heard
<1>29. ASSUME Join PROVE Underway'
  BY <1>29 DEF Join
<1>30. ASSUME CtrlCScoped PROVE Underway'
  BY <1>30 DEF CtrlCScoped, Unwind
<1>31. ASSUME CtrlCLeaving PROVE Underway'
  BY <1>31 DEF CtrlCLeaving
<1>32. ASSUME CtrlCRecorder PROVE Underway'
  BY <1>32 DEF CtrlCRecorder
<1>33. ASSUME CtrlC PROVE Underway'
  BY <1>33 DEF CtrlC
<1>34. ASSUME Finally PROVE Underway'
  BY <1>34 DEF Finally, Shadow
<1>35. CASE UNCHANGED vars
  BY <1>35 DEF vars
<1>. QED BY <1>1, <1>2, <1>3, <1>4, <1>5, <1>6, <1>7, <1>8, <1>9, <1>10,
  <1>11, <1>12, <1>13, <1>14, <1>15, <1>16, <1>17, <1>18, <1>19, <1>20, <1>21,
  <1>22, <1>23, <1>24, <1>25, <1>26, <1>27, <1>28, <1>29, <1>30, <1>31, <1>32,
  <1>33, <1>34, <1>35 DEF Next, EpisodeNext, GateNext

-----------------------------------------------------------------------------
(* What is saved.                                                           *)

LEMMA SavedBeforeKept == IInv /\ [Next]_vars => SavedBefore'
<1> SUFFICES ASSUME IInv, [Next]_vars PROVE SavedBefore'
  OBVIOUS
<1> USE Configured DEF IInv, TypeOK, progressVars, scopeVars,
  otherVars, recordVars, leaderVars, inputVars, SavedBefore, Underway,
  Attempt, Scoped, Judging, Pending
<1>1. ASSUME Staged PROVE SavedBefore'
  BY <1>1 DEF Staged
<1>2. ASSUME PressReady PROVE SavedBefore'
  BY <1>2 DEF PressReady
<1>3. ASSUME Fails PROVE SavedBefore'
  BY <1>3 DEF Fails
<1>4. ASSUME StartRecording PROVE SavedBefore'
  BY <1>4 DEF StartRecording
<1>5. ASSUME StartFails PROVE SavedBefore'
  BY <1>5 DEF StartFails
<1>6. ASSUME EnterSession PROVE SavedBefore'
  BY <1>6 DEF EnterSession
<1>7. ASSUME EnterFails PROVE SavedBefore'
  BY <1>7 DEF EnterFails, Unwind
<1>8. ASSUME Engaged PROVE SavedBefore'
  BY <1>8 DEF Engaged
<1>9. ASSUME NotEngaged PROVE SavedBefore'
  BY <1>9 DEF NotEngaged
<1>10. ASSUME Disengage PROVE SavedBefore'
  BY <1>10 DEF Disengage, Shadow, Unwind
<1>11. ASSUME PressStop PROVE SavedBefore'
  BY <1>11 DEF PressStop
<1>12. ASSUME Stop PROVE SavedBefore'
  BY <1>12 DEF Stop
<1>13. ASSUME MaxDuration PROVE SavedBefore'
  BY <1>13 DEF MaxDuration
<1>14. ASSUME Release PROVE SavedBefore'
  BY <1>14 DEF Release, Shadow
<1>15. ASSUME LeaveSession PROVE SavedBefore'
  BY <1>15 DEF LeaveSession
<1>16. ASSUME LeftAll PROVE SavedBefore'
  BY <1>16 DEF LeftAll
<1>17. ASSUME Seal PROVE SavedBefore'
  BY <1>17 DEF Seal
<1>18. ASSUME SealFails PROVE SavedBefore'
  BY <1>18 DEF SealFails
<1>19. ASSUME DiscardFailed PROVE SavedBefore'
  BY <1>19 DEF DiscardFailed
<1>20. ASSUME DiscardFails PROVE SavedBefore'
  BY <1>20 DEF DiscardFails
<1>21. ASSUME LaunchHoming PROVE SavedBefore'
  BY <1>21 DEF LaunchHoming
<1>22. ASSUME HomingEnds PROVE SavedBefore'
  BY <1>22 DEF HomingEnds
<1>23. ASSUME NEW line \in {"save", "discard", "replay", "quit"},
  Swallow(line) PROVE SavedBefore'
  BY <1>23 DEF Swallow
<1>24. ASSUME ChooseSave PROVE SavedBefore'
  BY <1>24 DEF ChooseSave, Heard
<1>25. ASSUME ChooseDiscard PROVE SavedBefore'
  BY <1>25 DEF ChooseDiscard, Heard
<1>26. ASSUME ChooseReplay PROVE SavedBefore'
  BY <1>26 DEF ChooseReplay, Heard
<1>27. ASSUME Replayed PROVE SavedBefore'
  BY <1>27 DEF Replayed
<1>28. ASSUME ChooseQuit PROVE SavedBefore'
  BY <1>28 DEF ChooseQuit, Heard
<1>29. ASSUME Join PROVE SavedBefore'
  BY <1>29 DEF Join
<1>30. ASSUME CtrlCScoped PROVE SavedBefore'
  BY <1>30 DEF CtrlCScoped, Unwind
<1>31. ASSUME CtrlCLeaving PROVE SavedBefore'
  BY <1>31 DEF CtrlCLeaving
<1>32. ASSUME CtrlCRecorder PROVE SavedBefore'
  BY <1>32 DEF CtrlCRecorder
<1>33. ASSUME CtrlC PROVE SavedBefore'
  BY <1>33 DEF CtrlC
<1>34. ASSUME Finally PROVE SavedBefore'
  BY <1>34 DEF Finally, Shadow
<1>35. CASE UNCHANGED vars
  BY <1>35 DEF vars
<1>. QED BY <1>1, <1>2, <1>3, <1>4, <1>5, <1>6, <1>7, <1>8, <1>9, <1>10,
  <1>11, <1>12, <1>13, <1>14, <1>15, <1>16, <1>17, <1>18, <1>19, <1>20, <1>21,
  <1>22, <1>23, <1>24, <1>25, <1>26, <1>27, <1>28, <1>29, <1>30, <1>31, <1>32,
  <1>33, <1>34, <1>35 DEF Next, EpisodeNext, GateNext

-----------------------------------------------------------------------------
(* The recorder.                                                            *)

LEMMA RecorderInStepKept == IInv /\ [Next]_vars => RecorderInStep'
<1> SUFFICES ASSUME IInv, [Next]_vars PROVE RecorderInStep'
  OBVIOUS
<1> USE DEF IInv, TypeOK, progressVars, scopeVars, otherVars, recordVars,
  leaderVars, inputVars, RecorderInStep, Underway, Scoped, Judging, Pending
<1>1. ASSUME Staged PROVE RecorderInStep'
  BY <1>1 DEF Staged
<1>2. ASSUME PressReady PROVE RecorderInStep'
  BY <1>2 DEF PressReady
<1>3. ASSUME Fails PROVE RecorderInStep'
  BY <1>3 DEF Fails
<1>4. ASSUME StartRecording PROVE RecorderInStep'
  BY <1>4 DEF StartRecording
<1>5. ASSUME StartFails PROVE RecorderInStep'
  BY <1>5 DEF StartFails
<1>6. ASSUME EnterSession PROVE RecorderInStep'
  BY <1>6 DEF EnterSession
<1>7. ASSUME EnterFails PROVE RecorderInStep'
  BY <1>7 DEF EnterFails, Unwind
<1>8. ASSUME Engaged PROVE RecorderInStep'
  BY <1>8 DEF Engaged
<1>9. ASSUME NotEngaged PROVE RecorderInStep'
  BY <1>9 DEF NotEngaged
<1>10. ASSUME Disengage PROVE RecorderInStep'
  BY <1>10 DEF Disengage, Shadow, Unwind
<1>11. ASSUME PressStop PROVE RecorderInStep'
  BY <1>11 DEF PressStop
<1>12. ASSUME Stop PROVE RecorderInStep'
  BY <1>12 DEF Stop
<1>13. ASSUME MaxDuration PROVE RecorderInStep'
  BY <1>13 DEF MaxDuration
<1>14. ASSUME Release PROVE RecorderInStep'
  BY <1>14 DEF Release, Shadow
<1>15. ASSUME LeaveSession PROVE RecorderInStep'
  BY <1>15 DEF LeaveSession
<1>16. ASSUME LeftAll PROVE RecorderInStep'
  BY <1>16 DEF LeftAll
<1>17. ASSUME Seal PROVE RecorderInStep'
  BY <1>17 DEF Seal
<1>18. ASSUME SealFails PROVE RecorderInStep'
  BY <1>18 DEF SealFails
<1>19. ASSUME DiscardFailed PROVE RecorderInStep'
  BY <1>19 DEF DiscardFailed
<1>20. ASSUME DiscardFails PROVE RecorderInStep'
  BY <1>20 DEF DiscardFails
<1>21. ASSUME LaunchHoming PROVE RecorderInStep'
  BY <1>21 DEF LaunchHoming
<1>22. ASSUME HomingEnds PROVE RecorderInStep'
  BY <1>22 DEF HomingEnds
<1>23. ASSUME NEW line \in {"save", "discard", "replay", "quit"},
  Swallow(line) PROVE RecorderInStep'
  BY <1>23 DEF Swallow
<1>24. ASSUME ChooseSave PROVE RecorderInStep'
  BY <1>24 DEF ChooseSave, Heard
<1>25. ASSUME ChooseDiscard PROVE RecorderInStep'
  BY <1>25 DEF ChooseDiscard, Heard
<1>26. ASSUME ChooseReplay PROVE RecorderInStep'
  BY <1>26 DEF ChooseReplay, Heard
<1>27. ASSUME Replayed PROVE RecorderInStep'
  BY <1>27 DEF Replayed
<1>28. ASSUME ChooseQuit PROVE RecorderInStep'
  BY <1>28 DEF ChooseQuit, Heard
<1>29. ASSUME Join PROVE RecorderInStep'
  BY <1>29 DEF Join
<1>30. ASSUME CtrlCScoped PROVE RecorderInStep'
  BY <1>30 DEF CtrlCScoped, Unwind
<1>31. ASSUME CtrlCLeaving PROVE RecorderInStep'
  BY <1>31 DEF CtrlCLeaving
<1>32. ASSUME CtrlCRecorder PROVE RecorderInStep'
  BY <1>32 DEF CtrlCRecorder
<1>33. ASSUME CtrlC PROVE RecorderInStep'
  BY <1>33 DEF CtrlC
<1>34. ASSUME Finally PROVE RecorderInStep'
  BY <1>34 DEF Finally, Shadow
<1>35. CASE UNCHANGED vars
  BY <1>35 DEF vars
<1>. QED BY <1>1, <1>2, <1>3, <1>4, <1>5, <1>6, <1>7, <1>8, <1>9, <1>10,
  <1>11, <1>12, <1>13, <1>14, <1>15, <1>16, <1>17, <1>18, <1>19, <1>20, <1>21,
  <1>22, <1>23, <1>24, <1>25, <1>26, <1>27, <1>28, <1>29, <1>30, <1>31, <1>32,
  <1>33, <1>34, <1>35 DEF Next, EpisodeNext, GateNext

-----------------------------------------------------------------------------
(* The sessions.                                                            *)

LEMMA EnteredInsideKept == IInv /\ [Next]_vars => EnteredInside'
<1> SUFFICES ASSUME IInv, [Next]_vars PROVE EnteredInside'
  OBVIOUS
<1> USE Configured DEF IInv, TypeOK, progressVars, scopeVars,
  otherVars, recordVars, leaderVars, inputVars, EnteredInside, Scoped
<1>1. ASSUME Staged PROVE EnteredInside'
  BY <1>1 DEF Staged
<1>2. ASSUME PressReady PROVE EnteredInside'
  BY <1>2 DEF PressReady
<1>3. ASSUME Fails PROVE EnteredInside'
  BY <1>3 DEF Fails
<1>4. ASSUME StartRecording PROVE EnteredInside'
  BY <1>4 DEF StartRecording
<1>5. ASSUME StartFails PROVE EnteredInside'
  BY <1>5 DEF StartFails
<1>6. ASSUME EnterSession PROVE EnteredInside'
  BY <1>6 DEF EnterSession
<1>7. ASSUME EnterFails PROVE EnteredInside'
  BY <1>7 DEF EnterFails, Unwind
<1>8. ASSUME Engaged PROVE EnteredInside'
  BY <1>8 DEF Engaged
<1>9. ASSUME NotEngaged PROVE EnteredInside'
  BY <1>9 DEF NotEngaged
<1>10. ASSUME Disengage PROVE EnteredInside'
  BY <1>10 DEF Disengage, Shadow, Unwind
<1>11. ASSUME PressStop PROVE EnteredInside'
  BY <1>11 DEF PressStop
<1>12. ASSUME Stop PROVE EnteredInside'
  BY <1>12 DEF Stop
<1>13. ASSUME MaxDuration PROVE EnteredInside'
  BY <1>13 DEF MaxDuration
<1>14. ASSUME Release PROVE EnteredInside'
  BY <1>14 DEF Release, Shadow
<1>15. ASSUME LeaveSession PROVE EnteredInside'
  BY <1>15 DEF LeaveSession
<1>16. ASSUME LeftAll PROVE EnteredInside'
  BY <1>16 DEF LeftAll
<1>17. ASSUME Seal PROVE EnteredInside'
  BY <1>17 DEF Seal
<1>18. ASSUME SealFails PROVE EnteredInside'
  BY <1>18 DEF SealFails
<1>19. ASSUME DiscardFailed PROVE EnteredInside'
  BY <1>19 DEF DiscardFailed
<1>20. ASSUME DiscardFails PROVE EnteredInside'
  BY <1>20 DEF DiscardFails
<1>21. ASSUME LaunchHoming PROVE EnteredInside'
  BY <1>21 DEF LaunchHoming
<1>22. ASSUME HomingEnds PROVE EnteredInside'
  BY <1>22 DEF HomingEnds
<1>23. ASSUME NEW line \in {"save", "discard", "replay", "quit"},
  Swallow(line) PROVE EnteredInside'
  BY <1>23 DEF Swallow
<1>24. ASSUME ChooseSave PROVE EnteredInside'
  BY <1>24 DEF ChooseSave, Heard
<1>25. ASSUME ChooseDiscard PROVE EnteredInside'
  BY <1>25 DEF ChooseDiscard, Heard
<1>26. ASSUME ChooseReplay PROVE EnteredInside'
  BY <1>26 DEF ChooseReplay, Heard
<1>27. ASSUME Replayed PROVE EnteredInside'
  BY <1>27 DEF Replayed
<1>28. ASSUME ChooseQuit PROVE EnteredInside'
  BY <1>28 DEF ChooseQuit, Heard
<1>29. ASSUME Join PROVE EnteredInside'
  BY <1>29 DEF Join
<1>30. ASSUME CtrlCScoped PROVE EnteredInside'
  BY <1>30 DEF CtrlCScoped, Unwind
<1>31. ASSUME CtrlCLeaving PROVE EnteredInside'
  BY <1>31 DEF CtrlCLeaving
<1>32. ASSUME CtrlCRecorder PROVE EnteredInside'
  BY <1>32 DEF CtrlCRecorder
<1>33. ASSUME CtrlC PROVE EnteredInside'
  BY <1>33 DEF CtrlC
<1>34. ASSUME Finally PROVE EnteredInside'
  BY <1>34 DEF Finally, Shadow
<1>35. CASE UNCHANGED vars
  BY <1>35 DEF vars
<1>. QED BY <1>1, <1>2, <1>3, <1>4, <1>5, <1>6, <1>7, <1>8, <1>9, <1>10,
  <1>11, <1>12, <1>13, <1>14, <1>15, <1>16, <1>17, <1>18, <1>19, <1>20, <1>21,
  <1>22, <1>23, <1>24, <1>25, <1>26, <1>27, <1>28, <1>29, <1>30, <1>31, <1>32,
  <1>33, <1>34, <1>35 DEF Next, EpisodeNext, GateNext

-----------------------------------------------------------------------------
(* The homing thread.                                                       *)

LEMMA HomingInsideKept == IInv /\ [Next]_vars => HomingInside'
<1> SUFFICES ASSUME IInv, [Next]_vars PROVE HomingInside'
  OBVIOUS
<1> USE DEF IInv, TypeOK, progressVars, scopeVars, otherVars, recordVars,
  leaderVars, inputVars, HomingInside
<1>1. ASSUME Staged PROVE HomingInside'
  BY <1>1 DEF Staged
<1>2. ASSUME PressReady PROVE HomingInside'
  BY <1>2 DEF PressReady
<1>3. ASSUME Fails PROVE HomingInside'
  BY <1>3 DEF Fails
<1>4. ASSUME StartRecording PROVE HomingInside'
  BY <1>4 DEF StartRecording
<1>5. ASSUME StartFails PROVE HomingInside'
  BY <1>5 DEF StartFails
<1>6. ASSUME EnterSession PROVE HomingInside'
  BY <1>6 DEF EnterSession
<1>7. ASSUME EnterFails PROVE HomingInside'
  BY <1>7 DEF EnterFails, Unwind
<1>8. ASSUME Engaged PROVE HomingInside'
  BY <1>8 DEF Engaged
<1>9. ASSUME NotEngaged PROVE HomingInside'
  BY <1>9 DEF NotEngaged
<1>10. ASSUME Disengage PROVE HomingInside'
  BY <1>10 DEF Disengage, Shadow, Unwind
<1>11. ASSUME PressStop PROVE HomingInside'
  BY <1>11 DEF PressStop
<1>12. ASSUME Stop PROVE HomingInside'
  BY <1>12 DEF Stop
<1>13. ASSUME MaxDuration PROVE HomingInside'
  BY <1>13 DEF MaxDuration
<1>14. ASSUME Release PROVE HomingInside'
  BY <1>14 DEF Release, Shadow
<1>15. ASSUME LeaveSession PROVE HomingInside'
  BY <1>15 DEF LeaveSession
<1>16. ASSUME LeftAll PROVE HomingInside'
  BY <1>16 DEF LeftAll
<1>17. ASSUME Seal PROVE HomingInside'
  BY <1>17 DEF Seal
<1>18. ASSUME SealFails PROVE HomingInside'
  BY <1>18 DEF SealFails
<1>19. ASSUME DiscardFailed PROVE HomingInside'
  BY <1>19 DEF DiscardFailed
<1>20. ASSUME DiscardFails PROVE HomingInside'
  BY <1>20 DEF DiscardFails
<1>21. ASSUME LaunchHoming PROVE HomingInside'
  BY <1>21 DEF LaunchHoming
<1>22. ASSUME HomingEnds PROVE HomingInside'
  BY <1>22 DEF HomingEnds
<1>23. ASSUME NEW line \in {"save", "discard", "replay", "quit"},
  Swallow(line) PROVE HomingInside'
  BY <1>23 DEF Swallow
<1>24. ASSUME ChooseSave PROVE HomingInside'
  BY <1>24 DEF ChooseSave, Heard
<1>25. ASSUME ChooseDiscard PROVE HomingInside'
  BY <1>25 DEF ChooseDiscard, Heard
<1>26. ASSUME ChooseReplay PROVE HomingInside'
  BY <1>26 DEF ChooseReplay, Heard
<1>27. ASSUME Replayed PROVE HomingInside'
  BY <1>27 DEF Replayed
<1>28. ASSUME ChooseQuit PROVE HomingInside'
  BY <1>28 DEF ChooseQuit, Heard
<1>29. ASSUME Join PROVE HomingInside'
  BY <1>29 DEF Join
<1>30. ASSUME CtrlCScoped PROVE HomingInside'
  BY <1>30 DEF CtrlCScoped, Unwind, Scoped
<1>31. ASSUME CtrlCLeaving PROVE HomingInside'
  BY <1>31 DEF CtrlCLeaving
<1>32. ASSUME CtrlCRecorder PROVE HomingInside'
  BY <1>32 DEF CtrlCRecorder
<1>33. ASSUME CtrlC PROVE HomingInside'
  BY <1>33 DEF CtrlC
<1>34. ASSUME Finally PROVE HomingInside'
  BY <1>34 DEF Finally, Shadow
<1>35. CASE UNCHANGED vars
  BY <1>35 DEF vars
<1>. QED BY <1>1, <1>2, <1>3, <1>4, <1>5, <1>6, <1>7, <1>8, <1>9, <1>10,
  <1>11, <1>12, <1>13, <1>14, <1>15, <1>16, <1>17, <1>18, <1>19, <1>20, <1>21,
  <1>22, <1>23, <1>24, <1>25, <1>26, <1>27, <1>28, <1>29, <1>30, <1>31, <1>32,
  <1>33, <1>34, <1>35 DEF Next, EpisodeNext, GateNext

-----------------------------------------------------------------------------
(* Saved episodes stay sealed.                                              *)

LEMMA SavedIsSealedKept == IInv /\ [Next]_vars => SavedIsSealed'
<1> SUFFICES ASSUME IInv, [Next]_vars PROVE SavedIsSealed'
  OBVIOUS
<1> USE DEF IInv, TypeOK, progressVars, scopeVars, otherVars, recordVars,
  leaderVars, inputVars, SavedIsSealed, SavedBefore, RecorderInStep, Scoped,
  Judging, Pending
<1>1. ASSUME Staged PROVE SavedIsSealed'
  BY <1>1 DEF Staged
<1>2. ASSUME PressReady PROVE SavedIsSealed'
  BY <1>2 DEF PressReady
<1>3. ASSUME Fails PROVE SavedIsSealed'
  BY <1>3 DEF Fails
<1>4. ASSUME StartRecording PROVE SavedIsSealed'
  BY <1>4 DEF StartRecording
<1>5. ASSUME StartFails PROVE SavedIsSealed'
  BY <1>5 DEF StartFails
<1>6. ASSUME EnterSession PROVE SavedIsSealed'
  BY <1>6 DEF EnterSession
<1>7. ASSUME EnterFails PROVE SavedIsSealed'
  BY <1>7 DEF EnterFails, Unwind
<1>8. ASSUME Engaged PROVE SavedIsSealed'
  BY <1>8 DEF Engaged
<1>9. ASSUME NotEngaged PROVE SavedIsSealed'
  BY <1>9 DEF NotEngaged
<1>10. ASSUME Disengage PROVE SavedIsSealed'
  BY <1>10 DEF Disengage, Shadow, Unwind
<1>11. ASSUME PressStop PROVE SavedIsSealed'
  BY <1>11 DEF PressStop
<1>12. ASSUME Stop PROVE SavedIsSealed'
  BY <1>12 DEF Stop
<1>13. ASSUME MaxDuration PROVE SavedIsSealed'
  BY <1>13 DEF MaxDuration
<1>14. ASSUME Release PROVE SavedIsSealed'
  BY <1>14 DEF Release, Shadow
<1>15. ASSUME LeaveSession PROVE SavedIsSealed'
  BY <1>15 DEF LeaveSession
<1>16. ASSUME LeftAll PROVE SavedIsSealed'
  BY <1>16 DEF LeftAll
<1>17. ASSUME Seal PROVE SavedIsSealed'
  BY <1>17 DEF Seal
<1>18. ASSUME SealFails PROVE SavedIsSealed'
  BY <1>18 DEF SealFails
<1>19. ASSUME DiscardFailed PROVE SavedIsSealed'
  BY <1>19 DEF DiscardFailed
<1>20. ASSUME DiscardFails PROVE SavedIsSealed'
  BY <1>20 DEF DiscardFails
<1>21. ASSUME LaunchHoming PROVE SavedIsSealed'
  BY <1>21 DEF LaunchHoming
<1>22. ASSUME HomingEnds PROVE SavedIsSealed'
  BY <1>22 DEF HomingEnds
<1>23. ASSUME NEW line \in {"save", "discard", "replay", "quit"},
  Swallow(line) PROVE SavedIsSealed'
  BY <1>23 DEF Swallow
<1>24. ASSUME ChooseSave PROVE SavedIsSealed'
  BY <1>24 DEF ChooseSave, Heard
<1>25. ASSUME ChooseDiscard PROVE SavedIsSealed'
  BY <1>25 DEF ChooseDiscard, Heard
<1>26. ASSUME ChooseReplay PROVE SavedIsSealed'
  BY <1>26 DEF ChooseReplay, Heard
<1>27. ASSUME Replayed PROVE SavedIsSealed'
  BY <1>27 DEF Replayed
<1>28. ASSUME ChooseQuit PROVE SavedIsSealed'
  BY <1>28 DEF ChooseQuit, Heard
<1>29. ASSUME Join PROVE SavedIsSealed'
  BY <1>29 DEF Join
<1>30. ASSUME CtrlCScoped PROVE SavedIsSealed'
  BY <1>30 DEF CtrlCScoped, Unwind
<1>31. ASSUME CtrlCLeaving PROVE SavedIsSealed'
  BY <1>31 DEF CtrlCLeaving
<1>32. ASSUME CtrlCRecorder PROVE SavedIsSealed'
  BY <1>32 DEF CtrlCRecorder
<1>33. ASSUME CtrlC PROVE SavedIsSealed'
  BY <1>33 DEF CtrlC
<1>34. ASSUME Finally PROVE SavedIsSealed'
  BY <1>34 DEF Finally, Shadow
<1>35. CASE UNCHANGED vars
  BY <1>35 DEF vars
<1>. QED BY <1>1, <1>2, <1>3, <1>4, <1>5, <1>6, <1>7, <1>8, <1>9, <1>10,
  <1>11, <1>12, <1>13, <1>14, <1>15, <1>16, <1>17, <1>18, <1>19, <1>20, <1>21,
  <1>22, <1>23, <1>24, <1>25, <1>26, <1>27, <1>28, <1>29, <1>30, <1>31, <1>32,
  <1>33, <1>34, <1>35 DEF Next, EpisodeNext, GateNext

-----------------------------------------------------------------------------
(* The recorder is attended.                                                *)

LEMMA AttendedKept == IInv /\ [Next]_vars => NoUnattendedRecording'
<1> SUFFICES ASSUME IInv, [Next]_vars PROVE NoUnattendedRecording'
  OBVIOUS
<1> USE DEF IInv, TypeOK, progressVars, scopeVars, otherVars, recordVars,
  leaderVars, inputVars, NoUnattendedRecording, Underway, Scoped, Judging,
  Pending
<1>1. ASSUME Staged PROVE NoUnattendedRecording'
  BY <1>1 DEF Staged
<1>2. ASSUME PressReady PROVE NoUnattendedRecording'
  BY <1>2 DEF PressReady
<1>3. ASSUME Fails PROVE NoUnattendedRecording'
  BY <1>3 DEF Fails
<1>4. ASSUME StartRecording PROVE NoUnattendedRecording'
  BY <1>4 DEF StartRecording
<1>5. ASSUME StartFails PROVE NoUnattendedRecording'
  BY <1>5 DEF StartFails
<1>6. ASSUME EnterSession PROVE NoUnattendedRecording'
  BY <1>6 DEF EnterSession
<1>7. ASSUME EnterFails PROVE NoUnattendedRecording'
  BY <1>7 DEF EnterFails, Unwind
<1>8. ASSUME Engaged PROVE NoUnattendedRecording'
  BY <1>8 DEF Engaged
<1>9. ASSUME NotEngaged PROVE NoUnattendedRecording'
  BY <1>9 DEF NotEngaged
<1>10. ASSUME Disengage PROVE NoUnattendedRecording'
  BY <1>10 DEF Disengage, Shadow, Unwind
<1>11. ASSUME PressStop PROVE NoUnattendedRecording'
  BY <1>11 DEF PressStop
<1>12. ASSUME Stop PROVE NoUnattendedRecording'
  BY <1>12 DEF Stop
<1>13. ASSUME MaxDuration PROVE NoUnattendedRecording'
  BY <1>13 DEF MaxDuration
<1>14. ASSUME Release PROVE NoUnattendedRecording'
  BY <1>14 DEF Release, Shadow
<1>15. ASSUME LeaveSession PROVE NoUnattendedRecording'
  BY <1>15 DEF LeaveSession
<1>16. ASSUME LeftAll PROVE NoUnattendedRecording'
  BY <1>16 DEF LeftAll
<1>17. ASSUME Seal PROVE NoUnattendedRecording'
  BY <1>17 DEF Seal
<1>18. ASSUME SealFails PROVE NoUnattendedRecording'
  BY <1>18 DEF SealFails
<1>19. ASSUME DiscardFailed PROVE NoUnattendedRecording'
  BY <1>19 DEF DiscardFailed
<1>20. ASSUME DiscardFails PROVE NoUnattendedRecording'
  BY <1>20 DEF DiscardFails
<1>21. ASSUME LaunchHoming PROVE NoUnattendedRecording'
  BY <1>21 DEF LaunchHoming
<1>22. ASSUME HomingEnds PROVE NoUnattendedRecording'
  BY <1>22 DEF HomingEnds
<1>23. ASSUME NEW line \in {"save", "discard", "replay", "quit"},
  Swallow(line) PROVE NoUnattendedRecording'
  BY <1>23 DEF Swallow
<1>24. ASSUME ChooseSave PROVE NoUnattendedRecording'
  BY <1>24 DEF ChooseSave, Heard
<1>25. ASSUME ChooseDiscard PROVE NoUnattendedRecording'
  BY <1>25 DEF ChooseDiscard, Heard
<1>26. ASSUME ChooseReplay PROVE NoUnattendedRecording'
  BY <1>26 DEF ChooseReplay, Heard
<1>27. ASSUME Replayed PROVE NoUnattendedRecording'
  BY <1>27 DEF Replayed
<1>28. ASSUME ChooseQuit PROVE NoUnattendedRecording'
  BY <1>28 DEF ChooseQuit, Heard
<1>29. ASSUME Join PROVE NoUnattendedRecording'
  BY <1>29 DEF Join
<1>30. ASSUME CtrlCScoped PROVE NoUnattendedRecording'
  BY <1>30 DEF CtrlCScoped, Unwind
<1>31. ASSUME CtrlCLeaving PROVE NoUnattendedRecording'
  BY <1>31 DEF CtrlCLeaving
<1>32. ASSUME CtrlCRecorder PROVE NoUnattendedRecording'
  BY <1>32 DEF CtrlCRecorder
<1>33. ASSUME CtrlC PROVE NoUnattendedRecording'
  BY <1>33 DEF CtrlC
<1>34. ASSUME Finally PROVE NoUnattendedRecording'
  BY <1>34 DEF Finally, Shadow
<1>35. CASE UNCHANGED vars
  BY <1>35 DEF vars
<1>. QED BY <1>1, <1>2, <1>3, <1>4, <1>5, <1>6, <1>7, <1>8, <1>9, <1>10,
  <1>11, <1>12, <1>13, <1>14, <1>15, <1>16, <1>17, <1>18, <1>19, <1>20, <1>21,
  <1>22, <1>23, <1>24, <1>25, <1>26, <1>27, <1>28, <1>29, <1>30, <1>31, <1>32,
  <1>33, <1>34, <1>35 DEF Next, EpisodeNext, GateNext

-----------------------------------------------------------------------------
(* The leaders float while their attempt is recorded.                       *)

LEMMA FloatKept == IInv /\ [Next]_vars => FloatIsRecorded'
<1> SUFFICES ASSUME IInv, [Next]_vars PROVE FloatIsRecorded'
  OBVIOUS
<1> USE DEF IInv, TypeOK, progressVars, scopeVars, otherVars, recordVars,
  leaderVars, inputVars, FloatIsRecorded, RecorderInStep, Scoped
<1>1. ASSUME Staged PROVE FloatIsRecorded'
  BY <1>1 DEF Staged
<1>2. ASSUME PressReady PROVE FloatIsRecorded'
  BY <1>2 DEF PressReady
<1>3. ASSUME Fails PROVE FloatIsRecorded'
  BY <1>3 DEF Fails
<1>4. ASSUME StartRecording PROVE FloatIsRecorded'
  BY <1>4 DEF StartRecording
<1>5. ASSUME StartFails PROVE FloatIsRecorded'
  BY <1>5 DEF StartFails
<1>6. ASSUME EnterSession PROVE FloatIsRecorded'
  BY <1>6 DEF EnterSession
<1>7. ASSUME EnterFails PROVE FloatIsRecorded'
  BY <1>7 DEF EnterFails, Unwind
<1>8. ASSUME Engaged PROVE FloatIsRecorded'
  BY <1>8 DEF Engaged
<1>9. ASSUME NotEngaged PROVE FloatIsRecorded'
  BY <1>9 DEF NotEngaged
<1>10. ASSUME Disengage PROVE FloatIsRecorded'
  BY <1>10 DEF Disengage, Shadow, Unwind
<1>11. ASSUME PressStop PROVE FloatIsRecorded'
  BY <1>11 DEF PressStop
<1>12. ASSUME Stop PROVE FloatIsRecorded'
  BY <1>12 DEF Stop
<1>13. ASSUME MaxDuration PROVE FloatIsRecorded'
  BY <1>13 DEF MaxDuration
<1>14. ASSUME Release PROVE FloatIsRecorded'
  BY <1>14 DEF Release, Shadow
<1>15. ASSUME LeaveSession PROVE FloatIsRecorded'
  <2>1. CASE failing
    <3>1. failing'
      BY <1>15, <2>1 DEF LeaveSession
    <3>. QED BY <3>1
  <2>2. CASE ~failing
    BY <1>15, <2>2 DEF LeaveSession
  <2>. QED BY <2>1, <2>2
<1>16. ASSUME LeftAll PROVE FloatIsRecorded'
  BY <1>16 DEF LeftAll
<1>17. ASSUME Seal PROVE FloatIsRecorded'
  BY <1>17 DEF Seal
<1>18. ASSUME SealFails PROVE FloatIsRecorded'
  BY <1>18 DEF SealFails
<1>19. ASSUME DiscardFailed PROVE FloatIsRecorded'
  BY <1>19 DEF DiscardFailed
<1>20. ASSUME DiscardFails PROVE FloatIsRecorded'
  BY <1>20 DEF DiscardFails
<1>21. ASSUME LaunchHoming PROVE FloatIsRecorded'
  BY <1>21 DEF LaunchHoming
<1>22. ASSUME HomingEnds PROVE FloatIsRecorded'
  BY <1>22 DEF HomingEnds
<1>23. ASSUME NEW line \in {"save", "discard", "replay", "quit"},
  Swallow(line) PROVE FloatIsRecorded'
  BY <1>23 DEF Swallow
<1>24. ASSUME ChooseSave PROVE FloatIsRecorded'
  BY <1>24 DEF ChooseSave, Heard
<1>25. ASSUME ChooseDiscard PROVE FloatIsRecorded'
  BY <1>25 DEF ChooseDiscard, Heard
<1>26. ASSUME ChooseReplay PROVE FloatIsRecorded'
  BY <1>26 DEF ChooseReplay, Heard
<1>27. ASSUME Replayed PROVE FloatIsRecorded'
  BY <1>27 DEF Replayed
<1>28. ASSUME ChooseQuit PROVE FloatIsRecorded'
  BY <1>28 DEF ChooseQuit, Heard
<1>29. ASSUME Join PROVE FloatIsRecorded'
  BY <1>29 DEF Join
<1>30. ASSUME CtrlCScoped PROVE FloatIsRecorded'
  BY <1>30 DEF CtrlCScoped, Unwind
<1>31. ASSUME CtrlCLeaving PROVE FloatIsRecorded'
  BY <1>31 DEF CtrlCLeaving
<1>32. ASSUME CtrlCRecorder PROVE FloatIsRecorded'
  BY <1>32 DEF CtrlCRecorder
<1>33. ASSUME CtrlC PROVE FloatIsRecorded'
  BY <1>33 DEF CtrlC
<1>34. ASSUME Finally PROVE FloatIsRecorded'
  BY <1>34 DEF Finally, Shadow
<1>35. CASE UNCHANGED vars
  BY <1>35 DEF vars
<1>. QED BY <1>1, <1>2, <1>3, <1>4, <1>5, <1>6, <1>7, <1>8, <1>9, <1>10,
  <1>11, <1>12, <1>13, <1>14, <1>15, <1>16, <1>17, <1>18, <1>19, <1>20, <1>21,
  <1>22, <1>23, <1>24, <1>25, <1>26, <1>27, <1>28, <1>29, <1>30, <1>31, <1>32,
  <1>33, <1>34, <1>35 DEF Next, EpisodeNext, GateNext

-----------------------------------------------------------------------------
(* The theorems.                                                            *)

LEMMA Initially == Init => IInv
<1> SUFFICES ASSUME Init PROVE IInv
  OBVIOUS
<1>1. TypeOK
  <2>1. episode \in 1..Target + 1 /\ attempt \in 0..MaxAttempt /\ entered \in 0..LeaderCount
    BY Configured DEF Init
  <2>2. /\ recorder \in [Attempt -> {"none", "recording", "sealed", "discarded", "removed"}]
        /\ pc \in PC
    BY DEF Init, PC
  <2>3. /\ failing \in BOOLEAN /\ homing \in BOOLEAN /\ struck \in BOOLEAN
        /\ reader \in BOOLEAN /\ stopped \in BOOLEAN
        /\ floating \in BOOLEAN /\ unsure \in BOOLEAN
    BY DEF Init
  <2>. QED BY <2>1, <2>2, <2>3 DEF Init, TypeOK
<1>2. Underway /\ SavedBefore /\ RecorderInStep /\ EnteredInside /\ HomingInside
  BY Configured DEF Init, Underway, SavedBefore, RecorderInStep,
    EnteredInside, HomingInside, Pending, Scoped, Judging
<1>3. SavedIsSealed /\ NoUnattendedRecording /\ FloatIsRecorded
  BY DEF Init, SavedIsSealed, NoUnattendedRecording, FloatIsRecorded
<1>. QED BY <1>1, <1>2, <1>3 DEF IInv

\* The inductive invariant holds in every reachable state.
THEOREM Invariance == Spec => []IInv
<1>1. IInv /\ [Next]_vars => IInv'
  BY TypeKept, UnderwayKept, SavedBeforeKept, RecorderInStepKept,
    EnteredInsideKept, HomingInsideKept, SavedIsSealedKept, AttendedKept,
    FloatKept DEF IInv
<1>. QED BY Initially, <1>1, PTL DEF Spec

\* Every variable of the recording application keeps its type.
THEOREM TypeCorrect == Spec => []TypeOK
<1>1. IInv => TypeOK
  BY DEF IInv
<1>. QED BY Invariance, <1>1, PTL

\* record.py, the quality gate: an attempt reported as saved was sealed, and is
\* never removed afterwards.
THEOREM SavedIsSealedHolds == Spec => []SavedIsSealed
<1>1. IInv => SavedIsSealed
  BY DEF IInv
<1>. QED BY Invariance, <1>1, PTL

\* recording.py, EpisodeScope: the recorder does not outlive its scope, unless a
\* call to it failed or was cut short.
THEOREM NoUnattendedRecordingHolds == Spec => []NoUnattendedRecording
<1>1. IInv => NoUnattendedRecording
  BY DEF IInv
<1>. QED BY Invariance, <1>1, PTL

\* record.py, record_episode: the leaders float only while the attempt is being
\* recorded, unless something went wrong.
THEOREM FloatIsRecordedHolds == Spec => []FloatIsRecorded
<1>1. IInv => FloatIsRecorded
  BY DEF IInv
<1>. QED BY Invariance, <1>1, PTL

\* record.py: the homing thread of the quality gate has the robot to itself.
THEOREM OneMoverHolds == Spec => []OneMover
<1>1. IInv => OneMover
  BY DEF IInv, EnteredInside, HomingInside, Scoped, OneMover
<1>. QED BY Invariance, <1>1, PTL
=============================================================================
