----------------------------- MODULE RecordApp -----------------------------
(***************************************************************************)
(* The episode loop of apps/record.py with the EpisodeScope of             *)
(* rmi/recording.py: home the robot, wait for the operator, record one     *)
(* attempt while the leaders float, seal it, and let the operator judge it *)
(* while a thread takes the robot home again.                              *)
(*                                                                         *)
(* Every call that leaves the process may fail; an error or one Ctrl+C     *)
(* unwinds the nested scopes, and the finally block of main() ends the     *)
(* application.  The recorder, the leader drivers and the terminal, which  *)
(* hands a line to the thread that has waited longest, are outside src/.   *)
(***************************************************************************)
EXTENDS Naturals, Sequences, FiniteSets, AppConfig

VARIABLES
  pc,          \* where main() is
  episode,     \* current_ep_idx
  attempt,     \* the attempt under way, counted over the whole session
  saved,       \* saved_episodes
  entered,     \* how many sessions the ExitStack holds
  failing,     \* an exception unwinds the scopes
  homing,      \* the homing thread of the quality gate runs
  reader,      \* a stop_thread waits for its line
  stopped,     \* stop_event
  struck,      \* Ctrl+C has struck
  recorder,    \* recorder: what became of each attempt
  floating,    \* leader drivers: some leader is in float mode
  lost,        \* history: attempts whose recorder call failed or was cut short
  unsure,      \* history: the last mode change went wrong
  swallowed    \* history: lines typed at the gate that the gate did not get

progressVars == <<episode, attempt, saved>>
scopeVars == <<entered, failing>>
otherVars == <<homing, struck>>
recordVars == <<recorder, lost>>
leaderVars == <<floating, unsure>>
inputVars  == <<reader, stopped, swallowed>>
vars == <<pc, progressVars, scopeVars, otherVars, recordVars, leaderVars, inputVars>>

-----------------------------------------------------------------------------
Attempt == 1..MaxAttempt
LeaderCount == Len(Leaders)
PC == {"staging", "ready", "starting", "entering", "engaging", "disengaging",
       "recording", "releasing", "leaving", "closing", "launching", "gate",
       "joining", "replaying", "finally", "closed"}

TypeOK ==
  /\ pc \in PC
  /\ episode \in 1..Target + 1
  /\ attempt \in 0..MaxAttempt
  /\ saved \in SUBSET Attempt
  /\ entered \in 0..LeaderCount
  /\ recorder \in [Attempt -> {"none", "recording", "sealed", "discarded", "removed"}]
  /\ lost \in SUBSET Attempt
  /\ swallowed \in SUBSET {"save", "discard", "replay", "quit"}
  /\ failing \in BOOLEAN /\ homing \in BOOLEAN /\ struck \in BOOLEAN
  /\ reader \in BOOLEAN /\ stopped \in BOOLEAN
  /\ floating \in BOOLEAN /\ unsure \in BOOLEAN

Init ==
  /\ pc = "staging" /\ episode = 1 /\ attempt = 0 /\ saved = {}
  /\ entered = 0 /\ failing = FALSE /\ homing = FALSE /\ struck = FALSE
  /\ recorder = [a \in Attempt |-> "none"] /\ lost = {}
  /\ floating = FALSE /\ unsure = FALSE
  /\ reader = FALSE /\ stopped = FALSE /\ swallowed = {}

-----------------------------------------------------------------------------
(* Staging and the ready prompt.                                            *)

\* The first smooth_homing(), in the main thread.
Staged ==
  /\ pc = "staging"
  /\ pc' = "ready"
  /\ UNCHANGED <<progressVars, scopeVars, otherVars, recordVars, leaderVars,
                 inputVars>>

\* ENTER at the ready prompt begins an attempt.
PressReady ==
  /\ pc = "ready" /\ attempt < MaxAttempt
  /\ pc' = "starting"
  /\ attempt' = attempt + 1
  /\ stopped' = FALSE
  /\ UNCHANGED <<episode, saved, scopeVars, otherVars, recordVars, leaderVars,
                 reader, swallowed>>

\* An exception outside the episode goes to the finally block: homing fails, the
\* input ends, or the recorder names no path for the sealed episode.
Fails ==
  /\ pc \in {"staging", "ready", "launching", "gate"}
  /\ pc' = "finally"
  /\ UNCHANGED <<progressVars, scopeVars, otherVars, recordVars, leaderVars,
                 inputVars>>

-----------------------------------------------------------------------------
(* Recording.                                                               *)

\* EpisodeScope.__enter__
StartRecording ==
  /\ pc = "starting"
  /\ pc' = "entering"
  /\ recorder' = [recorder EXCEPT ![attempt] = "recording"]
  /\ UNCHANGED <<progressVars, scopeVars, otherVars, lost, leaderVars,
                 inputVars>>

\* It raises; the recorder may have started all the same.
StartFails ==
  /\ pc = "starting"
  /\ pc' = "finally"
  /\ recorder' \in {recorder, [recorder EXCEPT ![attempt] = "recording"]}
  /\ lost' = lost \cup {attempt}
  /\ UNCHANGED <<progressVars, scopeVars, otherVars, leaderVars, inputVars>>

\* One session per leader, with its relay subscriptions.
EnterSession ==
  /\ pc = "entering" /\ entered < LeaderCount
  /\ entered' = entered + 1
  /\ pc' = IF entered' = LeaderCount THEN "engaging" ELSE pc
  /\ UNCHANGED <<progressVars, failing, otherVars, recordVars, leaderVars,
                 inputVars>>

\* An exception inside the scopes unwinds them.
Unwind == pc' = "leaving" /\ failing' = TRUE

EnterFails ==
  /\ pc = "entering"
  /\ Unwind
  /\ UNCHANGED <<progressVars, entered, otherVars, recordVars, leaderVars,
                 inputVars>>

\* Every leader has confirmed: stop_thread begins to wait for ENTER.
Engaged ==
  /\ pc = "engaging"
  /\ pc' = "recording"
  /\ floating' = TRUE /\ unsure' = FALSE
  /\ reader' = TRUE
  /\ UNCHANGED <<progressVars, scopeVars, otherVars, recordVars, stopped,
                 swallowed>>

NotEngaged ==
  /\ pc = "engaging"
  /\ pc' = "disengaging"
  /\ floating' \in BOOLEAN /\ unsure' = TRUE
  /\ UNCHANGED <<progressVars, scopeVars, otherVars, recordVars, inputVars>>

\* set_teleop_preempt(False): its result is not looked at.
Shadow == \/ floating' = FALSE /\ unsure' = FALSE
          \/ floating' \in {floating, FALSE} /\ unsure' = TRUE

\* The leaders are taken back and RuntimeError is raised.
Disengage ==
  /\ pc = "disengaging"
  /\ Shadow
  /\ Unwind
  /\ UNCHANGED <<progressVars, entered, otherVars, recordVars, inputVars>>

\* A line typed before the gate prompts reaches stop_thread: while the attempt is
\* recorded it ends the loop, later it does nothing.
PressStop ==
  /\ pc \in {"recording", "releasing", "leaving", "closing", "launching"} /\ reader
  /\ reader' = FALSE /\ stopped' = TRUE
  /\ UNCHANGED <<pc, progressVars, scopeVars, otherVars, recordVars,
                 leaderVars, swallowed>>

\* The recording loop sees stop_event.
Stop ==
  /\ pc = "recording" /\ stopped
  /\ pc' = "releasing"
  /\ UNCHANGED <<progressVars, scopeVars, otherVars, recordVars, leaderVars,
                 inputVars>>

\* max_duration_s has passed; stop_thread still waits for its line.
MaxDuration ==
  /\ pc = "recording" /\ ~stopped
  /\ pc' = "releasing"
  /\ UNCHANGED <<progressVars, scopeVars, otherVars, recordVars, leaderVars,
                 inputVars>>

\* Mutant of Release: the leaders are left to the cleanup of the application.
ReleaseLater ==
  /\ pc = "releasing"
  /\ pc' = "leaving"
  /\ UNCHANGED <<progressVars, scopeVars, otherVars, recordVars, leaderVars,
                 inputVars>>

\* Back to shadow mode, while the sessions are entered and the recorder runs.
Release ==
  /\ pc = "releasing"
  /\ Shadow
  /\ pc' = "leaving"
  /\ UNCHANGED <<progressVars, scopeVars, otherVars, recordVars, inputVars>>

\* ExitStack.__exit__: a session that raises makes the attempt a failed one.
LeaveSession ==
  /\ pc = "leaving" /\ entered > 0
  /\ entered' = entered - 1
  /\ failing' \in {failing, TRUE}
  /\ UNCHANGED <<pc, progressVars, otherVars, recordVars, leaderVars,
                 inputVars>>

LeftAll ==
  /\ pc = "leaving" /\ entered = 0
  /\ pc' = "closing"
  /\ UNCHANGED <<progressVars, scopeVars, otherVars, recordVars, leaderVars,
                 inputVars>>

-----------------------------------------------------------------------------
(* EpisodeScope.__exit__: discard after an exception, seal otherwise.       *)

\* Mutant of Seal: the attempt is sealed while the operator judges it.
SealInBackground ==
  /\ pc = "closing" /\ ~failing
  /\ pc' = "launching"
  /\ UNCHANGED <<progressVars, scopeVars, otherVars, recordVars, leaderVars,
                 inputVars>>

Seal ==
  /\ pc = "closing" /\ ~failing
  /\ recorder' = [recorder EXCEPT ![attempt] = "sealed"]
  /\ pc' = "launching"
  /\ UNCHANGED <<progressVars, scopeVars, otherVars, lost, leaderVars,
                 inputVars>>

\* stop_recording() raises; what it did is not known.
SealFails ==
  /\ pc = "closing" /\ ~failing
  /\ recorder' \in {recorder, [recorder EXCEPT ![attempt] = "sealed"]}
  /\ lost' = lost \cup {attempt}
  /\ pc' = "finally"
  /\ UNCHANGED <<progressVars, scopeVars, otherVars, leaderVars, inputVars>>

\* Mutant of DiscardFailed: nobody tells the recorder.
DropFailed ==
  /\ pc = "closing" /\ failing
  /\ failing' = FALSE
  /\ pc' = "finally"
  /\ UNCHANGED <<progressVars, entered, otherVars, recordVars, leaderVars,
                 inputVars>>

\* The exception goes on after the discard.
DiscardFailed ==
  /\ pc = "closing" /\ failing
  /\ recorder' = [recorder EXCEPT ![attempt] = "discarded"]
  /\ failing' = FALSE
  /\ pc' = "finally"
  /\ UNCHANGED <<progressVars, entered, otherVars, lost, leaderVars,
                 inputVars>>

\* discard() raises, which is logged only.
DiscardFails ==
  /\ pc = "closing" /\ failing
  /\ recorder' \in {recorder, [recorder EXCEPT ![attempt] = "discarded"]}
  /\ lost' = lost \cup {attempt}
  /\ failing' = FALSE
  /\ pc' = "finally"
  /\ UNCHANGED <<progressVars, entered, otherVars, leaderVars, inputVars>>

-----------------------------------------------------------------------------
(* The quality gate.                                                        *)

\* The homing thread starts, and the gate prompts.
LaunchHoming ==
  /\ pc = "launching"
  /\ homing' = TRUE
  /\ pc' = "gate"
  /\ UNCHANGED <<progressVars, scopeVars, struck, recordVars, leaderVars,
                 inputVars>>

\* It arrives, or fails.
HomingEnds ==
  /\ homing
  /\ homing' = FALSE
  /\ UNCHANGED <<pc, progressVars, scopeVars, struck, recordVars, leaderVars,
                 inputVars>>

\* A line typed at the gate reaches it when no stop_thread waits before it.
Heard == pc = "gate" /\ ~reader

\* The stop_thread of an attempt that ran into max_duration_s takes the line.
Swallow(line) ==
  /\ pc = "gate" /\ reader
  /\ reader' = FALSE /\ stopped' = TRUE
  /\ swallowed' = swallowed \cup {line}
  /\ UNCHANGED <<pc, progressVars, scopeVars, otherVars, recordVars,
                 leaderVars>>

ChooseSave ==
  /\ Heard
  /\ saved' = saved \cup {attempt}
  /\ episode' = episode + 1
  /\ pc' = "joining"
  /\ UNCHANGED <<attempt, scopeVars, otherVars, recordVars, leaderVars,
                 inputVars>>

\* Mutant of ChooseDiscard: the next attempt does not wait for the thread.
DiscardAtOnce ==
  /\ Heard
  /\ recorder' = [recorder EXCEPT ![attempt] = "removed"]
  /\ pc' = "ready"
  /\ UNCHANGED <<progressVars, scopeVars, otherVars, lost, leaderVars,
                 inputVars>>

\* shutil.rmtree() of the attempt's directory, which ignores errors.
ChooseDiscard ==
  /\ Heard
  /\ recorder' \in {recorder, [recorder EXCEPT ![attempt] = "removed"]}
  /\ pc' = "joining"
  /\ UNCHANGED <<progressVars, scopeVars, otherVars, lost, leaderVars,
                 inputVars>>

\* The replay runs in a process of its own once the thread has been joined.
ChooseReplay ==
  /\ Heard /\ ~homing
  /\ pc' = "replaying"
  /\ UNCHANGED <<progressVars, scopeVars, otherVars, recordVars, leaderVars,
                 inputVars>>

Replayed ==
  /\ pc = "replaying"
  /\ pc' = "gate"
  /\ UNCHANGED <<progressVars, scopeVars, otherVars, recordVars, leaderVars,
                 inputVars>>

ChooseQuit ==
  /\ Heard
  /\ episode' = Target + 1
  /\ pc' = "joining"
  /\ UNCHANGED <<attempt, saved, scopeVars, otherVars, recordVars, leaderVars,
                 inputVars>>

\* homing_thread.join(), then the next episode or attempt, if there is one.
Join ==
  /\ pc = "joining" /\ ~homing
  /\ pc' = IF episode <= Target THEN "staging" ELSE "finally"
  /\ UNCHANGED <<progressVars, scopeVars, otherVars, recordVars, leaderVars,
                 inputVars>>

-----------------------------------------------------------------------------
(* Ctrl+C and the end.                                                      *)

Scoped == {"entering", "engaging", "disengaging", "recording", "releasing"}

\* Inside the scopes Ctrl+C unwinds them; a mode change under way stays open.
CtrlCScoped ==
  /\ ~struck /\ pc \in Scoped
  /\ struck' = TRUE
  /\ Unwind
  /\ IF pc \in {"engaging", "disengaging", "releasing"}
     THEN floating' \in BOOLEAN /\ unsure' = TRUE
     ELSE UNCHANGED leaderVars
  /\ UNCHANGED <<progressVars, entered, homing, recordVars, inputVars>>

\* In the exit of a session it makes the attempt a failed one.
CtrlCLeaving ==
  /\ ~struck /\ pc = "leaving"
  /\ struck' = TRUE
  /\ failing' = TRUE
  /\ entered' = IF entered = 0 THEN 0 ELSE entered - 1
  /\ UNCHANGED <<pc, progressVars, homing, recordVars, leaderVars, inputVars>>

\* In a recorder call its outcome stays open.
CtrlCRecorder ==
  /\ ~struck /\ pc \in {"starting", "closing"}
  /\ struck' = TRUE
  /\ failing' = FALSE
  /\ pc' = "finally"
  /\ recorder' \in {recorder} \cup
       {[recorder EXCEPT ![attempt] = r] :
          r \in IF pc = "starting" THEN {"recording"}
                ELSE IF failing THEN {"discarded"} ELSE {"sealed"}}
  /\ lost' = lost \cup {attempt}
  /\ UNCHANGED <<progressVars, entered, homing, leaderVars, inputVars>>

\* Elsewhere it goes to the finally block; nobody joins the homing thread.
CtrlC ==
  /\ ~struck /\ pc \in {"staging", "ready", "launching", "gate", "joining", "replaying"}
  /\ struck' = TRUE
  /\ pc' = "finally"
  /\ UNCHANGED <<progressVars, scopeVars, homing, recordVars, leaderVars,
                 inputVars>>

\* set_teleop_preempt(False) and ctx.close().
Finally ==
  /\ pc = "finally"
  /\ Shadow
  /\ pc' = "closed"
  /\ UNCHANGED <<progressVars, scopeVars, otherVars, recordVars, inputVars>>

-----------------------------------------------------------------------------
EpisodeNext ==
  \/ Staged \/ PressReady \/ Fails \/ StartRecording \/ StartFails
  \/ EnterSession \/ EnterFails \/ Engaged \/ NotEngaged \/ Disengage
  \/ PressStop \/ Stop \/ MaxDuration \/ Release \/ LeaveSession \/ LeftAll
  \/ Seal \/ SealFails \/ DiscardFailed \/ DiscardFails

GateNext ==
  \/ LaunchHoming \/ HomingEnds
  \/ \E line \in {"save", "discard", "replay", "quit"} : Swallow(line)
  \/ ChooseSave \/ ChooseDiscard \/ ChooseReplay \/ Replayed \/ ChooseQuit \/ Join

Next == EpisodeNext \/ GateNext
        \/ CtrlCScoped \/ CtrlCLeaving \/ CtrlCRecorder \/ CtrlC \/ Finally

Spec == Init /\ [][Next]_vars

-----------------------------------------------------------------------------
(* Properties.                                                              *)

\* What is reported as saved is a sealed episode on disk: no attempt is saved
\* that was not sealed, and none is removed later.
SavedIsSealed == \A a \in saved : recorder[a] = "sealed"

\* The recorder never goes on without its scope, on any path out of it, unless a
\* call to it failed or was cut short.
NoUnattendedRecording ==
  \A a \in Attempt : recorder[a] = "recording" =>
    \/ a = attempt /\ pc \in Scoped \cup {"leaving", "closing"}
    \/ a \in lost

\* apps/README.md, "Zero-Drop Guaranteed Start": the leaders float only while
\* their attempt is being recorded, except when an exception or a failed mode
\* change left them floating.
FloatIsRecorded ==
  floating => \/ pc \in Scoped /\ recorder[attempt] = "recording"
              \/ failing \/ unsure \/ struck \/ pc \in {"finally", "closed"}

\* One mover at a time: while the homing thread runs, no session relays the
\* leaders, no replay runs and no other homing.
OneMover == homing => entered = 0 /\ pc \notin {"staging", "entering", "replaying"}

\* apps/README.md, "Interactive Quality Inspection": what the operator types at
\* the quality gate reaches it.
GateHearsOperator == swallowed = {}
=============================================================================
