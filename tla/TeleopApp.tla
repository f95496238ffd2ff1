----------------------------- MODULE TeleopApp -----------------------------
(***************************************************************************)
(* The main thread of apps/teleop.py: it engages and releases the leader   *)
(* arms at the press of a key.  Engaging enters one session per leader and *)
(* then asks every leader driver for its 0-G float mode; releasing undoes  *)
(* the two in the opposite order.  Claims, releases and mode changes may   *)
(* fail one by one, other clients may preempt, and Ctrl+C strikes once, at *)
(* any point.                                                              *)
(*                                                                         *)
(* A session is only what its users see of it here: entering it succeeds   *)
(* or raises, leaving it may raise (RmiSession has the rest).  The leader  *)
(* drivers and rclpy's reaction to the signal are outside src/.            *)
(***************************************************************************)
EXTENDS Naturals, Sequences, AppConfig

VARIABLES
  pc,          \* where main() is
  i,           \* the loop over the teleoperators
  isActive,    \* is_active
  sessions,    \* the keys of the dictionary the relay callbacks look into
  stack,       \* the sessions on the ExitStack, innermost last
  adopted,     \* active_stack is that stack; until then only candidate is
  confirmed,   \* set_teleop_preempt has had no failure so far
  ending,      \* the finally block of main() is running
  contextOk,   \* node.context.ok()
  struck,      \* where Ctrl+C struck ("finally" for all of that), or "never"
  held,        \* EM: the leaders whose session's lease is current
  leader,      \* leader drivers: their mode
  late,        \* leader drivers: requests that timed out, still to be served
  unsure,      \* history: the leaders whose last mode change went wrong
  unreleased   \* history: the leaders whose claim or release raised

appVars == <<i, isActive, sessions, stack, adopted, confirmed, ending>>
vars == <<pc, appVars, contextOk, struck, held, leader, late, unsure,
          unreleased>>

-----------------------------------------------------------------------------
Leader == {Leaders[j] : j \in DOMAIN Leaders}
Last   == Len(Leaders)
Entered == {stack[j] : j \in DOMAIN stack}
Mode == {"shadow", "float"}
PC == {"prompt", "claiming", "rollback", "engaging", "shadowing", "closing",
       "closed"}

TypeOK ==
  /\ pc \in PC
  /\ i \in 1..Last + 1
  /\ isActive \in BOOLEAN
  /\ sessions \in SUBSET Leader
  /\ stack \in Seq(Leader) /\ Len(stack) <= Last
  /\ adopted \in BOOLEAN
  /\ confirmed \in BOOLEAN
  /\ ending \in BOOLEAN
  /\ contextOk \in BOOLEAN
  /\ struck \in PC \cup {"never", "finally"}
  /\ held \in SUBSET Leader
  /\ leader \in [Leader -> Mode]
  /\ late \in SUBSET (Leader \X Mode)
  /\ unsure \in SUBSET Leader
  /\ unreleased \in SUBSET Leader

Init ==
  /\ pc = "prompt" /\ i = 1 /\ isActive = FALSE
  /\ sessions = {} /\ stack = << >> /\ adopted = FALSE
  /\ confirmed = TRUE /\ ending = FALSE
  /\ contextOk = TRUE /\ struck = "never"
  /\ held = {} /\ leader = [d \in Leader |-> "shadow"] /\ late = {}
  /\ unsure = {} /\ unreleased = {}

-----------------------------------------------------------------------------
(* Outside src/: the Execution Manager and the leader drivers.              *)

EmPreempts(d) ==
  /\ held' = held \ {d} /\ d \in held
  /\ UNCHANGED <<pc, appVars, contextOk, struck, leader, late, unsure,
                 unreleased>>

\* A request whose caller has given up is carried out all the same.
LeaderLate(d, mode) ==
  /\ <<d, mode>> \in late
  /\ late' = late \ {<<d, mode>>}
  /\ leader' = [leader EXCEPT ![d] = mode]
  /\ UNCHANGED <<pc, appVars, contextOk, struck, held, unsure, unreleased>>

-----------------------------------------------------------------------------
(* The prompt.                                                              *)

\* Mutant of ReleaseBegins: the sessions are left while the leaders still float.
ReleaseWithoutShadow ==
  /\ pc' = "shadowing"
  /\ i' = Last + 1

\* _release_teleop() begins.
ReleaseBegins ==
  /\ pc' = "shadowing"
  /\ i' = 1

\* main() goes to its finally block.
Finally == ending' = TRUE /\ ReleaseBegins

\* ExitStack.close(), of the active stack or of the candidate, has sessions to
\* leave.
Closing == (pc = "rollback" \/ (pc = "closing" /\ adopted)) /\ stack # << >>

\* set_teleop_preempt() has a driver to ask.
Asking == pc \in {"engaging", "shadowing"} /\ i <= Last /\ contextOk

\* One request for mode is answered: a driver serves them in their order.
LeaderObeys(mode) ==
  /\ Asking
  /\ i' = i + 1
  /\ leader' = [leader EXCEPT ![Leaders[i]] = mode]
  /\ late' = late \ ({Leaders[i]} \X Mode)
  /\ unsure' = unsure \ {Leaders[i]}

\* One request for mode goes wrong; it may still be served.
LeaderUnsure(mode) ==
  /\ Asking
  /\ late' \in {late, late \cup {<<Leaders[i], mode>>}}
  /\ unsure' = unsure \cup {Leaders[i]}

\* ENTER: engage or release.
PressEnter ==
  /\ pc = "prompt"
  /\ isActive' = ~isActive
  /\ IF isActive THEN ReleaseBegins ELSE pc' = "claiming" /\ i' = 1
  /\ UNCHANGED <<sessions, stack, adopted, confirmed, ending, contextOk,
                 struck, held, leader, late, unsure, unreleased>>

\* What Ctrl+C does: the prompt catches it, elsewhere it goes up to the finally
\* block, and in that block it ends the process.  rclpy's own handler may have
\* shut the context down.
Strikes ==
  /\ struck = "never"
  /\ struck' = IF ending THEN "finally" ELSE pc
  /\ contextOk' \in BOOLEAN
StrikesOut ==
  /\ Strikes
  /\ IF ending THEN pc' = "closed" /\ UNCHANGED <<i, ending>>
               ELSE Finally

\* In the engage loop the candidate stack is dropped as it is, and the claim under
\* way with it.
CtrlC ==
  /\ pc # "closed" /\ ~Closing /\ ~Asking
  /\ StrikesOut
  /\ \/ UNCHANGED held
     \/ pc = "claiming" /\ held' = held \cup {Leaders[i]}
  /\ UNCHANGED <<isActive, sessions, stack, adopted, confirmed, leader, late,
                 unsure, unreleased>>

\* Ctrl+C while a driver's answer is awaited.
CtrlCAsking ==
  /\ Asking
  /\ StrikesOut
  /\ LeaderUnsure(IF pc = "engaging" THEN "float" ELSE "shadow")
  /\ UNCHANGED <<isActive, sessions, stack, adopted, confirmed, held, leader,
                 unreleased>>

\* Ctrl+C in the exit of a session: whether it was released stays open, and the
\* ExitStack leaves the others before the exception goes on.
CtrlCClosing ==
  /\ Closing /\ Strikes
  /\ held' \in {held, held \ {stack[Len(stack)]}}
  /\ stack' = SubSeq(stack, 1, Len(stack) - 1)
  /\ UNCHANGED <<pc, i, isActive, sessions, adopted, confirmed, ending, leader,
                 late, unsure, unreleased>>

-----------------------------------------------------------------------------
(* Engage.                                                                  *)

\* sessions[name] = candidate.enter_context(agent.run(...)); after the last one
\* the candidate becomes the active stack.
EnterSession ==
  /\ pc = "claiming"
  /\ sessions' = sessions \cup {Leaders[i]}
  /\ stack' = Append(stack, Leaders[i])
  /\ held' = held \cup {Leaders[i]}
  /\ IF i < Last
     THEN pc' = pc /\ i' = i + 1 /\ UNCHANGED <<adopted, confirmed>>
     ELSE pc' = "engaging" /\ i' = 1 /\ adopted' = TRUE /\ confirmed' = TRUE
  /\ UNCHANGED <<isActive, ending, contextOk, struck, leader, late, unsure,
                 unreleased>>

\* The claim raises (its lease may stay with the EM); the callbacks lose their
\* sessions before these are left.
EnterRaises ==
  /\ pc = "claiming"
  /\ pc' = "rollback"
  /\ sessions' = {}
  /\ held' \in {held, held \cup {Leaders[i]}}
  /\ unreleased' = unreleased \cup {Leaders[i]}
  /\ UNCHANGED <<i, isActive, stack, adopted, confirmed, ending, contextOk,
                 struck, leader, late, unsure>>

\* set_teleop_preempt(True), one leader after the other.
LeaderFloats ==
  /\ pc = "engaging" /\ LeaderObeys("float")
  /\ UNCHANGED <<pc, isActive, sessions, stack, adopted, confirmed, ending,
                 contextOk, struck, held, unreleased>>

\* The service is missing, refuses, or does not answer in time; the loop goes on
\* to the next leader.
LeaderDoesNotFloat ==
  /\ pc = "engaging" /\ LeaderUnsure("float")
  /\ confirmed' = FALSE
  /\ i' = i + 1
  /\ UNCHANGED <<pc, isActive, sessions, stack, adopted, ending, contextOk,
                 struck, held, leader, unreleased>>

Engaged ==
  /\ pc = "engaging" /\ i > Last /\ confirmed
  /\ pc' = "prompt"
  /\ UNCHANGED <<appVars, contextOk, struck, held, leader, late, unsure,
                 unreleased>>

\* Mutant of NotEngaged: a leader that did not confirm is only reported.
EngagedAnyway ==
  /\ pc = "engaging" /\ i > Last /\ ~confirmed
  /\ pc' = "prompt"
  /\ UNCHANGED <<appVars, contextOk, struck, held, leader, late, unsure,
                 unreleased>>

\* Not every leader confirmed: release them all.
NotEngaged ==
  /\ pc = "engaging" /\ i > Last /\ ~confirmed
  /\ ReleaseBegins
  /\ UNCHANGED <<isActive, sessions, stack, adopted, confirmed, ending,
                 contextOk, struck, held, leader, late, unsure, unreleased>>

-----------------------------------------------------------------------------
(* Release.                                                                 *)

\* set_teleop_preempt(False): its result is not looked at.
LeaderShadows ==
  /\ pc = "shadowing" /\ LeaderObeys("shadow")
  /\ UNCHANGED <<pc, isActive, sessions, stack, adopted, confirmed, ending,
                 contextOk, struck, held, unreleased>>

LeaderDoesNotShadow ==
  /\ pc = "shadowing" /\ LeaderUnsure("shadow")
  /\ i' = i + 1
  /\ UNCHANGED <<pc, isActive, sessions, stack, adopted, confirmed, ending,
                 contextOk, struck, held, leader, unreleased>>

\* Once the rclpy context is gone nobody is asked: the leaders stay in the mode
\* they are in.
NobodyAsked ==
  /\ pc = "shadowing" /\ i <= Last /\ ~contextOk
  /\ i' = Last + 1
  /\ UNCHANGED <<pc, isActive, sessions, stack, adopted, confirmed, ending,
                 contextOk, struck, held, leader, late, unsure, unreleased>>

\* Mutant of ForgetSessions: the callbacks keep their sessions.
KeepSessions ==
  /\ pc = "shadowing" /\ i > Last
  /\ pc' = "closing"
  /\ UNCHANGED <<i, sessions, isActive, stack, adopted, confirmed, ending,
                 contextOk, struck, held, leader, late, unsure, unreleased>>

\* sessions.clear()
ForgetSessions ==
  /\ pc = "shadowing" /\ i > Last
  /\ sessions' = {}
  /\ pc' = "closing"
  /\ UNCHANGED <<i, isActive, stack, adopted, confirmed, ending, contextOk,
                 struck, held, leader, late, unsure, unreleased>>

\* Every session is left, the innermost first, also after one of them has raised.
CloseSession ==
  /\ Closing
  /\ LET d == stack[Len(stack)]
     IN  \/ held' = held \ {d} /\ UNCHANGED unreleased
         \/ UNCHANGED held /\ unreleased' = unreleased \cup {d}
  /\ stack' = SubSeq(stack, 1, Len(stack) - 1)
  /\ UNCHANGED <<pc, i, isActive, sessions, adopted, confirmed, ending,
                 contextOk, struck, leader, late, unsure>>

\* Mutant of RolledBack: the sessions of the candidate are not left.
RollBackNothing ==
  /\ pc = "rollback"
  /\ isActive' = FALSE
  /\ Finally
  /\ UNCHANGED <<sessions, stack, adopted, confirmed, contextOk, struck, held,
                 leader, late, unsure, unreleased>>

\* The exception of the engage loop goes on to the finally block.
RolledBack ==
  /\ pc = "rollback" /\ stack = << >>
  /\ isActive' = FALSE
  /\ Finally
  /\ UNCHANGED <<sessions, stack, adopted, confirmed, contextOk, struck, held,
                 leader, late, unsure, unreleased>>

\* Mutant of Released: an exception from a session leaves the others entered.
ReleasedSome ==
  /\ pc = "closing" /\ ~ending
  /\ pc' = "prompt"
  /\ isActive' = FALSE /\ adopted' = FALSE
  /\ UNCHANGED <<i, sessions, stack, confirmed, ending, contextOk, struck, held,
                 leader, late, unsure, unreleased>>

\* Back to the prompt.
Released ==
  /\ pc = "closing" /\ ~Closing /\ ~ending /\ struck = "never"
  /\ pc' = "prompt"
  /\ isActive' = FALSE /\ adopted' = FALSE
  /\ UNCHANGED <<i, sessions, stack, confirmed, ending, contextOk, struck, held,
                 leader, late, unsure, unreleased>>

\* The interrupted release is done: on to the finally block.
ReleaseInterrupted ==
  /\ pc = "closing" /\ ~Closing /\ ~ending /\ struck = "closing"
  /\ Finally
  /\ UNCHANGED <<isActive, sessions, stack, adopted, confirmed, contextOk,
                 struck, held, leader, late, unsure, unreleased>>

\* ctx.close()
Close ==
  /\ pc = "closing" /\ ~Closing /\ ending
  /\ pc' = "closed"
  /\ isActive' = FALSE /\ adopted' = FALSE
  /\ UNCHANGED <<i, sessions, stack, confirmed, ending, contextOk, struck, held,
                 leader, late, unsure, unreleased>>

-----------------------------------------------------------------------------
Next ==
  \/ \E d \in Leader : EmPreempts(d)
  \/ \E d \in Leader, mode \in Mode : LeaderLate(d, mode)
  \/ PressEnter \/ CtrlC \/ CtrlCClosing \/ CtrlCAsking
  \/ EnterSession \/ EnterRaises
  \/ LeaderFloats \/ LeaderDoesNotFloat \/ Engaged \/ NotEngaged
  \/ LeaderShadows \/ LeaderDoesNotShadow \/ NobodyAsked \/ ForgetSessions
  \/ CloseSession \/ RolledBack \/ Released \/ ReleaseInterrupted \/ Close

Spec == Init /\ [][Next]_vars

-----------------------------------------------------------------------------
(* Properties.                                                              *)

\* The relay callbacks find only sessions that are entered: on every path they
\* lose the session before it is left.  (What a callback does with a session it
\* found before is CommandClient's.)
RelayReachesEntered == sessions \subseteq Entered

\* A leader floats only while its arm is under the session's control: it is
\* entered before and left after, unless a request to that leader went wrong.
\* This is said of the time the ROS context is up: without it nobody can be
\* asked (QuitLeavesNobodyFloating).
FloatOnlyUnderControl ==
  contextOk =>
    \A d \in Leader : leader[d] = "float" => d \in Entered \/ d \in unsure

\* The active prompt is only shown when every session is entered, every relay is
\* connected and every leader has confirmed 0-G mode.
ActiveMeansAll ==
  (pc = "prompt" /\ isActive) =>
    /\ Entered = Leader /\ sessions = Leader
    /\ \A d \in Leader : leader[d] = "float"

\* In standby, and after the end, nothing is left behind but what an exception
\* was raised about; only Ctrl+C in the engage loop, in the exit of a session or
\* in the cleanup itself may leave more.
Quiet == \/ pc = "prompt" /\ ~isActive
         \/ pc = "closed" /\ struck \in {"never", "prompt", "engaging", "shadowing"}
NothingLeftBehind ==
  Quiet => sessions = {} /\ Entered = {} /\ held \subseteq unreleased

\* teleop.py:156 "Press [Ctrl+C] to quit safely": when every service works, the
\* application ends with all leases released and all leaders in shadow mode.
QuitsSafely ==
  (pc = "closed" /\ contextOk /\ unsure = {} /\ unreleased = {}) =>
    held = {} /\ \A d \in Leader : leader[d] = "shadow"

\* The same line of the prompt, and apps/README.md:33 of Ctrl+C: back to shadow
\* mode, "cleaned up safely".  After the ordinary quit, Ctrl+C at the prompt, every
\* leader whose mode changes all went well is in shadow mode.
QuitLeavesNobodyFloating ==
  (pc = "closed" /\ struck = "prompt") =>
    \A d \in Leader : leader[d] = "float" => d \in unsure
=============================================================================
