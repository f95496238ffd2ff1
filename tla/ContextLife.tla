---------------------------- MODULE ContextLife ----------------------------
(***************************************************************************)
(* The life of an application Context: what it creates when it is built    *)
(* and through its make_ methods, the reuse of named objects, and close(), *)
(* which gives things back in a fixed order although each step may fail,   *)
(* or return before its thread has ended.  Ctrl+C may strike in close()    *)
(* too: it is not an Exception.                                            *)
(***************************************************************************)
EXTENDS Naturals, Sequences, SequencesExt

CONSTANTS
  Kind,       \* what the make_ methods create: "agent", "camera", "sensor"
  Config      \* the configurations a caller may ask for

None == "none"

\* The order of close(); "named" are the cameras, then the sensors.
CloseOrder == <<"recorder", "executor", "spinner", "named", "selector",
                "states", "node", "rclpy">>
Step == ToSet(CloseOrder)

\* The two steps that wait for a thread, for half a second each.
Timed == {"executor", "spinner"}

VARIABLES
  life,       \* new, failed (constructor raised), open, closing, closed
  owns,       \* _owns_node
  up,         \* the members of Step, and "agents", that exist and were not
              \* given back
  made,       \* made[k]: the configuration of the object registered as k
  at,         \* the position of close() in CloseOrder
  failed,     \* steps of close() that raised
  slow,       \* steps that returned at their timeout, their thread still up
  cut,        \* Ctrl+C ended a close()
  late        \* something was made when close() had begun or was over

lifeVars == <<life, owns, up, made, at, failed, slow, cut, late>>

TypeOK ==
  /\ life \in {"new", "failed", "open", "closing", "closed"}
  /\ owns \in BOOLEAN
  /\ up \subseteq Step \cup {"agents"}
  /\ failed \subseteq Step /\ slow \subseteq Timed
  /\ made \in [Kind -> Config \cup {None}]
  /\ at \in 1..Len(CloseOrder) + 1
  /\ cut \in BOOLEAN /\ late \in BOOLEAN

Init ==
  /\ life = "new" /\ owns = FALSE /\ up = {}
  /\ made = [k \in Kind |-> None]
  /\ at = 1 /\ failed = {} /\ slow = {} /\ cut = FALSE /\ late = FALSE

-----------------------------------------------------------------------------
\* from_profile(): without a node of the caller's the context brings up rclpy
\* and a node.  A constructor that raises after that gives neither back.
FromProfile(mine, spin) ==
  LET base == IF mine THEN {"rclpy", "node"} ELSE {}
  IN /\ life = "new"
     /\ \/ /\ life' = "open" /\ owns' = mine
           /\ up' = base \cup {"selector", "states"}
                    \cup IF spin THEN {"executor", "spinner"} ELSE {}
        \/ /\ life' = "failed" /\ up' = base /\ UNCHANGED owns
     /\ UNCHANGED <<made, at, failed, slow, cut, late>>

\* make_agent, make_camera, make_sensor: a name is bound to the configuration
\* it was first made with; asking for another raises.
Make(k, c) ==
  /\ life \in {"open", "closing", "closed"}
  /\ made[k] \in {None, c}
  /\ made' = [made EXCEPT ![k] = c]
  /\ up' = IF made[k] # None THEN up
           ELSE up \cup {IF k = "agent" THEN "agents" ELSE "named"}
  /\ late' = (late \/ (made[k] = None /\ life # "open"))
  /\ UNCHANGED <<life, owns, at, failed, slow, cut>>

\* make_recorder(): one recorder per context.
MakeRecorder ==
  /\ life \in {"open", "closing", "closed"}
  /\ "recorder" \notin up
  /\ up' = up \cup {"recorder"}
  /\ late' = (late \/ life # "open")
  /\ UNCHANGED <<life, owns, made, at, failed, slow, cut>>

\* close(): the flag is set first; a second call returns at once.
Close ==
  /\ life = "open"
  /\ life' = "closing"
  /\ UNCHANGED <<owns, up, made, at, failed, slow, cut, late>>

\* What a step gives back: the node and rclpy only when the context owns
\* them.  Agents have no step; what they created goes with its node.
GivenBack(step) ==
  IF step \in {"node", "rclpy"} /\ ~owns THEN {}
  ELSE IF step = "node" THEN {"node", "agents"} ELSE {step}

\* A step does its work, or runs into its timeout and returns all the same.
Returns(step) ==
  /\ UNCHANGED failed
  /\ \/ up' = up \ GivenBack(step) /\ UNCHANGED slow
     \/ /\ step \in Timed \cap up
        /\ slow' = slow \cup {step} /\ UNCHANGED up

Fails(step) ==
  step \in up /\ failed' = failed \cup {step} /\ UNCHANGED <<up, slow>>

\* Mutant of CloseStep: the first step that fails ends close().
CloseStepFragile ==
  /\ life = "closing" /\ at <= Len(CloseOrder)
  /\ \/ Returns(CloseOrder[at]) /\ at' = at + 1
     \/ Fails(CloseOrder[at]) /\ at' = Len(CloseOrder) + 1
  /\ UNCHANGED <<life, owns, made, cut, late>>

\* One step of close(): it returns, or raises and is passed over.
CloseStep ==
  /\ life = "closing" /\ at <= Len(CloseOrder)
  /\ Returns(CloseOrder[at]) \/ Fails(CloseOrder[at])
  /\ at' = at + 1
  /\ UNCHANGED <<life, owns, made, cut, late>>

CloseDone ==
  /\ life = "closing" /\ at > Len(CloseOrder)
  /\ life' = "closed"
  /\ UNCHANGED <<owns, up, made, at, failed, slow, cut, late>>

\* KeyboardInterrupt in a step: the remaining ones are never done, since the
\* context counts as closed.
CloseCut ==
  /\ life = "closing"
  /\ life' = "closed" /\ cut' = TRUE
  /\ UNCHANGED <<owns, up, made, at, failed, slow, late>>

Next ==
  \/ \E mine, spin \in BOOLEAN : FromProfile(mine, spin)
  \/ \E k \in Kind, c \in Config : Make(k, c)
  \/ MakeRecorder \/ Close \/ CloseStep \/ CloseDone \/ CloseCut

Spec == Init /\ [][Next]_lifeVars

-----------------------------------------------------------------------------
\* A close() that ran to its end leaves up only what could not be closed, the
\* threads that outlasted its patience, and the agents of a node that it does
\* not own or could not destroy: no step depends on an earlier one having
\* worked.  And at no time, close() cut short or not, is the node gone under an
\* executor whose own step did not go wrong before.  Objects made when the
\* context was closing or closed are nobody's (nothing refuses them), and after
\* a Ctrl+C in close() the rest stays up.
CloseIsComplete ==
  /\ life = "closed" /\ ~cut /\ ~late =>
       /\ up \subseteq failed \cup slow \cup {"agents"}
       /\ "agents" \in up => ~owns \/ "node" \in failed
  /\ owns /\ "node" \notin up => up \cap Timed \subseteq failed \cup slow
=============================================================================
