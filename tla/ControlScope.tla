---------------------------- MODULE ControlScope ----------------------------
(***************************************************************************)
(* What `with agent.run(robot) as session:` promises, without status       *)
(* messages, service calls or timeouts: a scope is entered only after the  *)
(* authority over all of its parts was obtained at once, the authority of  *)
(* one scope excludes that of every overlapping one, it may be lost at any *)
(* moment and is then never regained inside the scope, and a scope that is *)
(* left without an exception holds nothing any more.  A scope that failed  *)
(* promises nothing.                                                       *)
(***************************************************************************)
CONSTANTS
  Session,   \* the Session objects
  Parts      \* the resources each of them asks for

VARIABLES
  scope,     \* where each session stands towards its `with` block
  holds      \* whether it has authority over its parts

vars == <<scope, holds>>

Init == /\ scope = [s \in Session |-> "outside"]
        /\ holds = [s \in Session |-> FALSE]

Begin(s) == /\ scope[s] \in {"outside", "failed"}
            /\ scope' = [scope EXCEPT ![s] = "entering"]
            /\ UNCHANGED holds

\* Authority is granted over all the parts, at the expense of whoever overlaps.
Obtain(s) == /\ scope[s] = "entering"
             /\ scope' = [scope EXCEPT ![s] = "granted"]
             /\ holds' = [t \in Session |->
                            \/ t = s
                            \/ holds[t] /\ Parts[t] \cap Parts[s] = {}]

\* Preemption by others, a fault, or a release.
Lose(S) == /\ S # {} /\ \A s \in S : holds[s]
           /\ holds' = [s \in Session |-> holds[s] /\ s \notin S]
           /\ UNCHANGED scope

\* The body may start although the authority was lost again meanwhile.
Start(s) == /\ scope[s] = "granted"
            /\ scope' = [scope EXCEPT ![s] = "inside"]
            /\ UNCHANGED holds

Leave(s) == /\ scope[s] = "inside" /\ ~holds[s]
            /\ scope' = [scope EXCEPT ![s] = "outside"]
            /\ UNCHANGED holds

Fail(s) == /\ scope[s] \in {"entering", "granted", "inside"}
           /\ scope' = [scope EXCEPT ![s] = "failed"]
           /\ holds' = [holds EXCEPT ![s] = FALSE]

Next == \/ \E s \in Session : Begin(s) \/ Obtain(s) \/ Start(s) \/ Leave(s)
                              \/ Fail(s)
        \/ \E S \in SUBSET Session : Lose(S)

Spec == Init /\ [][Next]_vars

\* Two scopes over a common part never have authority at the same time.
Exclusive ==
  \A s, t \in Session :
    s # t /\ holds[s] /\ holds[t] => Parts[s] \cap Parts[t] = {}
=============================================================================
