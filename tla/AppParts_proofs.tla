-------------------------- MODULE AppParts_proofs --------------------------
(***************************************************************************)
(* Proofs about the parts of Parts in the application itself, ContextLife, *)
(* ReplayPlayer and ReplayApp, for all configurations, recordings and      *)
(* episodes; and the type invariant of Parts as a whole.                   *)
(***************************************************************************)
EXTENDS ServiceParts_proofs, DeviceParts_proofs

-----------------------------------------------------------------------------
(* ContextLife.                                                            *)

\* Every position of the order of close() that was passed is down, failed or
\* timed out, unless something was made meanwhile; a foreign node is never up.
Passed ==
  /\ stage \in {"new", "failed", "open"} => at = 1 /\ ~cut /\ ~late
  /\ stage = "closed" /\ ~cut => at = Len(L!CloseOrder) + 1
  /\ ~late => \A k \in 1..at - 1 :
       L!CloseOrder[k] \in up => L!CloseOrder[k] \in failed \cup slow
  /\ stage \notin {"new", "failed"} /\ ~owns => "node" \notin up /\ "rclpy" \notin up

\* For the executor and its thread that is so whatever was made meanwhile, and
\* the node's turn comes after theirs; the agents go with the node.
Unspun ==
  /\ \A k \in 1..at - 1 : L!CloseOrder[k] \in L!Timed \cap up =>
       L!CloseOrder[k] \in failed \cup slow
  /\ owns => stage \notin {"new", "failed"}
  /\ owns /\ "node" \notin up => at > 7
  /\ owns /\ ~late /\ at > 7 /\ "agents" \in up => "node" \in failed

ContextInv == L!TypeOK /\ Passed /\ Unspun

\* A step of the whole is one of this part, or leaves it alone.
LEMMA ContextSteps == [Next]_vars => [L!Next]_contextVars
<1> SUFFICES ASSUME [Next]_vars PROVE [L!Next]_contextVars
  OBVIOUS
<1>1. CASE part = "context" /\ Next
  BY <1>1 DEF Next, On, L!Next
<1>2. CASE part # "context" /\ Next
  BY <1>2 DEF Next, On
<1>3. CASE UNCHANGED vars
  BY <1>3 DEF vars
<1>. QED BY <1>1, <1>2, <1>3

\* The steps of close() are the members of its order.
LEMMA Order ==
  /\ Len(L!CloseOrder) = 8
  /\ L!Step = {"recorder", "executor", "spinner", "named", "selector", "states",
               "node", "rclpy"}
  /\ \A k \in 1..8 : L!CloseOrder[k] \in L!Step
  /\ \A s \in L!Step : \E k \in 1..8 : s = L!CloseOrder[k]
  /\ L!CloseOrder[2] = "executor" /\ L!CloseOrder[3] = "spinner"
  /\ \A k \in 1..8 : L!CloseOrder[k] = "node" => k = 7
<1>1. /\ L!CloseOrder[1] = "recorder" /\ L!CloseOrder[2] = "executor"
      /\ L!CloseOrder[3] = "spinner" /\ L!CloseOrder[4] = "named"
      /\ L!CloseOrder[5] = "selector" /\ L!CloseOrder[6] = "states"
      /\ L!CloseOrder[7] = "node" /\ L!CloseOrder[8] = "rclpy"
      /\ Len(L!CloseOrder) = 8 /\ DOMAIN L!CloseOrder = 1..8
  BY DEF L!CloseOrder
<1>2. L!Step = {L!CloseOrder[k] : k \in 1..8}
  BY <1>1 DEF L!Step, L!ToSet
<1>3. \A k \in 1..8 : k \in {1, 2, 3, 4, 5, 6, 7, 8}
  OBVIOUS
<1>4. L!Step = {"recorder", "executor", "spinner", "named", "selector", "states",
                "node", "rclpy"}
  BY <1>1, <1>2, <1>3
<1>5. \A k \in 1..8 : L!CloseOrder[k] = "node" => k = 7
  BY <1>1, <1>3
<1>. QED BY <1>1, <1>2, <1>4, <1>5

\* What one step of close() does.
LEMMA ClosesOne ==
  ASSUME ContextInv, L!CloseStep
  PROVE  \E s \in L!Step :
           /\ s = L!CloseOrder[at] /\ at \in 1..8 /\ at' = at + 1
           /\ stage = "closing" /\ UNCHANGED <<stage, owns, made, cut, late>>
           /\ up' \subseteq up /\ failed \subseteq failed' /\ slow \subseteq slow'
           /\ failed' \subseteq L!Step /\ slow' \subseteq L!Timed
           /\ s \in up' => s \in failed' \cup slow'
           /\ s # "node" => up \ {s} \subseteq up'
           /\ s = "node" /\ owns /\ "agents" \in up' => "node" \in failed'
<1> DEFINE s == L!CloseOrder[at]
<1>1. /\ stage = "closing" /\ at \in 1..8 /\ at' = at + 1
      /\ UNCHANGED <<stage, owns, made, cut, late>>
  BY Order DEF L!CloseStep, ContextInv, L!TypeOK
<1>2. s \in L!Step /\ (~owns => "node" \notin up /\ "rclpy" \notin up)
  BY <1>1, Order DEF ContextInv, Passed
<1>3. L!Returns(s) \/ L!Fails(s)
  BY DEF L!CloseStep
<1> HIDE DEF s
<1>4. /\ up' \subseteq up /\ failed \subseteq failed' /\ slow \subseteq slow'
      /\ failed' \subseteq L!Step /\ slow' \subseteq L!Timed
  BY <1>2, <1>3 DEF L!Returns, L!Fails, ContextInv, L!TypeOK
<1>5. s \in up' => s \in failed' \cup slow'
  BY <1>2, <1>3 DEF L!Returns, L!Fails, L!GivenBack
<1>6. s # "node" => up \ {s} \subseteq up'
  BY <1>3 DEF L!Returns, L!Fails, L!GivenBack
<1>7. s = "node" /\ owns /\ "agents" \in up' => "node" \in failed'
  BY <1>3 DEF L!Returns, L!Fails, L!GivenBack, L!Timed
<1>. QED BY <1>1, <1>2, <1>4, <1>5, <1>6, <1>7 DEF s

LEMMA ContextInitially == Init => ContextInv
<1> SUFFICES ASSUME Init PROVE ContextInv
  OBVIOUS
<1>1. owns \in BOOLEAN /\ cut \in BOOLEAN /\ late \in BOOLEAN
  BY DEF Init, L!Init
<1>2. at \in 1..9 /\ made \in [Kind -> Config \cup {L!None}]
  BY DEF Init, L!Init
<1>3. L!TypeOK
  BY <1>1, <1>2, Order DEF Init, L!Init, L!TypeOK
<1>. QED BY <1>3, Order DEF Init, L!Init, ContextInv, Passed, Unspun

LEMMA ContextTypeKept == ContextInv /\ [L!Next]_contextVars => L!TypeOK'
<1> SUFFICES ASSUME ContextInv, [L!Next]_contextVars PROVE L!TypeOK'
  OBVIOUS
<1> USE Order DEF ContextInv, L!TypeOK, Passed
<1>1. ASSUME NEW mine \in BOOLEAN, NEW spin \in BOOLEAN, L!FromProfile(mine,
  spin) PROVE L!TypeOK'
  BY <1>1 DEF L!FromProfile
<1>2. ASSUME NEW k \in Kind, NEW c \in Config, L!Make(k, c) PROVE L!TypeOK'
  BY <1>2 DEF L!Make
<1>3. ASSUME L!MakeRecorder PROVE L!TypeOK'
  BY <1>3 DEF L!MakeRecorder
<1>4. ASSUME L!Close PROVE L!TypeOK'
  BY <1>4 DEF L!Close
<1>5. ASSUME L!CloseStep PROVE L!TypeOK'
  <2>1. /\ at \in 1..8 /\ at' = at + 1 /\ UNCHANGED <<stage, owns, made, cut, late>>
        /\ up' \subseteq up /\ failed' \subseteq L!Step /\ slow' \subseteq L!Timed
    BY <1>5, ClosesOne
  <2>2. at' \in 1..9
    BY <2>1
  <2>. QED BY <2>1, <2>2
<1>6. ASSUME L!CloseDone PROVE L!TypeOK'
  BY <1>6 DEF L!CloseDone
<1>7. ASSUME L!CloseCut PROVE L!TypeOK'
  BY <1>7 DEF L!CloseCut
<1>8. CASE UNCHANGED contextVars
  BY <1>8 DEF contextVars
<1>. QED BY <1>1, <1>2, <1>3, <1>4, <1>5, <1>6, <1>7, <1>8 DEF L!Next

LEMMA PassedKept == ContextInv /\ [L!Next]_contextVars => Passed'
<1> SUFFICES ASSUME ContextInv, [L!Next]_contextVars PROVE Passed'
  OBVIOUS
<1> USE Order DEF ContextInv, L!TypeOK, Passed
<1>1. ASSUME NEW mine \in BOOLEAN, NEW spin \in BOOLEAN, L!FromProfile(mine,
  spin) PROVE Passed'
  BY <1>1 DEF L!FromProfile
<1>2. ASSUME NEW k \in Kind, NEW c \in Config, L!Make(k, c) PROVE Passed'
  <2>1. CASE up' = up
    <3>1. late' = FALSE => ~late
      BY <1>2 DEF L!Make
    <3>2. UNCHANGED <<stage, owns, at, failed, slow, cut>>
      BY <1>2 DEF L!Make
    <3>3. stage = "open" => late' = late
      BY <1>2 DEF L!Make
    <3>. QED BY <1>2, <2>1, <3>1, <3>2, <3>3 DEF L!Make
  <2>2. CASE stage = "open"
    <3>1. at' = 1 /\ 1..at' - 1 = {} /\ stage' = "open" /\ cut' = cut /\ owns' = owns
      BY <1>2, <2>2 DEF L!Make
    <3>2. late' = late /\ up' \subseteq up \cup {"named", "agents"}
      BY <1>2, <2>2 DEF L!Make
    <3>. QED BY <2>2, <3>1, <3>2
  <2>3. CASE up' # up /\ stage # "open"
    <3>1. late' = TRUE /\ up' \subseteq up \cup {"named", "agents"}
      BY <1>2, <2>3 DEF L!Make
    <3>2. stage \in {"closing", "closed"} /\ UNCHANGED <<stage, owns, at, failed, slow, cut>>
      BY <1>2, <2>3 DEF L!Make
    <3>. QED BY <3>1, <3>2
  <2>. QED BY <2>1, <2>2, <2>3
<1>3. ASSUME L!MakeRecorder PROVE Passed'
  <2>1. UNCHANGED <<stage, owns, at, failed, slow, cut>> /\ up' = up \cup {"recorder"}
    BY <1>3 DEF L!MakeRecorder
  <2>2. CASE stage = "open"
    <3>1. at' = 1 /\ 1..at' - 1 = {} /\ late' = late
      BY <1>3, <2>1, <2>2 DEF L!MakeRecorder
    <3>. QED BY <2>1, <2>2, <3>1
  <2>3. CASE stage # "open"
    <3>1. late' = TRUE /\ stage \in {"closing", "closed"}
      BY <1>3, <2>3 DEF L!MakeRecorder
    <3>. QED BY <2>1, <3>1
  <2>. QED BY <2>2, <2>3
<1>4. ASSUME L!Close PROVE Passed'
  BY <1>4 DEF L!Close
<1>5. ASSUME L!CloseStep PROVE Passed'
  <2>1. PICK s \in L!Step :
          /\ s = L!CloseOrder[at] /\ at \in 1..8 /\ at' = at + 1
          /\ stage = "closing" /\ UNCHANGED <<stage, owns, made, cut, late>>
          /\ up' \subseteq up /\ failed \subseteq failed' /\ slow \subseteq slow'
          /\ s \in up' => s \in failed' \cup slow'
    BY <1>5, ClosesOne
  <2>2. ~late => \A k \in 1..at :
          L!CloseOrder[k] \in up' => L!CloseOrder[k] \in failed' \cup slow'
    <3> SUFFICES ASSUME ~late, NEW k \in 1..at, L!CloseOrder[k] \in up'
                 PROVE  L!CloseOrder[k] \in failed' \cup slow'
      OBVIOUS
    <3>1. CASE k = at
      BY <2>1, <3>1
    <3>2. CASE k # at
      <4>1. k \in 1..at - 1
        BY <3>2
      <4>. QED BY <2>1, <4>1
    <3>. QED BY <3>1, <3>2
  <2>. QED BY <2>1, <2>2
<1>6. ASSUME L!CloseDone PROVE Passed'
  BY <1>6 DEF L!CloseDone
<1>7. ASSUME L!CloseCut PROVE Passed'
  BY <1>7 DEF L!CloseCut
<1>8. CASE UNCHANGED contextVars
  BY <1>8 DEF contextVars
<1>. QED BY <1>1, <1>2, <1>3, <1>4, <1>5, <1>6, <1>7, <1>8 DEF L!Next

LEMMA UnspunKept == ContextInv /\ [L!Next]_contextVars => Unspun'
<1> SUFFICES ASSUME ContextInv, [L!Next]_contextVars PROVE Unspun'
  OBVIOUS
<1> USE Order DEF ContextInv, L!TypeOK, Unspun
<1>1. ASSUME NEW mine \in BOOLEAN, NEW spin \in BOOLEAN, L!FromProfile(mine,
  spin) PROVE Unspun'
  <2>1. at = 1 /\ at' = 1 /\ 1..at' - 1 = {} /\ stage = "new"
    BY <1>1 DEF L!FromProfile, Passed
  <2>2. owns' => "node" \in up' /\ stage' = "open"
    BY <1>1, <2>1 DEF L!FromProfile
  <2>. QED BY <2>1, <2>2
<1>2. ASSUME NEW k \in Kind, NEW c \in Config, L!Make(k, c) PROVE Unspun'
  <2>1. /\ UNCHANGED <<stage, owns, at, failed, slow, cut>>
        /\ up \subseteq up' /\ up' \subseteq up \cup {"named", "agents"}
        /\ up' = up \/ late' \/ stage = "open"
        /\ late => late'
    BY <1>2 DEF L!Make
  <2>2. up' \cap L!Timed = up \cap L!Timed
    BY <2>1 DEF L!Timed
  <2>3. stage = "open" => at = 1
    BY DEF Passed
  <2>. QED BY <2>1, <2>2, <2>3
<1>3. ASSUME L!MakeRecorder PROVE Unspun'
  <2>1. /\ UNCHANGED <<stage, owns, at, failed, slow, cut>>
        /\ up' = up \cup {"recorder"} /\ (late => late')
    BY <1>3 DEF L!MakeRecorder
  <2>2. up' \cap L!Timed = up \cap L!Timed
    BY <2>1 DEF L!Timed
  <2>. QED BY <2>1, <2>2
<1>4. ASSUME L!Close PROVE Unspun'
  BY <1>4 DEF L!Close
<1>5. ASSUME L!CloseStep PROVE Unspun'
  <2>1. PICK s \in L!Step :
          /\ s = L!CloseOrder[at] /\ at \in 1..8 /\ at' = at + 1
          /\ stage = "closing" /\ UNCHANGED <<stage, owns, made, cut, late>>
          /\ up' \subseteq up /\ failed \subseteq failed' /\ slow \subseteq slow'
          /\ s \in up' => s \in failed' \cup slow'
          /\ s # "node" => up \ {s} \subseteq up'
          /\ s = "node" /\ owns /\ "agents" \in up' => "node" \in failed'
    BY <1>5, ClosesOne
  <2>2. \A k \in 1..at : L!CloseOrder[k] \in L!Timed \cap up' =>
          L!CloseOrder[k] \in failed' \cup slow'
    <3> SUFFICES ASSUME NEW k \in 1..at, L!CloseOrder[k] \in L!Timed \cap up'
                 PROVE  L!CloseOrder[k] \in failed' \cup slow'
      OBVIOUS
    <3>1. CASE k = at
      BY <2>1, <3>1
    <3>2. CASE k # at
      <4>1. k \in 1..at - 1
        BY <3>2
      <4>. QED BY <2>1, <4>1
    <3>. QED BY <3>1, <3>2
  <2>3. s = "node" => at = 7
    BY <2>1
  <2>4. owns /\ "node" \notin up' => at' > 7
    BY <2>1, <2>3
  <2>5. owns /\ ~late /\ at' > 7 /\ "agents" \in up' => "node" \in failed'
    <3>1. at' > 7 /\ s # "node" => at > 7
      <4>1. at = 7 => s = "node"
        BY <2>1 DEF L!CloseOrder
      <4>. QED BY <2>1, <4>1
    <3>. QED BY <2>1, <3>1
  <2>. QED BY <2>1, <2>2, <2>4, <2>5
<1>6. ASSUME L!CloseDone PROVE Unspun'
  BY <1>6 DEF L!CloseDone
<1>7. ASSUME L!CloseCut PROVE Unspun'
  BY <1>7 DEF L!CloseCut
<1>8. CASE UNCHANGED contextVars
  BY <1>8 DEF contextVars
<1>. QED BY <1>1, <1>2, <1>3, <1>4, <1>5, <1>6, <1>7, <1>8 DEF L!Next

LEMMA ContextKept == ContextInv /\ [L!Next]_contextVars => ContextInv'
BY ContextTypeKept, PassedKept, UnspunKept DEF ContextInv

\* context.py, Context.close: a close() that ran to its end leaves up only what
\* could not be closed or had not ended in time, and agents of a node that it
\* leaves; and no node goes before its executor had its turn.
THEOREM CloseIsCompleteHolds == Spec => []CloseIsComplete
<1>1. ASSUME ContextInv PROVE CloseIsComplete
  <2> USE <1>1 DEF ContextInv
  <2>1. ASSUME stage = "closed", ~cut, ~late
        PROVE  /\ up \subseteq failed \cup slow \cup {"agents"}
               /\ "agents" \in up => ~owns \/ "node" \in failed
    <3>1. at = 9
      BY <2>1, Order DEF Passed
    <3>2. ASSUME NEW s \in up, s # "agents" PROVE s \in failed \cup slow
      <4>1. PICK k \in 1..8 : s = L!CloseOrder[k]
        BY <3>2, Order DEF L!TypeOK
      <4>. QED BY <2>1, <3>1, <3>2, <4>1 DEF Passed
    <3>. QED BY <2>1, <3>1, <3>2 DEF Unspun
  <2>2. ASSUME owns, "node" \notin up, NEW s \in up \cap L!Timed
        PROVE  s \in failed \cup slow
    <3>1. at > 7 /\ at \in 1..9
      BY <2>2, Order DEF Unspun, L!TypeOK
    <3>2. 2 \in 1..at - 1 /\ 3 \in 1..at - 1
      BY <3>1
    <3>. QED BY <2>2, <3>2, Order DEF Unspun, L!Timed
  <2>. QED BY <2>1, <2>2 DEF CloseIsComplete, L!CloseIsComplete
<1>. QED BY ContextInitially, ContextSteps, ContextKept, <1>1, PTL DEF Spec

-----------------------------------------------------------------------------
(* ReplayPlayer.                                                           *)

\* The rebaser has one origin, in the present iteration.
Based ==
  /\ began <= clock
  /\ \A o \in origin : began <= o.steady /\ o.ros = o.steady + Ahead
  /\ \A o, q \in origin : o = q
  /\ origin = {} => last = {} /\ due = {}
  /\ \A k, l \in last : k = l

\* An action is rebased: its stamp and its deadline are as far from the origins
\* as its record time.
Rebased(a, o) ==
  /\ a.source >= o.source
  /\ a.stamp = o.ros + (a.source - o.source)
  /\ a.deadline = o.steady + (a.source - o.source)

\* Number i of the actions sent was not early and not before the one before.
InPace(i) ==
  /\ origin # {} /\ last # {}
  /\ sent[i].at >= sent[i].deadline
  /\ \A o \in origin : Rebased(sent[i], o)
  /\ \A k \in last : sent[i].source <= k
  /\ i > 1 => sent[i - 1].source <= sent[i].source

\* The action on its way and those that were sent are rebased.
Paced ==
  /\ \A d \in due : d.source \in last /\ \A o \in origin : Rebased(d, o)
  /\ \A c, d \in due : c = d
  /\ \A i \in DOMAIN sent : InPace(i)

\* The reader is at a record, or past the last one.
Positive == next # 0

PlayerInv == R!TypeOK /\ Based /\ Paced /\ Positive

\* A step of the whole is one of this part, or leaves it alone.
LEMMA PlayerSteps == [Next]_vars => [R!Next]_playerVars
<1> SUFFICES ASSUME [Next]_vars PROVE [R!Next]_playerVars
  OBVIOUS
<1>1. CASE part = "player" /\ Next
  BY <1>1 DEF Next, On, R!Next
<1>2. CASE part # "player" /\ Next
  BY <1>2 DEF Next, On
<1>3. CASE UNCHANGED vars
  BY <1>3 DEF vars
<1>. QED BY <1>1, <1>2, <1>3

LEMMA PlayerInitially == Init => PlayerInv
<1> SUFFICES ASSUME Init PROVE PlayerInv
  OBVIOUS
<1>1. sent \in Seq([stamp : Nat, deadline : Nat, source : Nat, at : 0..MaxTime]) /\ DOMAIN sent = {}
  BY EmptySeq DEF Init, R!Init
<1>2. clock \in 0..MaxTime /\ opens \in 0..MaxPass /\ pass \in 0..MaxPass /\ began \in 0..MaxTime
  BY ConstantAssumption DEF Init, R!Init
<1>3. episode = <<>> /\ next = 1 /\ Len(episode) = 0
  BY EmptySeq DEF Init, R!Init
<1>4. opened \in BOOLEAN /\ halted \in BOOLEAN
  BY DEF Init, R!Init
<1>5. R!TypeOK
  BY <1>1, <1>2, <1>3, <1>4 DEF Init, R!Init, R!TypeOK
<1>. QED BY <1>1, <1>5, ConstantAssumption DEF Init, R!Init, PlayerInv, Based, Paced, Positive

\* What one step of the rebaser does: it takes the origin there is, or the time
\* of the first action, and refuses the action or rebases it.
LEMMA Rewrites ==
  ASSUME PlayerInv, R!Rewrite
  PROVE  /\ next \in Nat /\ next' = next + 1 /\ next' <= Len(episode) + 1
         /\ due = {}
         /\ \E t \in Nat, o \in [source : Nat, ros : Nat, steady : 0..MaxTime] :
              /\ origin' = {o}
              /\ \/ origin = {} /\ o.source = t /\ o.ros = clock + Ahead /\ o.steady = clock
                 \/ origin = {o}
              /\ \/ last' = last /\ due' = {} /\ halted' = TRUE
                 \/ /\ t >= o.source /\ \A k \in last : t >= k
                    /\ last' = {t} /\ halted' = halted
                    /\ due' = {[stamp |-> o.ros + (t - o.source),
                                deadline |-> o.steady + (t - o.source),
                                source |-> t]}
         /\ UNCHANGED <<clock, opened, opens, episode, sent, pass, began>>
<1> DEFINE t == episode[next]
<1> DEFINE from == IF origin = {} THEN [source |-> t, ros |-> clock + Ahead, steady |-> clock]
                   ELSE CHOOSE o \in origin : TRUE
<1>1. /\ next \in Nat /\ next <= Len(episode) /\ due = {}
      /\ episode \in Seq(Nat) /\ next' = next + 1 /\ Len(episode) \in Nat
  BY ConstantAssumption, EmptySeq, LenProperties DEF R!Rewrite, PlayerInv, R!TypeOK
<1>2. next \in 1..Len(episode)
  <2>1. next # 0
    BY DEF PlayerInv, Positive
  <2>. QED BY <1>1, <2>1
<1>3. t \in Nat
  BY <1>1, <1>2, ElementOfSeq
<1>4. /\ from \in [source : Nat, ros : Nat, steady : 0..MaxTime]
      /\ \/ origin = {} /\ from.source = t /\ from.ros = clock + Ahead /\ from.steady = clock
         \/ origin = {from}
  <2>1. CASE origin = {}
    <3>1. clock + Ahead \in Nat /\ clock \in 0..MaxTime
      BY ConstantAssumption DEF PlayerInv, R!TypeOK
    <3>. QED BY <1>3, <2>1, <3>1
  <2>2. CASE origin # {}
    <3>1. from \in origin
      BY <2>2
    <3>. QED BY <2>2, <3>1 DEF PlayerInv, R!TypeOK, Based
  <2>. QED BY <2>1, <2>2
<1>5. /\ origin' = {from}
      /\ IF R!Refused(t, from)
         THEN halted' = TRUE /\ UNCHANGED <<last, due>>
         ELSE /\ last' = {t} /\ UNCHANGED halted
              /\ due' = {[stamp |-> from.ros + (t - from.source),
                          deadline |-> from.steady + (t - from.source),
                          source |-> t]}
  BY DEF R!Rewrite
<1>6. UNCHANGED <<clock, opened, opens, episode, sent, pass, began>>
  BY DEF R!Rewrite
<1> HIDE DEF from, t
<1>7. ~R!Refused(t, from) => t >= from.source /\ \A k \in last : t >= k
  BY <1>3, <1>4 DEF R!Refused, PlayerInv, R!TypeOK
<1>. QED BY <1>1, <1>3, <1>4, <1>5, <1>6, <1>7

\* What is yielded.
Sample == [stamp : Nat, deadline : Nat, source : Nat, at : 0..MaxTime]

\* Yielding appends the action that was due.
LEMMA Yields ==
  ASSUME PlayerInv, R!Yield
  PROVE  \E d \in due :
           /\ clock >= d.deadline /\ d \in [stamp : Nat, deadline : Nat, source : Nat]
           /\ sent' \in Seq(Sample) /\ DOMAIN sent = 1..Len(sent)
           /\ Len(sent) \in Nat /\ DOMAIN sent' = 1..Len(sent) + 1
           /\ \A i \in DOMAIN sent : sent'[i] = sent[i]
           /\ sent'[Len(sent) + 1] =
                [stamp |-> d.stamp, deadline |-> d.deadline, source |-> d.source,
                 at |-> clock]
<1>1. PICK d \in due : /\ clock >= d.deadline
                       /\ sent' = Append(sent, [stamp |-> d.stamp,
                         deadline |-> d.deadline, source |-> d.source, at |-> clock])
  BY DEF R!Yield
<1>2. d \in [stamp : Nat, deadline : Nat, source : Nat] /\ sent \in Seq(Sample)
  BY DEF PlayerInv, R!TypeOK, Sample
<1>3. PICK a \in Sample : a = [stamp |-> d.stamp, deadline |-> d.deadline,
                               source |-> d.source, at |-> clock]
  BY <1>2 DEF PlayerInv, R!TypeOK, Sample
<1>4. sent' = Append(sent, a)
  BY <1>1, <1>3
<1>5. /\ sent' \in Seq(Sample) /\ Len(sent') = Len(sent) + 1
      /\ \A i \in 1..Len(sent) : sent'[i] = sent[i]
      /\ sent'[Len(sent) + 1] = a
  BY <1>2, <1>4, AppendProperties
<1>6. DOMAIN sent = 1..Len(sent) /\ Len(sent) \in Nat /\ DOMAIN sent' = 1..Len(sent')
  BY <1>2, <1>5, LenProperties
<1>. QED BY <1>1, <1>2, <1>3, <1>5, <1>6

LEMMA PlayerTypeKept == PlayerInv /\ [R!Next]_playerVars => R!TypeOK'
<1> SUFFICES ASSUME PlayerInv, [R!Next]_playerVars PROVE R!TypeOK'
  OBVIOUS
<1> USE ConstantAssumption DEF PlayerInv, R!TypeOK, Positive
<1>1. ASSUME R!Open PROVE R!TypeOK'
  <2>1. episode' \in Episode \cup {<<>>} /\ next' = 1
    BY <1>1 DEF R!Open
  <2>2. Len(episode') \in Nat
    BY <2>1, LenProperties, EmptySeq
  <2>3. opened' \in BOOLEAN /\ opens' \in 0..MaxPass
    BY <1>1 DEF R!Open
  <2>. QED BY <1>1, <2>1, <2>2, <2>3 DEF R!Open
<1>2. ASSUME R!ClosePlayer PROVE R!TypeOK'
  <2>1. opened' \in BOOLEAN
    BY <1>2 DEF R!ClosePlayer
  <2>. QED BY <1>2, <2>1 DEF R!ClosePlayer
<1>3. ASSUME R!Iterate PROVE R!TypeOK'
  <2>1. Len(episode) \in Nat /\ next' = 1 /\ pass' \in 0..MaxPass
    BY <1>3, LenProperties, EmptySeq DEF R!Iterate
  <2>2. sent' \in Seq([stamp : Nat, deadline : Nat, source : Nat, at : 0..MaxTime])
    BY <1>3, EmptySeq DEF R!Iterate
  <2>3. halted' \in BOOLEAN
    BY <1>3 DEF R!Iterate
  <2>. QED BY <1>3, <2>1, <2>2, <2>3 DEF R!Iterate
<1>4. ASSUME R!Rewrite PROVE R!TypeOK'
  <2>1. /\ next \in Nat /\ next' = next + 1 /\ next' <= Len(episode) + 1 /\ due = {}
        /\ UNCHANGED <<clock, opened, opens, episode, sent, pass, began>>
    BY <1>4, Rewrites
  <2>2. PICK t \in Nat, o \in [source : Nat, ros : Nat, steady : 0..MaxTime] :
          /\ origin' = {o}
          /\ \/ origin = {} /\ o.source = t /\ o.ros = clock + Ahead /\ o.steady = clock
             \/ origin = {o}
          /\ \/ last' = last /\ due' = {} /\ halted' = TRUE
             \/ /\ t >= o.source /\ \A k \in last : t >= k
                /\ last' = {t} /\ halted' = halted
                /\ due' = {[stamp |-> o.ros + (t - o.source),
                            deadline |-> o.steady + (t - o.source), source |-> t]}
    BY <1>4, Rewrites
  <2>3. halted' \in BOOLEAN
    BY <2>2
  <2>4. t >= o.source => /\ o.ros + (t - o.source) \in Nat
                        /\ o.steady + (t - o.source) \in Nat
    OBVIOUS
  <2>5. last' \subseteq Nat
    BY <2>1, <2>2
  <2>6. due' \subseteq [stamp : Nat, deadline : Nat, source : Nat]
    <3>1. CASE due' = {}
      BY <3>1
    <3>2. CASE /\ t >= o.source
               /\ due' = {[stamp |-> o.ros + (t - o.source),
                           deadline |-> o.steady + (t - o.source), source |-> t]}
      BY <2>4, <3>2
    <3>. QED BY <2>2, <3>1, <3>2
  <2>7. origin' \subseteq [source : Nat, ros : Nat, steady : 0..MaxTime] /\ next' \in Nat
    BY <2>1, <2>2
  <2>. QED BY <2>1, <2>3, <2>5, <2>6, <2>7
<1>5. ASSUME R!ReadClosed PROVE R!TypeOK'
  <2>1. halted' \in BOOLEAN
    BY <1>5 DEF R!ReadClosed
  <2>. QED BY <1>5, <2>1 DEF R!ReadClosed
<1>6. ASSUME R!Yield PROVE R!TypeOK'
  <2>1. PICK d \in due :
          /\ clock >= d.deadline /\ d \in [stamp : Nat, deadline : Nat, source : Nat]
          /\ sent' \in Seq(Sample) /\ DOMAIN sent = 1..Len(sent)
          /\ Len(sent) \in Nat /\ DOMAIN sent' = 1..Len(sent) + 1
          /\ \A i \in DOMAIN sent : sent'[i] = sent[i]
          /\ sent'[Len(sent) + 1] =
               [stamp |-> d.stamp, deadline |-> d.deadline, source |-> d.source,
                at |-> clock]
    BY <1>6, Yields
  <2>2. due' = {} /\ UNCHANGED <<clock, opened, opens, episode, next, origin, last,
                                 halted, pass, began>>
    BY <1>6 DEF R!Yield
  <2>. QED BY <2>1, <2>2 DEF Sample
<1>7. ASSUME R!Tick PROVE R!TypeOK'
  BY <1>7 DEF R!Tick
<1>8. CASE UNCHANGED playerVars
  BY <1>8 DEF playerVars
<1>. QED BY <1>1, <1>2, <1>3, <1>4, <1>5, <1>6, <1>7, <1>8 DEF R!Next

LEMMA BasedKept == PlayerInv /\ [R!Next]_playerVars => Based'
<1> SUFFICES ASSUME PlayerInv, [R!Next]_playerVars PROVE Based'
  OBVIOUS
<1> USE ConstantAssumption DEF PlayerInv, R!TypeOK, Based, Positive
<1>1. ASSUME R!Open PROVE Based'
  BY <1>1 DEF R!Open
<1>2. ASSUME R!ClosePlayer PROVE Based'
  BY <1>2 DEF R!ClosePlayer
<1>3. ASSUME R!Iterate PROVE Based'
  BY <1>3 DEF R!Iterate
<1>4. ASSUME R!Rewrite PROVE Based'
  <2>1. /\ next \in Nat /\ next' = next + 1 /\ next' <= Len(episode) + 1 /\ due = {}
        /\ UNCHANGED <<clock, opened, opens, episode, sent, pass, began>>
    BY <1>4, Rewrites
  <2>2. PICK t \in Nat, o \in [source : Nat, ros : Nat, steady : 0..MaxTime] :
          /\ origin' = {o}
          /\ \/ origin = {} /\ o.source = t /\ o.ros = clock + Ahead /\ o.steady = clock
             \/ origin = {o}
          /\ \/ last' = last /\ due' = {} /\ halted' = TRUE
             \/ /\ t >= o.source /\ \A k \in last : t >= k
                /\ last' = {t} /\ halted' = halted
                /\ due' = {[stamp |-> o.ros + (t - o.source),
                            deadline |-> o.steady + (t - o.source), source |-> t]}
    BY <1>4, Rewrites
  <2>. QED BY <2>1, <2>2
<1>5. ASSUME R!ReadClosed PROVE Based'
  BY <1>5 DEF R!ReadClosed
<1>6. ASSUME R!Yield PROVE Based'
  BY <1>6 DEF R!Yield
<1>7. ASSUME R!Tick PROVE Based'
  <2>1. began \in Nat /\ clock \in Nat /\ clock' = clock + 1
    BY <1>7 DEF R!Tick
  <2>. QED BY <1>7, <2>1 DEF R!Tick
<1>8. CASE UNCHANGED playerVars
  BY <1>8 DEF playerVars
<1>. QED BY <1>1, <1>2, <1>3, <1>4, <1>5, <1>6, <1>7, <1>8 DEF R!Next

\* What was sent is typed.
LEMMA SentTyped ==
  ASSUME R!TypeOK
  PROVE  /\ Len(sent) \in Nat /\ DOMAIN sent = 1..Len(sent)
         /\ \A i \in DOMAIN sent : /\ sent[i] \in Sample
                                   /\ sent[i].source \in Nat /\ sent[i].stamp \in Nat
                                   /\ sent[i].deadline \in Nat /\ sent[i].at \in Nat
         /\ \A i \in DOMAIN sent : i > 1 => i - 1 \in DOMAIN sent
<1>1. sent \in Seq(Sample)
  BY DEF R!TypeOK, Sample
<1>2. Len(sent) \in Nat /\ DOMAIN sent = 1..Len(sent)
  BY <1>1, LenProperties
<1>3. ASSUME NEW i \in 1..Len(sent) PROVE sent[i] \in Sample
  BY <1>1, ElementOfSeq
<1>. QED BY <1>2, <1>3, ConstantAssumption DEF Sample

\* After a step of the rebaser what was sent is still in pace,
LEMMA RewriteInPace ==
  ASSUME PlayerInv, R!Rewrite, NEW i \in DOMAIN sent
  PROVE  InPace(i)'
<1>1. UNCHANGED sent
  BY Rewrites
<1>2. PICK t \in Nat, o \in [source : Nat, ros : Nat, steady : 0..MaxTime] :
        /\ origin' = {o}
        /\ \/ origin = {} /\ o.source = t /\ o.ros = clock + Ahead /\ o.steady = clock
           \/ origin = {o}
        /\ \/ last' = last /\ due' = {} /\ halted' = TRUE
           \/ /\ t >= o.source /\ \A k \in last : t >= k
              /\ last' = {t} /\ halted' = halted
              /\ due' = {[stamp |-> o.ros + (t - o.source),
                          deadline |-> o.steady + (t - o.source), source |-> t]}
  BY Rewrites
<1>3. InPace(i) /\ last \subseteq Nat /\ R!TypeOK
  BY DEF PlayerInv, Paced, R!TypeOK
<1>4. origin = {o} /\ last # {} /\ sent[i].source \in Nat
  BY <1>2, <1>3, SentTyped DEF InPace
<1>5. \A k \in last' : sent[i].source <= k
  <2>1. CASE last' = last
    BY <1>3, <2>1 DEF InPace
  <2>2. CASE last' = {t} /\ \A k \in last : t >= k
    <3>1. PICK k \in last : k \in Nat /\ sent[i].source <= k /\ t >= k
      BY <1>3, <1>4, <2>2 DEF InPace
    <3>. QED BY <1>2, <1>4, <2>2, <3>1
  <2>. QED BY <1>2, <2>1, <2>2
<1>6. last' # {} /\ origin' = origin
  BY <1>2, <1>4
<1>. QED BY <1>1, <1>3, <1>5, <1>6 DEF InPace

\* and after an action was yielded it is too, with that action.
LEMMA YieldInPace ==
  ASSUME PlayerInv, R!Yield, NEW i \in DOMAIN sent'
  PROVE  InPace(i)'
<1>1. PICK d \in due :
        /\ clock >= d.deadline /\ d \in [stamp : Nat, deadline : Nat, source : Nat]
        /\ sent' \in Seq(Sample) /\ DOMAIN sent = 1..Len(sent)
        /\ Len(sent) \in Nat /\ DOMAIN sent' = 1..Len(sent) + 1
        /\ \A k \in DOMAIN sent : sent'[k] = sent[k]
        /\ sent'[Len(sent) + 1] =
             [stamp |-> d.stamp, deadline |-> d.deadline, source |-> d.source,
              at |-> clock]
  BY Yields
<1>2. UNCHANGED <<origin, last>>
  BY DEF R!Yield
<1>3. /\ d.source \in last /\ origin # {} /\ \A o \in origin : Rebased(d, o)
      /\ \A k \in last : k = d.source
  BY DEF PlayerInv, Paced, Based
<1>4. CASE i \in DOMAIN sent
  <2>1. i > 1 => i - 1 \in DOMAIN sent
    BY <1>1, <1>4
  <2>2. InPace(i)
    BY <1>4 DEF PlayerInv, Paced
  <2>3. sent'[i] = sent[i] /\ (i > 1 => sent'[i - 1] = sent[i - 1])
    BY <1>1, <1>4, <2>1
  <2>. QED BY <1>2, <2>2, <2>3 DEF InPace
<1>5. CASE i = Len(sent) + 1
  <2>1. i > 1 => i - 1 \in DOMAIN sent /\ sent'[i - 1] = sent[i - 1]
    BY <1>1, <1>5
  <2>2. i > 1 => sent[i - 1].source <= d.source
    BY <1>3, <2>1 DEF PlayerInv, Paced, InPace
  <2>3. /\ sent'[i].at = clock /\ sent'[i].stamp = d.stamp
        /\ sent'[i].deadline = d.deadline
        /\ sent'[i].source = d.source
    BY <1>1, <1>5
  <2>4. d.source \in Nat
    BY <1>1
  <2>5. \A o \in origin : Rebased(sent'[i], o)
    BY <1>3, <2>3 DEF Rebased
  <2>6. /\ sent'[i].at >= sent'[i].deadline
        /\ \A k \in last : sent'[i].source <= k
        /\ i > 1 => sent'[i - 1].source <= sent'[i].source
    BY <1>1, <1>3, <2>1, <2>2, <2>3, <2>4
  <2>. QED BY <1>2, <1>3, <2>5, <2>6 DEF InPace
<1>. QED BY <1>1, <1>4, <1>5

LEMMA PacedKept == PlayerInv /\ [R!Next]_playerVars => Paced'
<1> SUFFICES ASSUME PlayerInv, [R!Next]_playerVars PROVE Paced'
  OBVIOUS
<1> USE ConstantAssumption DEF PlayerInv, Based, Paced, Positive
<1>1. ASSUME R!Open PROVE Paced'
  BY <1>1 DEF R!Open, InPace
<1>2. ASSUME R!ClosePlayer PROVE Paced'
  BY <1>2 DEF R!ClosePlayer, InPace
<1>3. ASSUME R!Iterate PROVE Paced'
  <2>1. DOMAIN sent' = {} /\ due' = {}
    BY <1>3, EmptySeq DEF R!Iterate
  <2>. QED BY <2>1
<1>4. ASSUME R!Rewrite PROVE Paced'
  <2>1. /\ next \in Nat /\ next' = next + 1 /\ next' <= Len(episode) + 1 /\ due = {}
        /\ UNCHANGED <<clock, opened, opens, episode, sent, pass, began>>
    BY <1>4, Rewrites
  <2>2. PICK t \in Nat, o \in [source : Nat, ros : Nat, steady : 0..MaxTime] :
          /\ origin' = {o}
          /\ \/ origin = {} /\ o.source = t /\ o.ros = clock + Ahead /\ o.steady = clock
             \/ origin = {o}
          /\ \/ last' = last /\ due' = {} /\ halted' = TRUE
             \/ /\ t >= o.source /\ \A k \in last : t >= k
                /\ last' = {t} /\ halted' = halted
                /\ due' = {[stamp |-> o.ros + (t - o.source),
                            deadline |-> o.steady + (t - o.source), source |-> t]}
    BY <1>4, Rewrites
  <2>3. \A d \in due' : d.source \in last' /\ \A q \in origin' : Rebased(d, q)
    <3>1. CASE due' = {}
      BY <3>1
    <3>2. CASE t >= o.source /\ last' = {t}
               /\ due' = {[stamp |-> o.ros + (t - o.source),
                           deadline |-> o.steady + (t - o.source), source |-> t]}
      BY <2>2, <3>2 DEF Rebased
    <3>. QED BY <2>2, <3>1, <3>2
  <2>4. \A c, d \in due' : c = d
    BY <2>2
  <2>5. \A i \in DOMAIN sent' : InPace(i)'
    BY <1>4, <2>1, RewriteInPace
  <2>. QED BY <2>3, <2>4, <2>5
<1>5. ASSUME R!ReadClosed PROVE Paced'
  BY <1>5 DEF R!ReadClosed, InPace
<1>6. ASSUME R!Yield PROVE Paced'
  <2>1. due' = {}
    BY <1>6 DEF R!Yield
  <2>2. \A i \in DOMAIN sent' : InPace(i)'
    BY <1>6, YieldInPace
  <2>. QED BY <2>1, <2>2
<1>7. ASSUME R!Tick PROVE Paced'
  BY <1>7 DEF R!Tick, InPace
<1>8. CASE UNCHANGED playerVars
  BY <1>8 DEF playerVars, InPace
<1>. QED BY <1>1, <1>2, <1>3, <1>4, <1>5, <1>6, <1>7, <1>8 DEF R!Next

LEMMA PositiveKept == PlayerInv /\ [R!Next]_playerVars => Positive'
BY DEF PlayerInv, R!TypeOK, Positive, R!Next, playerVars, R!Open, R!ClosePlayer,
  R!Iterate, R!Rewrite, R!ReadClosed, R!Yield, R!Tick

LEMMA PlayerKept == PlayerInv /\ [R!Next]_playerVars => PlayerInv'
BY PlayerTypeKept, BasedKept, PacedKept, PositiveKept DEF PlayerInv

\* replay.py, ReplayPlayer: replay keeps the recorded pace, starts in the present
\* and never runs backwards, for all recorded times.
THEOREM PlayedAtRecordedPaceHolds == Spec => []PlayedAtRecordedPace
<1>1. ASSUME PlayerInv PROVE PlayedAtRecordedPace
  <2> USE <1>1 DEF PlayerInv
  <2>1. SUFFICES ASSUME NEW i \in DOMAIN sent PROVE
          /\ sent[i].at + Ahead >= sent[i].stamp
          /\ sent[i].stamp - sent[1].stamp = sent[i].source - sent[1].source
          /\ sent[i].stamp >= began + Ahead
          /\ i > 1 => sent[i - 1].stamp <= sent[i].stamp
    BY DEF PlayedAtRecordedPace, R!PlayedAtRecordedPace
  <2>2. /\ DOMAIN sent = 1..Len(sent) /\ Len(sent) \in Nat
        /\ \A k \in DOMAIN sent : /\ sent[k].source \in Nat /\ sent[k].stamp \in Nat
                                  /\ sent[k].deadline \in Nat /\ sent[k].at \in Nat
    BY SentTyped, ConstantAssumption
  <2>3. PICK o \in origin : /\ o \in [source : Nat, ros : Nat, steady : 0..MaxTime]
                            /\ began <= o.steady /\ o.ros = o.steady + Ahead
    BY DEF R!TypeOK, Based, Paced, InPace
  <2>4. \A k \in DOMAIN sent : Rebased(sent[k], o)
    BY DEF Paced, InPace
  <2>5. 1 \in DOMAIN sent /\ (i > 1 => i - 1 \in DOMAIN sent)
    BY <2>2
  <2>6. began \in Nat /\ Ahead \in Nat
    BY ConstantAssumption DEF R!TypeOK
  <2>7. /\ sent[i].at >= sent[i].deadline
        /\ i > 1 => sent[i - 1].source <= sent[i].source
    BY DEF Paced, InPace
  <2>8. o.source \in Nat /\ o.ros \in Nat /\ o.steady \in Nat
    BY <2>3, ConstantAssumption
  <2>9. \A k \in DOMAIN sent : /\ sent[k].source >= o.source
                                /\ sent[k].stamp = o.ros + (sent[k].source - o.source)
                                /\ sent[k].deadline = o.steady + (sent[k].source - o.source)
    BY <2>4 DEF Rebased
  <2>10. sent[i].stamp - sent[1].stamp = sent[i].source - sent[1].source
    BY <2>2, <2>5, <2>8, <2>9
  <2>11. sent[i].stamp >= began + Ahead
    BY <2>2, <2>3, <2>6, <2>8, <2>9
  <2>12. i > 1 => sent[i - 1].stamp <= sent[i].stamp
    BY <2>2, <2>5, <2>7, <2>8, <2>9
  <2>13. sent[i].at + Ahead >= sent[i].stamp
    BY <2>2, <2>3, <2>6, <2>7, <2>8, <2>9
  <2>. QED BY <2>10, <2>11, <2>12, <2>13
<1>. QED BY PlayerInitially, PlayerSteps, PlayerKept, <1>1, PTL DEF Spec

-----------------------------------------------------------------------------
(* ReplayApp.                                                              *)

\* A recorded message: poses of some parts.
Message ==
  [t : Nat, poses : UNION {[d -> Pose] : d \in SUBSET A!Part}]

\* A set of numbers from one has a least one, and a greatest one when bounded.
LEMMA Extremes ==
  ASSUME NEW n \in Nat, NEW T, T \subseteq 1..n, T # {}
  PROVE  /\ A!Min(T) \in T /\ \A j \in T : A!Min(T) <= j
         /\ A!Max(T) \in T /\ \A j \in T : j <= A!Max(T)
<1> DEFINE less == OpToRel(<, Nat)
<1>1. \E i \in T : \A j \in T : i <= j
  <2>1. \A k, m \in Nat : k < m => <<k, m>> \in less
    BY Zenon DEF OpToRel
  <2> HIDE DEF less
  <2>2. IsWellFoundedOn(less, Nat)
    BY NatLessThanWellFounded DEF less
  <2>3. T \subseteq Nat
    OBVIOUS
  <2>4. PICK i \in T : \A j \in T : ~(<<j, i>> \in less)
    BY <2>2, <2>3, WFMin
  <2>5. ASSUME NEW j \in T PROVE i <= j
    <3>1. i \in Nat /\ j \in Nat /\ ~(j < i)
      BY <2>1, <2>3, <2>4
    <3>. QED BY <3>1
  <2>. QED BY <2>5
<1>2. \E i \in T : \A j \in T : j <= i
  BY Greatest
<1>3. A!Min(T) \in T /\ \A j \in T : A!Min(T) <= j
  BY <1>1 DEF A!Min
<1>4. A!Max(T) \in T /\ \A j \in T : j <= A!Max(T)
  BY <1>2, Zenon DEF A!Max
<1>. QED BY <1>3, <1>4

\* Of two messages one is before the other, and what is before the earlier one
\* is before the later one.
LEMMA Sorted ==
  ASSUME NEW rec \in Seq(Message)
  PROVE  /\ DOMAIN rec = 1..Len(rec) /\ Len(rec) \in Nat
         /\ \A i \in DOMAIN rec : rec[i] \in Message /\ rec[i].t \in Nat
         /\ \A i \in DOMAIN rec : A!Before(rec, i) \subseteq DOMAIN rec \ {i}
         /\ \A i, j \in DOMAIN rec :
              i # j => i \in A!Before(rec, j) \/ j \in A!Before(rec, i)
         /\ \A i, j \in DOMAIN rec : i \in A!Before(rec, j) =>
              A!Before(rec, i) \cup {i} \subseteq A!Before(rec, j)
<1>1. DOMAIN rec = 1..Len(rec) /\ Len(rec) \in Nat
  BY LenProperties
<1>2. ASSUME NEW i \in 1..Len(rec) PROVE rec[i] \in Message
  BY ElementOfSeq
<1>3. \A i \in DOMAIN rec : rec[i] \in Message /\ rec[i].t \in Nat
  BY <1>1, <1>2 DEF Message
<1>. QED BY <1>1, <1>3 DEF A!Before

\* The number of members is the same operator inside ReplayApp.
LEMMA SameCardinality == \A T : A!Cardinality(T) = Cardinality(T)
BY DEF A!Cardinality, Cardinality

\* The messages before one are a number of others.
LEMMA Rank ==
  ASSUME NEW rec \in Seq(Message), NEW i \in DOMAIN rec
  PROVE  /\ IsFiniteSet(A!Before(rec, i))
         /\ A!Cardinality(A!Before(rec, i)) \in 0..Len(rec) - 1
<1>1. DOMAIN rec = 1..Len(rec) /\ Len(rec) \in Nat
  BY Sorted
<1>2. IsFiniteSet(DOMAIN rec) /\ Cardinality(DOMAIN rec) = Len(rec)
  <2>1. /\ IsFiniteSet(1..Len(rec))
        /\ Cardinality(1..Len(rec)) = IF 1 > Len(rec) THEN 0 ELSE Len(rec) - 1 + 1
    BY <1>1, FS_Interval
  <2>2. Cardinality(DOMAIN rec) = IF 1 > Len(rec) THEN 0 ELSE Len(rec) - 1 + 1
    BY <1>1, <2>1
  <2>. QED BY <1>1, <2>1, <2>2
<1>3. /\ IsFiniteSet(DOMAIN rec \ {i})
      /\ Cardinality(DOMAIN rec \ {i}) = Len(rec) - 1
  BY <1>2, FS_RemoveElement
<1>4. A!Before(rec, i) \in SUBSET (DOMAIN rec \ {i})
  BY Sorted
<1>5. /\ IsFiniteSet(A!Before(rec, i))
      /\ Cardinality(A!Before(rec, i)) <= Len(rec) - 1
  BY <1>3, <1>4, FS_Subset
<1>. QED BY <1>1, <1>5, FS_CardinalityType, SameCardinality

\* A message that is before another one has fewer before it.
LEMMA Earlier ==
  ASSUME NEW rec \in Seq(Message), NEW i \in DOMAIN rec, NEW j \in DOMAIN rec,
         i \in A!Before(rec, j)
  PROVE  A!Cardinality(A!Before(rec, i)) < A!Cardinality(A!Before(rec, j))
<1>1. /\ IsFiniteSet(A!Before(rec, i)) /\ IsFiniteSet(A!Before(rec, j))
      /\ A!Cardinality(A!Before(rec, i)) \in Nat /\ A!Cardinality(A!Before(rec, j)) \in Nat
  BY Rank
<1>2. i \notin A!Before(rec, i) /\ A!Before(rec, i) \cup {i} \in SUBSET A!Before(rec, j)
  BY Sorted
<1>3. A!Cardinality(A!Before(rec, i) \cup {i}) = A!Cardinality(A!Before(rec, i)) + 1
  BY <1>1, <1>2, FS_AddElement, SameCardinality
<1>4. A!Cardinality(A!Before(rec, i) \cup {i}) <= A!Cardinality(A!Before(rec, j))
  BY <1>1, <1>2, FS_Subset, SameCardinality
<1>. QED BY <1>1, <1>3, <1>4, SameCardinality

\* apps/replay.py, load_mcap_trajectory: the messages are brought into the order of
\* their log time, each one once, those of one time in file order, for every
\* recording.
THEOREM ByTimeSorts ==
  ASSUME NEW rec \in Seq(Message)
  PROVE  /\ A!ByTime(rec) \in Seq(Message) /\ Len(A!ByTime(rec)) = Len(rec)
         /\ \E order \in Bijection(1..Len(rec), 1..Len(rec)) :
              /\ \A k \in 1..Len(rec) : A!ByTime(rec)[k] = rec[order[k]]
              /\ \A j, k \in 1..Len(rec) : j < k =>
                   \/ rec[order[j]].t < rec[order[k]].t
                   \/ rec[order[j]].t = rec[order[k]].t /\ order[j] < order[k]
<1> DEFINE n == Len(rec)
<1> DEFINE rank(i) == A!Cardinality(A!Before(rec, i))
<1> DEFINE f == [i \in 1..n |-> rank(i) + 1]
<1> DEFINE order == [k \in DOMAIN rec |-> CHOOSE i \in DOMAIN rec : rank(i) = k - 1]
<1>1. DOMAIN rec = 1..n /\ n \in Nat
  BY Sorted
<1>2. \A i \in 1..n : rank(i) \in 0..n - 1
  BY <1>1, Rank
<1>3. \A i, j \in 1..n : i \in A!Before(rec, j) => rank(i) < rank(j)
  BY <1>1, Earlier
<1>4. \A i, j \in 1..n : i # j => i \in A!Before(rec, j) \/ j \in A!Before(rec, i)
  BY <1>1, Sorted
<1>5. A!ByTime(rec) = [k \in DOMAIN rec |-> rec[order[k]]]
  BY DEF A!ByTime
<1>6. A!ByTime(rec) = [k \in 1..n |-> rec[order[k]]]
  BY <1>1, <1>5
<1> HIDE DEF n, rank
<1>7. \A i, j \in 1..n : i # j => rank(i) # rank(j)
  BY <1>2, <1>3, <1>4
<1>8. f \in Injection(1..n, 1..n)
  <2>1. f \in [1..n -> 1..n]
    BY <1>1, <1>2
  <2>2. \A i, j \in 1..n : f[i] = f[j] => i = j
    BY <1>2, <1>7
  <2>. QED BY <2>1, <2>2 DEF Injection, IsInjective
<1>9. f \in Surjection(1..n, 1..n)
  BY <1>1, <1>8, FS_Injection, FS_Interval
<1>10. ASSUME NEW k \in 1..n PROVE order[k] \in 1..n /\ rank(order[k]) = k - 1
  <2>1. PICK i \in 1..n : f[i] = k
    BY <1>9 DEF Surjection
  <2>2. rank(i) = k - 1
    BY <1>2, <2>1
  <2>3. order[k] = CHOOSE j \in DOMAIN rec : rank(j) = k - 1
    BY <1>1
  <2>4. i \in DOMAIN rec
    BY <1>1
  <2> HIDE DEF order
  <2>5. order[k] \in DOMAIN rec /\ rank(order[k]) = k - 1
    BY <2>2, <2>3, <2>4
  <2>. QED BY <1>1, <2>5
<1> HIDE DEF f, order
<1>11. order \in [1..n -> 1..n]
  BY <1>1, <1>10 DEF order
<1>12. order \in Bijection(1..n, 1..n)
  <2>1. \A j, k \in 1..n : order[j] = order[k] => j = k
    BY <1>1, <1>10
  <2>2. ASSUME NEW i \in 1..n PROVE \E k \in 1..n : order[k] = i
    <3>1. rank(i) + 1 \in 1..n
      BY <1>1, <1>2
    <3>2. rank(order[rank(i) + 1]) = rank(i) /\ order[rank(i) + 1] \in 1..n
      BY <1>2, <1>10, <3>1
    <3>3. order[rank(i) + 1] = i
      BY <1>7, <3>2
    <3>. QED BY <3>1, <3>3
  <2>. QED BY <1>11, <2>1, <2>2 DEF Bijection, Injection, IsInjective, Surjection
<1>13. ASSUME NEW j \in 1..n, NEW k \in 1..n, j < k
       PROVE  order[j] \in A!Before(rec, order[k])
  <2>1. rank(order[j]) < rank(order[k]) /\ order[j] \in 1..n /\ order[k] \in 1..n
    BY <1>1, <1>10, <1>13
  <2>2. order[j] # order[k] /\ ~(rank(order[k]) < rank(order[j]))
    BY <1>2, <2>1
  <2>. QED BY <1>3, <1>4, <2>1, <2>2
<1>14. ASSUME NEW j \in 1..n, NEW k \in 1..n, j < k
       PROVE  \/ rec[order[j]].t < rec[order[k]].t
              \/ rec[order[j]].t = rec[order[k]].t /\ order[j] < order[k]
  BY <1>13, <1>14 DEF A!Before
<1>15. \A i \in 1..n : rec[i] \in Message
  BY <1>1, Sorted
<1>16. A!ByTime(rec) \in [1..n -> Message]
  BY <1>6, <1>11, <1>15
<1>17. A!ByTime(rec) \in Seq(Message)
  BY <1>1, <1>16, SeqDef
<1>18. Len(A!ByTime(rec)) = n
  <2>1. /\ DOMAIN A!ByTime(rec) = 1..Len(A!ByTime(rec))
        /\ Len(A!ByTime(rec)) \in Nat
    BY <1>17, LenProperties
  <2>2. DOMAIN A!ByTime(rec) = 1..n
    BY <1>16
  <2>3. \A a, b \in Nat : 1..a = 1..b => a = b
    <3> SUFFICES ASSUME NEW a \in Nat, NEW b \in Nat, 1..a = 1..b, a # b PROVE FALSE
      OBVIOUS
    <3>1. a \in 1..a \/ a = 0
      OBVIOUS
    <3>2. b \in 1..b \/ b = 0
      OBVIOUS
    <3>. QED BY <3>1, <3>2
  <2>. QED BY <1>1, <2>1, <2>2, <2>3
<1>19. \A k \in 1..n : A!ByTime(rec)[k] = rec[order[k]]
  BY <1>6
<1>. QED BY <1>12, <1>14, <1>17, <1>18, <1>19 DEF n

\* An arm that was seen and left alone since, with no frame dropped, stands where
\* the application thinks.
Trusted(p) == p \notin moved \cup skipped /\ obs[p] # A!None

\* Until it is homed a trusted arm is where it was seen, then at its start pose,
\* until the first frame that tells a pose of it.
Standing ==
  /\ phase \in {"resolve", "load", "look"} => jumped = {}
  /\ phase \in {"resolve", "load", "look", "claim"} => homed = {}
  /\ active => holds
  /\ phase \in {"resolve", "load", "look", "claim", "home"} => frame = 1
  /\ phase \in {"claim", "home"} => \A p \in Arm : Trusted(p) =>
       pose[p] = IF p \in homed THEN A!StartPose(p) ELSE obs[p]
  /\ phase = "replay" => \A p \in Arm \cap A!Recorded : Trusted(p) =>
       A!Telling(p, frame - 1) # {} \/ pose[p] = A!StartPose(p)

ReplayInv ==
  /\ A!TypeOK /\ events \in Seq(Message)
  /\ Standing /\ ReplayStartsWhereItStands

\* A step of the whole is one of this part, or leaves it alone.
LEMMA ReplaySteps == [Next]_vars => [A!Next]_replayVars
<1> SUFFICES ASSUME [Next]_vars PROVE [A!Next]_replayVars
  OBVIOUS
<1>1. CASE part = "replay" /\ Next
  BY <1>1 DEF Next, On, A!Next
<1>2. CASE part # "replay" /\ Next
  BY <1>2 DEF Next, On
<1>3. CASE UNCHANGED vars
  BY <1>3 DEF vars
<1>. QED BY <1>1, <1>2, <1>3

LEMMA ReplayInitially == Init => ReplayInv
<1> SUFFICES ASSUME Init PROVE ReplayInv
  OBVIOUS
<1>1. events \in Seq(Message) /\ Len(events) = 0
  BY EmptySeq DEF Init, A!Init
<1>2. pose \in [A!Part -> Pose]
  BY ConstantAssumption DEF Init, A!Init
<1>3. merged \in BOOLEAN /\ holds \in BOOLEAN /\ active \in BOOLEAN /\ closed \in BOOLEAN
  BY DEF Init, A!Init
<1>4. A!TypeOK
  BY <1>1, <1>2, <1>3 DEF Init, A!Init, A!TypeOK
<1>. QED BY <1>1, <1>4 DEF Init, A!Init, ReplayInv, Standing,
  ReplayStartsWhereItStands, A!ReplayStartsWhereItStands

\* The events of a replay are messages, and only recorded parts are told of.
LEMMA EventsTyped ==
  ASSUME events \in Seq(Message)
  PROVE  /\ DOMAIN events = 1..Len(events) /\ Len(events) \in Nat
         /\ \A i \in DOMAIN events : \A p \in DOMAIN events[i].poses :
              p \in A!Part /\ p \in A!Recorded /\ events[i].poses[p] \in Pose
         /\ \A p \in A!Recorded : A!Telling(p, Len(events)) # {}
         /\ \A p, k : A!Telling(p, k) \subseteq 1..k
<1>1. DOMAIN events = 1..Len(events) /\ Len(events) \in Nat
  BY LenProperties
<1>2. ASSUME NEW i \in DOMAIN events, NEW p \in DOMAIN events[i].poses
      PROVE  p \in A!Part /\ p \in A!Recorded /\ events[i].poses[p] \in Pose
  <2>1. events[i] \in Message
    BY <1>1, ElementOfSeq
  <2>2. PICK d \in SUBSET A!Part : events[i].poses \in [d -> Pose]
    BY <2>1 DEF Message
  <2>. QED BY <1>2, <2>2 DEF A!Recorded
<1>3. \A p \in A!Recorded : A!Telling(p, Len(events)) # {}
  BY <1>1 DEF A!Recorded, A!Telling
<1>4. \A p, k : A!Telling(p, k) \subseteq 1..k
  BY DEF A!Telling
<1>. QED BY <1>1, <1>2, <1>3, <1>4

\* A recorded part has a start pose.
LEMMA StartTyped ==
  ASSUME events \in Seq(Message), NEW p \in A!Recorded
  PROVE  A!StartPose(p) \in Pose
<1> DEFINE T == A!Telling(p, Len(events))
<1>1. Len(events) \in Nat /\ T \subseteq 1..Len(events) /\ T # {}
  BY EventsTyped
<1>2. A!Min(T) \in T
  BY <1>1, Extremes
<1>3. A!Min(T) \in DOMAIN events /\ p \in DOMAIN events[A!Min(T)].poses
  BY <1>2, EventsTyped DEF A!Telling
<1>4. events[A!Min(T)].poses[p] \in Pose
  BY <1>3, EventsTyped
<1>. QED BY <1>4 DEF A!StartPose

\* A frame has poses, of parts that were told of by then.
LEMMA FrameTyped ==
  ASSUME events \in Seq(Message), NEW k \in 1..Len(events),
         NEW p \in DOMAIN A!FramePoses(k)
  PROVE  A!FramePoses(k)[p] \in Pose /\ A!Telling(p, k) # {}
<1>1. Len(events) \in Nat /\ DOMAIN events = 1..Len(events)
  BY EventsTyped
<1>2. CASE merged
  <2>1. A!FramePoses(k) = [q \in {q \in A!Part : A!Telling(q, k) # {}} |->
                             events[A!Max(A!Telling(q, k))].poses[q]]
    BY <1>2 DEF A!FramePoses
  <2>2. A!Telling(p, k) # {} /\ A!FramePoses(k)[p] = events[A!Max(A!Telling(p, k))].poses[p]
    BY <2>1
  <2>3. A!Telling(p, k) \subseteq 1..k /\ k \in Nat
    BY <1>1, EventsTyped
  <2>4. A!Max(A!Telling(p, k)) \in A!Telling(p, k)
    BY <2>2, <2>3, Extremes
  <2>5. /\ A!Max(A!Telling(p, k)) \in DOMAIN events
        /\ p \in DOMAIN events[A!Max(A!Telling(p, k))].poses
    <3>1. \A i \in A!Telling(p, k) : i \in DOMAIN events /\ p \in DOMAIN events[i].poses
      BY <1>1 DEF A!Telling
    <3>. QED BY <2>4, <3>1
  <2>6. events[A!Max(A!Telling(p, k))].poses[p] \in Pose
    BY <2>5, EventsTyped
  <2>. QED BY <2>2, <2>6
<1>3. CASE ~merged
  <2>1. A!FramePoses(k) = events[k].poses
    BY <1>3 DEF A!FramePoses
  <2>2. k \in A!Telling(p, k)
    BY <1>1, <2>1 DEF A!Telling
  <2>. QED BY <1>1, <2>1, <2>2, EventsTyped
<1>. QED BY <1>2, <1>3

\* The first frame that tells a pose of a part has its start pose.
LEMMA FirstTold ==
  ASSUME events \in Seq(Message), NEW k \in 1..Len(events), NEW p \in A!Part,
         A!Telling(p, k) = {k}
  PROVE  /\ p \in A!Recorded /\ A!Telling(p, k - 1) = {}
         /\ A!FramePoses(k)[p] = A!StartPose(p)
<1>1. Len(events) \in Nat /\ DOMAIN events = 1..Len(events) /\ k \in Nat
  BY EventsTyped
<1>2. k \in A!Telling(p, k) /\ p \in DOMAIN events[k].poses
  BY DEF A!Telling
<1>3. p \in A!Recorded
  BY <1>1, <1>2, EventsTyped
<1>4. A!Telling(p, k - 1) = {}
  <2>1. A!Telling(p, k - 1) \subseteq A!Telling(p, k) \ {k}
    BY <1>1 DEF A!Telling
  <2>. QED BY <2>1
<1>5. A!Min(A!Telling(p, Len(events))) = k
  <2> DEFINE T == A!Telling(p, Len(events))
  <2>1. T \subseteq 1..Len(events) /\ k \in T
    BY <1>1, <1>2 DEF A!Telling
  <2>2. A!Min(T) \in T /\ A!Min(T) <= k
    BY <1>1, <2>1, Extremes
  <2>3. A!Min(T) \in A!Telling(p, k)
    BY <1>1, <2>1, <2>2 DEF A!Telling
  <2>. QED BY <2>3
<1>6. A!StartPose(p) = events[k].poses[p]
  BY <1>5 DEF A!StartPose
<1>7. A!Max(A!Telling(p, k)) = k
  <2>1. A!Max({k}) \in {k}
    <3>1. {k} \subseteq 1..k
      BY <1>1
    <3>. QED BY <1>1, <3>1, Extremes
  <2>. QED BY <2>1
<1>8. A!FramePoses(k)[p] = events[k].poses[p]
  BY <1>7 DEF A!FramePoses
<1>. QED BY <1>3, <1>4, <1>6, <1>8

\* What is loaded is messages.
LEMMA LoadedTyped ==
  ASSUME A!LoadTrajectory PROVE events' \in Seq(Message)
<1>1. PICK rec \in Recordings :
        events' \in {A!ByTime(rec.actions), A!ByTime(rec.states)}
  BY DEF A!LoadTrajectory
<1>2. rec.actions \in Seq(Message) /\ rec.states \in Seq(Message)
  BY ConstantAssumption DEF Message, A!Part
<1>. QED BY <1>1, <1>2, ByTimeSorts

LEMMA EventsKept ==
  events \in Seq(Message) /\ [A!Next]_replayVars => (events \in Seq(Message))'
BY LoadedTyped DEF A!Next, replayVars, A!Quit, A!Resolve, A!Look, A!EnterPlanner,
  A!StartReplay, A!ReplayFrame, A!ReplayEnds, A!CloseContext, A!Displaced,
  A!StatusTurns, A!HomePart, A!MovedByOther

LEMMA ReplayTypeKept == ReplayInv /\ [A!Next]_replayVars => A!TypeOK'
<1> SUFFICES ASSUME ReplayInv, [A!Next]_replayVars PROVE A!TypeOK'
  OBVIOUS
<1> USE DEF ReplayInv, A!TypeOK, Standing
<1>1. ASSUME A!Quit PROVE A!TypeOK'
  <2>1. holds' \in BOOLEAN /\ active' \in BOOLEAN
    BY <1>1 DEF A!Quit, A!Session
  <2>. QED BY <1>1, <2>1 DEF A!Quit, A!Session
<1>2. ASSUME A!Resolve PROVE A!TypeOK'
  BY <1>2 DEF A!Resolve
<1>3. ASSUME A!LoadTrajectory PROVE A!TypeOK'
  <2>1. frame = 1 /\ frame' = 1 /\ phase' = "look"
    BY <1>3 DEF A!LoadTrajectory
  <2>2. Len(events') \in Nat
    BY <1>3, LoadedTyped, LenProperties
  <2>3. merged' \in BOOLEAN
    BY <1>3 DEF A!LoadTrajectory
  <2>4. UNCHANGED <<obs, homed, pose, moved, holds, active, skipped, jumped, closed>>
    BY <1>3 DEF A!LoadTrajectory
  <2>. QED BY <2>1, <2>2, <2>3, <2>4
<1>4. ASSUME A!Look PROVE A!TypeOK'
  BY <1>4 DEF A!Look
<1>5. ASSUME A!EnterPlanner PROVE A!TypeOK'
  <2>1. holds' \in BOOLEAN /\ active' \in BOOLEAN
    BY <1>5 DEF A!EnterPlanner, A!Session
  <2>. QED BY <1>5, <2>1 DEF A!EnterPlanner, A!Session
<1>6. ASSUME A!StartReplay PROVE A!TypeOK'
  <2>1. holds' \in BOOLEAN /\ active' \in BOOLEAN
    BY <1>6 DEF A!StartReplay, A!Session
  <2>. QED BY <1>6, <2>1 DEF A!StartReplay, A!Session
<1>7. ASSUME A!ReplayFrame PROVE A!TypeOK'
  <2>1. frame \in 1..Len(events) /\ Len(events) \in Nat /\ frame' = frame + 1
    BY <1>7, EventsTyped DEF A!ReplayFrame
  <2>2. pose' \in [A!Part -> Pose]
    <3>1. CASE active
      <4>1. pose' = [p \in A!Part |-> IF p \in DOMAIN A!FramePoses(frame)
                                      THEN A!FramePoses(frame)[p] ELSE pose[p]]
        BY <1>7, <3>1 DEF A!ReplayFrame
      <4>2. \A p \in DOMAIN A!FramePoses(frame) : A!FramePoses(frame)[p] \in Pose
        BY <2>1, FrameTyped
      <4>. QED BY <4>1, <4>2
    <3>2. CASE ~active
      BY <1>7, <3>2 DEF A!ReplayFrame
    <3>. QED BY <3>1, <3>2
  <2>3. jumped' \subseteq Arm /\ skipped' \subseteq Arm
    BY <1>7 DEF A!ReplayFrame
  <2>4. UNCHANGED <<phase, events, merged, obs, homed, moved, holds, active, closed>>
    BY <1>7 DEF A!ReplayFrame
  <2>. QED BY <2>1, <2>2, <2>3, <2>4
<1>8. ASSUME A!ReplayEnds PROVE A!TypeOK'
  <2>1. holds' \in BOOLEAN /\ active' \in BOOLEAN
    BY <1>8 DEF A!ReplayEnds, A!Session
  <2>. QED BY <1>8, <2>1 DEF A!ReplayEnds, A!Session
<1>9. ASSUME A!CloseContext PROVE A!TypeOK'
  <2>1. closed' \in BOOLEAN
    BY <1>9 DEF A!CloseContext
  <2>. QED BY <1>9, <2>1 DEF A!CloseContext
<1>10. ASSUME A!Displaced PROVE A!TypeOK'
  <2>1. holds' \in BOOLEAN /\ active' \in BOOLEAN
    BY <1>10 DEF A!Displaced, A!Session
  <2>. QED BY <1>10, <2>1 DEF A!Displaced, A!Session
<1>11. ASSUME A!StatusTurns PROVE A!TypeOK'
  BY <1>11 DEF A!StatusTurns
<1>12. ASSUME NEW p \in Arm, A!HomePart(p) PROVE A!TypeOK'
  <2>1. A!StartPose(p) \in Pose /\ p \in A!Part
    BY <1>12, StartTyped DEF A!HomePart, A!Part
  <2>. QED BY <1>12, <2>1 DEF A!HomePart
<1>13. ASSUME NEW p \in Arm, NEW x \in Pose, A!MovedByOther(p, x) PROVE
  A!TypeOK'
  BY <1>13 DEF A!MovedByOther
<1>14. CASE UNCHANGED replayVars
  BY <1>14 DEF replayVars
<1>. QED BY <1>1, <1>2, <1>3, <1>4, <1>5, <1>6, <1>7, <1>8, <1>9, <1>10,
  <1>11, <1>12, <1>13, <1>14 DEF A!Next

\* While the events are the same, so is what they tell.
LEMMA SameEvents ==
  ASSUME UNCHANGED events
  PROVE  /\ A!Recorded' = A!Recorded
         /\ \A p : A!StartPose(p)' = A!StartPose(p)
         /\ \A p, k : A!Telling(p, k)' = A!Telling(p, k)
BY DEF A!Recorded, A!StartPose, A!Telling

\* Frame by frame.
LEMMA FrameStands ==
  ASSUME ReplayInv, A!ReplayFrame, NEW p \in Arm, p \notin moved \cup skipped',
         obs[p] # A!None
  PROVE  /\ p \in A!Recorded => \/ A!Telling(p, frame) # {}
                                \/ pose'[p] = A!StartPose(p)
         /\ p \in jumped' => p \in jumped
<1>1. frame \in 1..Len(events) /\ phase = "replay" /\ events \in Seq(Message)
  BY EventsTyped DEF A!ReplayFrame, ReplayInv, A!TypeOK
<1>2. p \in A!Part
  BY DEF A!Part
<1>3. A!Telling(p, frame) = {} => A!Telling(p, frame - 1) = {}
  BY <1>1, EventsTyped DEF A!Telling
<1>4. p \notin skipped
  BY DEF A!ReplayFrame
<1>5. p \in A!Recorded => A!Telling(p, frame - 1) # {} \/ pose[p] = A!StartPose(p)
  BY <1>1, <1>4 DEF ReplayInv, Standing, Trusted
<1>6. CASE active
  <2>1. pose' = [q \in A!Part |-> IF q \in DOMAIN A!FramePoses(frame)
                                  THEN A!FramePoses(frame)[q] ELSE pose[q]]
    BY <1>6 DEF A!ReplayFrame
  <2>2. p \in DOMAIN A!FramePoses(frame) => A!Telling(p, frame) # {}
    BY <1>1, FrameTyped
  <2>3. p \in jumped' /\ p \notin jumped =>
          A!Telling(p, frame) = {frame} /\ pose[p] # A!FramePoses(frame)[p]
    BY <1>4, <1>6 DEF A!ReplayFrame, A!FirstPoint
  <2>4. A!Telling(p, frame) = {frame} => pose[p] = A!FramePoses(frame)[p]
    BY <1>1, <1>2, <1>5, FirstTold
  <2>5. A!Telling(p, frame) = {} => pose'[p] = pose[p]
    BY <1>2, <2>1, <2>2
  <2>. QED BY <1>3, <1>5, <2>3, <2>4, <2>5
<1>7. CASE ~active
  BY <1>3, <1>5, <1>7 DEF A!ReplayFrame
<1>. QED BY <1>6, <1>7

LEMMA StandingKept == ReplayInv /\ [A!Next]_replayVars => Standing'
<1> SUFFICES ASSUME ReplayInv, [A!Next]_replayVars PROVE Standing'
  OBVIOUS
<1> USE DEF ReplayInv, A!TypeOK, Standing, Trusted
<1>1. ASSUME A!Quit PROVE Standing'
  BY <1>1, SameEvents DEF A!Quit, A!Session
<1>2. ASSUME A!Resolve PROVE Standing'
  BY <1>2, SameEvents DEF A!Resolve
<1>3. ASSUME A!LoadTrajectory PROVE Standing'
  BY <1>3 DEF A!LoadTrajectory
<1>4. ASSUME A!Look PROVE Standing'
  <2>1. UNCHANGED <<events, frame, homed, pose, holds, active>> /\ homed = {} /\ frame = 1
    BY <1>4 DEF A!Look
  <2>2. \A p \in A!Part : obs'[p] \in {pose[p], A!None}
    BY <1>4 DEF A!Look
  <2>3. phase' = "claim"
    BY <1>4 DEF A!Look
  <2>. QED BY <2>1, <2>2, <2>3 DEF A!Part
<1>5. ASSUME A!EnterPlanner PROVE Standing'
  BY <1>5, SameEvents DEF A!EnterPlanner, A!Session
<1>6. ASSUME A!StartReplay PROVE Standing'
  <2>1. UNCHANGED <<events, frame, obs, homed, pose, moved, skipped>>
        /\ phase = "home" /\ active' = holds'
    BY <1>6 DEF A!StartReplay, A!Session
  <2>2. Arm \cap A!Recorded \subseteq homed /\ phase' \in {"replay", "stopping"}
    BY <1>6 DEF A!StartReplay, A!Session
  <2>. QED BY <2>1, <2>2, SameEvents
<1>7. ASSUME A!ReplayFrame PROVE Standing'
  <2>1. /\ UNCHANGED <<phase, events, obs, homed, moved>> /\ phase = "replay"
        /\ frame' = frame + 1 /\ frame \in Nat
    BY <1>7, EventsTyped DEF A!ReplayFrame
  <2>2. frame' - 1 = frame
    BY <2>1
  <2>3. \A q \in Arm \cap A!Recorded : Trusted(q)' =>
          A!Telling(q, frame) # {} \/ pose'[q] = A!StartPose(q)
    BY <1>7, <2>1, FrameStands
  <2>4. active => holds
    OBVIOUS
  <2>5. UNCHANGED <<holds, active>>
    BY <1>7 DEF A!ReplayFrame
  <2>. QED BY <2>1, <2>2, <2>3, <2>4, <2>5, SameEvents
<1>8. ASSUME A!ReplayEnds PROVE Standing'
  BY <1>8, SameEvents DEF A!ReplayEnds, A!Session
<1>9. ASSUME A!CloseContext PROVE Standing'
  BY <1>9, SameEvents DEF A!CloseContext
<1>10. ASSUME A!Displaced PROVE Standing'
  BY <1>10, SameEvents DEF A!Displaced, A!Session
<1>11. ASSUME A!StatusTurns PROVE Standing'
  BY <1>11, SameEvents DEF A!StatusTurns
<1>12. ASSUME NEW p \in Arm, A!HomePart(p) PROVE Standing'
  <2>1. /\ UNCHANGED <<phase, events, frame, obs, moved, skipped, holds, active>>
        /\ phase = "home"
        /\ homed' = homed \cup {p} /\ p \in A!Part /\ p \notin homed
    BY <1>12 DEF A!HomePart, A!Part
  <2>2. \A q \in Arm \ {p} : pose'[q] = pose[q]
    BY <1>12 DEF A!HomePart, A!Part
  <2>3. Trusted(p) => pose'[p] = A!StartPose(p)
    BY <1>12, <2>1 DEF A!HomePart
  <2>. QED BY <2>1, <2>2, <2>3, SameEvents
<1>13. ASSUME NEW p \in Arm, NEW x \in Pose, A!MovedByOther(p, x) PROVE
  Standing'
  <2>1. /\ UNCHANGED <<phase, events, frame, obs, homed, jumped, skipped, holds, active>>
        /\ moved' = moved \cup {p} /\ pose' = [pose EXCEPT ![p] = x]
    BY <1>13 DEF A!MovedByOther
  <2>2. \A q \in Arm : Trusted(q)' => Trusted(q) /\ pose'[q] = pose[q]
    BY <2>1 DEF A!Part
  <2>. QED BY <2>1, <2>2, SameEvents
<1>14. CASE UNCHANGED replayVars
  BY <1>14, SameEvents DEF replayVars
<1>. QED BY <1>1, <1>2, <1>3, <1>4, <1>5, <1>6, <1>7, <1>8, <1>9, <1>10,
  <1>11, <1>12, <1>13, <1>14 DEF A!Next

LEMMA JumpedKept == ReplayInv /\ [A!Next]_replayVars => ReplayStartsWhereItStands'
<1> SUFFICES ASSUME ReplayInv, [A!Next]_replayVars PROVE ReplayStartsWhereItStands'
  OBVIOUS
<1> USE DEF ReplayInv, A!TypeOK, Standing, Trusted, ReplayStartsWhereItStands,
  A!ReplayStartsWhereItStands
<1>1. ASSUME A!Quit PROVE ReplayStartsWhereItStands'
  BY <1>1 DEF A!Quit, A!Session
<1>2. ASSUME A!Resolve PROVE ReplayStartsWhereItStands'
  BY <1>2 DEF A!Resolve
<1>3. ASSUME A!LoadTrajectory PROVE ReplayStartsWhereItStands'
  <2>. QED BY <1>3 DEF A!LoadTrajectory
<1>4. ASSUME A!Look PROVE ReplayStartsWhereItStands'
  BY <1>4 DEF A!Look
<1>5. ASSUME A!EnterPlanner PROVE ReplayStartsWhereItStands'
  BY <1>5 DEF A!EnterPlanner, A!Session
<1>6. ASSUME A!StartReplay PROVE ReplayStartsWhereItStands'
  BY <1>6 DEF A!StartReplay, A!Session
<1>7. ASSUME A!ReplayFrame PROVE ReplayStartsWhereItStands'
  <2>1. UNCHANGED <<obs, moved>> /\ jumped' \subseteq Arm
    BY <1>7 DEF A!ReplayFrame
  <2>2. \A q \in Arm : q \notin moved \cup skipped' /\ obs[q] # A!None =>
          (q \in jumped' => q \in jumped)
    BY <1>7, FrameStands
  <2>3. skipped \subseteq skipped'
    BY <1>7 DEF A!ReplayFrame
  <2>. QED BY <2>1, <2>2, <2>3
<1>8. ASSUME A!ReplayEnds PROVE ReplayStartsWhereItStands'
  BY <1>8 DEF A!ReplayEnds, A!Session
<1>9. ASSUME A!CloseContext PROVE ReplayStartsWhereItStands'
  BY <1>9 DEF A!CloseContext
<1>10. ASSUME A!Displaced PROVE ReplayStartsWhereItStands'
  BY <1>10 DEF A!Displaced, A!Session
<1>11. ASSUME A!StatusTurns PROVE ReplayStartsWhereItStands'
  BY <1>11 DEF A!StatusTurns
<1>12. ASSUME NEW p \in Arm, A!HomePart(p) PROVE ReplayStartsWhereItStands'
  BY <1>12 DEF A!HomePart
<1>13. ASSUME NEW p \in Arm, NEW x \in Pose, A!MovedByOther(p, x) PROVE
  ReplayStartsWhereItStands'
  BY <1>13 DEF A!MovedByOther
<1>14. CASE UNCHANGED replayVars
  BY <1>14 DEF replayVars
<1>. QED BY <1>1, <1>2, <1>3, <1>4, <1>5, <1>6, <1>7, <1>8, <1>9, <1>10,
  <1>11, <1>12, <1>13, <1>14 DEF A!Next

LEMMA ReplayKept == ReplayInv /\ [A!Next]_replayVars => ReplayInv'
BY ReplayTypeKept, EventsKept, StandingKept, JumpedKept DEF ReplayInv

\* apps/replay.py: no arm jumps when the replay begins with it, for all recordings
\* and any number of arms.
THEOREM ReplayStartsWhereItStandsHolds == Spec => []ReplayStartsWhereItStands
<1>1. ReplayInv => ReplayStartsWhereItStands
  BY DEF ReplayInv, ReplayStartsWhereItStands
<1>. QED BY ReplayInitially, ReplaySteps, ReplayKept, <1>1, PTL DEF Spec

-----------------------------------------------------------------------------
\* Every variable of every part has its type, for all values of the constants.
THEOREM TypeCorrect == Spec => []TypeOK
<1> DEFINE PartsInv ==
      /\ PlanInv /\ SensorInv /\ RecoveryInv /\ SwitchInv /\ EpisodeInv
      /\ ContextInv /\ PlayerInv /\ ReplayInv /\ CameraInv /\ BringupInv
<1>1. Init => PartsInv
  BY PlanInitially, SensorInitially, RecoveryInitially, SwitchInitially,
    EpisodeInitially, ContextInitially, PlayerInitially, ReplayInitially,
    CameraInitially, BringupInitially
<1>2. PartsInv /\ [Next]_vars => PartsInv'
  BY PlanSteps, PlanKept, SensorSteps, SensorKept, RecoverySteps, RecoveryKept,
    SwitchSteps, SwitchKept, EpisodeSteps, EpisodeKept, ContextSteps, ContextKept,
    PlayerSteps, PlayerKept, ReplaySteps, ReplayKept, CameraSteps, CameraKept,
    BringupSteps, BringupKept
<1>3. PartsInv => TypeOK
  BY DEF TypeOK, PlanInv, SensorInv, RecoveryInv, SwitchInv, EpisodeInv,
    ContextInv, PlayerInv, ReplayInv, CameraInv, BringupInv
<1>. QED BY <1>1, <1>2, <1>3, PTL DEF Spec
=============================================================================
