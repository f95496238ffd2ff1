-------------------------- MODULE TeleopApp_proofs --------------------------
(***************************************************************************)
(* Proofs about TeleopApp, for any number of leader arms: its type         *)
(* invariant, RelayReachesEntered, FloatOnlyUnderControl, ActiveMeansAll   *)
(* and NothingLeftBehind.                                                  *)
(*                                                                         *)
(* The five are about the points at which main() promises something; the   *)
(* inductive invariant says for every point in between how far the engage  *)
(* or release in progress has got: which prefix of the leaders is on the   *)
(* stack, and which has been asked for its mode.                           *)
(***************************************************************************)
EXTENDS TeleopApp, SequenceTheorems, TLAPS

-----------------------------------------------------------------------------
(* The inductive invariant.                                                 *)

Standby == pc = "prompt" /\ ~isActive
Engagement == pc = "engaging" \/ (pc = "prompt" /\ isActive)

\* Ctrl+C leads to the finally block, at once or when the exits of the sessions
\* it struck in are done.  Nothing else takes the ROS context down.
Interrupted ==
  /\ struck = "never" => contextOk
  /\ pc \in {"prompt", "claiming", "engaging"} => struck = "never" /\ ~ending
  /\ struck # "never" /\ ~ending => pc \in {"rollback", "closing"} /\ struck = pc

\* Sessions are entered in the order of the leaders and left in the opposite one.
StackInOrder ==
  /\ \A j \in DOMAIN stack : stack[j] = Leaders[j]
  /\ pc = "claiming" => Len(stack) = i - 1 /\ i <= Last
  /\ pc \in {"claiming", "engaging"} => isActive
  /\ Engagement => Len(stack) = Last
  /\ Standby => stack = << >>

\* The callbacks get the sessions one by one and lose them all at once.
SessionsKnown ==
  /\ pc = "claiming" => sessions = Entered
  /\ Engagement => sessions = Leader
  /\ Standby \/ pc \in {"rollback", "closing"} => sessions = {}
  /\ pc = "closed" /\ struck # "finally" => sessions = {}

\* No leader floats, as far as the application can know and could do about it.
Calm == contextOk => \A d \in Leader : leader[d] = "float" => d \in unsure

\* The leaders that have been asked so far are in the mode they were asked for.
Asked ==
  /\ \A d \in Leader, mode \in Mode : <<d, mode>> \in late => d \in unsure
  /\ Standby \/ pc \in {"claiming", "rollback", "closing"} => Calm
  /\ pc = "shadowing" /\ contextOk => \A j \in 1..i - 1 :
       leader[Leaders[j]] = "float" => Leaders[j] \in unsure
  /\ pc = "engaging" /\ confirmed => \A j \in 1..i - 1 :
       leader[Leaders[j]] = "float" /\ Leaders[j] \notin unsure
  /\ pc = "prompt" /\ isActive => \A d \in Leader :
       leader[d] = "float" /\ d \notin unsure

\* Where Ctrl+C leaves sessions behind.
Careless == {"claiming", "rollback", "closing", "finally"}

\* Otherwise a lease is on the stack or an exception was raised about it, and
\* the stack is one that will be closed.
Accounted ==
  struck \notin Careless =>
    /\ held \subseteq Entered \cup unreleased
    /\ pc \in {"claiming", "rollback"} \/ adopted \/ stack = << >>
    /\ pc = "closed" => stack = << >>

IInv ==
  /\ TypeOK /\ Interrupted /\ StackInOrder /\ SessionsKnown
  /\ RelayReachesEntered /\ Asked /\ FloatOnlyUnderControl /\ Accounted

-----------------------------------------------------------------------------
(* The leaders and the stack.                                               *)

\* The configured leaders are a sequence without repetitions.
LEMMA LeadersInOrder ==
  /\ Leaders \in Seq(Leader)
  /\ Last \in Nat \ {0}
  /\ DOMAIN Leaders = 1..Last
  /\ \A j \in 1..Last : Leaders[j] \in Leader
BY ConfigAssumption DEF Leader, Last

\* A stack in the order of the leaders that has the length of all is all of them.
LEMMA FullStack ==
  ASSUME stack \in Seq(Leader), Len(stack) = Last,
         \A j \in DOMAIN stack : stack[j] = Leaders[j]
  PROVE  Entered = Leader
<1>1. DOMAIN stack = DOMAIN Leaders
  BY LeadersInOrder, LenProperties
<1>. QED BY <1>1 DEF Entered, Leader

LEMMA EnteredSame == UNCHANGED stack => UNCHANGED Entered
BY DEF Entered

\* enter_context() puts one session on top of the stack.
LEMMA Pushed ==
  ASSUME stack \in Seq(Leader), NEW d \in Leader, stack' = Append(stack, d)
  PROVE  /\ stack' \in Seq(Leader)
         /\ Len(stack) \in Nat
         /\ Len(stack') = Len(stack) + 1
         /\ \A j \in 1..Len(stack) : stack'[j] = stack[j]
         /\ stack'[Len(stack) + 1] = d
         /\ Entered' = Entered \cup {d}
<1>1. /\ stack' \in Seq(Leader)
      /\ Len(stack) \in Nat
      /\ Len(stack') = Len(stack) + 1
      /\ \A j \in 1..Len(stack) : stack'[j] = stack[j]
      /\ stack'[Len(stack) + 1] = d
  BY AppendProperties, LenProperties
<1>2. DOMAIN stack = 1..Len(stack) /\ DOMAIN stack' = 1..Len(stack) + 1
  BY <1>1
<1>. QED BY <1>1, <1>2 DEF Entered

\* ExitStack.close() takes the innermost one off.
LEMMA Popped ==
  ASSUME stack \in Seq(Leader), stack # << >>,
         stack' = SubSeq(stack, 1, Len(stack) - 1)
  PROVE  /\ stack' \in Seq(Leader)
         /\ Len(stack) \in Nat \ {0}
         /\ Len(stack') = Len(stack) - 1
         /\ \A j \in 1..Len(stack) - 1 : stack'[j] = stack[j]
         /\ stack[Len(stack)] \in Leader
         /\ Entered = Entered' \cup {stack[Len(stack)]}
<1>1. Len(stack) \in Nat \ {0} /\ \A j \in 1..Len(stack) : stack[j] \in Leader
  BY LenProperties, SeqEqual, EmptySeq
<1> DEFINE n == Len(stack) - 1
<1>2. \A j \in 1..n : stack[j] \in Leader
  BY <1>1
<1>3. n \in Int /\ 1 \in Int /\ n - 1 + 1 = n /\ \A j \in 1..n : 1 + j - 1 = j
  BY <1>1
<1>4. /\ SubSeq(stack, 1, n) \in Seq(Leader)
      /\ Len(SubSeq(stack, 1, n)) = IF 1 <= n THEN n - 1 + 1 ELSE 0
      /\ \A j \in 1..n - 1 + 1 : SubSeq(stack, 1, n)[j] = stack[1 + j - 1]
  BY <1>2, <1>3, SubSeqProperties
<1>5. /\ stack' \in Seq(Leader)
      /\ Len(stack') = Len(stack) - 1
      /\ \A j \in 1..Len(stack) - 1 : stack'[j] = stack[j]
  BY <1>1, <1>3, <1>4
<1>6. ASSUME NEW d PROVE d \in Entered <=> d \in Entered' \/ d = stack[Len(stack)]
  <2>1. DOMAIN stack = 1..Len(stack) /\ DOMAIN stack' = 1..Len(stack) - 1
    BY <1>1, <1>5
  <2>2. \A j : j \in 1..Len(stack) <=> j \in 1..Len(stack) - 1 \/ j = Len(stack)
    BY <1>1
  <2>. QED BY <1>1, <1>5, <2>1, <2>2 DEF Entered
<1>. QED BY <1>1, <1>5, <1>6


\* The session entered next is that of the leader whose turn it is.
LEMMA Entering ==
  ASSUME IInv, EnterSession
  PROVE  /\ i \in 1..Last /\ Leaders[i] \in Leader
         /\ DOMAIN stack = 1..i - 1 /\ DOMAIN stack' = 1..i
         /\ stack' \in Seq(Leader) /\ Len(stack') = i
         /\ \A j \in 1..i : stack'[j] = Leaders[j]
         /\ Entered' = Entered \cup {Leaders[i]}
<1>1. /\ stack \in Seq(Leader) /\ i \in 1..Last /\ Len(stack) = i - 1
      /\ \A j \in DOMAIN stack : stack[j] = Leaders[j]
  BY LeadersInOrder DEF IInv, TypeOK, StackInOrder, EnterSession
<1>2. Leaders[i] \in Leader
  BY <1>1, LeadersInOrder
<1>3. stack' = Append(stack, Leaders[i])
  BY DEF EnterSession
<1>4. /\ stack' \in Seq(Leader)
      /\ Len(stack') = Len(stack) + 1
      /\ \A j \in 1..Len(stack) : stack'[j] = stack[j]
      /\ stack'[Len(stack) + 1] = Leaders[i]
      /\ Entered' = Entered \cup {Leaders[i]}
  BY <1>1, <1>2, <1>3, Pushed
<1>5. DOMAIN stack = 1..i - 1 /\ Len(stack') = i /\ DOMAIN stack' = 1..i
  BY <1>1, <1>4, LenProperties
<1>6. \A j \in 1..i : stack'[j] = Leaders[j]
  BY <1>1, <1>4, <1>5
<1>. QED BY <1>1, <1>2, <1>4, <1>5, <1>6

\* A loop over the leaders that has come to its end has dealt with all of them.
LEMMA AllDealtWith ==
  ASSUME TypeOK, i > Last, NEW d \in Leader
  PROVE  \E j \in 1..i - 1 : d = Leaders[j]
<1>1. i - 1 = Last
  BY LeadersInOrder DEF TypeOK
<1>. QED BY <1>1, LeadersInOrder DEF Leader

-----------------------------------------------------------------------------
(* Type correctness.                                                        *)

LEMMA TypeKept == IInv /\ [Next]_vars => TypeOK'
<1> SUFFICES ASSUME IInv, [Next]_vars PROVE TypeOK'
  OBVIOUS
<1> USE LeadersInOrder, EnteredSame DEF IInv, TypeOK, appVars, PC, Mode
<1>1. ASSUME NEW d \in Leader, EmPreempts(d) PROVE TypeOK'
  BY <1>1 DEF EmPreempts
<1>2. ASSUME NEW d \in Leader, NEW mode \in Mode, LeaderLate(d, mode) PROVE
  TypeOK'
  BY <1>2 DEF LeaderLate
<1>3. ASSUME PressEnter PROVE TypeOK'
  BY <1>3 DEF PressEnter, ReleaseBegins
<1>4. ASSUME CtrlC PROVE TypeOK'
  <2>1. pc' \in PC /\ i' \in 1..Last + 1
    BY <1>4 DEF CtrlC, StrikesOut, Strikes, Finally, ReleaseBegins
  <2>2. ending' \in BOOLEAN /\ contextOk' \in BOOLEAN
    BY <1>4 DEF CtrlC, StrikesOut, Strikes, Finally
  <2>3. struck' \in PC \cup {"never", "finally"}
    BY <1>4 DEF CtrlC, StrikesOut, Strikes
  <2>4. held' \in SUBSET Leader
    BY <1>4 DEF CtrlC, StackInOrder
  <2>. QED BY <1>4, <2>1, <2>2, <2>3, <2>4 DEF CtrlC
<1>5. ASSUME EnterRaises PROVE TypeOK'
  BY <1>5 DEF EnterRaises, StackInOrder
<1>6. ASSUME Engaged PROVE TypeOK'
  BY <1>6 DEF Engaged
<1>7. ASSUME NotEngaged PROVE TypeOK'
  BY <1>7 DEF NotEngaged, ReleaseBegins
<1>8. ASSUME NobodyAsked PROVE TypeOK'
  BY <1>8 DEF NobodyAsked
<1>9. ASSUME ForgetSessions PROVE TypeOK'
  BY <1>9 DEF ForgetSessions
<1>10. ASSUME RolledBack PROVE TypeOK'
  <2>1. pc' \in PC /\ i' \in 1..Last + 1
    BY <1>10 DEF RolledBack, Finally, ReleaseBegins
  <2>2. ending' \in BOOLEAN /\ isActive' \in BOOLEAN
    BY <1>10 DEF RolledBack, Finally
  <2>. QED BY <1>10, <2>1, <2>2 DEF RolledBack
<1>11. ASSUME Released PROVE TypeOK'
  BY <1>11 DEF Released
<1>12. ASSUME ReleaseInterrupted PROVE TypeOK'
  BY <1>12 DEF ReleaseInterrupted, Finally, ReleaseBegins
<1>13. ASSUME Close PROVE TypeOK'
  BY <1>13 DEF Close
<1>14. ASSUME CtrlCClosing PROVE TypeOK'
  BY <1>14, Popped DEF CtrlCClosing, Strikes, Closing
<1>15. ASSUME CtrlCAsking PROVE TypeOK'
  <2>1. pc' \in PC /\ i' \in 1..Last + 1
    BY <1>15 DEF CtrlCAsking, StrikesOut, Strikes, Finally, ReleaseBegins
  <2>2. ending' \in BOOLEAN /\ contextOk' \in BOOLEAN
    BY <1>15 DEF CtrlCAsking, StrikesOut, Strikes, Finally
  <2>3. struck' \in PC \cup {"never", "finally"}
    BY <1>15 DEF CtrlCAsking, StrikesOut, Strikes
  <2>4. Leaders[i] \in Leader
    BY <1>15 DEF CtrlCAsking, Asking
  <2>5. late' \in SUBSET (Leader \X Mode) /\ unsure' \in SUBSET Leader
    BY <1>15, <2>4 DEF CtrlCAsking, LeaderUnsure
  <2>. QED BY <1>15, <2>1, <2>2, <2>3, <2>5 DEF CtrlCAsking
<1>16. ASSUME EnterSession PROVE TypeOK'
  <2>1. stack' \in Seq(Leader) /\ Len(stack') = i /\ i \in 1..Last /\ Leaders[i] \in Leader
    BY <1>16, Entering
  <2>2. pc' \in PC /\ i' \in 1..Last + 1 /\ Len(stack') <= Last
    BY <1>16, <2>1 DEF EnterSession
  <2>3. adopted' \in BOOLEAN /\ confirmed' \in BOOLEAN
    BY <1>16 DEF EnterSession
  <2>4. sessions' \in SUBSET Leader /\ held' \in SUBSET Leader
    BY <1>16, <2>1 DEF EnterSession
  <2>. QED BY <1>16, <2>1, <2>2, <2>3, <2>4 DEF EnterSession
<1>17. ASSUME LeaderFloats PROVE TypeOK'
  BY <1>17 DEF LeaderFloats, LeaderObeys, Asking
<1>18. ASSUME LeaderDoesNotFloat PROVE TypeOK'
  <2>0. confirmed' \in BOOLEAN
    BY <1>18 DEF LeaderDoesNotFloat
  <2>1. i' \in 1..Last + 1
    BY <1>18 DEF LeaderDoesNotFloat, LeaderUnsure, Asking
  <2>2. Leaders[i] \in Leader
    BY <1>18 DEF LeaderDoesNotFloat, LeaderUnsure, Asking
  <2>3. late' \in SUBSET (Leader \X Mode) /\ unsure' \in SUBSET Leader
    BY <1>18, <2>2 DEF LeaderDoesNotFloat, LeaderUnsure
  <2>. QED BY <1>18, <2>0, <2>1, <2>3 DEF LeaderDoesNotFloat
<1>19. ASSUME LeaderShadows PROVE TypeOK'
  BY <1>19 DEF LeaderShadows, LeaderObeys, Asking
<1>20. ASSUME LeaderDoesNotShadow PROVE TypeOK'
  BY <1>20 DEF LeaderDoesNotShadow, LeaderUnsure, Asking
<1>21. ASSUME CloseSession PROVE TypeOK'
  BY <1>21, Popped DEF CloseSession, Closing
<1>22. CASE UNCHANGED vars
  BY <1>22 DEF vars
<1>. QED BY <1>1, <1>2, <1>3, <1>4, <1>5, <1>6, <1>7, <1>8, <1>9, <1>10,
  <1>11, <1>12, <1>13, <1>14, <1>15, <1>16, <1>17, <1>18, <1>19, <1>20, <1>21,
  <1>22 DEF Next

-----------------------------------------------------------------------------
(* Ctrl+C.                                                                  *)

LEMMA InterruptedKept == IInv /\ [Next]_vars => Interrupted'
<1> SUFFICES ASSUME IInv, [Next]_vars PROVE Interrupted'
  OBVIOUS
<1> USE EnteredSame DEF IInv, TypeOK, appVars, Interrupted, Closing, PC
<1>1. ASSUME NEW d \in Leader, EmPreempts(d) PROVE Interrupted'
  BY <1>1 DEF EmPreempts
<1>2. ASSUME NEW d \in Leader, NEW mode \in Mode, LeaderLate(d, mode) PROVE
  Interrupted'
  BY <1>2 DEF LeaderLate
<1>3. ASSUME PressEnter PROVE Interrupted'
  BY <1>3 DEF PressEnter, ReleaseBegins
<1>4. ASSUME CtrlC PROVE Interrupted'
  BY <1>4 DEF CtrlC, Asking, StrikesOut, Strikes, Finally, ReleaseBegins
<1>5. ASSUME CtrlCClosing PROVE Interrupted'
  BY <1>5 DEF CtrlCClosing, Strikes
<1>6. ASSUME CtrlCAsking PROVE Interrupted'
  BY <1>6 DEF CtrlCAsking, Asking, StrikesOut, LeaderUnsure, Strikes, Finally,
    ReleaseBegins
<1>7. ASSUME EnterSession PROVE Interrupted'
  BY <1>7 DEF EnterSession
<1>8. ASSUME EnterRaises PROVE Interrupted'
  BY <1>8 DEF EnterRaises
<1>9. ASSUME LeaderFloats PROVE Interrupted'
  BY <1>9 DEF LeaderFloats, LeaderObeys, Asking
<1>10. ASSUME LeaderDoesNotFloat PROVE Interrupted'
  BY <1>10 DEF LeaderDoesNotFloat, LeaderUnsure, Asking
<1>11. ASSUME Engaged PROVE Interrupted'
  BY <1>11 DEF Engaged
<1>12. ASSUME NotEngaged PROVE Interrupted'
  BY <1>12 DEF NotEngaged, ReleaseBegins
<1>13. ASSUME LeaderShadows PROVE Interrupted'
  BY <1>13 DEF LeaderShadows, LeaderObeys, Asking
<1>14. ASSUME LeaderDoesNotShadow PROVE Interrupted'
  BY <1>14 DEF LeaderDoesNotShadow, LeaderUnsure, Asking
<1>15. ASSUME NobodyAsked PROVE Interrupted'
  BY <1>15 DEF NobodyAsked
<1>16. ASSUME ForgetSessions PROVE Interrupted'
  BY <1>16 DEF ForgetSessions
<1>17. ASSUME CloseSession PROVE Interrupted'
  BY <1>17 DEF CloseSession
<1>18. ASSUME RolledBack PROVE Interrupted'
  BY <1>18 DEF RolledBack, Finally, ReleaseBegins
<1>19. ASSUME Released PROVE Interrupted'
  BY <1>19 DEF Released
<1>20. ASSUME ReleaseInterrupted PROVE Interrupted'
  BY <1>20 DEF ReleaseInterrupted, Finally, ReleaseBegins
<1>21. ASSUME Close PROVE Interrupted'
  BY <1>21 DEF Close
<1>22. CASE UNCHANGED vars
  BY <1>22 DEF vars
<1>. QED BY <1>1, <1>2, <1>3, <1>4, <1>5, <1>6, <1>7, <1>8, <1>9, <1>10,
  <1>11, <1>12, <1>13, <1>14, <1>15, <1>16, <1>17, <1>18, <1>19, <1>20, <1>21,
  <1>22 DEF Next

-----------------------------------------------------------------------------
(* The stack.                                                               *)

LEMMA StackKept == IInv /\ [Next]_vars => StackInOrder'
<1> SUFFICES ASSUME IInv, [Next]_vars PROVE StackInOrder'
  OBVIOUS
<1> USE LeadersInOrder, EnteredSame DEF IInv, TypeOK, appVars, StackInOrder,
  Standby, Engagement
<1>1. ASSUME NEW d \in Leader, EmPreempts(d) PROVE StackInOrder'
  BY <1>1 DEF EmPreempts
<1>2. ASSUME NEW d \in Leader, NEW mode \in Mode, LeaderLate(d, mode) PROVE
  StackInOrder'
  BY <1>2 DEF LeaderLate
<1>3. ASSUME PressEnter PROVE StackInOrder'
  <2>1. CASE isActive
    BY <1>3, <2>1 DEF PressEnter, ReleaseBegins
  <2>2. CASE ~isActive
    <3>1. pc' = "claiming" /\ i' = 1 /\ stack' = << >>
      BY <1>3, <2>2 DEF PressEnter
    <3>2. isActive'
      BY <1>3, <2>2 DEF PressEnter
    <3>3. DOMAIN stack' = {} /\ Len(stack') = 0
      BY <3>1
    <3>. QED BY <3>1, <3>2, <3>3
  <2>. QED BY <2>1, <2>2
<1>4. ASSUME CtrlC PROVE StackInOrder'
  BY <1>4 DEF CtrlC, Asking, StrikesOut, Strikes, Finally, ReleaseBegins
<1>5. ASSUME CtrlCAsking PROVE StackInOrder'
  BY <1>5 DEF CtrlCAsking, Asking, StrikesOut, LeaderUnsure, Strikes, Finally,
    ReleaseBegins
<1>6. ASSUME EnterRaises PROVE StackInOrder'
  BY <1>6 DEF EnterRaises
<1>7. ASSUME LeaderFloats PROVE StackInOrder'
  BY <1>7 DEF LeaderFloats, LeaderObeys, Asking
<1>8. ASSUME LeaderDoesNotFloat PROVE StackInOrder'
  BY <1>8 DEF LeaderDoesNotFloat, LeaderUnsure, Asking
<1>9. ASSUME Engaged PROVE StackInOrder'
  BY <1>9 DEF Engaged
<1>10. ASSUME NotEngaged PROVE StackInOrder'
  BY <1>10 DEF NotEngaged, ReleaseBegins
<1>11. ASSUME LeaderShadows PROVE StackInOrder'
  BY <1>11 DEF LeaderShadows, LeaderObeys, Asking
<1>12. ASSUME LeaderDoesNotShadow PROVE StackInOrder'
  BY <1>12 DEF LeaderDoesNotShadow, LeaderUnsure, Asking
<1>13. ASSUME NobodyAsked PROVE StackInOrder'
  BY <1>13 DEF NobodyAsked
<1>14. ASSUME ForgetSessions PROVE StackInOrder'
  BY <1>14 DEF ForgetSessions
<1>15. ASSUME RolledBack PROVE StackInOrder'
  BY <1>15 DEF RolledBack, Finally, ReleaseBegins
<1>16. ASSUME ReleaseInterrupted PROVE StackInOrder'
  BY <1>16 DEF ReleaseInterrupted, Finally, ReleaseBegins
<1>17. ASSUME Close PROVE StackInOrder'
  BY <1>17 DEF Close
<1>18. ASSUME CtrlCClosing PROVE StackInOrder'
  BY <1>18, Popped DEF CtrlCClosing, Strikes, Closing
<1>19. ASSUME EnterSession PROVE StackInOrder'
  <2>1. /\ i \in 1..Last /\ DOMAIN stack' = 1..i /\ Len(stack') = i
        /\ \A j \in 1..i : stack'[j] = Leaders[j]
    BY <1>19, Entering
  <2>2. pc' = "claiming" => i' = i + 1 /\ i + 1 <= Last
    BY <1>19, <2>1 DEF EnterSession
  <2>3. pc' = "engaging" => i = Last
    BY <1>19, <2>1 DEF EnterSession
  <2>4. pc' \in {"claiming", "engaging"} /\ isActive /\ isActive' = isActive
    BY <1>19 DEF EnterSession
  <2>. QED BY <2>1, <2>2, <2>3, <2>4
<1>20. ASSUME CloseSession PROVE StackInOrder'
  BY <1>20, Popped DEF CloseSession, Closing
<1>21. ASSUME Released PROVE StackInOrder'
  BY <1>21 DEF Released, Closing, Accounted, Careless
<1>22. CASE UNCHANGED vars
  BY <1>22 DEF vars
<1>. QED BY <1>1, <1>2, <1>3, <1>4, <1>5, <1>6, <1>7, <1>8, <1>9, <1>10,
  <1>11, <1>12, <1>13, <1>14, <1>15, <1>16, <1>17, <1>18, <1>19, <1>20, <1>21,
  <1>22 DEF Next

-----------------------------------------------------------------------------
(* What the callbacks know.                                                 *)

LEMMA SessionsKept == IInv /\ [Next]_vars => SessionsKnown'
<1> SUFFICES ASSUME IInv, [Next]_vars PROVE SessionsKnown'
  OBVIOUS
<1> USE EnteredSame DEF IInv, TypeOK, appVars, SessionsKnown, Standby,
  Engagement
<1>1. ASSUME NEW d \in Leader, EmPreempts(d) PROVE SessionsKnown'
  BY <1>1 DEF EmPreempts
<1>2. ASSUME NEW d \in Leader, NEW mode \in Mode, LeaderLate(d, mode) PROVE
  SessionsKnown'
  BY <1>2 DEF LeaderLate
<1>3. ASSUME PressEnter PROVE SessionsKnown'
  <2>1. CASE isActive
    BY <1>3, <2>1 DEF PressEnter, ReleaseBegins
  <2>2. CASE ~isActive
    <3>1. pc' = "claiming" /\ sessions' = {} /\ stack' = stack /\ stack = << >>
      BY <1>3, <2>2 DEF PressEnter, StackInOrder
    <3>. QED BY <3>1 DEF Entered
  <2>. QED BY <2>1, <2>2
<1>4. ASSUME CtrlC PROVE SessionsKnown'
  BY <1>4 DEF CtrlC, Asking, StrikesOut, Strikes, Finally, ReleaseBegins,
    Interrupted
<1>5. ASSUME CtrlCAsking PROVE SessionsKnown'
  BY <1>5 DEF CtrlCAsking, Asking, StrikesOut, LeaderUnsure, Strikes, Finally,
    ReleaseBegins
<1>6. ASSUME EnterRaises PROVE SessionsKnown'
  BY <1>6 DEF EnterRaises
<1>7. ASSUME LeaderFloats PROVE SessionsKnown'
  BY <1>7 DEF LeaderFloats, LeaderObeys, Asking
<1>8. ASSUME LeaderDoesNotFloat PROVE SessionsKnown'
  BY <1>8 DEF LeaderDoesNotFloat, LeaderUnsure, Asking
<1>9. ASSUME Engaged PROVE SessionsKnown'
  BY <1>9 DEF Engaged, StackInOrder
<1>10. ASSUME NotEngaged PROVE SessionsKnown'
  BY <1>10 DEF NotEngaged, ReleaseBegins
<1>11. ASSUME LeaderShadows PROVE SessionsKnown'
  BY <1>11 DEF LeaderShadows, LeaderObeys, Asking
<1>12. ASSUME LeaderDoesNotShadow PROVE SessionsKnown'
  BY <1>12 DEF LeaderDoesNotShadow, LeaderUnsure, Asking
<1>13. ASSUME NobodyAsked PROVE SessionsKnown'
  BY <1>13 DEF NobodyAsked
<1>14. ASSUME ForgetSessions PROVE SessionsKnown'
  BY <1>14 DEF ForgetSessions
<1>15. ASSUME RolledBack PROVE SessionsKnown'
  BY <1>15 DEF RolledBack, Finally, ReleaseBegins
<1>16. ASSUME Released PROVE SessionsKnown'
  BY <1>16 DEF Released
<1>17. ASSUME ReleaseInterrupted PROVE SessionsKnown'
  BY <1>17 DEF ReleaseInterrupted, Finally, ReleaseBegins
<1>18. ASSUME Close PROVE SessionsKnown'
  BY <1>18 DEF Close
<1>19. ASSUME CtrlCClosing PROVE SessionsKnown'
  BY <1>19 DEF CtrlCClosing, Strikes, Closing
<1>20. ASSUME EnterSession PROVE SessionsKnown'
  <2>1. Entered' = Entered \cup {Leaders[i]} /\ i \in 1..Last
    BY <1>20, Entering
  <2>2. pc' \in {"claiming", "engaging"} /\ sessions' = Entered'
    BY <1>20, <2>1 DEF EnterSession
  <2>3. pc' = "engaging" => Entered' = Leader
    <3>1. pc' = "engaging" => i = Last
      BY <1>20, <2>1, LeadersInOrder DEF EnterSession
    <3>2. /\ stack' \in Seq(Leader) /\ Len(stack') = i /\ DOMAIN stack' = 1..i
          /\ \A j \in 1..i : stack'[j] = Leaders[j]
      BY <1>20, Entering
    <3>. QED BY <3>1, <3>2, LeadersInOrder DEF Entered, Leader
  <2>. QED BY <2>2, <2>3
<1>21. ASSUME CloseSession PROVE SessionsKnown'
  BY <1>21 DEF CloseSession, Closing
<1>22. CASE UNCHANGED vars
  BY <1>22 DEF vars
<1>. QED BY <1>1, <1>2, <1>3, <1>4, <1>5, <1>6, <1>7, <1>8, <1>9, <1>10,
  <1>11, <1>12, <1>13, <1>14, <1>15, <1>16, <1>17, <1>18, <1>19, <1>20, <1>21,
  <1>22 DEF Next

-----------------------------------------------------------------------------
(* The callbacks only know entered sessions.                                *)

LEMMA RelayKept == IInv /\ [Next]_vars => RelayReachesEntered'
<1> SUFFICES ASSUME IInv, [Next]_vars PROVE RelayReachesEntered'
  OBVIOUS
<1> USE EnteredSame DEF IInv, TypeOK, appVars, RelayReachesEntered
<1>1. ASSUME NEW d \in Leader, EmPreempts(d) PROVE RelayReachesEntered'
  BY <1>1 DEF EmPreempts
<1>2. ASSUME NEW d \in Leader, NEW mode \in Mode, LeaderLate(d, mode) PROVE
  RelayReachesEntered'
  BY <1>2 DEF LeaderLate
<1>3. ASSUME PressEnter PROVE RelayReachesEntered'
  BY <1>3 DEF PressEnter, ReleaseBegins
<1>4. ASSUME CtrlC PROVE RelayReachesEntered'
  BY <1>4 DEF CtrlC, Asking, StrikesOut, Strikes, Finally, ReleaseBegins
<1>5. ASSUME CtrlCAsking PROVE RelayReachesEntered'
  BY <1>5 DEF CtrlCAsking, Asking, StrikesOut, LeaderUnsure, Strikes, Finally,
    ReleaseBegins
<1>6. ASSUME EnterRaises PROVE RelayReachesEntered'
  BY <1>6 DEF EnterRaises
<1>7. ASSUME LeaderFloats PROVE RelayReachesEntered'
  BY <1>7 DEF LeaderFloats, LeaderObeys, Asking
<1>8. ASSUME LeaderDoesNotFloat PROVE RelayReachesEntered'
  BY <1>8 DEF LeaderDoesNotFloat, LeaderUnsure, Asking
<1>9. ASSUME Engaged PROVE RelayReachesEntered'
  BY <1>9 DEF Engaged
<1>10. ASSUME NotEngaged PROVE RelayReachesEntered'
  BY <1>10 DEF NotEngaged, ReleaseBegins
<1>11. ASSUME LeaderShadows PROVE RelayReachesEntered'
  BY <1>11 DEF LeaderShadows, LeaderObeys, Asking
<1>12. ASSUME LeaderDoesNotShadow PROVE RelayReachesEntered'
  BY <1>12 DEF LeaderDoesNotShadow, LeaderUnsure, Asking
<1>13. ASSUME NobodyAsked PROVE RelayReachesEntered'
  BY <1>13 DEF NobodyAsked
<1>14. ASSUME ForgetSessions PROVE RelayReachesEntered'
  BY <1>14 DEF ForgetSessions
<1>15. ASSUME RolledBack PROVE RelayReachesEntered'
  BY <1>15 DEF RolledBack, Finally, ReleaseBegins
<1>16. ASSUME Released PROVE RelayReachesEntered'
  BY <1>16 DEF Released
<1>17. ASSUME ReleaseInterrupted PROVE RelayReachesEntered'
  BY <1>17 DEF ReleaseInterrupted, Finally, ReleaseBegins
<1>18. ASSUME Close PROVE RelayReachesEntered'
  BY <1>18 DEF Close
<1>19. ASSUME CtrlCClosing PROVE RelayReachesEntered'
  BY <1>19 DEF CtrlCClosing, Strikes, SessionsKnown, Closing
<1>20. ASSUME EnterSession PROVE RelayReachesEntered'
  BY <1>20, Entering DEF EnterSession
<1>21. ASSUME CloseSession PROVE RelayReachesEntered'
  BY <1>21 DEF CloseSession, SessionsKnown, Closing
<1>22. CASE UNCHANGED vars
  BY <1>22 DEF vars
<1>. QED BY <1>1, <1>2, <1>3, <1>4, <1>5, <1>6, <1>7, <1>8, <1>9, <1>10,
  <1>11, <1>12, <1>13, <1>14, <1>15, <1>16, <1>17, <1>18, <1>19, <1>20, <1>21,
  <1>22 DEF Next

-----------------------------------------------------------------------------
(* The modes of the leaders.                                                *)

\* The ROS context was up before Ctrl+C.
LEMMA UpBefore == IInv /\ Strikes => contextOk
BY DEF IInv, Interrupted, Strikes

LEMMA AskedKept == IInv /\ [Next]_vars => Asked'
<1> SUFFICES ASSUME IInv, [Next]_vars PROVE Asked'
  OBVIOUS
<1> USE LeadersInOrder, EnteredSame DEF IInv, TypeOK, appVars, Asked, Calm,
  Standby, Mode
<1>1. ASSUME NEW d \in Leader, EmPreempts(d) PROVE Asked'
  BY <1>1 DEF EmPreempts
<1>2. ASSUME PressEnter PROVE Asked'
  BY <1>2 DEF PressEnter, ReleaseBegins
<1>3. ASSUME CtrlC PROVE Asked'
  BY <1>3, UpBefore DEF CtrlC, Asking, StrikesOut, Strikes, Finally, ReleaseBegins
<1>4. ASSUME CtrlCClosing PROVE Asked'
  <2>1. /\ pc' = pc /\ UNCHANGED <<i, isActive, confirmed, leader, late, unsure>>
        /\ pc \in {"rollback", "closing"} /\ contextOk
    BY <1>4, UpBefore DEF CtrlCClosing, Closing
  <2>. QED BY <2>1
<1>5. ASSUME EnterSession PROVE Asked'
  BY <1>5 DEF EnterSession
<1>6. ASSUME EnterRaises PROVE Asked'
  BY <1>6 DEF EnterRaises
<1>7. ASSUME NotEngaged PROVE Asked'
  BY <1>7 DEF NotEngaged, ReleaseBegins
<1>8. ASSUME CloseSession PROVE Asked'
  BY <1>8 DEF CloseSession
<1>9. ASSUME RolledBack PROVE Asked'
  BY <1>9 DEF RolledBack, Finally, ReleaseBegins
<1>10. ASSUME Released PROVE Asked'
  BY <1>10 DEF Released
<1>11. ASSUME ReleaseInterrupted PROVE Asked'
  BY <1>11 DEF ReleaseInterrupted, Finally, ReleaseBegins
<1>12. ASSUME Close PROVE Asked'
  BY <1>12 DEF Close
<1>13. ASSUME NEW d \in Leader, NEW mode \in Mode, LeaderLate(d, mode) PROVE
  Asked'
  <2>1. d \in unsure /\ \A k \in Leader \ {d} : leader'[k] = leader[k]
    BY <1>13 DEF LeaderLate
  <2>2. /\ late' \subseteq late
        /\ UNCHANGED <<pc, i, isActive, confirmed, contextOk, unsure>>
    BY <1>13 DEF LeaderLate
  <2>3. \A j \in 1..i - 1 : Leaders[j] \in Leader
    OBVIOUS
  <2>. QED BY <2>1, <2>2, <2>3
<1>14. ASSUME CtrlCAsking PROVE Asked'
  BY <1>14, UpBefore DEF CtrlCAsking, Asking, StrikesOut, LeaderUnsure, Strikes,
    Finally, ReleaseBegins
<1>15. ASSUME LeaderFloats PROVE Asked'
  BY <1>15 DEF LeaderFloats, LeaderObeys, Asking
<1>16. ASSUME LeaderDoesNotFloat PROVE Asked'
  BY <1>16 DEF LeaderDoesNotFloat, LeaderUnsure, Asking
<1>17. ASSUME Engaged PROVE Asked'
  <2>1. /\ pc = "engaging" /\ confirmed /\ i > Last /\ pc' = "prompt"
        /\ UNCHANGED <<i, isActive, confirmed, leader, late, unsure>>
    BY <1>17 DEF Engaged
  <2>2. \A d \in Leader : leader[d] = "float" /\ d \notin unsure
    BY <2>1, AllDealtWith
  <2>. QED BY <2>1, <2>2 DEF StackInOrder
<1>18. ASSUME LeaderShadows PROVE Asked'
  BY <1>18 DEF LeaderShadows, LeaderObeys, Asking
<1>19. ASSUME LeaderDoesNotShadow PROVE Asked'
  BY <1>19 DEF LeaderDoesNotShadow, LeaderUnsure, Asking
<1>20. ASSUME NobodyAsked PROVE Asked'
  BY <1>20 DEF NobodyAsked
<1>21. ASSUME ForgetSessions PROVE Asked'
  <2>1. /\ pc = "shadowing" /\ i > Last /\ pc' = "closing"
        /\ UNCHANGED <<i, isActive, confirmed, contextOk, leader, late, unsure>>
    BY <1>21 DEF ForgetSessions
  <2>2. Calm
    BY <2>1, AllDealtWith
  <2>. QED BY <2>1, <2>2
<1>22. CASE UNCHANGED vars
  BY <1>22 DEF vars
<1>. QED BY <1>1, <1>2, <1>3, <1>4, <1>5, <1>6, <1>7, <1>8, <1>9, <1>10,
  <1>11, <1>12, <1>13, <1>14, <1>15, <1>16, <1>17, <1>18, <1>19, <1>20, <1>21,
  <1>22 DEF Next

-----------------------------------------------------------------------------
(* No leader floats without its session.                                    *)

LEMMA FloatKept == IInv /\ [Next]_vars => FloatOnlyUnderControl'
<1> SUFFICES ASSUME IInv, [Next]_vars PROVE FloatOnlyUnderControl'
  OBVIOUS
<1> USE LeadersInOrder, EnteredSame DEF IInv, TypeOK, appVars,
  FloatOnlyUnderControl
<1>1. ASSUME NEW d \in Leader, EmPreempts(d) PROVE FloatOnlyUnderControl'
  BY <1>1 DEF EmPreempts
<1>2. ASSUME PressEnter PROVE FloatOnlyUnderControl'
  BY <1>2 DEF PressEnter, ReleaseBegins
<1>3. ASSUME CtrlC PROVE FloatOnlyUnderControl'
  BY <1>3, UpBefore DEF CtrlC, Asking, StrikesOut, Strikes, Finally, ReleaseBegins
<1>4. ASSUME EnterRaises PROVE FloatOnlyUnderControl'
  BY <1>4 DEF EnterRaises
<1>5. ASSUME LeaderDoesNotFloat PROVE FloatOnlyUnderControl'
  BY <1>5 DEF LeaderDoesNotFloat, LeaderUnsure, Asking
<1>6. ASSUME Engaged PROVE FloatOnlyUnderControl'
  BY <1>6 DEF Engaged
<1>7. ASSUME NotEngaged PROVE FloatOnlyUnderControl'
  BY <1>7 DEF NotEngaged, ReleaseBegins
<1>8. ASSUME LeaderDoesNotShadow PROVE FloatOnlyUnderControl'
  BY <1>8 DEF LeaderDoesNotShadow, LeaderUnsure, Asking
<1>9. ASSUME NobodyAsked PROVE FloatOnlyUnderControl'
  BY <1>9 DEF NobodyAsked
<1>10. ASSUME ForgetSessions PROVE FloatOnlyUnderControl'
  BY <1>10 DEF ForgetSessions
<1>11. ASSUME RolledBack PROVE FloatOnlyUnderControl'
  BY <1>11 DEF RolledBack, Finally, ReleaseBegins
<1>12. ASSUME Released PROVE FloatOnlyUnderControl'
  BY <1>12 DEF Released
<1>13. ASSUME ReleaseInterrupted PROVE FloatOnlyUnderControl'
  BY <1>13 DEF ReleaseInterrupted, Finally, ReleaseBegins
<1>14. ASSUME Close PROVE FloatOnlyUnderControl'
  BY <1>14 DEF Close
<1>15. ASSUME NEW d \in Leader, NEW mode \in Mode, LeaderLate(d, mode) PROVE
  FloatOnlyUnderControl'
  BY <1>15 DEF LeaderLate, Asked
<1>16. ASSUME CtrlCClosing PROVE FloatOnlyUnderControl'
  BY <1>16, Popped, UpBefore DEF CtrlCClosing, Strikes, Closing, Asked, Calm
<1>17. ASSUME CtrlCAsking PROVE FloatOnlyUnderControl'
  BY <1>17 DEF CtrlCAsking, Asking, StrikesOut, LeaderUnsure, Strikes,
    Finally, ReleaseBegins
<1>18. ASSUME EnterSession PROVE FloatOnlyUnderControl'
  BY <1>18, Entering DEF EnterSession
<1>19. ASSUME LeaderFloats PROVE FloatOnlyUnderControl'
  BY <1>19, FullStack DEF LeaderFloats, LeaderObeys, Asking, StackInOrder,
    Engagement
<1>20. ASSUME LeaderShadows PROVE FloatOnlyUnderControl'
  BY <1>20 DEF LeaderShadows, LeaderObeys, Asking
<1>21. ASSUME CloseSession PROVE FloatOnlyUnderControl'
  BY <1>21, Popped DEF CloseSession, Closing, Asked, Calm
<1>22. CASE UNCHANGED vars
  BY <1>22 DEF vars
<1>. QED BY <1>1, <1>2, <1>3, <1>4, <1>5, <1>6, <1>7, <1>8, <1>9, <1>10,
  <1>11, <1>12, <1>13, <1>14, <1>15, <1>16, <1>17, <1>18, <1>19, <1>20, <1>21,
  <1>22 DEF Next

-----------------------------------------------------------------------------
(* The leases.                                                              *)

LEMMA AccountedKept == IInv /\ [Next]_vars => Accounted'
<1> SUFFICES ASSUME IInv, [Next]_vars PROVE Accounted'
  OBVIOUS
<1> USE LeadersInOrder, EnteredSame DEF IInv, TypeOK, appVars, Accounted,
  Careless
<1>1. ASSUME NEW d \in Leader, EmPreempts(d) PROVE Accounted'
  BY <1>1 DEF EmPreempts
<1>2. ASSUME NEW d \in Leader, NEW mode \in Mode, LeaderLate(d, mode) PROVE
  Accounted'
  BY <1>2 DEF LeaderLate
<1>3. ASSUME PressEnter PROVE Accounted'
  BY <1>3 DEF PressEnter, ReleaseBegins
<1>4. ASSUME CtrlCAsking PROVE Accounted'
  BY <1>4 DEF CtrlCAsking, Asking, StrikesOut, LeaderUnsure, Strikes, Finally,
    ReleaseBegins
<1>5. ASSUME LeaderFloats PROVE Accounted'
  BY <1>5 DEF LeaderFloats, LeaderObeys, Asking
<1>6. ASSUME LeaderDoesNotFloat PROVE Accounted'
  BY <1>6 DEF LeaderDoesNotFloat, LeaderUnsure, Asking
<1>7. ASSUME Engaged PROVE Accounted'
  BY <1>7 DEF Engaged
<1>8. ASSUME NotEngaged PROVE Accounted'
  BY <1>8 DEF NotEngaged, ReleaseBegins
<1>9. ASSUME LeaderShadows PROVE Accounted'
  BY <1>9 DEF LeaderShadows, LeaderObeys, Asking
<1>10. ASSUME LeaderDoesNotShadow PROVE Accounted'
  BY <1>10 DEF LeaderDoesNotShadow, LeaderUnsure, Asking
<1>11. ASSUME NobodyAsked PROVE Accounted'
  BY <1>11 DEF NobodyAsked
<1>12. ASSUME ForgetSessions PROVE Accounted'
  BY <1>12 DEF ForgetSessions
<1>13. ASSUME RolledBack PROVE Accounted'
  BY <1>13 DEF RolledBack, Finally, ReleaseBegins
<1>14. ASSUME ReleaseInterrupted PROVE Accounted'
  BY <1>14 DEF ReleaseInterrupted, Finally, ReleaseBegins
<1>15. ASSUME CtrlC PROVE Accounted'
  BY <1>15 DEF CtrlC, Asking, StrikesOut, Strikes, Finally, ReleaseBegins,
    Interrupted, Closing
<1>16. ASSUME CtrlCClosing PROVE Accounted'
  BY <1>16 DEF CtrlCClosing, Strikes, Closing
<1>17. ASSUME EnterSession PROVE Accounted'
  BY <1>17, Entering DEF EnterSession
<1>18. ASSUME EnterRaises PROVE Accounted'
  BY <1>18 DEF EnterRaises
<1>19. ASSUME CloseSession PROVE Accounted'
  BY <1>19, Popped DEF CloseSession, Closing
<1>20. ASSUME Released PROVE Accounted'
  BY <1>20 DEF Released, Closing
<1>21. ASSUME Close PROVE Accounted'
  BY <1>21 DEF Close, Closing
<1>22. CASE UNCHANGED vars
  BY <1>22 DEF vars
<1>. QED BY <1>1, <1>2, <1>3, <1>4, <1>5, <1>6, <1>7, <1>8, <1>9, <1>10,
  <1>11, <1>12, <1>13, <1>14, <1>15, <1>16, <1>17, <1>18, <1>19, <1>20, <1>21,
  <1>22 DEF Next

-----------------------------------------------------------------------------
(* The theorems.                                                            *)

LEMMA Initially == Init => IInv
<1> SUFFICES ASSUME Init PROVE IInv
  OBVIOUS
<1>1. TypeOK
  <2>1. i \in 1..Last + 1 /\ stack \in Seq(Leader) /\ Len(stack) <= Last
    BY LeadersInOrder, EmptySeq DEF Init
  <2>2. leader \in [Leader -> Mode] /\ pc \in PC /\ struck \in PC \cup {"never", "finally"}
    BY DEF Init, Mode, PC
  <2>3. /\ isActive \in BOOLEAN /\ adopted \in BOOLEAN /\ confirmed \in BOOLEAN
        /\ ending \in BOOLEAN /\ contextOk \in BOOLEAN
    BY DEF Init
  <2>. QED BY <2>1, <2>2, <2>3 DEF Init, TypeOK
<1>2. Interrupted /\ Accounted
  BY DEF Init, Interrupted, Accounted
<1>3. StackInOrder /\ SessionsKnown /\ RelayReachesEntered
  BY DEF Init, StackInOrder, SessionsKnown, RelayReachesEntered, Standby,
    Engagement
<1>4. Asked /\ FloatOnlyUnderControl
  BY DEF Init, Asked, Calm, Standby, FloatOnlyUnderControl
<1>. QED BY <1>1, <1>2, <1>3, <1>4 DEF IInv

\* The inductive invariant holds in every reachable state.
THEOREM Invariance == Spec => []IInv
<1>1. IInv /\ [Next]_vars => IInv'
  BY TypeKept, InterruptedKept, StackKept, SessionsKept, RelayKept, AskedKept,
    FloatKept, AccountedKept DEF IInv
<1>. QED BY Initially, <1>1, PTL DEF Spec

\* Every variable of the teleoperation application keeps its type.
THEOREM TypeCorrect == Spec => []TypeOK
<1>1. IInv => TypeOK
  BY DEF IInv
<1>. QED BY Invariance, <1>1, PTL

\* teleop.py: the relay callbacks only reach sessions that are entered.
THEOREM RelayReachesEnteredHolds == Spec => []RelayReachesEntered
<1>1. IInv => RelayReachesEntered
  BY DEF IInv
<1>. QED BY Invariance, <1>1, PTL

\* teleop.py: while the ROS context is up a leader floats only under its session,
\* unless a request to it went wrong.
THEOREM FloatOnlyUnderControlHolds == Spec => []FloatOnlyUnderControl
<1>1. IInv => FloatOnlyUnderControl
  BY DEF IInv
<1>. QED BY Invariance, <1>1, PTL

\* teleop.py, the engage loop: the active prompt means that all of it succeeded.
THEOREM ActiveMeansAllHolds == Spec => []ActiveMeansAll
<1>1. IInv => ActiveMeansAll
  BY FullStack DEF IInv, TypeOK, StackInOrder, SessionsKnown, Asked, Engagement,
    ActiveMeansAll
<1>. QED BY Invariance, <1>1, PTL

\* teleop.py, standby and the end: no session, no lease and no relay is left but
\* what an exception was raised about.
THEOREM NothingLeftBehindHolds == Spec => []NothingLeftBehind
<1>1. ASSUME IInv, Quiet PROVE stack = << >> /\ struck \notin Careless
  BY <1>1 DEF IInv, Quiet, Standby, Careless, Interrupted, StackInOrder,
    Accounted
<1>2. ASSUME stack = << >> PROVE Entered = {}
  BY <1>2 DEF Entered
<1>3. IInv => NothingLeftBehind
  BY <1>1, <1>2 DEF IInv, NothingLeftBehind, Quiet, Standby, Careless,
    SessionsKnown, Accounted
<1>. QED BY Invariance, <1>3, PTL
=============================================================================
