-------------------------- MODULE RmiSession_proofs --------------------------
(***************************************************************************)
(* Proofs about RmiSession: its safety properties hold for every set of    *)
(* applications, sessions, resources and leases.                           *)
(***************************************************************************)
EXTENDS RmiSession, SequenceTheorems, TLAPS

USE ConstantAssumption

-----------------------------------------------------------------------------
(* Type correctness.                                                       *)

LEMMA InitTyped == Init => TypeOK
BY DEF Init, TypeOK, Table, Cell, AuthState, Free, LeaseOrNone, PC

LEMMA GrantTyped ==
  ASSUME TypeOK, NEW s \in Session, EmGrant(s)
  PROVE  /\ em' \in Table
         /\ granted' \in 0..MaxLease
         /\ granted + 1 \in Lease
         /\ span' \in [Lease -> SUBSET Resource]
         /\ preempted' \in SUBSET Lease
<1>1. granted + 1 \in Lease /\ granted' \in 0..MaxLease
  BY DEF EmGrant, TypeOK, Lease
<1>2. em' \in Table
  BY <1>1 DEF EmGrant, TypeOK, Table, Cell, AuthState, Free, LeaseOrNone
<1>3. span' \in [Lease -> SUBSET Resource]
  BY <1>1 DEF EmGrant, TypeOK
<1>4. \A r \in Resource : em[r].lease \in LeaseOrNone
  BY DEF TypeOK, Table, Cell
<1>5. \A r \in Parts[s] : r \in Resource
  OBVIOUS
<1>6. {em[r].lease : r \in Parts[s]} \ {NoLease} \subseteq Lease
  BY <1>4, <1>5 DEF LeaseOrNone
<1>7. preempted' \in SUBSET Lease
  BY <1>6 DEF EmGrant, TypeOK
<1>. QED BY <1>1, <1>2, <1>3, <1>7

LEMMA FreedTyped ==
  ASSUME TypeOK, NEW l PROVE Freed(l) \in Table
BY DEF TypeOK, Freed, Table, Cell, AuthState, Free, LeaseOrNone

LEMMA EmTyped == TypeOK /\ EmNext => TypeOK'
<1> SUFFICES ASSUME TypeOK, EmNext PROVE TypeOK'
  OBVIOUS
<1> USE DEF sessionVars, statusVars, emVars
<1>1. ASSUME NEW s \in Session, EmClaimGranted(s) PROVE TypeOK'
  BY <1>1, GrantTyped DEF EmClaimGranted, TypeOK, LeaseOrNone
<1>2. ASSUME NEW s \in Session, EmClaimRefused(s) PROVE TypeOK'
  BY <1>2 DEF EmClaimRefused, TypeOK
<1>3. ASSUME NEW s \in Session, EmLateClaim(s) PROVE TypeOK'
  <2>1. lost' \in SUBSET LeaseOrNone
    BY <1>3, GrantTyped DEF EmLateClaim, TypeOK, LeaseOrNone
  <2>. QED BY <1>3, <2>1, GrantTyped DEF EmLateClaim, TypeOK
<1>4. ASSUME NEW s \in Session, EmRelease(s) PROVE TypeOK'
  BY <1>4, FreedTyped DEF EmRelease, TypeOK
<1>5. ASSUME NEW l \in Lease, EmFault(l) PROVE TypeOK'
  BY <1>5, FreedTyped DEF EmFault, TypeOK
<1>6. ASSUME NEW r \in Resource, EmOwn(r) PROVE TypeOK'
  BY <1>6 DEF EmOwn, TypeOK, Table, Cell, AuthState
<1>7. ASSUME EmPublish PROVE TypeOK'
  BY <1>7 DEF EmPublish, TypeOK
<1>. QED BY <1>1, <1>2, <1>3, <1>4, <1>5, <1>6, <1>7 DEF EmNext

LEMMA StatusTyped == TypeOK /\ StatusNext => TypeOK'
<1> SUFFICES ASSUME TypeOK, StatusNext PROVE TypeOK'
  OBVIOUS
<1> USE DEF sessionVars, emVars
<1>1. ASSUME NEW a \in App, OnStatus(a) PROVE TypeOK'
  BY <1>1 DEF OnStatus, TypeOK
<1>2. ASSUME NEW a \in App, StatusExpires(a) PROVE TypeOK'
  BY <1>2 DEF StatusExpires, TypeOK
<1>3. ASSUME NEW l \in Lease, OnEvent(l) PROVE TypeOK'
  BY <1>3 DEF OnEvent, TypeOK
<1>. QED BY <1>1, <1>2, <1>3 DEF StatusNext

\* What _control_stack.pop() leaves of a nonempty stack.
LEMMA PopFacts ==
  ASSUME NEW q \in Seq(Session), q # <<>>
  PROVE  /\ Len(q) \in Nat \ {0}
         /\ SubSeq(q, 1, Len(q) - 1) \in Seq(Session)
         /\ Len(SubSeq(q, 1, Len(q) - 1)) = Len(q) - 1
         /\ \A i \in 1..(Len(q) - 1) : SubSeq(q, 1, Len(q) - 1)[i] = q[i]
<1>1. Len(q) \in Nat \ {0} /\ q \in [1..Len(q) -> Session]
  BY LenProperties, EmptySeq
<1>2. \A i \in 1..(Len(q) - 1) : q[i] \in Session
  BY <1>1
<1>3. /\ SubSeq(q, 1, Len(q) - 1) \in Seq(Session)
      /\ Len(SubSeq(q, 1, Len(q) - 1)) = IF 1 <= Len(q) - 1 THEN Len(q) - 1 - 1 + 1 ELSE 0
      /\ \A i \in 1..(Len(q) - 1 - 1 + 1) : SubSeq(q, 1, Len(q) - 1)[i] = q[1 + i - 1]
  BY <1>1, <1>2, SubSeqProperties
<1>. QED BY <1>1, <1>3

LEMMA LeaveTyped ==
  ASSUME TypeOK, NEW s \in Session, NEW raised, Leave(s, raised)
  PROVE  /\ pc' \in [Session -> PC]
         /\ resp' \in [Session -> {"none", "granted", "refused", "released"}]
         /\ offer' \in [Session -> LeaseOrNone]
         /\ leaseId' \in [Session -> LeaseOrNone]
         /\ entered' \in SUBSET Session
         /\ bound' \in [Session -> LeaseOrNone]
         /\ stack' \in [App -> Seq(Session)]
         /\ failed' \in SUBSET Session
<1>1. CASE Innermost(s)
  <2>1. AppOf[s] \in App
    OBVIOUS
  <2>2. SubSeq(stack[AppOf[s]], 1, Len(stack[AppOf[s]]) - 1) \in Seq(Session)
    BY <1>1, <2>1, PopFacts DEF Innermost, TypeOK
  <2>3. stack' \in [App -> Seq(Session)]
    BY <1>1, <2>1, <2>2 DEF Leave, TypeOK
  <2>. QED BY <1>1, <2>3 DEF Leave, TypeOK, PC, LeaseOrNone
<1>2. CASE ~Innermost(s)
  BY <1>2 DEF Leave, TypeOK, PC, LeaseOrNone
<1>. QED BY <1>1, <1>2

LEMMA SessionTyped == TypeOK /\ SessionNext => TypeOK'
<1> SUFFICES ASSUME TypeOK, NEW s \in Session,
                    \/ CallClaim(s) \/ ClaimReturns(s) \/ ClaimRefused(s)
                    \/ ClaimIncomplete(s) \/ ClaimTimesOut(s) \/ Confirm(s)
                    \/ AcquireTimesOut(s) \/ Interrupt(s) \/ ExitDisplaced(s)
                    \/ ExitReleases(s) \/ ReleaseReturns(s) \/ ReleaseFails(s)
             PROVE  TypeOK'
  BY DEF SessionNext
<1> USE DEF sessionVars, statusVars, emVars
<1>1. CASE CallClaim(s)
  BY <1>1 DEF CallClaim, TypeOK, PC
<1>2. CASE ClaimReturns(s)
  BY <1>2 DEF ClaimReturns, TypeOK, PC, LeaseOrNone
<1>3. CASE ClaimRefused(s)
  BY <1>3 DEF ClaimRefused, ClaimRaises, TypeOK, PC, LeaseOrNone
<1>4. CASE ClaimIncomplete(s)
  <2>1. lost \cup {offer[s]} \in SUBSET LeaseOrNone
    BY DEF TypeOK
  <2>. QED BY <1>4, <2>1 DEF ClaimIncomplete, ClaimRaises, TypeOK, PC, LeaseOrNone
<1>5. CASE ClaimTimesOut(s)
  <2>1. lost \cup {offer[s]} \in SUBSET LeaseOrNone
    BY DEF TypeOK
  <2>2. lateClaim \cup {s} \in SUBSET Session
    BY DEF TypeOK
  <2>3. lost' \in SUBSET LeaseOrNone /\ lateClaim' \in SUBSET Session
    BY <1>5, <2>1, <2>2 DEF ClaimTimesOut, TypeOK
  <2>. QED BY <1>5, <2>3 DEF ClaimTimesOut, ClaimRaises, TypeOK, PC, LeaseOrNone
<1>6. CASE Confirm(s)
  BY <1>6 DEF Confirm, TypeOK, PC
<1>7. CASE AcquireTimesOut(s)
  BY <1>7 DEF AcquireTimesOut, TypeOK, PC
<1>8. CASE Interrupt(s)
  BY <1>8 DEF Interrupt, TypeOK, PC
<1>9. CASE ExitDisplaced(s)
  BY <1>9, LeaveTyped DEF ExitDisplaced, TypeOK
<1>10. CASE ExitReleases(s)
  BY <1>10 DEF ExitReleases, TypeOK, PC
<1>11. CASE ReleaseReturns(s)
  BY <1>11, LeaveTyped DEF ReleaseReturns, TypeOK
<1>12. CASE ReleaseFails(s)
  BY <1>12, LeaveTyped DEF ReleaseFails, TypeOK
<1>. QED BY <1>1, <1>2, <1>3, <1>4, <1>5, <1>6, <1>7, <1>8, <1>9, <1>10,
            <1>11, <1>12

LEMMA NextTyped == TypeOK /\ [Next]_vars => TypeOK'
<1>1. TypeOK /\ UNCHANGED vars => TypeOK'
  BY DEF TypeOK, vars, emVars, statusVars, sessionVars
<1>. QED BY <1>1, EmTyped, StatusTyped, SessionTyped DEF Next

\* Every variable keeps its type, for every choice of the constants.
THEOREM TypeCorrect == Spec => []TypeOK
BY InitTyped, NextTyped, PTL DEF Spec
-----------------------------------------------------------------------------
(* What the steps do to the authority table, stated once for all the parts  *)
(* of the invariant.                                                        *)

\* The actions that leave the EM's table alone.
EmKept == \/ \E s \in Session : EmClaimRefused(s)
          \/ EmPublish
          \/ StatusNext
          \/ SessionNext
          \/ UNCHANGED vars

LEMMA EmKeptUnchanged == EmKept => UNCHANGED emVars
BY DEF EmKept, EmClaimRefused, EmPublish, StatusNext, OnStatus, StatusExpires,
       OnEvent, SessionNext, CallClaim, ClaimReturns, ClaimRefused,
       ClaimIncomplete, ClaimTimesOut, ClaimRaises, Confirm, AcquireTimesOut,
       Interrupt, ExitDisplaced, ExitReleases, ReleaseReturns, ReleaseFails,
       emVars, vars

\* The actions that can only end leases.
EmShrinks == \/ \E s \in Session : EmRelease(s)
             \/ \E l \in Lease : EmFault(l)
             \/ \E r \in Resource : EmOwn(r)

EmGrows == \E s \in Session : EmClaimGranted(s) \/ EmLateClaim(s)

LEMMA NextSplit == [Next]_vars <=> EmKept \/ EmShrinks \/ EmGrows
BY DEF Next, EmNext, EmKept, EmShrinks, EmGrows

\* Every cell keeps its lease or is cleared, and a lease is cleared from all of
\* its cells at once; everything but the table and one answer stays.
LEMMA ShrinkFacts ==
  ASSUME TypeOK, EmShrinks
  PROVE  /\ \A l \in Lease : Shows(em', l) =>
                \A r \in Resource : em[r].lease = l <=> em'[r].lease = l
         /\ \A l \in Lease : Shows(em', l) => Shows(em, l)
         /\ \A r \in Resource : em'[r].lease \in {em[r].lease, NoLease}
         /\ UNCHANGED <<granted, span, preempted, statusVars, lateClaim, lost,
                        pc, offer, leaseId, entered, bound, stack, failed>>
<1>1. ASSUME NEW k, em' = Freed(k)
      PROVE  /\ \A r \in Resource : em'[r].lease \in {em[r].lease, NoLease}
             /\ \A r \in Resource : em[r].lease = k => em'[r].lease = NoLease
             /\ \A r \in Resource : em[r].lease # k => em'[r].lease = em[r].lease
  BY <1>1 DEF Freed, Free
<1>2. ASSUME NEW k, em' = Freed(k)
      PROVE  \A l \in Lease : Shows(em', l) =>
               \A r \in Resource : em[r].lease = l <=> em'[r].lease = l
  BY <1>1, <1>2 DEF Shows, Lease, NoLease
<1>3. ASSUME NEW r \in Resource, EmOwn(r)
      PROVE  \A q \in Resource : em'[q].lease = em[q].lease
  BY <1>3 DEF EmOwn, TypeOK, Table
<1>4. /\ \A l \in Lease : Shows(em', l) =>
            \A r \in Resource : em[r].lease = l <=> em'[r].lease = l
      /\ \A r \in Resource : em'[r].lease \in {em[r].lease, NoLease}
  BY <1>1, <1>2, <1>3 DEF EmShrinks, EmRelease, EmFault
<1>5. \A l \in Lease : Shows(em', l) => Shows(em, l)
  BY <1>4 DEF Shows
<1>6. UNCHANGED <<granted, span, preempted, statusVars, lateClaim, lost,
                  pc, offer, leaseId, entered, bound, stack, failed>>
  BY DEF EmShrinks, EmRelease, EmFault, EmOwn, sessionVars, statusVars
<1>. QED BY <1>4, <1>5, <1>6

\* A grant shows its new lease on all of its span, and the leases it leaves
\* current keep all their cells.
LEMMA GrantFacts ==
  ASSUME TypeOK, NEW s \in Session, EmGrant(s)
  PROVE  /\ granted' = granted + 1 /\ granted' \in Lease
         /\ span'[granted'] = Parts[s]
         /\ \A l \in Lease : l # granted' => span'[l] = span[l]
         /\ \A r \in Resource : em'[r].lease = granted' \/ em'[r].lease = NoLease
                                \/ em'[r].lease = em[r].lease
         /\ \A r \in Parts[s] : em'[r].lease = granted'
         /\ \A l \in Lease : l # granted' /\ Shows(em', l) =>
                \A r \in Resource : em[r].lease = l <=> em'[r].lease = l
         /\ \A l \in Lease : l # granted' /\ Shows(em', l) => Shows(em, l)
         /\ \A l \in preempted' \ preempted :
                /\ \E r \in Resource : em[r].lease = l
                /\ l # granted' => ~Shows(em', l)
<1> DEFINE victims == {em[r].lease : r \in Parts[s]} \ {NoLease}
<1>1. granted' = granted + 1 /\ granted' \in Lease
  BY GrantTyped DEF EmGrant
<1>2. Parts[s] \subseteq Resource
  OBVIOUS
<1>3. /\ \A r \in Parts[s] : em'[r].lease = granted'
      /\ \A r \in Resource \ Parts[s] :
            em'[r] = IF em[r].lease \in victims THEN Free ELSE em[r]
  BY <1>1, <1>2 DEF EmGrant
<1>4. \A r \in Resource \ Parts[s] :
         /\ em[r].lease \in victims => em'[r].lease = NoLease
         /\ em[r].lease \notin victims => em'[r].lease = em[r].lease
  BY <1>3 DEF Free
<1>5. \A r \in Resource : em'[r].lease = granted' \/ em'[r].lease = NoLease
                          \/ em'[r].lease = em[r].lease
  BY <1>3, <1>4
<1>6. ASSUME NEW l \in Lease, l # granted', l \in victims PROVE ~Shows(em', l)
  BY <1>3, <1>4, <1>6 DEF Shows
<1>7. ASSUME NEW l \in Lease, l # granted', Shows(em', l)
      PROVE  \A r \in Resource : em[r].lease = l <=> em'[r].lease = l
  <2>1. l \notin victims
    BY <1>6, <1>7
  <2>2. l # NoLease
    BY DEF Lease, NoLease
  <2>3. \A r \in Parts[s] : em[r].lease # l /\ em'[r].lease # l
    BY <1>3, <1>7, <2>1, <2>2
  <2>4. \A r \in Resource \ Parts[s] : em[r].lease = l <=> em'[r].lease = l
    BY <1>4, <2>1, <2>2
  <2>. QED BY <2>3, <2>4
<1>8. \A l \in Lease : l # granted' /\ Shows(em', l) => Shows(em, l)
  BY <1>7 DEF Shows
<1>9. span'[granted'] = Parts[s] /\ \A l \in Lease : l # granted' => span'[l] = span[l]
  BY <1>1 DEF EmGrant, TypeOK
<1>10. \A l \in preempted' \ preempted : l \in victims /\ l \in Lease
  <2>1. preempted' \ preempted \subseteq victims
    BY DEF EmGrant
  <2>2. preempted' \subseteq Lease
    BY GrantTyped
  <2>. QED BY <2>1, <2>2
<1>11. \A l \in preempted' \ preempted :
         /\ \E r \in Resource : em[r].lease = l
         /\ l # granted' => ~Shows(em', l)
  BY <1>2, <1>6, <1>10
<1>. QED BY <1>1, <1>3, <1>5, <1>7, <1>8, <1>9, <1>11

LEMMA GrowFacts ==
  ASSUME EmGrows
  PROVE  /\ \E s \in Session : EmGrant(s)
         /\ UNCHANGED <<statusVars, pc, leaseId, entered, bound, stack, failed>>
         /\ \/ UNCHANGED offer /\ UNCHANGED resp
            \/ \E s \in Session : /\ pc[s] = "claiming" /\ EmGrant(s)
                                  /\ resp' = [resp EXCEPT ![s] = "granted"]
                                  /\ offer' = [offer EXCEPT ![s] = granted + 1]
BY DEF EmGrows, EmClaimGranted, EmLateClaim, sessionVars, statusVars
-----------------------------------------------------------------------------
(* The inductive invariant, part by part.                                   *)

LEMMA InitIInv == Init => IInv
<1> SUFFICES ASSUME Init PROVE IInv
  OBVIOUS
<1> USE DEF Init, Free, NoLease
<1>1. TypeOK
  BY InitTyped
<1>2. GrantedOnly
  BY DEF GrantedOnly
<1>3. WholeLeases
  BY DEF WholeLeases, Whole, Shows, Lease
<1>4. SessionFields
  BY DEF SessionFields, Inside
<1>5. OneOwner /\ InOrder
  BY DEF OneOwner, InOrder, Shows
<1>6. NoSilentLeak
  BY DEF NoSilentLeak, Held, Shows
<1>7. ControlStackSound
  <2>1. \A a \in App : stack[a] = << >>
    BY Zenon
  <2>2. \A a \in App : Len(stack[a]) = 0
    BY <2>1, EmptySeq, Zenon
  <2>3. \A i : i \notin 1..0
    OBVIOUS
  <2>4. ASSUME NEW a \in App
        PROVE  \A i : i \notin 1..Len(stack[a])
    BY <2>2, <2>3
  <2>. QED BY <2>4, Zenon DEF ControlStackSound, StackSound
<1>. QED BY <1>1, <1>2, <1>3, <1>4, <1>5, <1>6, <1>7 DEF IInv

\* What the quiet steps do to the status channel.
LEMMA KeptStatus ==
  ASSUME TypeOK, EmKept
  PROVE  \/ UNCHANGED <<topic, cache, seen>>
         \/ EmPublish
         \/ \E a \in App : OnStatus(a)
         \/ \E l \in Lease : OnEvent(l)
BY DEF EmKept, EmClaimRefused, StatusNext, StatusExpires, SessionNext, CallClaim,
       ClaimReturns, ClaimRefused, ClaimIncomplete, ClaimTimesOut, ClaimRaises,
       Confirm, AcquireTimesOut, Interrupt, ExitDisplaced, ExitReleases,
       ReleaseReturns, ReleaseFails, statusVars, vars

\* What they do to the lease ids of the sessions.
LEMMA KeptLeases ==
  ASSUME TypeOK, EmKept
  PROVE  \/ UNCHANGED <<offer, leaseId>>
         \/ \E s \in Session :
              /\ pc[s] = "claiming"
              /\ offer' = [offer EXCEPT ![s] = NoLease]
              /\ \/ UNCHANGED leaseId
                 \/ /\ resp[s] = "granted"
                    /\ leaseId' = [leaseId EXCEPT ![s] = offer[s]]
<1>1. CASE SessionNext
  <2>1. PICK s \in Session :
          \/ ClaimReturns(s) \/ ClaimRaises(s)
          \/ CallClaim(s) \/ Confirm(s) \/ AcquireTimesOut(s) \/ Interrupt(s)
          \/ ExitReleases(s)
          \/ \E raised \in BOOLEAN : Leave(s, raised)
    BY <1>1 DEF SessionNext, ClaimRefused, ClaimIncomplete, ClaimTimesOut,
                ExitDisplaced, ReleaseReturns, ReleaseFails
  <2>2. CASE ClaimReturns(s)
    BY <2>2 DEF ClaimReturns
  <2>3. CASE ClaimRaises(s)
    BY <2>3 DEF ClaimRaises
  <2>4. CASE ~ClaimReturns(s) /\ ~ClaimRaises(s)
    BY <2>1, <2>4 DEF CallClaim, Confirm, AcquireTimesOut, Interrupt,
                      ExitReleases, Leave
  <2>. QED BY <2>2, <2>3, <2>4
<1>2. CASE ~SessionNext
  BY <1>2 DEF EmKept, EmClaimRefused, EmPublish, StatusNext, OnStatus,
              StatusExpires, OnEvent, sessionVars, vars
<1>. QED BY <1>1, <1>2

LEMMA GrantedOnlyKept == IInv /\ [Next]_vars => GrantedOnly'
<1> SUFFICES ASSUME IInv, [Next]_vars PROVE GrantedOnly'
  OBVIOUS
<1>1. TypeOK /\ TypeOK' /\ GrantedOnly
  BY NextTyped DEF IInv
<1>2. granted \in Nat /\ \A l \in LeaseOrNone : l \in Nat /\ 0 <= l
  BY <1>1 DEF TypeOK, LeaseOrNone, Lease, NoLease
<1>3. CASE EmKept
  <2>1. UNCHANGED <<em, granted, span, preempted>>
    BY <1>3, EmKeptUnchanged DEF emVars
  <2>2. /\ \A r \in Resource : /\ topic'[r].lease <= granted
                               /\ \A a \in App : cache'[a][r].lease <= granted
        /\ seen' \subseteq preempted
    <3>1. CASE UNCHANGED <<topic, cache, seen>>
      BY <1>1, <3>1 DEF GrantedOnly
    <3>2. CASE EmPublish
      BY <1>1, <3>2 DEF EmPublish, GrantedOnly
    <3>3. ASSUME NEW a \in App, OnStatus(a) PROVE <2>2!1 /\ <2>2!2
      <4>1. cache' = [cache EXCEPT ![a] = topic] /\ UNCHANGED <<topic, seen>>
        BY <3>3 DEF OnStatus
      <4>2. \A b \in App : cache'[b] = cache[b] \/ cache'[b] = topic
        BY <1>1, <4>1 DEF TypeOK
      <4>. QED BY <1>1, <4>1, <4>2 DEF GrantedOnly
    <3>4. ASSUME NEW l \in Lease, OnEvent(l) PROVE <2>2!1 /\ <2>2!2
      BY <1>1, <3>4 DEF OnEvent, GrantedOnly
    <3>. QED BY <1>1, <1>3, <3>1, <3>2, <3>3, <3>4, KeptStatus
  <2>3. \A t \in Session : offer'[t] <= granted /\ leaseId'[t] <= granted
    <3>1. \A t \in Session :
            /\ offer'[t] \in {offer[t], NoLease}
            /\ leaseId'[t] \in {leaseId[t], offer[t]}
      BY <1>1, <1>3, KeptLeases DEF TypeOK
    <3>. QED BY <1>1, <1>2, <3>1 DEF GrantedOnly, NoLease
  <2>. QED BY <1>1, <2>1, <2>2, <2>3 DEF GrantedOnly, Shows
<1>4. CASE EmShrinks
  <2>1. /\ \A l \in Lease : Shows(em', l) => Shows(em, l)
        /\ \A r \in Resource : em'[r].lease \in {em[r].lease, NoLease}
        /\ UNCHANGED <<granted, preempted, topic, cache, seen, offer, leaseId>>
    BY <1>1, <1>4, ShrinkFacts DEF statusVars
  <2>2. \A r \in Resource : em'[r].lease <= granted
    BY <1>1, <1>2, <2>1 DEF GrantedOnly, NoLease
  <2>3. \A l \in preempted : l \in Lease
    BY <1>1 DEF TypeOK
  <2>. QED BY <1>1, <2>1, <2>2, <2>3 DEF GrantedOnly, Shows
<1>5. CASE EmGrows
  <2>1. PICK s \in Session : EmGrant(s)
    BY <1>5, GrowFacts
  <2>2. /\ granted' = granted + 1 /\ granted' \in Lease
        /\ \A r \in Resource : em'[r].lease = granted' \/ em'[r].lease = NoLease
                                \/ em'[r].lease = em[r].lease
        /\ \A l \in Lease : l # granted' /\ Shows(em', l) => Shows(em, l)
        /\ \A l \in preempted' \ preempted :
                /\ \E r \in Resource : em[r].lease = l
                /\ l # granted' => ~Shows(em', l)
    BY <1>1, <2>1, GrantFacts
  <2>3. preempted \subseteq preempted'
    BY <2>1 DEF EmGrant
  <2>4. UNCHANGED <<topic, cache, seen, leaseId>>
    BY <1>5, GrowFacts DEF statusVars
  <2>5. \A x \in LeaseOrNone : x <= granted => x <= granted' /\ x # granted'
    BY <1>2, <2>2
  <2>6. \A r \in Resource : /\ em[r].lease \in LeaseOrNone
                            /\ topic[r].lease \in LeaseOrNone
                            /\ \A a \in App : cache[a][r].lease \in LeaseOrNone
    BY <1>1 DEF TypeOK, Table, Cell
  <2>7. \A r \in Resource : /\ em'[r].lease <= granted'
                            /\ topic'[r].lease <= granted'
                            /\ \A a \in App : cache'[a][r].lease <= granted'
    BY <1>1, <1>2, <2>2, <2>4, <2>5, <2>6 DEF GrantedOnly, NoLease
  <2>8. \A t \in Session : offer'[t] <= granted' /\ leaseId'[t] <= granted'
    <3>1. \A t \in Session : offer[t] \in LeaseOrNone /\ leaseId[t] \in LeaseOrNone
      BY <1>1 DEF TypeOK
    <3>2. \A t \in Session : offer'[t] = offer[t] \/ offer'[t] = granted'
      BY <1>1, <1>5, <2>2, GrowFacts DEF TypeOK
    <3>. QED BY <1>1, <1>2, <2>2, <2>4, <2>5, <3>1, <3>2 DEF GrantedOnly
  <2>9. \A l \in preempted' : l <= granted' /\ ~Shows(em', l)
    <3>1. ASSUME NEW l \in preempted PROVE l <= granted' /\ ~Shows(em', l)
      <4>1. l \in Lease /\ l \in LeaseOrNone /\ l <= granted /\ ~Shows(em, l)
        BY <1>1 DEF TypeOK, GrantedOnly, LeaseOrNone
      <4>. QED BY <4>1, <2>2, <2>5
    <3>2. ASSUME NEW l \in preempted' \ preempted PROVE l <= granted' /\ ~Shows(em', l)
      <4>1. PICK r \in Resource : em[r].lease = l
        BY <2>2, <3>2
      <4>. QED BY <1>1, <2>2, <2>5, <2>6, <3>2, <4>1 DEF GrantedOnly
    <3>. QED BY <3>1, <3>2
  <2>. QED BY <1>1, <2>3, <2>4, <2>7, <2>8, <2>9 DEF GrantedOnly
<1>. QED BY <1>3, <1>4, <1>5, NextSplit
LEMMA WholeLeasesKept == IInv /\ [Next]_vars => WholeLeases'
<1> SUFFICES ASSUME IInv, [Next]_vars PROVE WholeLeases'
  OBVIOUS
<1>1. TypeOK /\ TypeOK' /\ GrantedOnly /\ WholeLeases
  BY NextTyped DEF IInv
<1>2. Parts \in [Session -> SUBSET Resource] /\ \A l \in Lease : span[l] \subseteq Resource
  BY <1>1 DEF TypeOK
<1>3. CASE EmKept
  <2>1. UNCHANGED <<em, span>>
    BY <1>3, EmKeptUnchanged DEF emVars
  <2>2. CASE UNCHANGED <<topic, cache, seen>>
    BY <1>1, <2>1, <2>2 DEF WholeLeases, Whole, Shows
  <2>3. CASE EmPublish
    BY <1>1, <2>1, <2>3 DEF EmPublish, WholeLeases, Whole, Shows
  <2>4. ASSUME NEW a \in App, OnStatus(a) PROVE WholeLeases'
    <3>1. UNCHANGED topic /\ \A b \in App : cache'[b] \in {cache[b], topic}
      BY <1>1, <2>4 DEF OnStatus, TypeOK
    <3>. QED BY <1>1, <2>1, <3>1 DEF WholeLeases, Whole, Shows
  <2>5. ASSUME NEW l \in Lease, OnEvent(l) PROVE WholeLeases'
    BY <1>1, <2>1, <2>5 DEF OnEvent, WholeLeases, Whole, Shows
  <2>. QED BY <1>1, <1>3, <2>2, <2>3, <2>4, <2>5, KeptStatus
<1>4. CASE EmShrinks
  <2>1. /\ \A l \in Lease : Shows(em', l) =>
              \A r \in Resource : em[r].lease = l <=> em'[r].lease = l
        /\ \A l \in Lease : Shows(em', l) => Shows(em, l)
        /\ UNCHANGED <<span, topic, cache>>
    BY <1>1, <1>4, ShrinkFacts DEF statusVars
  <2>. QED BY <1>1, <1>2, <2>1 DEF WholeLeases, Whole, Shows
<1>5. CASE EmGrows
  <2>1. PICK s \in Session : EmGrant(s)
    BY <1>5, GrowFacts
  <2>2. /\ granted' = granted + 1 /\ granted' \in Lease
        /\ span'[granted'] = Parts[s]
        /\ \A l \in Lease : l # granted' => span'[l] = span[l]
        /\ \A r \in Parts[s] : em'[r].lease = granted'
        /\ \A l \in Lease : l # granted' /\ Shows(em', l) =>
              \A r \in Resource : em[r].lease = l <=> em'[r].lease = l
        /\ \A l \in Lease : l # granted' /\ Shows(em', l) => Shows(em, l)
    BY <1>1, <2>1, GrantFacts
  <2>3. UNCHANGED <<topic, cache>>
    BY <1>5, GrowFacts DEF statusVars
  <2>4. ASSUME NEW l \in Lease, l # granted'
        PROVE  Whole(em, l)' /\ Whole(topic, l)' /\ \A a \in App : Whole(cache[a], l)'
    BY <1>1, <1>2, <2>2, <2>3, <2>4 DEF WholeLeases, Whole, Shows
  <2>5. Whole(em, granted)'
    BY <2>2 DEF Whole
  <2>6. \A x : x <= granted => x # granted'
    BY <1>1, <2>2 DEF TypeOK, Lease
  <2>7. /\ ~Shows(topic', granted')
        /\ \A a \in App : ~Shows(cache'[a], granted')
    BY <1>1, <2>3, <2>6 DEF GrantedOnly, Shows
  <2>8. Whole(topic, granted)' /\ \A a \in App : Whole(cache[a], granted)'
    BY <2>7 DEF Whole, Shows
  <2>. QED BY <2>4, <2>5, <2>8 DEF WholeLeases, Whole, Shows
<1>. QED BY <1>3, <1>4, <1>5, NextSplit

LEMMA OneOwnerKept == IInv /\ [Next]_vars => OneOwner'
<1> SUFFICES ASSUME IInv, [Next]_vars PROVE OneOwner'
  OBVIOUS
<1>1. TypeOK /\ GrantedOnly /\ OneOwner
  BY DEF IInv
<1>2. CASE EmKept
  <2>1. CASE UNCHANGED <<offer, leaseId>>
    BY <1>1, <2>1 DEF OneOwner
  <2>2. ASSUME NEW s \in Session,
               offer' = [offer EXCEPT ![s] = NoLease],
               \/ UNCHANGED leaseId
               \/ leaseId' = [leaseId EXCEPT ![s] = offer[s]]
        PROVE  OneOwner'
    BY <1>1, <2>2 DEF OneOwner, TypeOK
  <2>. QED BY <1>1, <1>2, <2>1, <2>2, KeptLeases
<1>3. CASE EmShrinks
  BY <1>1, <1>3, ShrinkFacts DEF OneOwner
<1>4. CASE EmGrows
  <2>1. UNCHANGED leaseId
    BY <1>4, GrowFacts
  <2>2. \A t \in Session : offer[t] # granted + 1 /\ leaseId[t] # granted + 1
    BY <1>1 DEF GrantedOnly, TypeOK, LeaseOrNone, Lease, NoLease
  <2>. QED BY <1>1, <1>4, <2>1, <2>2, GrowFacts DEF OneOwner, TypeOK
<1>. QED BY <1>2, <1>3, <1>4, NextSplit
LEMMA SessionFieldsKept == IInv /\ [Next]_vars => SessionFields'
<1> SUFFICES ASSUME IInv, [Next]_vars PROVE SessionFields'
  OBVIOUS
<1>1. TypeOK /\ GrantedOnly /\ OneOwner /\ SessionFields
  BY DEF IInv
<1>2. CASE EmKept
  <2>1. UNCHANGED <<em, span>>
    BY <1>2, EmKeptUnchanged DEF emVars
  <2>2. ASSUME NEW s \in Session, EmClaimRefused(s) PROVE SessionFields'
    BY <1>1, <2>1, <2>2 DEF EmClaimRefused, SessionFields, TypeOK, Inside, Shows
  <2>3. CASE EmPublish \/ StatusNext \/ UNCHANGED vars
    <3>1. UNCHANGED <<pc, resp, offer, leaseId, entered, bound>>
      BY <2>3 DEF EmPublish, StatusNext, OnStatus, StatusExpires, OnEvent,
                  sessionVars, vars
    <3>. QED BY <1>1, <2>1, <3>1 DEF SessionFields, Shows
  <2>4. ASSUME NEW s \in Session, CallClaim(s) PROVE SessionFields'
    BY <1>1, <2>1, <2>4 DEF CallClaim, SessionFields, TypeOK, Inside, Shows
  <2>5. ASSUME NEW s \in Session, ClaimReturns(s) PROVE SessionFields'
    BY <1>1, <2>1, <2>5 DEF ClaimReturns, SessionFields, TypeOK, Inside, Shows,
                            NoLease
  <2>6. ASSUME NEW s \in Session, ClaimRaises(s) PROVE SessionFields'
    BY <1>1, <2>1, <2>6 DEF ClaimRaises, SessionFields, TypeOK, Inside, Shows,
                            NoLease
  <2>7. ASSUME NEW s \in Session,
               Confirm(s) \/ AcquireTimesOut(s) \/ Interrupt(s) \/ ExitReleases(s)
        PROVE  SessionFields'
    BY <1>1, <2>1, <2>7 DEF Confirm, AcquireTimesOut, Interrupt, ExitReleases,
                            SessionFields, TypeOK, Inside, Shows
  <2>8. ASSUME NEW s \in Session, NEW raised, Leave(s, raised),
               pc[s] \in {"running", "aborting", "exiting"}
        PROVE  SessionFields'
    <3>1. /\ UNCHANGED <<offer, leaseId>>
          /\ bound' = [bound EXCEPT ![s] = NoLease]
          /\ resp' = [resp EXCEPT ![s] = "none"]
          /\ \/ pc' = [pc EXCEPT ![s] = "idle"] /\ entered' = entered \ {s}
             \/ pc' = [pc EXCEPT ![s] = "wedged"] /\ UNCHANGED entered
      BY <2>8 DEF Leave
    <3>. QED BY <1>1, <2>1, <2>8, <3>1 DEF SessionFields, TypeOK, Inside, Shows,
                                           NoLease
  <2>. QED BY <1>2, <2>2, <2>3, <2>4, <2>5, <2>6, <2>7, <2>8
           DEF EmKept, SessionNext, ClaimRefused, ClaimIncomplete, ClaimTimesOut,
               ExitDisplaced, ReleaseReturns, ReleaseFails
<1>3. CASE EmShrinks
  <2>1. UNCHANGED <<span, pc, offer, leaseId, entered, bound>>
    BY <1>1, <1>3, ShrinkFacts
  <2>2. \A l \in Lease : Shows(em', l) => Shows(em, l)
    BY <1>1, <1>3, ShrinkFacts
  <2>3. ASSUME NEW s \in Session, EmRelease(s) PROVE SessionFields'
    <3>1. leaseId[s] # NoLease
      BY <1>1, <2>3 DEF EmRelease, SessionFields, Inside
    <3>2. ~Shows(em', leaseId[s])
      BY <3>1, <2>3 DEF EmRelease, Freed, Free, Shows
    <3>3. /\ resp' = [resp EXCEPT ![s] = "released"]
          /\ pc[s] \in {"aborting", "exiting"} /\ resp[s] = "none"
      BY <2>3 DEF EmRelease
    <3>4. \A t \in Session : pc[t] \in Inside => leaseId[t] \in Lease
      BY <1>1 DEF SessionFields, TypeOK, LeaseOrNone
    <3>. QED BY <1>1, <2>1, <2>2, <3>2, <3>3, <3>4 DEF SessionFields, TypeOK,
                                                       Inside
  <2>4. CASE UNCHANGED resp
    <3>1. \A t \in Session : pc[t] \in Inside => leaseId[t] \in Lease
      BY <1>1 DEF SessionFields, TypeOK, LeaseOrNone
    <3>. QED BY <1>1, <2>1, <2>2, <2>4, <3>1 DEF SessionFields, Inside
  <2>. QED BY <1>3, <2>3, <2>4 DEF EmShrinks, EmFault, EmOwn, sessionVars
<1>4. CASE EmGrows
  <2>1. PICK g \in Session : EmGrant(g)
    BY <1>4, GrowFacts
  <2>2. /\ granted' = granted + 1 /\ granted' \in Lease
        /\ \A l \in Lease : l # granted' => span'[l] = span[l]
        /\ \A l \in Lease : l # granted' /\ Shows(em', l) => Shows(em, l)
    BY <1>1, <2>1, GrantFacts
  <2>3. UNCHANGED <<pc, leaseId, entered, bound>>
    BY <1>4, GrowFacts
  <2>4. \A t \in Session :
          /\ offer[t] \in LeaseOrNone /\ offer[t] # granted'
          /\ leaseId[t] \in LeaseOrNone /\ leaseId[t] # granted'
    BY <1>1, <2>2 DEF GrantedOnly, TypeOK, LeaseOrNone, Lease, NoLease
  <2>5. \A t \in Session :
          /\ offer[t] # NoLease => span'[offer[t]] = Parts[t]
          /\ leaseId[t] # NoLease => span'[leaseId[t]] = Parts[t]
    BY <1>1, <2>2, <2>4 DEF SessionFields, LeaseOrNone
  <2>6. \A t \in Session : resp[t] = "released" => ~Shows(em', leaseId[t])
    BY <1>1, <2>2, <2>4 DEF SessionFields, LeaseOrNone, Inside
  <2>7. CASE UNCHANGED offer /\ UNCHANGED resp
    BY <1>1, <2>3, <2>5, <2>6, <2>7 DEF SessionFields
  <2>8. ASSUME NEW s \in Session, pc[s] = "claiming", EmGrant(s),
               resp' = [resp EXCEPT ![s] = "granted"],
               offer' = [offer EXCEPT ![s] = granted + 1]
        PROVE  SessionFields'
    <3>1. span'[granted'] = Parts[s] /\ granted' # NoLease
      BY <1>1, <2>2, <2>8, GrantFacts DEF Lease, NoLease
    <3>. QED BY <1>1, <2>2, <2>3, <2>5, <2>6, <2>8, <3>1
             DEF SessionFields, TypeOK, Inside
  <2>. QED BY <1>4, <2>7, <2>8, GrowFacts
<1>. QED BY <1>2, <1>3, <1>4, NextSplit

LEMMA InOrderKept == IInv /\ [Next]_vars => InOrder'
<1> SUFFICES ASSUME IInv, [Next]_vars PROVE InOrder'
  OBVIOUS
<1>1. TypeOK /\ GrantedOnly /\ SessionFields /\ InOrder
  BY DEF IInv
<1>2. \A s \in Session : pc[s] \in Inside => leaseId[s] \in Lease
  BY <1>1 DEF SessionFields, TypeOK, LeaseOrNone
<1>3. \A s \in Session : AppOf[s] \in App
  OBVIOUS
<1>4. CASE EmKept
  <2>1. UNCHANGED em
    BY <1>4, EmKeptUnchanged DEF emVars
  <2>2. CASE EmPublish
    <3>1. topic' = em /\ UNCHANGED <<cache, pc, leaseId>>
      BY <2>2 DEF EmPublish, sessionVars
    <3>. QED BY <1>1, <2>1, <3>1 DEF InOrder
  <2>3. ASSUME NEW a \in App, OnStatus(a) PROVE InOrder'
    <3>1. /\ UNCHANGED <<topic, pc, leaseId>>
          /\ \A b \in App : cache'[b] \in {cache[b], topic}
      BY <1>1, <2>3 DEF OnStatus, TypeOK, sessionVars
    <3>. QED BY <1>1, <1>3, <2>1, <3>1 DEF InOrder
  <2>4. CASE UNCHANGED <<topic, cache, pc, leaseId>>
    BY <1>1, <2>1, <2>4 DEF InOrder
  <2>5. ASSUME NEW s \in Session, Confirm(s) PROVE InOrder'
    <3>1. UNCHANGED <<topic, cache, leaseId>> /\ pc' = [pc EXCEPT ![s] = "running"]
      BY <2>5 DEF Confirm, statusVars
    <3>2. leaseId[s] \in Lease /\ \E r \in Parts[s] : r \in Resource
      BY <1>2, <2>5 DEF Confirm, Inside
    <3>3. Shows(cache[AppOf[s]], leaseId[s])
      BY <2>5, <3>2 DEF Confirm, Active, Owns, Allocations, Free, Shows, Lease,
                        NoLease
    <3>. QED BY <1>1, <1>3, <2>1, <3>1, <3>2, <3>3 DEF InOrder, TypeOK
  <2>6. ASSUME NEW s \in Session, UNCHANGED <<topic, cache>>,
               pc' = [pc EXCEPT ![s] = pc'[s]], pc'[s] # "running",
               \A t \in Session \ {s} : leaseId'[t] = leaseId[t]
        PROVE  InOrder'
    BY <1>1, <2>1, <2>6 DEF InOrder, TypeOK
  <2>7. ASSUME NEW s \in Session, UNCHANGED statusVars,
               \/ CallClaim(s) \/ ClaimReturns(s) \/ ClaimRaises(s)
               \/ AcquireTimesOut(s) \/ Interrupt(s) \/ ExitReleases(s)
               \/ \E raised \in BOOLEAN : Leave(s, raised)
        PROVE  InOrder'
    <3>1. /\ pc' = [pc EXCEPT ![s] = pc'[s]] /\ pc'[s] # "running"
          /\ \A t \in Session \ {s} : leaseId'[t] = leaseId[t]
      BY <1>1, <2>7 DEF CallClaim, ClaimReturns, ClaimRaises, AcquireTimesOut,
                        Interrupt, ExitReleases, Leave, TypeOK
    <3>. QED BY <2>6, <2>7, <3>1 DEF statusVars
  <2>8. CASE SessionNext
    BY <2>5, <2>7, <2>8 DEF SessionNext, CallClaim, ClaimReturns, ClaimRaises,
        ClaimRefused, ClaimIncomplete, ClaimTimesOut, AcquireTimesOut, Interrupt,
        ExitDisplaced, ExitReleases, ReleaseReturns, ReleaseFails
  <2>. QED BY <1>4, <2>2, <2>3, <2>4, <2>8
           DEF EmKept, EmClaimRefused, StatusNext, StatusExpires, OnEvent,
               sessionVars, statusVars, vars
<1>5. CASE EmShrinks
  <2>1. /\ \A l \in Lease : Shows(em', l) => Shows(em, l)
        /\ UNCHANGED <<topic, cache, pc, leaseId>>
    BY <1>1, <1>5, ShrinkFacts DEF statusVars
  <2>. QED BY <1>1, <1>2, <2>1 DEF InOrder, Inside
<1>6. CASE EmGrows
  <2>1. PICK g \in Session : EmGrant(g)
    BY <1>6, GrowFacts
  <2>2. /\ granted' = granted + 1 /\ granted' \in Lease
        /\ \A l \in Lease : l # granted' /\ Shows(em', l) => Shows(em, l)
    BY <1>1, <2>1, GrantFacts
  <2>3. UNCHANGED <<topic, cache, pc, leaseId>>
    BY <1>6, GrowFacts DEF statusVars
  <2>4. \A x : x <= granted => x # granted'
    BY <1>1, <2>2 DEF TypeOK, Lease
  <2>5. /\ \A a \in App : ~Shows(cache[a], granted')
        /\ \A s \in Session : leaseId[s] # granted'
    BY <1>1, <2>4 DEF GrantedOnly, Shows
  <2>. QED BY <1>1, <1>2, <2>2, <2>3, <2>5 DEF InOrder, Inside
<1>. QED BY <1>4, <1>5, <1>6, NextSplit
-----------------------------------------------------------------------------
(* What the invariant says of a state.                                      *)

\* A cached table that names another lease on one part does not show the
\* session's own lease anywhere.
LEMMA ReplacedNotShown ==
  ASSUME IInv, NEW s \in Session, s \in entered, Replaced(s)
  PROVE  AppOf[s] \in fresh /\ ~Shows(cache[AppOf[s]], leaseId[s])
<1>1. leaseId[s] \in Lease /\ span[leaseId[s]] = Parts[s]
  BY DEF IInv, SessionFields, TypeOK, LeaseOrNone
<1>2. PICK r \in Parts[s] : Allocations(AppOf[s])[r].lease \notin {NoLease, leaseId[s]}
  BY DEF Replaced
<1>3. r \in Resource
  OBVIOUS
<1>4. AppOf[s] \in fresh /\ cache[AppOf[s]][r].lease # leaseId[s]
  BY <1>2, <1>3 DEF Allocations, Free
<1>5. AppOf[s] \in App
  OBVIOUS
<1>6. Whole(cache[AppOf[s]], leaseId[s])
  BY <1>1, <1>5 DEF IInv, WholeLeases
<1>. QED BY <1>1, <1>4, <1>6 DEF Whole

LEMMA DisplacedIsGone == IInv => DisplacedMeansGone
<1> SUFFICES ASSUME IInv, NEW s \in Session, pc[s] = "running", Displaced(s)
             PROVE  ~Held(leaseId[s])
  BY DEF DisplacedMeansGone
<1>1. s \in entered /\ leaseId[s] # NoLease
  BY DEF IInv, SessionFields, Inside
<1>2. CASE Replaced(s)
  BY <1>1, <1>2, ReplacedNotShown DEF IInv, InOrder, Held
<1>3. CASE leaseId[s] \in seen
  BY <1>3 DEF IInv, GrantedOnly, Held
<1>. QED BY <1>1, <1>2, <1>3 DEF Displaced

LEMMA BeliefIsExclusive == IInv => ExclusiveBelief
BY DEF IInv, OneOwner, ExclusiveBelief, ActiveFor, Owns

-----------------------------------------------------------------------------
LEMMA NoSilentLeakKept == IInv /\ [Next]_vars => NoSilentLeak'
<1> SUFFICES ASSUME IInv, [Next]_vars PROVE NoSilentLeak'
  OBVIOUS
<1>1. TypeOK /\ SessionFields /\ NoSilentLeak /\ DisplacedMeansGone
  BY DisplacedIsGone DEF IInv
<1>2. CASE EmKept
  <2>1. UNCHANGED em
    BY <1>2, EmKeptUnchanged DEF emVars
  <2>2. \A l : Held(l)' = Held(l)
    BY <2>1 DEF Held, Shows
  <2>3. CASE UNCHANGED <<lost, pc, offer, leaseId>>
    BY <1>1, <2>2, <2>3 DEF NoSilentLeak
  <2>4. ASSUME NEW s \in Session, CallClaim(s) PROVE NoSilentLeak'
    BY <1>1, <2>2, <2>4 DEF CallClaim, NoSilentLeak, TypeOK, Inside
  <2>5. ASSUME NEW s \in Session, ClaimReturns(s) PROVE NoSilentLeak'
    <3>1. /\ pc'[s] = "acquiring" /\ leaseId'[s] = offer[s] /\ UNCHANGED lost
          /\ \A t \in Session \ {s} : /\ pc'[t] = pc[t] /\ leaseId'[t] = leaseId[t]
                                      /\ offer'[t] = offer[t]
      BY <1>1, <2>5 DEF ClaimReturns, TypeOK
    <3>2. pc[s] \notin Inside
      BY <2>5 DEF ClaimReturns, Inside
    <3>3. "acquiring" \in Inside
      BY DEF Inside
    <3>. QED BY <1>1, <2>2, <3>1, <3>2, <3>3, ZenonT(60) DEF NoSilentLeak
  <2>6. ASSUME NEW s \in Session, ClaimRaises(s), lost \subseteq lost',
               offer[s] = NoLease \/ offer[s] \in lost'
        PROVE  NoSilentLeak'
    <3>1. /\ pc[s] \notin Inside /\ UNCHANGED leaseId
          /\ \A t \in Session \ {s} : pc'[t] = pc[t] /\ offer'[t] = offer[t]
      BY <1>1, <2>6 DEF ClaimRaises, TypeOK, Inside
    <3>2. \A l : Held(l) => l # NoLease
      BY DEF Held
    <3>. QED BY <1>1, <2>2, <2>6, <3>1, <3>2, Zenon DEF NoSilentLeak
  <2>7. ASSUME NEW s \in Session,
               ClaimRefused(s) \/ ClaimIncomplete(s) \/ ClaimTimesOut(s)
        PROVE  NoSilentLeak'
    <3>1. ClaimRaises(s) /\ lost \subseteq lost'
      BY <2>7 DEF ClaimRefused, ClaimIncomplete, ClaimTimesOut
    <3>2. offer[s] = NoLease \/ offer[s] \in lost'
      BY <1>1, <2>7 DEF ClaimRefused, ClaimIncomplete, ClaimTimesOut, SessionFields
    <3>. QED BY <2>6, <3>1, <3>2
  <2>8. ASSUME NEW s \in Session,
               Confirm(s) \/ AcquireTimesOut(s) \/ ExitReleases(s)
        PROVE  NoSilentLeak'
    BY <1>1, <2>2, <2>8, ZenonT(60) DEF Confirm, AcquireTimesOut, ExitReleases, NoSilentLeak,
                            TypeOK, Inside
  <2>9. ASSUME NEW s \in Session, pc[s] \in Inside, UNCHANGED <<offer, leaseId>>,
               pc' = [pc EXCEPT ![s] = pc'[s]], lost \subseteq lost',
               ~Held(leaseId[s]) \/ leaseId[s] \in lost'
        PROVE  NoSilentLeak'
    <3>1. /\ pc[s] # "claiming" /\ UNCHANGED <<offer, leaseId>>
          /\ \A t \in Session \ {s} : pc'[t] = pc[t]
      BY <1>1, <2>9 DEF TypeOK, Inside
    <3>. QED BY <1>1, <2>2, <2>9, <3>1, Zenon DEF NoSilentLeak
  <2>10. ASSUME NEW s \in Session, NEW raised, Leave(s, raised)
         PROVE  UNCHANGED <<offer, leaseId>> /\ pc' = [pc EXCEPT ![s] = pc'[s]]
    BY <1>1, <2>10 DEF Leave, TypeOK
  <2>11. ASSUME NEW s \in Session, Interrupt(s) PROVE NoSilentLeak'
    <3>1. pc' = [pc EXCEPT ![s] = pc'[s]] /\ pc[s] \in Inside
      BY <1>1, <2>11 DEF Interrupt, TypeOK, Inside
    <3>. QED BY <2>9, <2>11, <3>1 DEF Interrupt
  <2>12. ASSUME NEW s \in Session, ExitDisplaced(s) PROVE NoSilentLeak'
    BY <1>1, <2>9, <2>10, <2>12 DEF ExitDisplaced, DisplacedMeansGone, Inside
  <2>13. ASSUME NEW s \in Session, ReleaseReturns(s) PROVE NoSilentLeak'
    BY <1>1, <2>9, <2>10, <2>13 DEF ReleaseReturns, SessionFields, Held, Inside
  <2>14. ASSUME NEW s \in Session, ReleaseFails(s) PROVE NoSilentLeak'
    BY <2>9, <2>10, <2>14 DEF ReleaseFails, Inside
  <2>15. CASE SessionNext
    BY <2>4, <2>5, <2>7, <2>8, <2>11, <2>12, <2>13, <2>14, <2>15 DEF SessionNext
  <2>. QED BY <1>2, <2>3, <2>15 DEF EmKept, EmClaimRefused, EmPublish, StatusNext,
                      OnStatus, StatusExpires, OnEvent, sessionVars, vars
<1>3. CASE EmShrinks
  <2>1. /\ \A l \in Lease : Shows(em', l) => Shows(em, l)
        /\ UNCHANGED <<lost, pc, offer, leaseId>>
    BY <1>1, <1>3, ShrinkFacts
  <2>. QED BY <1>1, <2>1 DEF NoSilentLeak, Held
<1>4. CASE EmGrows
  <2>1. PICK s \in Session : EmClaimGranted(s) \/ EmLateClaim(s)
    BY <1>4 DEF EmGrows
  <2>2. EmGrant(s)
    BY <2>1 DEF EmClaimGranted, EmLateClaim
  <2>3. /\ granted' = granted + 1
        /\ \A l \in Lease : l # granted' /\ Shows(em', l) => Shows(em, l)
    BY <1>1, <2>2, GrantFacts
  <2>4. \A l \in Lease : Held(l)' => Held(l) \/ l = granted + 1
    BY <2>3 DEF Held
  <2>5. CASE EmClaimGranted(s)
    <3>1. offer[s] = NoLease
      BY <1>1, <2>5 DEF EmClaimGranted, SessionFields
    <3>2. /\ pc[s] = "claiming" /\ UNCHANGED <<pc, leaseId, lost>>
          /\ offer' = [offer EXCEPT ![s] = granted + 1]
      BY <2>5 DEF EmClaimGranted
    <3>. QED BY <1>1, <2>4, <3>1, <3>2 DEF NoSilentLeak, TypeOK, Held
  <2>6. CASE EmLateClaim(s)
    BY <1>1, <2>4, <2>6 DEF EmLateClaim, NoSilentLeak, sessionVars
  <2>. QED BY <2>1, <2>5, <2>6
<1>. QED BY <1>2, <1>3, <1>4, NextSplit

\* Entering pushes a scope that is not on the stack; leaving pops it.
LEMMA ControlStackKept == IInv /\ [Next]_vars => ControlStackSound'
<1> SUFFICES ASSUME IInv, [Next]_vars PROVE ControlStackSound'
  OBVIOUS
<1>1. TypeOK /\ SessionFields /\ ControlStackSound
  BY DEF IInv
<1>2. CASE UNCHANGED <<entered, stack>>
  BY <1>1, <1>2 DEF ControlStackSound, StackSound
<1>3. ASSUME NEW s \in Session, ClaimReturns(s) PROVE ControlStackSound'
  <2> DEFINE b == AppOf[s]
             q == stack[b]
  <2>1. b \in App /\ q \in Seq(Session) /\ s \notin entered
    BY <1>1, <1>3 DEF TypeOK, ClaimReturns, SessionFields, Inside
  <2>2. /\ stack'[b] = Append(q, s) /\ entered' = entered \cup {s}
        /\ \A a \in App \ {b} : stack'[a] = stack[a]
    BY <1>1, <1>3, <2>1 DEF ClaimReturns, TypeOK
  <2>3. Len(q) \in Nat /\ Len(stack'[b]) = Len(q) + 1
    BY <2>1, <2>2, LenProperties, AppendProperties
  <2>4. /\ stack'[b][Len(q) + 1] = s
        /\ \A i \in 1..Len(q) : stack'[b][i] = q[i]
    BY <2>1, <2>2, AppendProperties
  <2>5. \A i \in 1..Len(q) : q[i] # s
    BY <1>1, <2>1 DEF ControlStackSound, StackSound
  <2>6. \A i \in 1..(Len(q) + 1) : i \in 1..Len(q) \/ i = Len(q) + 1
    BY <2>3
  <2>7. Len(q) + 1 \in 1..(Len(q) + 1) /\ 1..Len(q) \subseteq 1..(Len(q) + 1)
    BY <2>3
  <2>8. \A t \in Session : AppOf[t] = b =>
          (t \in entered' <=> \E i \in 1..Len(stack'[b]) : stack'[b][i] = t)
    BY <1>1, <2>1, <2>2, <2>3, <2>4, <2>6, <2>7, SMTT(30) DEF ControlStackSound, StackSound
  <2>9. \A i, j \in 1..Len(stack'[b]) : stack'[b][i] = stack'[b][j] => i = j
    BY <1>1, <2>1, <2>3, <2>4, <2>5, <2>6 DEF ControlStackSound, StackSound
  <2>10. \A i \in 1..Len(stack'[b]) : AppOf[stack'[b][i]] = b
    BY <1>1, <2>1, <2>3, <2>4, <2>6 DEF ControlStackSound, StackSound
  <2>11. \A a \in App \ {b}, t \in Session :
           AppOf[t] = a => (t \in entered' <=> t \in entered)
    BY <2>2
  <2>12. StackSound(b)'
    BY <2>8, <2>9, <2>10 DEF StackSound
  <2>13. ASSUME NEW a \in App \ {b} PROVE StackSound(a)'
    BY <1>1, <2>2, <2>11 DEF ControlStackSound, StackSound
  <2>. QED BY <2>12, <2>13 DEF ControlStackSound
<1>4. ASSUME NEW s \in Session, NEW raised, Leave(s, raised)
      PROVE  ControlStackSound'
  <2> DEFINE b == AppOf[s]
             q == stack[b]
  <2>1. CASE ~Innermost(s)
    BY <1>2, <1>4, <2>1 DEF Leave
  <2>2. CASE Innermost(s)
    <3>1. b \in App /\ q \in Seq(Session) /\ q # << >> /\ q[Len(q)] = s
      BY <1>1, <2>2 DEF TypeOK, Innermost
    <3>2. /\ stack'[b] = SubSeq(q, 1, Len(q) - 1) /\ entered' = entered \ {s}
          /\ \A a \in App \ {b} : stack'[a] = stack[a]
      BY <1>1, <1>4, <2>2, <3>1 DEF Leave, TypeOK
    <3>3. /\ Len(q) \in Nat \ {0} /\ Len(stack'[b]) = Len(q) - 1
          /\ \A i \in 1..(Len(q) - 1) : stack'[b][i] = q[i]
      BY <3>1, <3>2, PopFacts
    <3>4. /\ 1..(Len(q) - 1) \subseteq 1..Len(q)
          /\ Len(q) \in 1..Len(q) /\ Len(q) \notin 1..(Len(q) - 1)
          /\ \A i \in 1..Len(q) : i # Len(q) => i \in 1..(Len(q) - 1)
      BY <3>3
    <3>5. \A i \in 1..(Len(q) - 1) : q[i] # s
      <4>1. \A i, j \in 1..Len(q) : q[i] = q[j] => i = j
        BY <1>1, <3>1 DEF ControlStackSound, StackSound
      <4>2. \A i \in 1..(Len(q) - 1) : i \in 1..Len(q) /\ i # Len(q)
        BY <3>4
      <4>. QED BY <3>1, <3>4, <4>1, <4>2
    <3>6. \A t \in Session : AppOf[t] = b =>
            (t \in entered' <=> \E i \in 1..Len(stack'[b]) : stack'[b][i] = t)
      <4>1. ASSUME NEW t \in Session, AppOf[t] = b, t \in entered'
            PROVE  \E i \in 1..Len(stack'[b]) : stack'[b][i] = t
        <5>1. PICK i \in 1..Len(q) : q[i] = t
          BY <1>1, <3>1, <3>2, <4>1 DEF ControlStackSound, StackSound
        <5>. QED BY <3>1, <3>2, <3>3, <3>4, <4>1, <5>1
      <4>2. ASSUME NEW t \in Session, AppOf[t] = b,
                   NEW i \in 1..Len(stack'[b]), stack'[b][i] = t
            PROVE  t \in entered'
        BY <1>1, <3>1, <3>2, <3>3, <3>4, <3>5, <4>2 DEF ControlStackSound, StackSound
      <4>. QED BY <4>1, <4>2
    <3>7. \A i, j \in 1..Len(stack'[b]) : stack'[b][i] = stack'[b][j] => i = j
      <4>1. \A i, j \in 1..Len(q) : q[i] = q[j] => i = j
        BY <1>1, <3>1 DEF ControlStackSound, StackSound
      <4>. QED BY <3>3, <3>4, <4>1
    <3>8. \A i \in 1..Len(stack'[b]) : AppOf[stack'[b][i]] = b
      BY <1>1, <3>1, <3>3, <3>4, SMTT(30) DEF ControlStackSound, StackSound
    <3>9. \A a \in App \ {b}, t \in Session :
             AppOf[t] = a => (t \in entered' <=> t \in entered)
      BY <3>2
    <3>10. StackSound(b)'
      BY <3>6, <3>7, <3>8 DEF StackSound
    <3>11. ASSUME NEW a \in App \ {b} PROVE StackSound(a)'
      BY <1>1, <3>2, <3>9 DEF ControlStackSound, StackSound
    <3>. QED BY <3>10, <3>11 DEF ControlStackSound
  <2>. QED BY <2>1, <2>2
<1>5. CASE EmKept
  <2>1. CASE SessionNext
    <3>1. PICK s \in Session :
            \/ ClaimReturns(s)
            \/ \E raised \in BOOLEAN : Leave(s, raised)
            \/ CallClaim(s) \/ ClaimRaises(s) \/ Confirm(s)
            \/ AcquireTimesOut(s) \/ Interrupt(s) \/ ExitReleases(s)
      BY <2>1 DEF SessionNext, ClaimRefused, ClaimIncomplete, ClaimTimesOut,
                  ExitDisplaced, ReleaseReturns, ReleaseFails
    <3>2. CASE CallClaim(s) \/ ClaimRaises(s) \/ Confirm(s)
               \/ AcquireTimesOut(s) \/ Interrupt(s) \/ ExitReleases(s)
      BY <1>2, <3>2 DEF CallClaim, ClaimRaises, Confirm, AcquireTimesOut,
                        Interrupt, ExitReleases
    <3>. QED BY <1>3, <1>4, <3>1, <3>2
  <2>2. CASE ~SessionNext
    BY <1>2, <1>5, <2>2 DEF EmKept, EmClaimRefused, EmPublish, StatusNext,
                    OnStatus, StatusExpires, OnEvent, sessionVars, vars
  <2>. QED BY <2>1, <2>2
<1>6. CASE EmShrinks
  BY <1>1, <1>2, <1>6, ShrinkFacts
<1>7. CASE EmGrows
  BY <1>2, <1>7, GrowFacts
<1>. QED BY <1>5, <1>6, <1>7, NextSplit
LEMMA IInvInductive == IInv /\ [Next]_vars => IInv'
<1> SUFFICES ASSUME IInv, [Next]_vars PROVE IInv'
  OBVIOUS
<1>1. TypeOK'
  BY NextTyped DEF IInv
<1>. QED BY <1>1, GrantedOnlyKept, WholeLeasesKept, SessionFieldsKept, OneOwnerKept,
            InOrderKept, NoSilentLeakKept, ControlStackKept DEF IInv

-----------------------------------------------------------------------------
(* The theorems.                                                            *)

\* The strengthening that all the others follow from.
THEOREM Invariance == Spec => []IInv
BY InitIInv, IInvInductive, PTL DEF Spec

\* A scope that leaves without releasing its lease, because it found itself
\* displaced, had lost the lease (Session.__exit__, session.py:159).
THEOREM DisplacedMeansGoneHolds == Spec => []DisplacedMeansGone
BY Invariance, DisplacedIsGone, PTL

\* No lease stays with the EM unless its session is alive or an exception told
\* the caller (Session.__enter__ and Session.__exit__).
THEOREM NoSilentLeakHolds == Spec => []NoSilentLeak
<1>1. IInv => NoSilentLeak
  BY DEF IInv
<1>. QED BY <1>1, Invariance, PTL

\* At most one scope of an application considers a resource its own.
THEOREM ExclusiveBeliefHolds == Spec => []ExclusiveBelief
BY Invariance, BeliefIsExclusive, PTL

\* The control stack lists the entered scopes of its robot, each once.
THEOREM ControlStackSoundHolds == Spec => []ControlStackSound
<1>1. IInv => ControlStackSound
  BY DEF IInv
<1>. QED BY <1>1, Invariance, PTL

\* A lease that is not current never becomes current again.
LEMMA GoneForGood ==
  ASSUME TypeOK, [Next]_vars, NEW l \in LeaseOrNone, l <= granted, ~Held(l)
  PROVE  ~Held(l)'
<1>1. CASE EmKept
  BY <1>1, EmKeptUnchanged DEF emVars, Held, Shows
<1>2. CASE EmShrinks
  BY <1>2, ShrinkFacts DEF Held, LeaseOrNone
<1>3. CASE EmGrows
  <2>1. PICK s \in Session : EmGrant(s)
    BY <1>3, GrowFacts
  <2>2. /\ granted' = granted + 1
        /\ \A k \in Lease : k # granted' /\ Shows(em', k) => Shows(em, k)
    BY <2>1, GrantFacts
  <2>3. l # granted'
    BY <2>2 DEF TypeOK, LeaseOrNone, Lease, NoLease
  <2>. QED BY <2>2, <2>3 DEF Held, LeaseOrNone
<1>. QED BY <1>1, <1>2, <1>3, NextSplit

\* No authority table that application a will ever look at shows lease l: the EM
\* has ended it, and both the latched message and the cache are younger.
Vanished(a, l) == /\ l <= granted
                  /\ ~Held(l)
                  /\ ~Shows(topic, l)
                  /\ ~Shows(cache[a], l)

\* A displaced running scope's lease has vanished, not only been outlived.
LEMMA ReplacedVanishes ==
  ASSUME IInv, NEW s \in Session, pc[s] = "running", Replaced(s)
  PROVE  Vanished(AppOf[s], leaseId[s])
<1>1. s \in entered /\ AppOf[s] \in App /\ leaseId[s] <= granted
  BY DEF IInv, SessionFields, Inside, GrantedOnly
<1>. QED BY <1>1, ReplacedNotShown DEF IInv, InOrder, Vanished, Held

\* Messages are only ever taken from the EM's table, and caches from messages.
LEMMA StaysVanished ==
  ASSUME TypeOK, [Next]_vars, NEW a \in App, NEW l \in Lease, Vanished(a, l)
  PROVE  Vanished(a, l)'
<1>1. l <= granted' /\ ~Held(l)'
  <2>1. granted \in Nat /\ l \in Nat /\ l \in LeaseOrNone
    BY DEF TypeOK, Lease, LeaseOrNone
  <2>2. granted' \in {granted, granted + 1}
    <3>1. CASE EmKept
      BY <3>1, EmKeptUnchanged DEF emVars
    <3>2. CASE EmShrinks
      BY <3>2, ShrinkFacts
    <3>3. CASE EmGrows
      BY <3>3, GrowFacts, GrantFacts
    <3>. QED BY <3>1, <3>2, <3>3, NextSplit
  <2>. QED BY <2>1, <2>2, GoneForGood DEF Vanished
<1>2. topic' \in {topic, em} /\ cache'[a] \in {cache[a], topic}
  <2>1. CASE EmKept
    BY <2>1, KeptStatus DEF EmPublish, OnStatus, OnEvent, TypeOK
  <2>2. CASE EmShrinks
    BY <2>2, ShrinkFacts DEF statusVars
  <2>3. CASE EmGrows
    BY <2>3, GrowFacts DEF statusVars
  <2>. QED BY <2>1, <2>2, <2>3, NextSplit
<1>3. ~Shows(em, l)
  BY DEF Vanished, Held, Lease, NoLease
<1>4. ~Shows(topic', l)
  BY <1>2, <1>3 DEF Vanished
<1>5. ~Shows(cache'[a], l)
  BY <1>2 DEF Vanished
<1>. QED BY <1>1, <1>4, <1>5 DEF Vanished

\* Nobody is active under a lease that its application is not shown.
LEMMA VanishedIsInactive ==
  ASSUME NEW s \in Session, NEW l \in Lease, Vanished(AppOf[s], l), leaseId[s] = l
  PROVE  ~Active(s)
<1>1. PICK r \in Parts[s] : r \in Resource
  OBVIOUS
<1>. QED BY <1>1 DEF Active, Owns, Allocations, Free, Vanished, Shows, Lease, NoLease

\* A running scope that the status has replaced is never active again under the
\* lease it lost, whatever arrives or expires afterwards (Session.active).
THEOREM ReplacedIsFinalHolds == Spec => ReplacedIsFinal
<1>1. ASSUME NEW s \in Session, NEW l \in Lease
      PROVE  Spec => []((pc[s] = "running" /\ leaseId[s] = l /\ Replaced(s)) =>
                          [](leaseId[s] = l => ~Active(s)))
  <2>1. IInv /\ pc[s] = "running" /\ leaseId[s] = l /\ Replaced(s)
          => Vanished(AppOf[s], l)
    BY <1>1, ReplacedVanishes
  <2>2. AppOf[s] \in App
    OBVIOUS
  <2>3. IInv /\ Vanished(AppOf[s], l) /\ [Next]_vars => Vanished(AppOf[s], l)'
    BY <1>1, <2>2, StaysVanished DEF IInv
  <2>4. Vanished(AppOf[s], l) => (leaseId[s] = l => ~Active(s))
    BY <1>1, VanishedIsInactive
  <2>. QED BY <2>1, <2>3, <2>4, Invariance, PTL DEF Spec
<1>. QED BY <1>1 DEF ReplacedIsFinal
-----------------------------------------------------------------------------
(* The protocol implements ControlScope.                                    *)

LEMMA InitRefinementInv == Init => RefinementInv
<1>1. Init => WithinSpan
  BY DEF Init, WithinSpan, Free
<1>2. Init => LeftEmpty
  BY DEF Init, LeftEmpty, Held
<1>. QED BY <1>1, <1>2, InitIInv DEF RefinementInv

\* A grant shows its lease on its own parts only, and every other cell keeps its
\* lease or is cleared.
LEMMA WithinSpanKept == RefinementInv /\ [Next]_vars => WithinSpan'
<1> SUFFICES ASSUME RefinementInv, [Next]_vars PROVE WithinSpan'
  OBVIOUS
<1>1. TypeOK /\ GrantedOnly /\ WithinSpan
  BY DEF RefinementInv, IInv
<1>2. CASE EmKept
  BY <1>1, <1>2, EmKeptUnchanged DEF emVars, WithinSpan
<1>3. CASE EmShrinks
  <2>1. /\ \A r \in Resource : em'[r].lease \in {em[r].lease, NoLease}
        /\ UNCHANGED span
    BY <1>1, <1>3, ShrinkFacts
  <2>. QED BY <1>1, <2>1 DEF WithinSpan
<1>4. CASE EmGrows
  <2>1. PICK s \in Session : EmGrant(s)
    BY <1>4, GrowFacts
  <2>2. /\ granted' = granted + 1 /\ granted' \in Lease
        /\ span'[granted'] = Parts[s]
        /\ \A l \in Lease : l # granted' => span'[l] = span[l]
        /\ \A r \in Parts[s] : em'[r].lease = granted'
    BY <1>1, <2>1, GrantFacts
  <2>3. ASSUME NEW r \in Resource, em'[r].lease # NoLease
        PROVE  r \in span'[em'[r].lease]
    <3>1. CASE r \in Parts[s]
      BY <2>2, <3>1
    <3>2. CASE r \notin Parts[s]
      <4>1. em'[r] \in {Free, em[r]}
        BY <2>1, <3>2 DEF EmGrant
      <4>2. em'[r].lease = em[r].lease
        BY <2>3, <4>1 DEF Free
      <4>3. em[r].lease \in LeaseOrNone /\ em[r].lease <= granted
        BY <1>1 DEF TypeOK, Table, Cell, GrantedOnly
      <4>4. em[r].lease \in Lease /\ em[r].lease # granted'
        BY <1>1, <2>2, <2>3, <4>2, <4>3 DEF LeaseOrNone, TypeOK, Lease
      <4>. QED BY <1>1, <2>2, <2>3, <4>2, <4>4 DEF WithinSpan
    <3>. QED BY <3>1, <3>2
  <2>. QED BY <2>3 DEF WithinSpan
<1>. QED BY <1>2, <1>3, <1>4, NextSplit

\* What a step of session s leaves alone: the EM, and every other session.
OthersKept(s) ==
  /\ UNCHANGED em
  /\ \A t \in Session \ {s} :
       /\ pc'[t] = pc[t] /\ resp'[t] = resp[t]
       /\ offer'[t] = offer[t] /\ leaseId'[t] = leaseId[t]
       /\ t \in failed' <=> t \in failed

LEMMA SessionKeepsOthers ==
  ASSUME TypeOK, NEW s \in Session,
         \/ CallClaim(s) \/ ClaimReturns(s) \/ ClaimRaises(s) \/ Confirm(s)
         \/ AcquireTimesOut(s) \/ Interrupt(s) \/ ExitReleases(s)
         \/ UNCHANGED em /\ \E raised \in BOOLEAN : Leave(s, raised)
  PROVE  OthersKept(s)
<1>1. CASE CallClaim(s)
  BY <1>1 DEF CallClaim, OthersKept, TypeOK, emVars
<1>2. CASE ClaimReturns(s)
  BY <1>2 DEF ClaimReturns, OthersKept, TypeOK, emVars
<1>3. CASE ClaimRaises(s)
  BY <1>3 DEF ClaimRaises, OthersKept, TypeOK, emVars
<1>4. CASE Confirm(s) \/ AcquireTimesOut(s) \/ ExitReleases(s)
  BY <1>4 DEF Confirm, AcquireTimesOut, ExitReleases, OthersKept, TypeOK, emVars
<1>5. CASE Interrupt(s)
  BY <1>5 DEF Interrupt, OthersKept, TypeOK, emVars
<1>6. ASSUME UNCHANGED em, NEW raised \in BOOLEAN, Leave(s, raised)
      PROVE  OthersKept(s)
  BY <1>6 DEF Leave, OthersKept, TypeOK
<1>. QED BY <1>1, <1>2, <1>3, <1>4, <1>5, <1>6

\* What the steps outside the sessions' threads leave alone.
LEMMA ThreadsKept ==
  ASSUME TypeOK, [Next]_vars, ~SessionNext
  PROVE  /\ UNCHANGED <<pc, leaseId, failed>>
         /\ \/ UNCHANGED <<resp, offer>>
            \/ \E s \in Session : EmClaimGranted(s)
            \/ UNCHANGED offer /\ \E s \in Session : EmClaimRefused(s) \/ EmRelease(s)
<1>1. ASSUME NEW s \in Session, EmClaimGranted(s) \/ EmClaimRefused(s) \/ EmRelease(s)
      PROVE  UNCHANGED <<pc, leaseId, failed>>
  BY <1>1 DEF EmClaimGranted, EmClaimRefused, EmRelease
<1>2. ASSUME NEW s \in Session, EmClaimRefused(s) \/ EmRelease(s)
      PROVE  UNCHANGED offer
  BY <1>2 DEF EmClaimRefused, EmRelease
<1>3. CASE ~\E s \in Session : EmClaimGranted(s) \/ EmClaimRefused(s) \/ EmRelease(s)
  BY <1>3 DEF Next, EmNext, StatusNext, EmLateClaim, EmFault, EmOwn, EmPublish,
              OnStatus, StatusExpires, OnEvent, sessionVars, vars
<1>. QED BY <1>1, <1>2, <1>3
\* A scope is left without an exception only when the EM confirmed the release
\* or had taken the lease away before.
LEMMA LeavesEmpty ==
  ASSUME IInv, NEW s \in Session, ExitDisplaced(s) \/ ReleaseReturns(s)
  PROVE  \/ s \in failed' /\ pc'[s] \in {"idle", "wedged"}
         \/ ~Held(leaseId[s]) /\ pc'[s] = "idle" /\ s \notin failed'
            /\ pc[s] \in {"running", "exiting"}
<1>1. TypeOK /\ SessionFields
  BY DEF IInv
<1>2. CASE ExitDisplaced(s)
  <2>1. ~Held(leaseId[s]) /\ pc[s] = "running"
    BY <1>2, DisplacedIsGone DEF ExitDisplaced, DisplacedMeansGone
  <2>. QED BY <1>1, <1>2, <2>1 DEF ExitDisplaced, Leave, TypeOK
<1>3. CASE ReleaseReturns(s)
  <2>1. ~Held(leaseId[s]) /\ pc[s] \in {"aborting", "exiting"}
    BY <1>1, <1>3 DEF ReleaseReturns, SessionFields, Held
  <2>2. Leave(s, pc[s] = "aborting")
    BY <1>3 DEF ReleaseReturns
  <2>. QED BY <1>1, <2>1, <2>2 DEF Leave, TypeOK
<1>. QED BY <1>2, <1>3

LEMMA LeftEmptyKept == RefinementInv /\ [Next]_vars => LeftEmpty'
<1> SUFFICES ASSUME RefinementInv, [Next]_vars,
                    NEW t \in Session, pc'[t] = "idle", t \notin failed'
             PROVE  ~Held(leaseId[t])'
  BY DEF LeftEmpty
<1>1. IInv /\ TypeOK /\ LeftEmpty
  BY DEF RefinementInv, IInv
<1>2. leaseId[t] \in LeaseOrNone /\ leaseId[t] <= granted
  BY <1>1 DEF IInv, GrantedOnly, TypeOK
<1>3. ~Held(leaseId[t]) => (\A l : l = leaseId[t] => ~Held(l)')
  BY <1>1, <1>2, GoneForGood
<1>4. ASSUME pc[t] = "idle", t \notin failed, leaseId'[t] = leaseId[t]
      PROVE  ~Held(leaseId[t])'
  <2>1. ~Held(leaseId[t])
    BY <1>1, <1>4 DEF LeftEmpty
  <2>. QED BY <1>3, <1>4, <2>1 DEF Held
<1>5. CASE ~SessionNext
  BY <1>1, <1>4, <1>5, ThreadsKept
<1>6. CASE SessionNext
  <2>1. PICK s \in Session :
          \/ CallClaim(s) \/ ClaimReturns(s) \/ ClaimRefused(s) \/ ClaimIncomplete(s)
          \/ ClaimTimesOut(s) \/ Confirm(s) \/ AcquireTimesOut(s) \/ Interrupt(s)
          \/ ExitDisplaced(s) \/ ExitReleases(s) \/ ReleaseReturns(s)
          \/ ReleaseFails(s)
    BY <1>6 DEF SessionNext
  <2>2. OthersKept(s)
    BY <1>1, <2>1, SessionKeepsOthers, Zenon
       DEF ClaimRefused, ClaimIncomplete, ClaimTimesOut, ExitDisplaced,
           ReleaseReturns, ReleaseFails, emVars
  <2>3. CASE t # s
    BY <1>4, <2>2, <2>3 DEF OthersKept
  <2>4. CASE t = s /\ (ExitDisplaced(s) \/ ReleaseReturns(s))
    <3>1. ~Held(leaseId[s])
      BY <1>1, <2>4, LeavesEmpty
    <3>2. leaseId'[s] = leaseId[s]
      BY <2>4 DEF ExitDisplaced, ReleaseReturns, Leave
    <3>. QED BY <1>3, <2>4, <3>1, <3>2 DEF Held
  <2>5. CASE t = s /\ ~(ExitDisplaced(s) \/ ReleaseReturns(s))
    <3>1. CASE ClaimRefused(s) \/ ClaimIncomplete(s) \/ ClaimTimesOut(s)
      BY <1>1, <2>5, <3>1 DEF ClaimRefused, ClaimIncomplete, ClaimTimesOut,
                              ClaimRaises, TypeOK
    <3>2. CASE ReleaseFails(s)
      BY <1>1, <2>5, <3>2 DEF ReleaseFails, Leave, TypeOK
    <3>3. CASE CallClaim(s) \/ ClaimReturns(s) \/ Confirm(s) \/ AcquireTimesOut(s)
               \/ Interrupt(s) \/ ExitReleases(s)
      BY <1>1, <2>5, <3>3 DEF CallClaim, ClaimReturns, Confirm, AcquireTimesOut,
                              Interrupt, ExitReleases, TypeOK
    <3>. QED BY <2>1, <2>5, <3>1, <3>2, <3>3
  <2>. QED BY <2>3, <2>4, <2>5
<1>. QED BY <1>5, <1>6

LEMMA RefinementInvInductive == RefinementInv /\ [Next]_vars => RefinementInv'
BY IInvInductive, WithinSpanKept, LeftEmptyKept DEF RefinementInv

\* The lease whose authority HoldsNow speaks of.
LeaseOf(s) == IF pc[s] = "claiming" THEN offer[s] ELSE leaseId[s]

\* A step that leaves the thread and the leases of a session alone changes at
\* most whether its lease is current.
LEMMA SameScope ==
  ASSUME NEW t \in Session, pc'[t] = pc[t], t \in failed' <=> t \in failed,
         \/ resp'[t] = resp[t]
         \/ pc[t] # "claiming"
         \/ resp[t] # "granted" /\ resp'[t] # "granted"
  PROVE  ScopeOf(t)' = ScopeOf(t)
BY DEF ScopeOf

LEMMA SameLease ==
  ASSUME NEW t \in Session, pc'[t] = pc[t], offer'[t] = offer[t],
         leaseId'[t] = leaseId[t]
  PROVE  LeaseOf(t)' = LeaseOf(t)
BY DEF LeaseOf

\* A session that ControlScope sees in authority has a lease over its own parts.
LEMMA HolderHasLease ==
  ASSUME IInv, NEW t \in Session, HoldsNow(t)
  PROVE  /\ LeaseOf(t) \in Lease /\ LeaseOf(t) <= granted
         /\ span[LeaseOf(t)] = Parts[t]
         /\ \A r \in Parts[t] : em[r].lease = LeaseOf(t)
<1>1. Held(LeaseOf(t))
  BY DEF HoldsNow, LeaseOf
<1>2. /\ offer[t] \in LeaseOrNone /\ leaseId[t] \in LeaseOrNone
      /\ offer[t] <= granted /\ leaseId[t] <= granted
      /\ offer[t] # NoLease => span[offer[t]] = Parts[t]
      /\ leaseId[t] # NoLease => span[leaseId[t]] = Parts[t]
  BY DEF IInv, TypeOK, GrantedOnly, SessionFields
<1>3. LeaseOf(t) \in Lease /\ LeaseOf(t) <= granted /\ span[LeaseOf(t)] = Parts[t]
  BY <1>1, <1>2 DEF Held, LeaseOf, LeaseOrNone
<1>4. Whole(em, LeaseOf(t))
  BY <1>3 DEF IInv, WholeLeases
<1>. QED BY <1>1, <1>3, <1>4 DEF Whole, Held
\* A step of one session moves its own scope and no other.
LEMMA ScopeMoves ==
  ASSUME TypeOK, NEW s \in Session, OthersKept(s)
  PROVE  /\ \A t \in Session \ {s} : ScopeOf(t)' = ScopeOf(t)
         /\ \A t \in Session \ {s} : HoldsNow(t)' = HoldsNow(t)
         /\ [t \in Session |-> ScopeOf(t)]'
              = [[t \in Session |-> ScopeOf(t)] EXCEPT ![s] = ScopeOf(s)']
         /\ [t \in Session |-> HoldsNow(t)]'
              = [[t \in Session |-> HoldsNow(t)] EXCEPT ![s] = HoldsNow(s)']
<1>1. ASSUME NEW t \in Session \ {s} PROVE ScopeOf(t)' = ScopeOf(t)
  BY DEF OthersKept, ScopeOf
<1>2. ASSUME NEW t \in Session \ {s} PROVE HoldsNow(t)' = HoldsNow(t)
  BY <1>1 DEF OthersKept, HoldsNow, Held, Shows
<1>3. \A t \in Session \ {s} : ScopeOf(t)' = ScopeOf(t)
  BY <1>1
<1>4. \A t \in Session \ {s} : HoldsNow(t)' = HoldsNow(t)
  BY <1>2
<1>5. [t \in Session |-> ScopeOf(t)]'
        = [[t \in Session |-> ScopeOf(t)] EXCEPT ![s] = ScopeOf(s)']
  BY <1>3
<1>6. [t \in Session |-> HoldsNow(t)]'
        = [[t \in Session |-> HoldsNow(t)] EXCEPT ![s] = HoldsNow(s)']
  BY <1>4
<1>. QED BY <1>3, <1>4, <1>5, <1>6

LEMMA MapsToBegin ==
  ASSUME TypeOK, NEW s \in Session, OthersKept(s),
         ScopeOf(s) \in {"outside", "failed"}, ScopeOf(s)' = "entering",
         HoldsNow(s)' = HoldsNow(s)
  PROVE  Scope!Begin(s)
BY ScopeMoves DEF Scope!Begin

LEMMA MapsToStart ==
  ASSUME TypeOK, NEW s \in Session, OthersKept(s),
         ScopeOf(s) = "granted", ScopeOf(s)' = "inside", HoldsNow(s)' = HoldsNow(s)
  PROVE  Scope!Start(s)
BY ScopeMoves DEF Scope!Start

LEMMA MapsToLeave ==
  ASSUME TypeOK, NEW s \in Session, OthersKept(s),
         ScopeOf(s) = "inside", ScopeOf(s)' = "outside",
         ~HoldsNow(s), ~HoldsNow(s)'
  PROVE  Scope!Leave(s)
<1>1. \A t \in Session : HoldsNow(t)' = HoldsNow(t)
  BY ScopeMoves DEF HoldsNow
<1>2. [t \in Session |-> HoldsNow(t)]' = [t \in Session |-> HoldsNow(t)]
  BY <1>1
<1>. QED BY <1>2, ScopeMoves DEF Scope!Leave

LEMMA MapsToFail ==
  ASSUME TypeOK, NEW s \in Session, OthersKept(s),
         ScopeOf(s) \in {"entering", "granted", "inside"}, ScopeOf(s)' = "failed"
  PROVE  Scope!Fail(s)
<1>1. HoldsNow(s)' = FALSE
  BY DEF HoldsNow
<1>. QED BY <1>1, ScopeMoves DEF Scope!Fail

LEMMA MapsToStutter ==
  ASSUME TypeOK, NEW s \in Session, OthersKept(s),
         ScopeOf(s)' = ScopeOf(s), HoldsNow(s)' = HoldsNow(s)
  PROVE  UNCHANGED Scope!vars
<1>1. [t \in Session |-> ScopeOf(t)]' = [t \in Session |-> ScopeOf(t)]
  BY ScopeMoves
<1>2. [t \in Session |-> HoldsNow(t)]' = [t \in Session |-> HoldsNow(t)]
  BY ScopeMoves
<1>. QED BY <1>1, <1>2 DEF Scope!vars

\* Authority that only goes away is a loss, or nothing.
LEMMA MapsToLose ==
  ASSUME \A t \in Session : ScopeOf(t)' = ScopeOf(t),
         \A t \in Session : HoldsNow(t)' => HoldsNow(t)
  PROVE  (\E S \in SUBSET Session : Scope!Lose(S)) \/ UNCHANGED Scope!vars
<1> DEFINE S == {t \in Session : HoldsNow(t) /\ ~HoldsNow(t)'}
<1>1. [t \in Session |-> ScopeOf(t)]' = [t \in Session |-> ScopeOf(t)]
  OBVIOUS
<1>2. \A t \in Session : HoldsNow(t)' = (HoldsNow(t) /\ t \notin S)
  BY DEF HoldsNow
<1>3. CASE S = {}
  <2>1. \A t \in Session : HoldsNow(t)' = HoldsNow(t)
    BY <1>2, <1>3 DEF HoldsNow
  <2>. QED BY <1>1, <2>1 DEF Scope!vars
<1>4. CASE S # {}
  <2>1. S \in SUBSET Session /\ \A t \in S : HoldsNow(t)
    OBVIOUS
  <2>2. [t \in Session |-> HoldsNow(t)]'
          = [t \in Session |-> [u \in Session |-> HoldsNow(u)][t] /\ t \notin S]
    BY <1>2
  <2>3. Scope!Lose(S)
    BY <1>1, <1>4, <2>1, <2>2 DEF Scope!Lose
  <2>. QED BY <2>1, <2>3
<1>. QED BY <1>3, <1>4

\* A grant obtains the parts of its session at the expense of those who overlap.
LEMMA MapsToObtain ==
  ASSUME RefinementInv, NEW s \in Session, EmClaimGranted(s)
  PROVE  Scope!Obtain(s)
<1>1. IInv /\ TypeOK /\ GrantedOnly /\ WithinSpan
  BY DEF RefinementInv, IInv
<1>2. EmGrant(s)
  BY DEF EmClaimGranted
<1>3. /\ granted' = granted + 1 /\ granted' \in Lease
      /\ \A r \in Parts[s] : em'[r].lease = granted'
      /\ \A l \in Lease : l # granted' /\ Shows(em', l) =>
           \A r \in Resource : em[r].lease = l <=> em'[r].lease = l
      /\ \A l \in Lease : l # granted' /\ Shows(em', l) => Shows(em, l)
  BY <1>1, <1>2, GrantFacts
<1>4. Parts[s] \subseteq Resource /\ Parts[s] # {}
  OBVIOUS
<1>5. /\ ScopeOf(s) = "entering" /\ ScopeOf(s)' = "granted" /\ LeaseOf(s)' = granted'
      /\ \A t \in Session \ {s} : ScopeOf(t)' = ScopeOf(t) /\ LeaseOf(t)' = LeaseOf(t)
  BY <1>1, <1>3 DEF EmClaimGranted, ScopeOf, LeaseOf, TypeOK
<1>6. HoldsNow(s)'
  BY <1>3, <1>4, <1>5 DEF HoldsNow, LeaseOf, Held, Shows, Lease, NoLease
<1>7. ASSUME NEW t \in Session \ {s}
      PROVE  HoldsNow(t)' <=> HoldsNow(t) /\ Parts[t] \cap Parts[s] = {}
  <2>1. Parts[t] \subseteq Resource /\ Parts[t] # {}
    OBVIOUS
  <2>2. ASSUME HoldsNow(t)' PROVE HoldsNow(t) /\ Parts[t] \cap Parts[s] = {}
    <3>1. Held(LeaseOf(t))' /\ ScopeOf(t)' \in {"granted", "inside", "outside"}
      BY <2>2 DEF HoldsNow, LeaseOf
    <3>2. LeaseOf(t) \in LeaseOrNone /\ LeaseOf(t) <= granted
      BY <1>1 DEF TypeOK, GrantedOnly, LeaseOf
    <3>3. LeaseOf(t) \in Lease /\ LeaseOf(t) # granted' /\ Shows(em', LeaseOf(t))
      BY <1>1, <1>3, <1>5, <3>1, <3>2 DEF Held, LeaseOrNone, Lease, TypeOK
    <3>4. HoldsNow(t)
      BY <1>3, <1>5, <3>1, <3>3 DEF HoldsNow, LeaseOf, Held, Lease, NoLease
    <3>5. \A r \in Parts[t] : em[r].lease = LeaseOf(t)
      BY <1>1, <3>4, HolderHasLease
    <3>6. \A r \in Parts[t] : em'[r].lease = LeaseOf(t)
      BY <1>3, <2>1, <3>3, <3>5
    <3>7. \A r \in Parts[s] : em'[r].lease # LeaseOf(t)
      BY <1>3, <3>3
    <3>. QED BY <3>4, <3>6, <3>7
  <2>3. ASSUME HoldsNow(t), Parts[t] \cap Parts[s] = {} PROVE HoldsNow(t)'
    <3>1. /\ LeaseOf(t) \in Lease /\ span[LeaseOf(t)] = Parts[t]
          /\ \A r \in Parts[t] : em[r].lease = LeaseOf(t)
      BY <1>1, <2>3, HolderHasLease
    <3>2. \A r \in Parts[s] : em[r].lease # LeaseOf(t)
      BY <1>1, <1>4, <2>3, <3>1 DEF WithinSpan, Lease, NoLease
    <3>3. PICK r \in Parts[t] : r \in Resource /\ r \notin Parts[s]
      BY <2>1, <2>3
    <3>4. em'[r] = em[r]
      BY <1>2, <3>1, <3>2, <3>3 DEF EmGrant
    <3>5. Shows(em', LeaseOf(t))
      BY <3>1, <3>3, <3>4 DEF Shows
    <3>. QED BY <1>5, <2>3, <3>1, <3>5 DEF HoldsNow, LeaseOf, Held, Lease, NoLease
  <2>. QED BY <2>2, <2>3
<1>8. [t \in Session |-> ScopeOf(t)]'
        = [[t \in Session |-> ScopeOf(t)] EXCEPT ![s] = "granted"]
  BY <1>5
<1>9. \A t \in Session :
        HoldsNow(t)' = \/ t = s
                       \/ HoldsNow(t) /\ Parts[t] \cap Parts[s] = {}
  <2>1. HoldsNow(s)' = TRUE
    BY <1>6 DEF HoldsNow
  <2>2. \A t \in Session \ {s} :
          HoldsNow(t)' = (HoldsNow(t) /\ Parts[t] \cap Parts[s] = {})
    BY <1>7 DEF HoldsNow
  <2>. QED BY <2>1, <2>2
<1>10. [t \in Session |-> HoldsNow(t)]'
         = [t \in Session |->
              \/ t = s
              \/ [u \in Session |-> HoldsNow(u)][t] /\ Parts[t] \cap Parts[s] = {}]
  BY <1>9
<1>. QED BY <1>5, <1>8, <1>10 DEF Scope!Obtain
\* Each step of the environment is a grant, a loss, or invisible.
LEMMA EnvironmentMaps ==
  ASSUME RefinementInv, [Next]_vars, ~SessionNext
  PROVE  Scope!Next \/ UNCHANGED Scope!vars
<1>1. IInv /\ TypeOK /\ GrantedOnly
  BY DEF RefinementInv, IInv
<1>2. CASE \E s \in Session : EmClaimGranted(s)
  BY <1>2, MapsToObtain DEF Scope!Next
<1>3. CASE ~\E s \in Session : EmClaimGranted(s)
  <2>1. /\ UNCHANGED <<pc, leaseId, offer, failed>>
        /\ UNCHANGED resp \/ \E s \in Session : EmClaimRefused(s) \/ EmRelease(s)
    BY <1>1, <1>3, ThreadsKept
  <2>2. ASSUME NEW t \in Session PROVE ScopeOf(t)' = ScopeOf(t)
    <3>1. \/ resp'[t] = resp[t]
          \/ pc[t] # "claiming"
          \/ resp[t] # "granted" /\ resp'[t] # "granted"
      BY <1>1, <2>1 DEF EmClaimRefused, EmRelease, TypeOK
    <3>. QED BY <2>1, <3>1, SameScope
  <2>3. ASSUME NEW t \in Session, HoldsNow(t)' PROVE HoldsNow(t)
    <3>1. LeaseOf(t)' = LeaseOf(t)
      BY <2>1, SameLease
    <3>2. LeaseOf(t) \in LeaseOrNone /\ LeaseOf(t) <= granted
      BY <1>1 DEF TypeOK, GrantedOnly, LeaseOf
    <3>3. Held(LeaseOf(t))'
      BY <2>3 DEF HoldsNow, LeaseOf
    <3>4. ~Held(LeaseOf(t)) => (\A l : l = LeaseOf(t) => ~Held(l)')
      BY <1>1, <3>2, GoneForGood
    <3>5. Held(LeaseOf(t))
      BY <3>1, <3>3, <3>4 DEF Held
    <3>. QED BY <2>2, <2>3, <3>5 DEF HoldsNow, LeaseOf
  <2>. QED BY <2>2, <2>3, MapsToLose DEF Scope!Next
<1>. QED BY <1>2, <1>3

\* Each step of a session is the step of its scope with the same meaning: a call
\* begins, a confirmation starts the body, a clean exit leaves, an exception
\* fails, and the rest is invisible.
LEMMA SessionMaps ==
  ASSUME RefinementInv, [Next]_vars, SessionNext
  PROVE  Scope!Next \/ UNCHANGED Scope!vars
<1>1. IInv /\ TypeOK /\ SessionFields /\ LeftEmpty
  BY DEF RefinementInv, IInv
<1>2. PICK s \in Session :
        \/ CallClaim(s) \/ ClaimReturns(s) \/ ClaimRefused(s) \/ ClaimIncomplete(s)
        \/ ClaimTimesOut(s) \/ Confirm(s) \/ AcquireTimesOut(s) \/ Interrupt(s)
        \/ ExitDisplaced(s) \/ ExitReleases(s) \/ ReleaseReturns(s)
        \/ ReleaseFails(s)
  BY DEF SessionNext
<1>3. OthersKept(s)
  BY <1>1, <1>2, SessionKeepsOthers, Zenon
     DEF ClaimRefused, ClaimIncomplete, ClaimTimesOut, ExitDisplaced,
         ReleaseReturns, ReleaseFails, emVars
<1>4. \A l : Held(l)' = Held(l)
  BY <1>3 DEF OthersKept, Held, Shows
<1>5. CASE CallClaim(s)
  <2>1. pc[s] = "idle" /\ pc'[s] = "claiming" /\ resp'[s] = "none"
    BY <1>1, <1>5 DEF CallClaim, SessionFields, TypeOK
  <2>2. ScopeOf(s) \in {"outside", "failed"} /\ ScopeOf(s)' = "entering"
    BY <2>1 DEF ScopeOf
  <2>3. ~HoldsNow(s) /\ ~HoldsNow(s)'
    BY <1>1, <2>1, <2>2 DEF HoldsNow, LeftEmpty, ScopeOf
  <2>4. HoldsNow(s)' = HoldsNow(s)
    BY <2>3 DEF HoldsNow
  <2>. QED BY <1>1, <1>3, <2>2, <2>4, MapsToBegin DEF Scope!Next
<1>6. CASE ClaimReturns(s)
  <2>1. /\ pc[s] = "claiming" /\ resp[s] = "granted"
        /\ pc'[s] = "acquiring" /\ leaseId'[s] = offer[s]
    BY <1>1, <1>6 DEF ClaimReturns, TypeOK
  <2>2. ScopeOf(s) = "granted" /\ ScopeOf(s)' = "granted"
    BY <2>1 DEF ScopeOf
  <2>3. HoldsNow(s)' = HoldsNow(s)
    BY <1>4, <2>1, <2>2 DEF HoldsNow
  <2>. QED BY <1>1, <1>3, <2>2, <2>3, MapsToStutter
<1>7. CASE ClaimRefused(s) \/ ClaimIncomplete(s) \/ ClaimTimesOut(s)
  <2>1. pc[s] = "claiming" /\ pc'[s] = "idle" /\ s \in failed'
    BY <1>1, <1>7 DEF ClaimRefused, ClaimIncomplete, ClaimTimesOut, ClaimRaises, TypeOK
  <2>2. ScopeOf(s) \in {"entering", "granted"} /\ ScopeOf(s)' = "failed"
    BY <2>1 DEF ScopeOf
  <2>. QED BY <1>1, <1>3, <2>2, MapsToFail DEF Scope!Next
<1>8. CASE Confirm(s)
  <2>1. pc[s] = "acquiring" /\ pc'[s] = "running" /\ leaseId'[s] = leaseId[s]
    BY <1>1, <1>8 DEF Confirm, TypeOK
  <2>2. ScopeOf(s) = "granted" /\ ScopeOf(s)' = "inside"
    BY <2>1 DEF ScopeOf
  <2>3. HoldsNow(s)' = HoldsNow(s)
    BY <1>4, <2>1, <2>2 DEF HoldsNow
  <2>. QED BY <1>1, <1>3, <2>2, <2>3, MapsToStart DEF Scope!Next
<1>9. CASE AcquireTimesOut(s) \/ ExitReleases(s)
  <2>1. /\ leaseId'[s] = leaseId[s]
        /\ \/ pc[s] = "acquiring" /\ pc'[s] = "aborting"
           \/ pc[s] = "running" /\ pc'[s] = "exiting"
    BY <1>1, <1>9 DEF AcquireTimesOut, ExitReleases, TypeOK
  <2>2. ScopeOf(s) \in {"granted", "inside"} /\ ScopeOf(s)' = ScopeOf(s)
    BY <2>1 DEF ScopeOf
  <2>3. HoldsNow(s)' = HoldsNow(s)
    BY <1>4, <2>1, <2>2 DEF HoldsNow
  <2>. QED BY <1>1, <1>3, <2>2, <2>3, MapsToStutter
<1>10. CASE Interrupt(s)
  <2>1. pc[s] = "acquiring" /\ pc'[s] = "wedged"
    BY <1>1, <1>10 DEF Interrupt, TypeOK
  <2>2. ScopeOf(s) = "granted" /\ ScopeOf(s)' = "failed"
    BY <2>1 DEF ScopeOf
  <2>. QED BY <1>1, <1>3, <2>2, MapsToFail DEF Scope!Next
<1>11. CASE ExitDisplaced(s) \/ ReleaseReturns(s)
  <2>1. pc[s] \in {"running", "aborting", "exiting"} /\ leaseId'[s] = leaseId[s]
    BY <1>11 DEF ExitDisplaced, ReleaseReturns, Leave
  <2>2. ScopeOf(s) \in {"granted", "inside"}
    BY <2>1 DEF ScopeOf
  <2>3. CASE s \in failed' /\ pc'[s] \in {"idle", "wedged"}
    <3>1. ScopeOf(s)' = "failed"
      BY <2>3 DEF ScopeOf
    <3>. QED BY <1>1, <1>3, <2>2, <3>1, MapsToFail DEF Scope!Next
  <2>4. CASE /\ ~Held(leaseId[s]) /\ pc'[s] = "idle" /\ s \notin failed'
             /\ pc[s] \in {"running", "exiting"}
    <3>1. ScopeOf(s) = "inside" /\ ScopeOf(s)' = "outside"
      BY <2>4 DEF ScopeOf
    <3>2. ~HoldsNow(s) /\ ~HoldsNow(s)'
      BY <1>4, <2>1, <2>4 DEF HoldsNow
    <3>. QED BY <1>1, <1>3, <3>1, <3>2, MapsToLeave DEF Scope!Next
  <2>. QED BY <1>1, <1>11, <2>3, <2>4, LeavesEmpty
<1>12. CASE ReleaseFails(s)
  <2>1. pc[s] \in {"aborting", "exiting"} /\ pc'[s] \in {"idle", "wedged"} /\ s \in failed'
    BY <1>1, <1>12 DEF ReleaseFails, Leave, TypeOK
  <2>2. ScopeOf(s) \in {"granted", "inside"} /\ ScopeOf(s)' = "failed"
    BY <2>1 DEF ScopeOf
  <2>. QED BY <1>1, <1>3, <2>2, MapsToFail DEF Scope!Next
<1>. QED BY <1>2, <1>5, <1>6, <1>7, <1>8, <1>9, <1>10, <1>11, <1>12

\* To its application every session is a ControlScope: the initial states map to
\* the initial state, and each step to a step of ControlScope or to none
\* (Session.__enter__ and Session.__exit__ against any behaviour of the EM).
THEOREM ImplementsScopeHolds == Spec => ImplementsScope
<1>1. Init => Scope!Init
  <2> SUFFICES ASSUME Init PROVE Scope!Init
    OBVIOUS
  <2>1. \A s \in Session : ScopeOf(s) = "outside"
    BY DEF Init, ScopeOf
  <2>2. \A s \in Session : HoldsNow(s) = FALSE
    BY DEF Init, HoldsNow, Held
  <2>. QED BY <2>1, <2>2 DEF Scope!Init
<1>2. RefinementInv /\ [Next]_vars => [Scope!Next]_(Scope!vars)
  BY EnvironmentMaps, SessionMaps
<1>. QED BY <1>1, <1>2, InitRefinementInv, RefinementInvInductive, PTL
         DEF Spec, ImplementsScope, Scope!Spec

\* No two sessions, of one application or of two, have authority over one part at
\* the same time (the claim of Session.__enter__ to its release).
THEOREM AuthorityIsExclusive == Spec => []Scope!Exclusive
<1>1. RefinementInv => Scope!Exclusive
  <2> SUFFICES ASSUME RefinementInv, NEW s \in Session, NEW t \in Session, s # t,
                      HoldsNow(s), HoldsNow(t), NEW r \in Parts[s], r \in Parts[t]
               PROVE  FALSE
    BY DEF Scope!Exclusive
  <2>1. IInv /\ SessionFields /\ OneOwner
    BY DEF RefinementInv, IInv
  <2>2. LeaseOf(s) = LeaseOf(t) /\ LeaseOf(s) # NoLease
    BY <2>1, HolderHasLease DEF Lease, NoLease
  <2>. QED BY <2>1, <2>2 DEF LeaseOf, OneOwner
<1>. QED BY <1>1, InitRefinementInv, RefinementInvInductive, PTL DEF Spec
=============================================================================
