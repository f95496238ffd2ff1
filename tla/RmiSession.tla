----------------------------- MODULE RmiSession -----------------------------
(***************************************************************************)
(* The lease protocol of the RMI SDK: what Session.__enter__ and           *)
(* Session.__exit__ (rmi/session.py) do against the Execution Manager (EM) *)
(* through ExecutionManagerClient (rmi/selection.py), the command client's *)
(* bind/unbind (rmi/provider.py) and the Robot's control stack             *)
(* (rmi/robot.py).                                                         *)
(*                                                                         *)
(* Every session is a thread of its application; the sessions of one       *)
(* application share one Robot and one ExecutionManagerClient, so one      *)
(* status cache, one event log and one control stack.  The EM is a C++     *)
(* process outside this repository: its actions (Em...) say what the SDK   *)
(* and its tests rely on, no more.                                         *)
(***************************************************************************)
EXTENDS Naturals, Sequences

CONSTANTS
  App,        \* the applications (processes) of the workstation
  Session,    \* the Session objects
  Resource,   \* the parts of the robot that the EM arbitrates
  AppOf,      \* the application a session runs in
  Parts,      \* the resources a session asks for, all in one lease
  Preempt,    \* the sessions created with preempt=True
  MaxLease    \* bound: how many leases the EM ever grants

ASSUME ConstantAssumption ==
  /\ AppOf \in [Session -> App]
  /\ Parts \in [Session -> (SUBSET Resource) \ {{}}]
  /\ Preempt \subseteq Session
  /\ MaxLease \in Nat

VARIABLES
  em,          \* EM: the authority table, one cell per resource
  granted,     \* EM: the number of leases granted, and the last lease id
  span,        \* EM: the resources each lease was granted for
  preempted,   \* EM: the leases for which a PREEMPTED event was published
  topic,       \* the latched authority status message (depth 1)
  unread,      \* the applications that have not received it yet
  cache,       \* _allocations of each application's client
  fresh,       \* the applications whose cache is younger than status_timeout
  seen,        \* the PREEMPTED events that have reached the lease's application
  pc,          \* where a session's thread is
  resp,        \* the EM's answer to the session's outstanding call
  offer,       \* the lease id in a positive answer to a claim
  leaseId,     \* Session.lease_id (kept after the scope is left)
  entered,     \* the sessions whose _entered is set
  bound,       \* ActionProviderClient._lease_id of the session's own client
  stack,       \* Robot._control_stack
  lateClaim,   \* sessions with a timed-out claim the EM has yet to process
  failed,      \* the sessions whose last __enter__ or __exit__ raised
  lost         \* history: leases given up on while an exception was raised

emVars      == <<em, granted, span, preempted>>
statusVars  == <<topic, unread, cache, fresh, seen>>
sessionVars == <<pc, resp, offer, leaseId, entered, bound, stack, failed>>
vars == <<emVars, statusVars, sessionVars, lateClaim, lost>>

-----------------------------------------------------------------------------
NoLease   == 0
Lease     == 1..MaxLease
LeaseOrNone == Lease \cup {NoLease}
AuthState == {"UNOWNED", "TRANSITIONING", "OWNED"}
Cell      == [st : AuthState, lease : LeaseOrNone]
Table     == [Resource -> Cell]
Free      == [st |-> "UNOWNED", lease |-> NoLease]

PC == {"idle", "claiming", "acquiring", "running", "aborting", "exiting",
       "wedged"}
Inside == {"acquiring", "running", "aborting", "exiting"}

\* Lease l appears in authority table T.
Shows(T, l) == \E r \in Resource : T[r].lease = l
Held(l) == l # NoLease /\ Shows(em, l)

\* Mutant of Allocations: the age of the cached table is not looked at.
AllocationsOfAnyAge(a) == cache[a]

\* get_allocations(): the cached table, or nothing once it has expired.
Allocations(a) == IF a \in fresh THEN cache[a]
                                 ELSE [r \in Resource |-> Free]

\* Mutant of Owns: the state is looked at without the lease id.
OwnsUnderAnyLease(s, r) == Allocations(AppOf[s])[r].st = "OWNED"

\* Session._owns and Session.active.
Owns(s, r) ==
  LET cell == Allocations(AppOf[s])[r]
  IN  cell.st = "OWNED" /\ cell.lease = leaseId[s]
Active(s) == /\ s \in entered
             /\ leaseId[s] # NoLease
             /\ \A r \in Parts[s] : Owns(s, r)
ActiveFor(s, r) == /\ r \in Parts[s]
                   /\ s \in entered
                   /\ leaseId[s] # NoLease
                   /\ Owns(s, r)

\* Session._is_explicitly_displaced: some part is shown under another lease, or
\* the event log holds a PREEMPTED event for this one.
Replaced(s) ==
  \E r \in Parts[s] :
    Allocations(AppOf[s])[r].lease \notin {NoLease, leaseId[s]}
\* Mutant of Displaced: a part that is not shown as owned counts as taken away.
DisplacedWhenNotSeen(s) == \/ leaseId[s] = NoLease
                           \/ \E r \in Parts[s] : ~Owns(s, r)
                           \/ leaseId[s] \in seen

Displaced(s) == \/ leaseId[s] = NoLease
                \/ Replaced(s)
                \/ leaseId[s] \in seen

TypeOK ==
  /\ em \in Table
  /\ granted \in 0..MaxLease
  /\ span \in [Lease -> SUBSET Resource]
  /\ preempted \in SUBSET Lease
  /\ topic \in Table
  /\ unread \in SUBSET App
  /\ cache \in [App -> Table]
  /\ fresh \in SUBSET App
  /\ seen \in SUBSET Lease
  /\ pc \in [Session -> PC]
  /\ resp \in [Session -> {"none", "granted", "refused", "released"}]
  /\ offer \in [Session -> LeaseOrNone]
  /\ leaseId \in [Session -> LeaseOrNone]
  /\ entered \in SUBSET Session
  /\ bound \in [Session -> LeaseOrNone]
  /\ stack \in [App -> Seq(Session)]
  /\ lateClaim \in SUBSET Session
  /\ failed \in SUBSET Session
  /\ lost \in SUBSET LeaseOrNone

Init ==
  /\ em = [r \in Resource |-> Free]
  /\ granted = 0
  /\ span = [l \in Lease |-> {}]
  /\ preempted = {}
  /\ topic = em
  /\ unread = {}
  /\ cache = [a \in App |-> em]
  /\ fresh = {}
  /\ seen = {}
  /\ pc = [s \in Session |-> "idle"]
  /\ resp = [s \in Session |-> "none"]
  /\ offer = [s \in Session |-> NoLease]
  /\ leaseId = [s \in Session |-> NoLease]
  /\ entered = {}
  /\ bound = [s \in Session |-> NoLease]
  /\ stack = [a \in App |-> <<>>]
  /\ lateClaim = {}
  /\ failed = {}
  /\ lost = {}

-----------------------------------------------------------------------------
(* The Execution Manager (external).                                       *)

Busy(s) == \E r \in Parts[s] : em[r].lease # NoLease

\* A grant takes all the requested resources under a fresh lease.  A lease it
\* overlaps is displaced from every resource it covers, and reported.
EmGrant(s) ==
  LET l       == granted + 1
      victims == {em[r].lease : r \in Parts[s]} \ {NoLease}
  IN  /\ granted < MaxLease
      /\ s \in Preempt \/ ~Busy(s)
      /\ em' = [r \in Resource |->
                  IF r \in Parts[s] THEN [st |-> "TRANSITIONING", lease |-> l]
                  ELSE IF em[r].lease \in victims THEN Free ELSE em[r]]
      /\ granted' = l
      /\ span' = [span EXCEPT ![l] = Parts[s]]
      /\ preempted' = preempted \cup victims

\* The EM answers a claim: it grants it, or refuses it (resources busy or in
\* fault without preempt, an unknown contract, no lease left).
EmClaimGranted(s) ==
  /\ pc[s] = "claiming" /\ resp[s] = "none"
  /\ EmGrant(s)
  /\ resp' = [resp EXCEPT ![s] = "granted"]
  /\ offer' = [offer EXCEPT ![s] = granted + 1]
  /\ UNCHANGED <<pc, leaseId, entered, bound, stack, failed, statusVars,
                 lateClaim, lost>>

EmClaimRefused(s) ==
  /\ pc[s] = "claiming" /\ resp[s] = "none"
  /\ resp' = [resp EXCEPT ![s] = "refused"]
  /\ UNCHANGED <<emVars, pc, offer, leaseId, entered, bound, stack, failed,
                 statusVars, lateClaim, lost>>

\* A claim whose caller has timed out reaches the EM all the same: the grant
\* belongs to nobody.
EmLateClaim(s) ==
  /\ s \in lateClaim
  /\ lateClaim' = lateClaim \ {s}
  /\ EmGrant(s)
  /\ lost' = lost \cup {granted + 1}
  /\ UNCHANGED <<sessionVars, statusVars>>

\* A release by exact lease id; for a lease that is not current it succeeds and
\* disturbs nobody.
Freed(l) == [r \in Resource |-> IF em[r].lease = l THEN Free ELSE em[r]]

EmRelease(s) ==
  /\ pc[s] \in {"aborting", "exiting"} /\ resp[s] = "none"
  /\ em' = Freed(leaseId[s])
  /\ resp' = [resp EXCEPT ![s] = "released"]
  /\ UNCHANGED <<granted, span, preempted, pc, offer, leaseId, entered, bound,
                 stack, failed, statusVars, lateClaim, lost>>

\* The controllers of a resource have been switched to its new lease.
EmOwn(r) ==
  /\ em[r].st = "TRANSITIONING"
  /\ em' = [em EXCEPT ![r] = [st |-> "OWNED", lease |-> em[r].lease]]
  /\ UNCHANGED <<granted, span, preempted, sessionVars, statusVars, lateClaim,
                 lost>>

\* A failed controller switch or an RT fault ends the whole lease.  That the
\* resource then refuses claims without preempt is among the refusals above.
EmFault(l) ==
  /\ Held(l)
  /\ em' = Freed(l)
  /\ UNCHANGED <<granted, span, preempted, sessionVars, statusVars, lateClaim,
                 lost>>

-----------------------------------------------------------------------------
(* Status and events, as rclpy delivers them to the client's callbacks.    *)

EmPublish ==
  /\ topic' = em
  /\ unread' = App
  /\ UNCHANGED <<emVars, cache, fresh, seen, sessionVars, lateClaim, lost>>

\* _on_status replaces the table and restarts the freshness clock.
OnStatus(a) ==
  /\ a \in unread
  /\ unread' = unread \ {a}
  /\ cache' = [cache EXCEPT ![a] = topic]
  /\ fresh' = fresh \cup {a}
  /\ UNCHANGED <<emVars, topic, seen, sessionVars, lateClaim, lost>>

\* status_timeout_sec passes without a status message.
StatusExpires(a) ==
  /\ a \in fresh
  /\ fresh' = fresh \ {a}
  /\ UNCHANGED <<emVars, topic, unread, cache, seen, sessionVars, lateClaim,
                 lost>>

\* _on_event appends to the event log; an event may arrive late, or never.
\* Only the session that holds lease l asks for its events.
OnEvent(l) ==
  /\ l \in preempted \ seen
  /\ seen' = seen \cup {l}
  /\ UNCHANGED <<emVars, topic, unread, cache, fresh, sessionVars, lateClaim,
                 lost>>

-----------------------------------------------------------------------------
(* Session.__enter__                                                       *)

\* An entered session raises instead; otherwise the claim is sent.
CallClaim(s) ==
  /\ pc[s] = "idle" /\ s \notin entered
  /\ pc' = [pc EXCEPT ![s] = "claiming"]
  /\ failed' = failed \ {s}
  /\ UNCHANGED <<emVars, statusVars, resp, offer, leaseId, entered, bound,
                 stack, lateClaim, lost>>

\* Mutant of ClaimReturns: the lease id is pushed where the session belongs.
ClaimReturnsPushingLease(s) ==
  /\ pc[s] = "claiming" /\ resp[s] = "granted"
  /\ leaseId' = [leaseId EXCEPT ![s] = offer[s]]
  /\ bound' = [bound EXCEPT ![s] = offer[s]]
  /\ entered' = entered \cup {s}
  /\ stack' = [stack EXCEPT ![AppOf[s]] = Append(@, offer[s])]
  /\ pc' = [pc EXCEPT ![s] = "acquiring"]
  /\ resp' = [resp EXCEPT ![s] = "none"]
  /\ offer' = [offer EXCEPT ![s] = NoLease]
  /\ UNCHANGED <<emVars, statusVars, lateClaim, failed, lost>>

\* The grant arrives: adopt the lease, bind the command client, push the scope.
ClaimReturns(s) ==
  /\ pc[s] = "claiming" /\ resp[s] = "granted"
  /\ leaseId' = [leaseId EXCEPT ![s] = offer[s]]
  /\ bound' = [bound EXCEPT ![s] = offer[s]]
  /\ entered' = entered \cup {s}
  /\ stack' = [stack EXCEPT ![AppOf[s]] = Append(@, s)]
  /\ pc' = [pc EXCEPT ![s] = "acquiring"]
  /\ resp' = [resp EXCEPT ![s] = "none"]
  /\ offer' = [offer EXCEPT ![s] = NoLease]
  /\ UNCHANGED <<emVars, statusVars, lateClaim, failed, lost>>

\* claim() raises: __enter__ ends before anything was bound or pushed.
ClaimRaises(s) ==
  /\ pc[s] = "claiming"
  /\ pc' = [pc EXCEPT ![s] = "idle"]
  /\ resp' = [resp EXCEPT ![s] = "none"]
  /\ offer' = [offer EXCEPT ![s] = NoLease]
  /\ failed' = failed \cup {s}
  /\ UNCHANGED <<emVars, statusVars, leaseId, entered, bound, stack>>

\* The EM refused, or could not be reached at all.
ClaimRefused(s) ==
  /\ resp[s] = "refused"
  /\ ClaimRaises(s)
  /\ UNCHANGED <<lateClaim, lost>>

\* The grant names other endpoints than were asked for: the lease id it holds
\* is dropped with it.
ClaimIncomplete(s) ==
  /\ resp[s] = "granted"
  /\ ClaimRaises(s)
  /\ lost' = lost \cup {offer[s]}
  /\ UNCHANGED lateClaim

\* timeout_sec passes (or the operator interrupts): the future is cancelled, but
\* the EM may have granted the claim already, or may still grant it.
ClaimTimesOut(s) ==
  /\ resp[s] \in {"none", "granted"}
  /\ ClaimRaises(s)
  /\ IF resp[s] = "none"
     THEN /\ lateClaim' = lateClaim \cup {s}
          /\ UNCHANGED lost
     ELSE /\ lost' = lost \cup {offer[s]}
          /\ UNCHANGED lateClaim

\* The polling loop sees every part OWNED under the lease: __enter__ returns.
Confirm(s) ==
  /\ pc[s] = "acquiring" /\ Active(s)
  /\ pc' = [pc EXCEPT ![s] = "running"]
  /\ UNCHANGED <<emVars, statusVars, resp, offer, leaseId, entered, bound,
                 stack, failed, lateClaim, lost>>

\* acquire_timeout passes first: the lease is released before __enter__ raises.
AcquireTimesOut(s) ==
  /\ pc[s] = "acquiring" /\ ~Active(s)
  /\ pc' = [pc EXCEPT ![s] = "aborting"]
  /\ UNCHANGED <<emVars, statusVars, resp, offer, leaseId, entered, bound,
                 stack, failed, lateClaim, lost>>

\* Ctrl+C in the polling loop: no handler, and __exit__ is not called because
\* __enter__ did not return.  The scope stays entered, bound and pushed.
Interrupt(s) ==
  /\ pc[s] = "acquiring"
  /\ pc' = [pc EXCEPT ![s] = "wedged"]
  /\ failed' = failed \cup {s}
  /\ lost' = lost \cup {leaseId[s]}
  /\ UNCHANGED <<emVars, statusVars, resp, offer, leaseId, entered, bound,
                 stack, lateClaim>>

-----------------------------------------------------------------------------
(* Session.__exit__, and the cleanup of a failed __enter__                 *)

Innermost(s) == LET st == stack[AppOf[s]]
                IN  st # <<>> /\ st[Len(st)] = s

\* Mutant of Leave: the scope is left without popping the control stack.
LeaveWithoutPop(s, raised) ==
  /\ bound' = [bound EXCEPT ![s] = NoLease]
  /\ resp' = [resp EXCEPT ![s] = "none"]
  /\ entered' = entered \ {s}
  /\ pc' = [pc EXCEPT ![s] = "idle"]
  /\ failed' = IF raised THEN failed \cup {s} ELSE failed \ {s}
  /\ UNCHANGED <<offer, leaseId, stack>>

\* The finally block: unbind, pop, clear _entered.  _pop_control raises for a
\* scope that is not the innermost one, and then _entered is never cleared.
Leave(s, raised) ==
  /\ bound' = [bound EXCEPT ![s] = NoLease]
  /\ resp' = [resp EXCEPT ![s] = "none"]
  /\ \/ /\ Innermost(s)
        /\ stack' = [stack EXCEPT ![AppOf[s]] = SubSeq(@, 1, Len(@) - 1)]
        /\ entered' = entered \ {s}
        /\ pc' = [pc EXCEPT ![s] = "idle"]
        /\ failed' = IF raised THEN failed \cup {s} ELSE failed \ {s}
     \/ /\ ~Innermost(s)
        /\ pc' = [pc EXCEPT ![s] = "wedged"]
        /\ failed' = failed \cup {s}
        /\ UNCHANGED <<stack, entered>>
  /\ UNCHANGED <<offer, leaseId>>

\* A displaced scope has nothing to give back.
ExitDisplaced(s) ==
  /\ pc[s] = "running" /\ Displaced(s)
  /\ Leave(s, FALSE)
  /\ UNCHANGED <<emVars, statusVars, lateClaim, lost>>

\* Otherwise, also when the status is missing or stale, release by lease id.
ExitReleases(s) ==
  /\ pc[s] = "running" /\ ~Displaced(s)
  /\ pc' = [pc EXCEPT ![s] = "exiting"]
  /\ UNCHANGED <<emVars, statusVars, resp, offer, leaseId, entered, bound,
                 stack, failed, lateClaim, lost>>

ReleaseReturns(s) ==
  /\ pc[s] \in {"aborting", "exiting"} /\ resp[s] = "released"
  /\ Leave(s, pc[s] = "aborting")
  /\ UNCHANGED <<emVars, statusVars, lateClaim, lost>>

\* The release service is unavailable, answers with a failure, or does not
\* answer in time.  The caller gets the error, the TimeoutError of __enter__, or
\* the body's own exception.  (A request that reaches the EM after the timeout
\* ends the lease at any later moment, as EmFault does.)
ReleaseFails(s) ==
  /\ pc[s] \in {"aborting", "exiting"}
  /\ Leave(s, TRUE)
  /\ lost' = lost \cup {leaseId[s]}
  /\ UNCHANGED <<emVars, statusVars, lateClaim>>

-----------------------------------------------------------------------------
EmNext ==
  \/ \E s \in Session : EmClaimGranted(s) \/ EmClaimRefused(s) \/ EmLateClaim(s)
                        \/ EmRelease(s)
  \/ \E l \in Lease : EmFault(l)
  \/ \E r \in Resource : EmOwn(r)
  \/ EmPublish

StatusNext ==
  \/ \E a \in App : OnStatus(a) \/ StatusExpires(a)
  \/ \E l \in Lease : OnEvent(l)

SessionNext ==
  \E s \in Session :
    \/ CallClaim(s) \/ ClaimReturns(s) \/ ClaimRefused(s) \/ ClaimIncomplete(s)
    \/ ClaimTimesOut(s) \/ Confirm(s) \/ AcquireTimesOut(s) \/ Interrupt(s)
    \/ ExitDisplaced(s) \/ ExitReleases(s) \/ ReleaseReturns(s)
    \/ ReleaseFails(s)

Next == EmNext \/ StatusNext \/ SessionNext

Spec == Init /\ [][Next]_vars

-----------------------------------------------------------------------------
(* What the protocol promises.                                             *)

\* Session.__exit__ skips the release when it finds itself displaced
\* (session.py:159): then the EM really has taken the lease away.
DisplacedMeansGone ==
  \A s \in Session : pc[s] = "running" /\ Displaced(s) => ~Held(leaseId[s])

\* The EM never holds a lease that nobody answers for: it is on its way to its
\* session, or a live scope owns it, or giving it up raised an exception.  So a
\* scope left without an error leaves no authority behind.
NoSilentLeak ==
  \A l \in Lease : Held(l) =>
    \/ l \in lost
    \/ \E s \in Session : \/ pc[s] = "claiming" /\ offer[s] = l
                          \/ pc[s] \in Inside /\ leaseId[s] = l

\* Two scopes of one application never both believe that they command the same
\* resource, however stale their shared cache is.
ExclusiveBelief ==
  \A s, t \in Session : \A r \in Resource :
    (AppOf[s] = AppOf[t] /\ ActiveFor(s, r) /\ ActiveFor(t, r)) => s = t

\* Every path out of a scope keeps the control stack and the sessions' _entered
\* flags in step, so Robot._control_for routes to entered scopes only, and
\* finds each of them once.
StackSound(a) ==
  /\ \A s \in Session :
       AppOf[s] = a => (s \in entered <=> \E i \in 1..Len(stack[a]) : stack[a][i] = s)
  /\ \A i, j \in 1..Len(stack[a]) : stack[a][i] = stack[a][j] => i = j
  /\ \A i \in 1..Len(stack[a]) : AppOf[stack[a][i]] = a
ControlStackSound == \A a \in App : StackSound(a)

\* Once the status has named another lease on one of its parts, a running scope
\* is never active again under its lease, however old the status messages are
\* that still arrive or expire: act() cannot resume after a displacement.
ReplacedIsFinal ==
  \A s \in Session, l \in Lease :
    []((pc[s] = "running" /\ leaseId[s] = l /\ Replaced(s)) =>
         [](leaseId[s] = l => ~Active(s)))

-----------------------------------------------------------------------------
(* The protocol implements ControlScope.                                   *)

ScopeOf(s) ==
  IF pc[s] = "wedged" \/ (pc[s] = "idle" /\ s \in failed) THEN "failed"
  ELSE IF pc[s] = "idle" THEN "outside"
  ELSE IF pc[s] = "claiming" /\ resp[s] # "granted" THEN "entering"
  ELSE IF pc[s] \in {"running", "exiting"} THEN "inside"
  ELSE "granted"

HoldsNow(s) ==
  /\ ScopeOf(s) \in {"granted", "inside", "outside"}
  /\ Held(IF pc[s] = "claiming" THEN offer[s] ELSE leaseId[s])

Scope == INSTANCE ControlScope
           WITH scope <- [s \in Session |-> ScopeOf(s)],
                holds <- [s \in Session |-> HoldsNow(s)]

\* To its application a session is a ControlScope, whatever the EM, the status
\* channel and the timeouts do in between.
ImplementsScope == Scope!Spec

-----------------------------------------------------------------------------
(* Liveness.                                                               *)

\* The executor keeps spinning and the clock keeps running: a cached table is
\* replaced by a newer one, or it expires.  Nothing is asked of the EM.
StatusTick(a) == OnStatus(a) \/ StatusExpires(a)
FairSpec == Spec /\ \A a \in App : WF_vars(StatusTick(a))

\* A scope whose lease is gone stops being active, even if the EM dies without
\* another word: act() drops its commands from then on.
BeliefEnds ==
  \A s \in Session :
    (pc[s] = "running" /\ ~Held(leaseId[s])) ~> ~Active(s)

-----------------------------------------------------------------------------
(* Why it holds: the inductive strengthening of the safety properties.     *)

\* No lease id is in use before the EM has granted it, and a preempted lease is
\* not current any more.
GrantedOnly ==
  /\ \A r \in Resource : /\ em[r].lease <= granted
                         /\ topic[r].lease <= granted
                         /\ \A a \in App : cache[a][r].lease <= granted
  /\ \A s \in Session : offer[s] <= granted /\ leaseId[s] <= granted
  /\ \A l \in preempted : l <= granted /\ ~Shows(em, l)
  /\ seen \subseteq preempted

\* A table that shows a lease shows it on every resource it was granted for.
Whole(T, l) == Shows(T, l) => \A r \in span[l] : T[r].lease = l
WholeLeases ==
  \A l \in Lease : /\ Whole(em, l)
                   /\ Whole(topic, l)
                   /\ \A a \in App : Whole(cache[a], l)

\* The session's own fields agree with where its thread is.
SessionFields ==
  \A s \in Session :
    /\ offer[s] # NoLease <=> (pc[s] = "claiming" /\ resp[s] = "granted")
    /\ offer[s] # NoLease => span[offer[s]] = Parts[s]
    /\ leaseId[s] # NoLease => span[leaseId[s]] = Parts[s]
    /\ s \in entered <=> pc[s] \in Inside \cup {"wedged"}
    /\ s \in entered => leaseId[s] # NoLease
    /\ pc[s] \in Inside => bound[s] = leaseId[s]
    /\ pc[s] \in {"idle", "claiming"} => bound[s] = NoLease
    /\ pc[s] \in {"idle", "acquiring", "running", "wedged"} => resp[s] = "none"
    /\ resp[s] = "released" => /\ pc[s] \in {"aborting", "exiting"}
                               /\ ~Shows(em, leaseId[s])

\* A lease id belongs to one session.
OneOwner ==
  \A s, t \in Session :
    /\ leaseId[s] # NoLease /\ leaseId[s] = leaseId[t] => s = t
    /\ offer[s] # NoLease /\ offer[s] = offer[t] => s = t
    /\ offer[s] # NoLease => leaseId[t] # offer[s]

\* EM, status message and cache are three moments of one history: for a lease
\* that was seen in the later of two places, missing there means gone for good.
InOrder ==
  /\ \A l \in Lease, a \in App :
       Shows(cache[a], l) /\ ~Shows(topic, l) => ~Shows(em, l)
  /\ \A s \in Session : pc[s] = "running" =>
       /\ ~Shows(cache[AppOf[s]], leaseId[s]) => ~Shows(topic, leaseId[s])
       /\ ~Shows(topic, leaseId[s]) => ~Shows(em, leaseId[s])

IInv == /\ TypeOK
        /\ GrantedOnly
        /\ WholeLeases
        /\ SessionFields
        /\ OneOwner
        /\ InOrder
        /\ NoSilentLeak
        /\ ControlStackSound

\* What the step to ControlScope needs besides: a lease is shown on nothing but
\* what it was granted for, and a scope left without an exception has lost its
\* lease for good.
WithinSpan ==
  \A r \in Resource : em[r].lease # NoLease => r \in span[em[r].lease]
LeftEmpty ==
  \A s \in Session : pc[s] = "idle" /\ s \notin failed => ~Held(leaseId[s])

RefinementInv == IInv /\ WithinSpan /\ LeftEmpty
=============================================================================
