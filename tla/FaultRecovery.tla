--------------------------- MODULE FaultRecovery ---------------------------
(***************************************************************************)
(* Fault recovery at application start: Context.prepare_execution and      *)
(* ExecutionManagerClient.clear_fault, run by several applications that    *)
(* come up after a fault.  Each one decides on its own cached authority    *)
(* status; the Execution Manager (environment) serves claims and releases  *)
(* when it gets to them, also those whose caller has given up.             *)
(***************************************************************************)
EXTENDS Naturals, Sequences

CONSTANTS
  App,        \* applications
  Resource,   \* the resources of the profile's agents
  MaxTry      \* bound: how often an application tries to start

Session(a) == <<"session", a>>      \* owners, as the status names them
Recovery(a, n) == <<"recovery", a, n>>  \* rmi_clear_fault, of a's n-th try
Recoveries(a) == {Recovery(a, n) : n \in 1..MaxTry}
Owner == {Session(a) : a \in App} \cup UNION {Recoveries(a) : a \in App}
Free == <<"free">>
Fault == <<"fault">>
Unknown == <<"unknown">>            \* no status yet, or it has gone stale

VARIABLES
  auth,       \* auth[r]: the authority state and owner kept by the manager
  cache,      \* cache[a][r]: what a's last status said
  rpc,        \* rpc[a]: how far a's prepare_execution is
  faulted,    \* faulted[a]: resources that a's prepare_execution found in FAULT
  asked,      \* asked[a]: claims of a not yet served, [try, targets], in order
  answer,     \* answer[a]: none, granted or refused, for the present try
  gaveUp,     \* the tries whose claim or release raised, as <<a, try, call>>
  since,      \* since[a]: resources a session took since the status a acts on
  tries

recoveryVars ==
  <<auth, cache, rpc, faulted, asked, answer, gaveUp, since,
    tries>>

TypeOK ==
  /\ auth \in [Resource -> Owner \cup {Free, Fault}]
  /\ cache \in [App -> [Resource -> Owner \cup {Free, Fault, Unknown}]]
  /\ rpc \in [App -> {"start", "faulted", "claim", "release", "poll",
                      "prepared", "raised"}]
  /\ faulted \in [App -> SUBSET Resource]
  /\ asked \in [App -> Seq([try : 1..MaxTry, targets : SUBSET Resource])]
  /\ answer \in [App -> {"none", "granted", "refused"}]
  /\ gaveUp \in SUBSET (App \X (1..MaxTry) \X {"claim", "release"})
  /\ since \in [App -> SUBSET Resource]
  /\ tries \in [App -> 1..MaxTry]

Init ==
  /\ auth = [r \in Resource |-> Fault]
  /\ cache = [a \in App |-> [r \in Resource |-> Unknown]]
  /\ rpc = [a \in App |-> "start"]
  /\ faulted = [a \in App |-> {}]
  /\ asked = [a \in App |-> <<>>]
  /\ answer = [a \in App |-> "none"]
  /\ gaveUp = {}
  /\ since = [a \in App |-> {}]
  /\ tries = [a \in App |-> 1]

-----------------------------------------------------------------------------
Go(a, to) == rpc' = [rpc EXCEPT ![a] = to]

\* The manager's service cannot be reached: wait_until_ready() raises.
Unavailable(a) ==
  /\ rpc[a] \in {"start", "faulted"}
  /\ Go(a, "raised")
  /\ UNCHANGED <<auth, cache, faulted, asked, answer, gaveUp, since,
                 tries>>

\* Mutant of LooksFaulty: whatever is not free is taken for faulty.
LooksTaken(a) == {r \in Resource : cache[a][r] \notin {Free, Unknown}}

\* authority_snapshot(), reduced to the resources in FAULT.
LooksFaulty(a) == {r \in Resource : cache[a][r] = Fault}

\* prepare_execution() has a snapshot, or its deadline passed without one:
\* with nothing in FAULT there, the application is prepared.
Describe(a) ==
  /\ rpc[a] = "start"
  /\ faulted' = [faulted EXCEPT ![a] = LooksFaulty(a)]
  /\ Go(a, IF LooksFaulty(a) = {} THEN "prepared" ELSE "faulted")
  /\ UNCHANGED <<auth, cache, asked, answer, gaveUp, since,
                 tries>>

\* clear_fault() looks again, unless its status has gone stale meanwhile, and
\* claims what is in FAULT, with preempt.
Filter(a) ==
  /\ rpc[a] = "faulted"
  /\ faulted' = [faulted EXCEPT ![a] = {}]
  /\ \E still \in {{}, faulted[a] \cap LooksFaulty(a)} :
       /\ asked' = [asked EXCEPT ![a] =
                      IF still = {} THEN @
                      ELSE Append(@, [try |-> tries[a], targets |-> still])]
       /\ Go(a, IF still = {} THEN "prepared" ELSE "claim")
  /\ answer' = [answer EXCEPT ![a] = "none"]
  /\ UNCHANGED <<auth, cache, gaveUp, since, tries>>

\* Environment: the manager serves a claim of a; with preempt it takes the
\* resources whoever has them.  Or it refuses.
ServeClaim(a) ==
  /\ asked[a] # <<>>
  /\ LET claim == Head(asked[a])
         Answer(x) == answer' = [answer EXCEPT ![a] =
                                   IF claim.try = tries[a] /\ rpc[a] = "claim"
                                     THEN x ELSE @]
     IN \/ /\ auth' = [r \in Resource |-> IF r \in claim.targets
                                         THEN Recovery(a, claim.try)
                                         ELSE auth[r]]
           /\ Answer("granted")
        \/ Answer("refused") /\ UNCHANGED auth
  /\ asked' = [asked EXCEPT ![a] = Tail(@)]
  /\ UNCHANGED <<cache, rpc, faulted, gaveUp, since, tries>>

\* claim() or release() raises and wait_until_ready() with it: nobody knows what
\* became of the call.
Raises(a, call) ==
  /\ gaveUp' = gaveUp \cup {<<a, tries[a], call>>}
  /\ Go(a, "raised")

\* claim() returns the grant, or raises: when it was refused, and when the grant
\* names other endpoints than were asked for; the lease id it holds is dropped.
ClaimReturns(a) ==
  /\ rpc[a] = "claim" /\ answer[a] # "none"
  /\ \/ answer[a] = "granted" /\ Go(a, "release") /\ UNCHANGED gaveUp
     \/ answer[a] = "granted" /\ Raises(a, "claim")
     \/ answer[a] = "refused" /\ Go(a, "raised") /\ UNCHANGED gaveUp
  /\ answer' = [answer EXCEPT ![a] = "none"]
  /\ UNCHANGED <<auth, cache, faulted, asked, since, tries>>

\* claim() or release() times out, or Ctrl+C ends the wait; the release service
\* is unavailable or answers with a failure; Ctrl+C comes between the two calls.
GivesUp(a) ==
  /\ \E call \in {"claim", "release"} : rpc[a] = call /\ Raises(a, call)
  /\ answer' = [answer EXCEPT ![a] = "none"]
  /\ UNCHANGED <<auth, cache, faulted, asked, since, tries>>

\* Mutant of Release: the grant is dropped without its release.
ReleaseForgotten(a) ==
  /\ rpc[a] = "release"
  /\ Go(a, "poll")
  /\ UNCHANGED <<auth, since, cache, faulted, asked, answer, gaveUp,
                 tries>>

FreedBy(owner) ==
  auth' = [r \in Resource |-> IF auth[r] = owner THEN Free ELSE auth[r]]

\* release(grant) is served: what this lease still holds is free for all.
Release(a) ==
  /\ rpc[a] = "release"
  /\ FreedBy(Recovery(a, tries[a]))
  /\ Go(a, "poll")
  /\ UNCHANGED <<cache, faulted, asked, answer, gaveUp, since,
                 tries>>

\* Environment: a release whose caller has given up is carried out all the same.
ReleaseLate(a, n) ==
  /\ <<a, n, "release">> \in gaveUp
  /\ FreedBy(Recovery(a, n)) /\ auth' # auth
  /\ UNCHANGED <<cache, rpc, faulted, asked, answer, gaveUp, since,
                 tries>>

\* The status shows neither FAULT nor the own recovery lease on a target, or
\* the time for that is up: clear_fault() returns either way, or Ctrl+C ends it.
PollEnds(a) ==
  /\ rpc[a] = "poll"
  /\ Go(a, "prepared") \/ Go(a, "raised")
  /\ UNCHANGED <<auth, cache, faulted, asked, answer, gaveUp, since,
                 tries>>

\* The operator starts the application again: it knows no status yet.
Restart(a) ==
  /\ rpc[a] = "raised" /\ tries[a] < MaxTry
  /\ tries' = [tries EXCEPT ![a] = @ + 1]
  /\ cache' = [cache EXCEPT ![a] = [r \in Resource |-> Unknown]]
  /\ Go(a, "start")
  /\ UNCHANGED <<auth, faulted, asked, answer, gaveUp, since>>

\* A prepared application takes a resource for a session: a free one, or with
\* preempt=True whatever its state is, FAULT too.
TakeForSession(a, r) ==
  /\ rpc[a] = "prepared" /\ auth[r] # Session(a)
  /\ auth' = [auth EXCEPT ![r] = Session(a)]
  /\ since' = [b \in App |-> since[b] \cup {r}]
  /\ UNCHANGED <<cache, rpc, faulted, asked, answer, gaveUp, tries>>

\* The session ends.
LeaveSession(a, r) ==
  /\ auth[r] = Session(a)
  /\ auth' = [auth EXCEPT ![r] = Free]
  /\ UNCHANGED <<cache, rpc, faulted, asked, answer, gaveUp, since,
                 tries>>

\* Environment: the controller of a lease fails.
FaultOccurs(r) ==
  /\ auth[r] \notin {Free, Fault}
  /\ auth' = [auth EXCEPT ![r] = Fault]
  /\ UNCHANGED <<cache, rpc, faulted, asked, answer, gaveUp, since,
                 tries>>

\* A status message reaches a.  While a claim of a is under way, what the
\* claim acts on is the status before.
StatusArrives(a) ==
  /\ cache[a] # auth \/ since[a] # {}
  /\ cache' = [cache EXCEPT ![a] = auth]
  /\ since' = [since EXCEPT ![a] = IF asked[a] = <<>> THEN {} ELSE @]
  /\ UNCHANGED <<auth, rpc, faulted, asked, answer, gaveUp,
                 tries>>

Next ==
  \/ \E a \in App :
       \/ Unavailable(a) \/ Describe(a) \/ Filter(a) \/ ServeClaim(a)
       \/ ClaimReturns(a) \/ GivesUp(a) \/ Release(a) \/ PollEnds(a) \/ Restart(a)
       \/ StatusArrives(a)
       \/ \E n \in 1..MaxTry : ReleaseLate(a, n)
       \/ \E r \in Resource : TakeForSession(a, r) \/ LeaveSession(a, r)
  \/ \E r \in Resource : FaultOccurs(r)

Spec == Init /\ [][Next]_recoveryVars

-----------------------------------------------------------------------------
\* A recovery acts on a FAULT that its status has shown: it takes a resource
\* out of a session only when that session, or one before it, took the resource
\* after the status that the recovery's outstanding claims act on.  (That it can
\* happen at all is MCFaultRecovery's OwnedIsNeverTaken.)
OwnedIsLeftAlone ==
  [][\A a, b \in App, r \in Resource :
       auth[r] = Session(b) /\ auth'[r] \in Recoveries(a) => r \in since[a]]_recoveryVars

\* A recovery lease is not left behind silently: it belongs to a recovery under
\* way, or its claim or its release raised, on the try that made it.
NoRecoveryLeaseLeft ==
  \A a \in App, n \in 1..MaxTry, r \in Resource :
    auth[r] = Recovery(a, n) =>
      \/ n = tries[a] /\ rpc[a] \in {"claim", "release"}
      \/ \E call \in {"claim", "release"} : <<a, n, call>> \in gaveUp
=============================================================================
