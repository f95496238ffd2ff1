--------------------------- MODULE CommandClient ---------------------------
(***************************************************************************)
(* One command client (rmi/provider.py, ActionProviderClient) between its  *)
(* two threads: the main thread, which enters and leaves the session that  *)
(* binds the client to a lease, and the executor, in which the relay       *)
(* callback of apps/teleop.py and apps/record.py sends commands through    *)
(* the session while it is open.                                           *)
(*                                                                         *)
(* All callbacks of the node are in its default, mutually exclusive        *)
(* callback group (nobody in src/ names another one): while a relay        *)
(* callback runs, no status message, no event and no service answer is     *)
(* processed.  The client itself takes no lock: send() and unbind() may    *)
(* interleave between any two of their accesses to it.                     *)
(***************************************************************************)
EXTENDS Naturals, FiniteSets

CONSTANTS
  Key,       \* the (part, command) pairs the session's agent publishes
  MaxLease   \* bound: how many leases the EM grants

ASSUME ConstantAssumption ==
  IsFiniteSet(Key) /\ Key # {} /\ MaxLease \in Nat

VARIABLES
  \* The Execution Manager, and what the executor has delivered of it.
  current,     \* EM: the lease the session holds, or NoLease
  granted,     \* EM: the last lease id granted
  topic,       \* the latched status: the lease it shows on the session's parts
  preempted,   \* EM: the leases it reported as preempted
  call,        \* the service call of the main thread
  shown,       \* the status cache: the lease it shows on the session's parts
  events,      \* the PREEMPTED events received
  \* The session and its command client.
  main,        \* where the main thread is
  leaseId,     \* Session.lease_id
  entered,     \* Session._entered
  listening,   \* the application's callback can still reach the session
  exits,       \* history: the ways in which scopes were left
  lease,       \* ActionProviderClient._lease_id
  bindings,    \* ActionProviderClient._bindings, by key
  publishers,  \* ActionProviderClient._publishers: the state of each entry
  iterated,    \* the keys that unbind() found in _publishers when it began
  \* The callback that is running.
  relay,       \* where it is
  key,         \* the key it sends to
  admitted,    \* the lease the session owned when act() let the command pass
  stamped,     \* the lease id in the envelope
  pub,         \* the publisher it has looked up
  sent,        \* history: the envelopes published
  raised       \* history: a callback has raised an exception

emVars     == <<current, granted, topic, preempted>>
cacheVars  == <<shown, events>>
scopeVars  == <<main, leaseId, entered, listening, exits>>
clientVars == <<lease, bindings, publishers, iterated>>
relayVars  == <<relay, key, admitted, stamped, pub, sent, raised>>
vars == <<emVars, call, cacheVars, scopeVars, clientVars, relayVars>>

-----------------------------------------------------------------------------
NoLease == 0
Lease   == 1..MaxLease
LeaseOrNone == Lease \cup {NoLease}
Other   == MaxLease + 1   \* a lease of another client
PubState == {"none", "live", "destroyed"}
Envelope == [lease : LeaseOrNone, admitted : LeaseOrNone]

Main == {"outside", "claiming", "acquiring", "inside", "leaving", "releasing",
         "unbind", "destroying", "destroyed", "unleased", "unbound", "stuck"}
Relay == {"idle", "called", "admitted", "required", "stamped", "created",
          "ready"}

TypeOK ==
  /\ current \in LeaseOrNone
  /\ granted \in 0..MaxLease
  /\ topic \in LeaseOrNone \cup {Other}
  /\ preempted \in SUBSET Lease
  /\ call \in {"none", "asked", "done", "answered"}
  /\ shown \in LeaseOrNone \cup {Other}
  /\ events \in SUBSET Lease
  /\ main \in Main
  /\ leaseId \in LeaseOrNone
  /\ entered \in BOOLEAN
  /\ listening \in BOOLEAN
  /\ exits \in SUBSET {"released", "failed", "displaced"}
  /\ lease \in LeaseOrNone
  /\ bindings \in SUBSET Key
  /\ publishers \in [Key -> PubState]
  /\ iterated \in SUBSET Key
  /\ relay \in Relay
  /\ key \in Key
  /\ admitted \in LeaseOrNone
  /\ stamped \in LeaseOrNone
  /\ pub \in PubState
  /\ sent \in SUBSET Envelope
  /\ raised \in BOOLEAN

Init ==
  /\ current = NoLease /\ granted = 0 /\ topic = NoLease /\ preempted = {}
  /\ call = "none" /\ shown = NoLease /\ events = {}
  /\ main = "outside" /\ leaseId = NoLease /\ entered = FALSE
  /\ listening = FALSE /\ exits = {}
  /\ lease = NoLease /\ bindings = {}
  /\ publishers = [k \in Key |-> "none"] /\ iterated = {}
  /\ relay = "idle" /\ key \in Key /\ admitted = NoLease
  /\ stamped = NoLease /\ pub = "none"
  /\ sent = {} /\ raised = FALSE

-----------------------------------------------------------------------------
(* The Execution Manager (external); RmiSession has its full behaviour.     *)

EmGrant ==
  /\ main = "claiming" /\ call = "asked" /\ granted < MaxLease
  /\ granted' = granted + 1
  /\ current' = granted + 1
  /\ call' = "done"
  /\ UNCHANGED <<topic, preempted, cacheVars, scopeVars, clientVars, relayVars>>

EmRelease ==
  /\ main = "releasing" /\ call = "asked"
  /\ current' = NoLease
  /\ call' = "done"
  /\ UNCHANGED <<granted, topic, preempted, cacheVars, scopeVars, clientVars,
                 relayVars>>

EmPreempt ==
  /\ current # NoLease
  /\ preempted' = preempted \cup {current}
  /\ current' = NoLease
  /\ UNCHANGED <<granted, topic, call, cacheVars, scopeVars, clientVars,
                 relayVars>>

\* A fault ends the lease, or a release that nobody waits for any more arrives.
EmFault ==
  /\ current # NoLease
  /\ current' = NoLease
  /\ UNCHANGED <<granted, topic, preempted, call, cacheVars, scopeVars,
                 clientVars, relayVars>>

\* The status: the session's lease, or a free resource, or another's lease.
EmPublish ==
  /\ topic' \in IF current # NoLease THEN {current} ELSE {NoLease, Other}
  /\ UNCHANGED <<current, granted, preempted, call, cacheVars, scopeVars,
                 clientVars, relayVars>>

-----------------------------------------------------------------------------
(* The executor: one callback at a time.                                    *)

OnStatus ==
  /\ relay = "idle"
  /\ shown' = topic
  /\ UNCHANGED <<emVars, call, events, scopeVars, clientVars, relayVars>>

OnEvent ==
  /\ relay = "idle"
  /\ \E l \in preempted : events' = events \cup {l}
  /\ UNCHANGED <<emVars, call, shown, scopeVars, clientVars, relayVars>>

\* The answer of a service call is a callback like the others.
OnAnswer ==
  /\ relay = "idle" /\ call = "done"
  /\ call' = "answered"
  /\ UNCHANGED <<emVars, cacheVars, scopeVars, clientVars, relayVars>>

\* No callback: the cached table gets too old for get_allocations().
StatusExpires ==
  /\ shown' = NoLease
  /\ UNCHANGED <<emVars, call, events, scopeVars, clientVars, relayVars>>

-----------------------------------------------------------------------------
(* The main thread: Session.__enter__ and __exit__, bind() and unbind().    *)

CallClaim ==
  /\ main = "outside" /\ ~entered /\ granted < MaxLease
  /\ main' = "claiming" /\ call' = "asked"
  /\ UNCHANGED <<emVars, cacheVars, leaseId, entered, listening, exits,
                 clientVars, relayVars>>

\* Mutant of Bind: the session adopts the lease that the status shows.
BindShownLease ==
  /\ main = "claiming" /\ call = "answered" /\ lease = NoLease
  /\ leaseId' = shown
  /\ lease' = shown
  /\ bindings' = Key
  /\ entered' = TRUE
  /\ main' = "acquiring" /\ call' = "none"
  /\ UNCHANGED <<emVars, cacheVars, listening, exits, publishers, iterated,
                 relayVars>>

\* The grant: every requested endpoint is bound to its lease.
Bind ==
  /\ main = "claiming" /\ call = "answered" /\ lease = NoLease
  /\ leaseId' = granted
  /\ lease' = granted
  /\ bindings' = Key
  /\ entered' = TRUE
  /\ main' = "acquiring" /\ call' = "none"
  /\ UNCHANGED <<emVars, cacheVars, listening, exits, publishers, iterated,
                 relayVars>>

\* claim() raises: it was refused, timed out or was interrupted, and whatever the
\* EM has granted is nobody's.
ClaimRaises ==
  /\ main = "claiming"
  /\ main' = "outside" /\ call' = "none"
  /\ UNCHANGED <<emVars, cacheVars, leaseId, entered, listening, exits,
                 clientVars, relayVars>>

ActiveFor == entered /\ leaseId # NoLease /\ shown = leaseId

\* __enter__ returns, and the application makes the session known to its
\* callback.
Confirm ==
  /\ main = "acquiring" /\ ActiveFor
  /\ main' = "inside" /\ listening' = TRUE
  /\ UNCHANGED <<emVars, call, cacheVars, leaseId, entered, exits, clientVars,
                 relayVars>>

AcquireTimesOut ==
  /\ main = "acquiring" /\ ~ActiveFor
  /\ main' = "releasing" /\ call' = "asked"
  /\ UNCHANGED <<emVars, cacheVars, leaseId, entered, listening, exits,
                 clientVars, relayVars>>

\* sessions.clear() in teleop.py, destroy_subscription() in record.py: both
\* come before the session's own exit.  A callback that has started goes on.
StopListening ==
  /\ main = "inside"
  /\ main' = "leaving" /\ listening' = FALSE
  /\ UNCHANGED <<emVars, call, cacheVars, leaseId, entered, exits, clientVars,
                 relayVars>>

Displaced == shown \notin {NoLease, leaseId} \/ leaseId \in events

ExitDisplaced ==
  /\ main = "leaving" /\ Displaced
  /\ main' = "unbind" /\ exits' = exits \cup {"displaced"}
  /\ UNCHANGED <<emVars, call, cacheVars, leaseId, entered, listening,
                 clientVars, relayVars>>

\* Mutant of ExitReleases: the release is sent, its answer not waited for.
ExitWithoutWaiting ==
  /\ main = "leaving" /\ ~Displaced
  /\ main' = "unbind" /\ exits' = exits \cup {"released"}
  /\ UNCHANGED <<emVars, call, cacheVars, leaseId, entered, listening,
                 clientVars, relayVars>>

ExitReleases ==
  /\ main = "leaving" /\ ~Displaced
  /\ main' = "releasing" /\ call' = "asked"
  /\ UNCHANGED <<emVars, cacheVars, leaseId, entered, listening, exits,
                 clientVars, relayVars>>

ReleaseReturns ==
  /\ main = "releasing" /\ call = "answered"
  /\ main' = "unbind" /\ call' = "none"
  /\ exits' = exits \cup {"released"}
  /\ UNCHANGED <<emVars, cacheVars, leaseId, entered, listening, clientVars,
                 relayVars>>

\* The release is refused, times out, finds no service (at once, when Ctrl+C has
\* shut the ROS context down), or is cut short by Ctrl+C anywhere from the check
\* to the answer: the finally block unbinds, whatever the executor's threads are
\* still doing.
ReleaseFails ==
  /\ main \in {"leaving", "releasing"}
  /\ main' = "unbind" /\ call' = "none"
  /\ exits' = exits \cup {"failed"}
  /\ UNCHANGED <<emVars, cacheVars, leaseId, entered, listening, clientVars,
                 relayVars>>

\* unbind() loops over _publishers.values().
Registered == {k \in Key : publishers[k] # "none"}

UnbindBegins ==
  /\ main = "unbind"
  /\ main' = "destroying" /\ iterated' = Registered
  /\ UNCHANGED <<emVars, call, cacheVars, leaseId, entered, listening, exits,
                 lease, bindings, publishers, relayVars>>

\* A callback that has looked this publisher up is left with a destroyed one.
DestroyPublisher(k) ==
  /\ main = "destroying" /\ Registered = iterated
  /\ publishers[k] = "live"
  /\ publishers' = [publishers EXCEPT ![k] = "destroyed"]
  /\ pub' = IF relay = "ready" /\ key = k THEN "destroyed" ELSE pub
  /\ UNCHANGED <<emVars, call, cacheVars, scopeVars, lease, bindings, iterated,
                 relay, key, admitted, stamped, sent, raised>>

AllDestroyed ==
  /\ main = "destroying" /\ Registered = iterated
  /\ \A k \in Key : publishers[k] # "live"
  /\ main' = "destroyed"
  /\ UNCHANGED <<emVars, call, cacheVars, leaseId, entered, listening, exits,
                 clientVars, relayVars>>

\* A dictionary that grows under the loop: RuntimeError, out of __exit__'s
\* finally block.  The session stays entered.
UnbindRaises ==
  /\ main = "destroying" /\ Registered # iterated
  /\ main' = "stuck"
  /\ UNCHANGED <<emVars, call, cacheVars, leaseId, entered, listening, exits,
                 clientVars, relayVars>>

ClearLease ==
  /\ main = "destroyed"
  /\ lease' = NoLease /\ main' = "unleased"
  /\ UNCHANGED <<emVars, call, cacheVars, leaseId, entered, listening, exits,
                 bindings, publishers, iterated, relayVars>>

ClearBindings ==
  /\ main = "unleased"
  /\ bindings' = {} /\ main' = "unbound"
  /\ UNCHANGED <<emVars, call, cacheVars, leaseId, entered, listening, exits,
                 lease, publishers, iterated, relayVars>>

\* Mutant of ClearPublishers: the publishers are kept for the next lease.
ClearNoPublishers ==
  /\ main = "unbound"
  /\ main' = "outside" /\ entered' = FALSE
  /\ UNCHANGED <<emVars, call, cacheVars, leaseId, listening, exits, lease,
                 bindings, publishers, iterated, relayVars>>

\* The last of unbind(), and the rest of the finally block.
ClearPublishers ==
  /\ main = "unbound"
  /\ publishers' = [k \in Key |-> "none"]
  /\ main' = "outside" /\ entered' = FALSE
  /\ UNCHANGED <<emVars, call, cacheVars, leaseId, listening, exits, lease,
                 bindings, iterated, relayVars>>

-----------------------------------------------------------------------------
(* The relay callback: Session.act, Agent.send, ActionProviderClient.send.  *)

Callback(k) ==
  /\ relay = "idle" /\ listening
  /\ relay' = "called" /\ key' = k
  /\ UNCHANGED <<emVars, call, cacheVars, scopeVars, clientVars, admitted,
                 stamped, pub, sent, raised>>

\* Mutant of ActAdmits: act() relies on having been entered.
ActAdmitsEntered ==
  /\ relay = "called" /\ entered
  /\ relay' = "admitted" /\ admitted' = leaseId
  /\ UNCHANGED <<emVars, call, cacheVars, scopeVars, clientVars, key, stamped,
                 pub, sent, raised>>

\* The callback's own active_for and that of act(): the second says no whenever
\* the first does.
ActDrops ==
  /\ relay = "called" /\ ~ActiveFor
  /\ relay' = "idle"
  /\ UNCHANGED <<emVars, call, cacheVars, scopeVars, clientVars, key, admitted,
                 stamped, pub, sent, raised>>

ActAdmits ==
  /\ relay = "called" /\ ActiveFor
  /\ relay' = "admitted" /\ admitted' = leaseId
  /\ UNCHANGED <<emVars, call, cacheVars, scopeVars, clientVars, key, stamped,
                 pub, sent, raised>>

\* An exception ends the callback (and, in rclpy, the executor with it).
RelayRaises ==
  /\ relay' = "idle" /\ raised' = TRUE
  /\ UNCHANGED <<emVars, call, cacheVars, scopeVars, clientVars, key, admitted,
                 stamped, pub, sent>>

Bound == lease # NoLease /\ key \in bindings

RequireBinding ==
  /\ relay = "admitted" /\ Bound
  /\ relay' = "required"
  /\ UNCHANGED <<emVars, call, cacheVars, scopeVars, clientVars, key, admitted,
                 stamped, pub, sent, raised>>

RequireRaises ==
  /\ relay = "admitted" /\ ~Bound
  /\ RelayRaises

\* envelope.lease_id = self._lease_id, read a second time.
Stamp ==
  /\ relay = "required"
  /\ relay' = "stamped" /\ stamped' = lease
  /\ UNCHANGED <<emVars, call, cacheVars, scopeVars, clientVars, key, admitted,
                 pub, sent, raised>>

FindPublisher ==
  /\ relay = "stamped" /\ publishers[key] # "none"
  /\ relay' = "ready" /\ pub' = publishers[key]
  /\ UNCHANGED <<emVars, call, cacheVars, scopeVars, clientVars, key, admitted,
                 stamped, sent, raised>>

CreatePublisher ==
  /\ relay = "stamped" /\ publishers[key] = "none" /\ key \in bindings
  /\ relay' = "created" /\ pub' = "live"
  /\ UNCHANGED <<emVars, call, cacheVars, scopeVars, clientVars, key, admitted,
                 stamped, sent, raised>>

CreateRaises ==
  /\ relay = "stamped" /\ publishers[key] = "none" /\ key \notin bindings
  /\ RelayRaises

RegisterPublisher ==
  /\ relay = "created"
  /\ relay' = "ready" /\ publishers' = [publishers EXCEPT ![key] = "live"]
  /\ UNCHANGED <<emVars, call, cacheVars, scopeVars, lease, bindings, iterated,
                 key, admitted, stamped, pub, sent, raised>>

Publish ==
  /\ relay = "ready" /\ pub = "live"
  /\ relay' = "idle"
  /\ sent' = sent \cup {[lease |-> stamped, admitted |-> admitted]}
  /\ UNCHANGED <<emVars, call, cacheVars, scopeVars, clientVars, key, admitted,
                 stamped, pub, raised>>

PublishRaises ==
  /\ relay = "ready" /\ pub = "destroyed"
  /\ RelayRaises

-----------------------------------------------------------------------------
EmNext == EmGrant \/ EmRelease \/ EmPreempt \/ EmFault \/ EmPublish

ExecutorNext == OnStatus \/ OnEvent \/ OnAnswer \/ StatusExpires

MainNext ==
  \/ CallClaim \/ Bind \/ ClaimRaises \/ Confirm \/ AcquireTimesOut
  \/ StopListening
  \/ ExitDisplaced \/ ExitReleases \/ ReleaseReturns \/ ReleaseFails
  \/ UnbindBegins \/ (\E k \in Key : DestroyPublisher(k)) \/ AllDestroyed
  \/ UnbindRaises \/ ClearLease \/ ClearBindings \/ ClearPublishers

RelayNext ==
  \/ (\E k \in Key : Callback(k)) \/ ActDrops \/ ActAdmits \/ RequireBinding
  \/ RequireRaises \/ Stamp \/ FindPublisher \/ CreatePublisher \/ CreateRaises
  \/ RegisterPublisher \/ Publish \/ PublishRaises

Next == EmNext \/ ExecutorNext \/ MainNext \/ RelayNext

Spec == Init /\ [][Next]_vars

-----------------------------------------------------------------------------
(* Properties.                                                              *)

\* Every scope left so far was left by a release that the EM answered.
Answered == exits \subseteq {"released"}

\* As long as every release was answered, the callback and unbind() never meet:
\* no callback raises, nothing goes out without a lease, and unbind() runs to its
\* end.  (The answer is delivered between two callbacks, and by then no new one
\* can reach the session.)  An exit as displaced waits for nothing, and a release
\* that fails waits for no callback: neither promises anything.
QuietRelease ==
  (raised \/ main = "stuck" \/ \E m \in sent : m.lease = NoLease) => ~Answered

\* A command only goes out while the status names the lease that act() checked,
\* or has grown too old to name any: once the callback group has processed a
\* status that names another lease, nothing that was admitted before it is still
\* under way.
NoCommandOnceDisplaced ==
  [][Publish => shown \in {admitted, NoLease}]_vars

\* The publishers of a lease do not outlive it as long as every release was
\* answered: unbind() then runs while no callback can send.
NoStrayPublisher ==
  (main = "outside" /\ Answered) =>
    /\ Registered = {}
    /\ relay = "idle"

\* provider.py:33: "Publishes typed leased commands only".
LeasedCommandsOnly == \A m \in sent : m.lease # NoLease
=============================================================================
