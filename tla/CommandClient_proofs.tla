------------------------ MODULE CommandClient_proofs ------------------------
(***************************************************************************)
(* Proofs about CommandClient, for any set of keys and any number of       *)
(* leases: its type invariant, QuietRelease, NoStrayPublisher and the      *)
(* action property NoCommandOnceDisplaced.                                 *)
(*                                                                         *)
(* Why callback and unbind() do not meet on the ordinary path: a callback  *)
(* can only begin while the main thread is inside the scope, and the main  *)
(* thread leaves "releasing" with an answer only after it was delivered    *)
(* between two callbacks.  So as long as every release was answered, a     *)
(* callback that runs finds the client bound from its first to its last    *)
(* access.  The other two ways out, displaced and with a failed release,   *)
(* wait for no callback.                                                   *)
(***************************************************************************)
EXTENDS CommandClient, TLAPS

-----------------------------------------------------------------------------
(* The inductive invariant.                                                 *)

\* From the grant to the last of unbind() the client has the session's lease.
Bindings ==
  /\ main = "claiming" /\ call \in {"done", "answered"} => granted # 0
  /\ main \in {"acquiring", "inside", "leaving", "releasing", "unbind",
               "destroying", "destroyed"} =>
       lease # NoLease /\ bindings = Key

\* Publishers are destroyed by unbind() only, which forgets them at its end.
Publishers ==
  main \notin {"destroying", "destroyed", "unleased", "unbound", "stuck"} =>
    \A k \in Key : publishers[k] # "destroyed"

\* As long as every release was answered, a callback runs only while its session
\* is entered and the answer to the release has not been delivered.
Apart ==
  Answered =>
    /\ relay # "idle" => /\ main \in {"inside", "leaving", "releasing"}
                         /\ main = "releasing" => call # "answered"
    /\ relay \in {"stamped", "created", "ready"} => stamped # NoLease
    /\ relay \in {"created", "ready"} => pub = "live"
    /\ main = "destroying" => Registered = iterated
    /\ main \in {"outside", "claiming"} => Registered = {}

\* A callback begins inside a scope; the cache does not change under it but by
\* growing old.
Admission ==
  /\ listening => main = "inside"
  /\ relay \notin {"idle", "called"} => shown \in {admitted, NoLease}

IInv == TypeOK /\ Bindings /\ Publishers /\ Apart /\ Admission /\ QuietRelease

-----------------------------------------------------------------------------
(* What the steps of a process leave alone.                                 *)

LEMMA EmFrame == EmNext => UNCHANGED <<cacheVars, scopeVars, clientVars,
  relayVars>>
  BY DEF EmNext, EmGrant, EmRelease, EmPreempt, EmFault, EmPublish, emVars, cacheVars,
    scopeVars, clientVars, relayVars

LEMMA ExecutorFrame == ExecutorNext => UNCHANGED <<emVars, scopeVars,
  clientVars, relayVars>>
  BY DEF ExecutorNext, OnStatus, OnEvent, OnAnswer, StatusExpires, emVars,
    cacheVars, scopeVars, clientVars, relayVars

LEMMA MainFrame == MainNext => UNCHANGED <<emVars, cacheVars, relay, key,
  admitted, stamped, sent, raised>>
  BY DEF MainNext, CallClaim, Bind, ClaimRaises, Confirm, AcquireTimesOut, StopListening,
    ExitDisplaced, ExitReleases, ReleaseReturns, ReleaseFails, UnbindBegins,
    DestroyPublisher, AllDestroyed, UnbindRaises, ClearLease, ClearBindings,
    ClearPublishers, emVars, cacheVars, scopeVars, clientVars, relayVars

LEMMA RelayFrame == RelayNext => UNCHANGED <<emVars, call, cacheVars,
  scopeVars, lease, bindings, iterated>>
  BY DEF RelayNext, Callback, ActDrops, ActAdmits, RequireBinding,
    RequireRaises, Stamp, FindPublisher, CreatePublisher, CreateRaises,
    RegisterPublisher, Publish, PublishRaises, RelayRaises, emVars, cacheVars,
    scopeVars, clientVars, relayVars

-----------------------------------------------------------------------------
(* Type correctness.                                                        *)

LEMMA TypeKept == IInv /\ [Next]_vars => TypeOK'
<1> SUFFICES ASSUME IInv, [Next]_vars PROVE TypeOK'
  OBVIOUS
<1> USE ConstantAssumption DEF IInv, TypeOK, emVars, cacheVars, scopeVars,
  clientVars, relayVars, Main, Relay, PubState
<1>1. CASE EmNext
  <2>1. ASSUME EmGrant PROVE TypeOK'
    BY <2>1 DEF EmGrant, LeaseOrNone, Lease, NoLease
  <2>2. ASSUME EmRelease PROVE TypeOK'
    BY <2>2 DEF EmRelease, LeaseOrNone, Lease, NoLease
  <2>3. ASSUME EmPreempt PROVE TypeOK'
    BY <2>3 DEF EmPreempt, LeaseOrNone, Lease, NoLease
  <2>5. ASSUME EmFault PROVE TypeOK'
    BY <2>5 DEF EmFault, LeaseOrNone, Lease, NoLease
  <2>4. ASSUME EmPublish PROVE TypeOK'
    BY <2>4 DEF EmPublish, LeaseOrNone, Lease, NoLease, Other
  <2>. QED BY <1>1, <2>1, <2>2, <2>3, <2>4, <2>5 DEF EmNext
<1>2. CASE ExecutorNext
  <2>1. ASSUME OnStatus PROVE TypeOK'
    BY <2>1 DEF OnStatus
  <2>2. ASSUME OnEvent PROVE TypeOK'
    BY <2>2 DEF OnEvent, LeaseOrNone, Lease, NoLease
  <2>3. ASSUME OnAnswer PROVE TypeOK'
    BY <2>3 DEF OnAnswer
  <2>4. ASSUME StatusExpires PROVE TypeOK'
    BY <2>4 DEF StatusExpires, LeaseOrNone, Lease, NoLease
  <2>. QED BY <1>2, <2>1, <2>2, <2>3, <2>4 DEF ExecutorNext
<1>3. CASE MainNext
  <2>1. ASSUME CallClaim PROVE TypeOK'
    BY <2>1 DEF CallClaim
  <2>17. ASSUME ClaimRaises PROVE TypeOK'
    BY <2>17 DEF ClaimRaises
  <2>2. ASSUME Bind PROVE TypeOK'
    BY <2>2 DEF Bind, LeaseOrNone, Lease, NoLease
  <2>3. ASSUME Confirm PROVE TypeOK'
    BY <2>3 DEF Confirm, ActiveFor
  <2>4. ASSUME AcquireTimesOut PROVE TypeOK'
    BY <2>4 DEF AcquireTimesOut, ActiveFor
  <2>5. ASSUME StopListening PROVE TypeOK'
    BY <2>5, ZenonT(60) DEF StopListening
  <2>6. ASSUME ExitDisplaced PROVE TypeOK'
    BY <2>6 DEF ExitDisplaced, Displaced
  <2>7. ASSUME ExitReleases PROVE TypeOK'
    BY <2>7 DEF ExitReleases, Displaced
  <2>8. ASSUME ReleaseReturns PROVE TypeOK'
    BY <2>8 DEF ReleaseReturns
  <2>9. ASSUME ReleaseFails PROVE TypeOK'
    BY <2>9 DEF ReleaseFails
  <2>10. ASSUME UnbindBegins PROVE TypeOK'
    BY <2>10 DEF UnbindBegins, Registered
  <2>11. CASE \E k \in Key : DestroyPublisher(k)
    BY <2>11 DEF DestroyPublisher, Registered
  <2>12. ASSUME AllDestroyed PROVE TypeOK'
    BY <2>12 DEF AllDestroyed, Registered
  <2>13. ASSUME UnbindRaises PROVE TypeOK'
    BY <2>13 DEF UnbindRaises, Registered
  <2>14. ASSUME ClearLease PROVE TypeOK'
    BY <2>14 DEF ClearLease, LeaseOrNone, Lease, NoLease
  <2>15. ASSUME ClearBindings PROVE TypeOK'
    BY <2>15 DEF ClearBindings
  <2>16. ASSUME ClearPublishers PROVE TypeOK'
    BY <2>16, ZenonT(60) DEF ClearPublishers
  <2>. QED BY <1>3, <2>1, <2>2, <2>3, <2>4, <2>5, <2>6, <2>7, <2>8, <2>9,
    <2>10, <2>11, <2>12, <2>13, <2>14, <2>15, <2>16, <2>17 DEF MainNext
<1>4. CASE RelayNext
  <2>1. ASSUME NEW k \in Key, Callback(k) PROVE TypeOK'
    BY <2>1 DEF Callback
  <2>2. ASSUME ActDrops PROVE TypeOK'
    BY <2>2 DEF ActDrops, ActiveFor
  <2>3. ASSUME ActAdmits PROVE TypeOK'
    BY <2>3 DEF ActAdmits, ActiveFor
  <2>4. ASSUME RequireBinding PROVE TypeOK'
    BY <2>4 DEF RequireBinding, Bound
  <2>5. ASSUME RequireRaises PROVE TypeOK'
    BY <2>5 DEF RequireRaises, Bound, RelayRaises
  <2>6. ASSUME Stamp PROVE TypeOK'
    BY <2>6 DEF Stamp
  <2>7. ASSUME FindPublisher PROVE TypeOK'
    BY <2>7 DEF FindPublisher
  <2>8. ASSUME CreatePublisher PROVE TypeOK'
    BY <2>8 DEF CreatePublisher
  <2>9. ASSUME CreateRaises PROVE TypeOK'
    BY <2>9 DEF CreateRaises, RelayRaises
  <2>10. ASSUME RegisterPublisher PROVE TypeOK'
    BY <2>10 DEF RegisterPublisher
  <2>11. ASSUME Publish PROVE TypeOK'
    BY <2>11 DEF Publish, Envelope
  <2>12. ASSUME PublishRaises PROVE TypeOK'
    BY <2>12 DEF PublishRaises, RelayRaises
  <2>. QED BY <1>4, <2>1, <2>2, <2>3, <2>4, <2>5, <2>6, <2>7, <2>8, <2>9,
    <2>10, <2>11, <2>12 DEF RelayNext
<1>5. CASE UNCHANGED vars
  BY <1>5 DEF vars
<1>. QED BY <1>1, <1>2, <1>3, <1>4, <1>5 DEF Next

-----------------------------------------------------------------------------
(* The client is bound to the session's lease from Bind to ClearLease.      *)

LEMMA BindingsKept == IInv /\ [Next]_vars => Bindings'
<1> SUFFICES ASSUME IInv, [Next]_vars PROVE Bindings'
  OBVIOUS
<1> USE DEF IInv, TypeOK, emVars, cacheVars, scopeVars, clientVars, relayVars,
  Bindings, NoLease
<1>1. CASE EmNext
  <2>1. ASSUME EmGrant PROVE Bindings'
    BY <2>1 DEF EmGrant
  <2>2. ASSUME EmRelease PROVE Bindings'
    BY <2>2 DEF EmRelease
  <2>3. ASSUME EmPreempt PROVE Bindings'
    BY <2>3 DEF EmPreempt
  <2>5. ASSUME EmFault PROVE Bindings'
    BY <2>5 DEF EmFault
  <2>4. ASSUME EmPublish PROVE Bindings'
    BY <2>4 DEF EmPublish, Other
  <2>. QED BY <1>1, <2>1, <2>2, <2>3, <2>4, <2>5 DEF EmNext
<1>2. CASE ExecutorNext
  <2>1. ASSUME OnStatus PROVE Bindings'
    BY <2>1 DEF OnStatus
  <2>2. ASSUME OnEvent PROVE Bindings'
    BY <2>2 DEF OnEvent
  <2>3. ASSUME OnAnswer PROVE Bindings'
    BY <2>3 DEF OnAnswer
  <2>4. ASSUME StatusExpires PROVE Bindings'
    BY <2>4 DEF StatusExpires
  <2>. QED BY <1>2, <2>1, <2>2, <2>3, <2>4 DEF ExecutorNext
<1>3. CASE MainNext
  <2>1. ASSUME CallClaim PROVE Bindings'
    BY <2>1 DEF CallClaim
  <2>17. ASSUME ClaimRaises PROVE Bindings'
    BY <2>17 DEF ClaimRaises
  <2>2. ASSUME Bind PROVE Bindings'
    BY <2>2 DEF Bind
  <2>3. ASSUME Confirm PROVE Bindings'
    BY <2>3 DEF Confirm, ActiveFor
  <2>4. ASSUME AcquireTimesOut PROVE Bindings'
    BY <2>4 DEF AcquireTimesOut, ActiveFor
  <2>5. ASSUME StopListening PROVE Bindings'
    BY <2>5 DEF StopListening
  <2>6. ASSUME ExitDisplaced PROVE Bindings'
    BY <2>6 DEF ExitDisplaced, Displaced
  <2>7. ASSUME ExitReleases PROVE Bindings'
    BY <2>7 DEF ExitReleases, Displaced
  <2>8. ASSUME ReleaseReturns PROVE Bindings'
    BY <2>8 DEF ReleaseReturns
  <2>9. ASSUME ReleaseFails PROVE Bindings'
    BY <2>9 DEF ReleaseFails
  <2>10. ASSUME UnbindBegins PROVE Bindings'
    BY <2>10 DEF UnbindBegins, Registered
  <2>11. ASSUME NEW k \in Key, DestroyPublisher(k) PROVE Bindings'
    BY <2>11 DEF DestroyPublisher, Registered
  <2>12. ASSUME AllDestroyed PROVE Bindings'
    BY <2>12 DEF AllDestroyed, Registered
  <2>13. ASSUME UnbindRaises PROVE Bindings'
    BY <2>13 DEF UnbindRaises, Registered
  <2>14. ASSUME ClearLease PROVE Bindings'
    BY <2>14 DEF ClearLease
  <2>15. ASSUME ClearBindings PROVE Bindings'
    BY <2>15 DEF ClearBindings
  <2>16. ASSUME ClearPublishers PROVE Bindings'
    BY <2>16 DEF ClearPublishers
  <2>. QED BY <1>3, <2>1, <2>2, <2>3, <2>4, <2>5, <2>6, <2>7, <2>8, <2>9,
    <2>10, <2>11, <2>12, <2>13, <2>14, <2>15, <2>16, <2>17 DEF MainNext
<1>4. CASE RelayNext
  BY <1>4, RelayFrame
<1>5. CASE UNCHANGED vars
  BY <1>5 DEF vars
<1>. QED BY <1>1, <1>2, <1>3, <1>4, <1>5 DEF Next

-----------------------------------------------------------------------------
(* Only unbind() destroys publishers.                                       *)

LEMMA PublishersKept == IInv /\ [Next]_vars => Publishers'
<1> SUFFICES ASSUME IInv, [Next]_vars PROVE Publishers'
  OBVIOUS
<1> USE DEF IInv, TypeOK, emVars, cacheVars, scopeVars, clientVars, relayVars,
  Publishers
<1>1. CASE EmNext
  BY <1>1, EmFrame
<1>2. CASE ExecutorNext
  BY <1>2, ExecutorFrame
<1>3. CASE MainNext
  <2>1. ASSUME CallClaim PROVE Publishers'
    BY <2>1 DEF CallClaim
  <2>17. ASSUME ClaimRaises PROVE Publishers'
    BY <2>17 DEF ClaimRaises
  <2>2. ASSUME Bind PROVE Publishers'
    BY <2>2 DEF Bind, NoLease
  <2>3. ASSUME Confirm PROVE Publishers'
    BY <2>3 DEF Confirm, ActiveFor, NoLease
  <2>4. ASSUME AcquireTimesOut PROVE Publishers'
    BY <2>4 DEF AcquireTimesOut, ActiveFor, NoLease
  <2>5. ASSUME StopListening PROVE Publishers'
    BY <2>5 DEF StopListening
  <2>6. ASSUME ExitDisplaced PROVE Publishers'
    BY <2>6 DEF ExitDisplaced, Displaced, NoLease
  <2>7. ASSUME ExitReleases PROVE Publishers'
    BY <2>7 DEF ExitReleases, Displaced, NoLease
  <2>8. ASSUME ReleaseReturns PROVE Publishers'
    BY <2>8 DEF ReleaseReturns
  <2>9. ASSUME ReleaseFails PROVE Publishers'
    BY <2>9 DEF ReleaseFails
  <2>10. ASSUME UnbindBegins PROVE Publishers'
    BY <2>10 DEF UnbindBegins, Registered
  <2>11. ASSUME NEW k \in Key, DestroyPublisher(k) PROVE Publishers'
    BY <2>11 DEF DestroyPublisher, Registered
  <2>12. ASSUME AllDestroyed PROVE Publishers'
    BY <2>12 DEF AllDestroyed, Registered
  <2>13. ASSUME UnbindRaises PROVE Publishers'
    BY <2>13 DEF UnbindRaises, Registered
  <2>14. ASSUME ClearLease PROVE Publishers'
    BY <2>14 DEF ClearLease, NoLease
  <2>15. ASSUME ClearBindings PROVE Publishers'
    BY <2>15 DEF ClearBindings
  <2>16. ASSUME ClearPublishers PROVE Publishers'
    BY <2>16 DEF ClearPublishers
  <2>. QED BY <1>3, <2>1, <2>2, <2>3, <2>4, <2>5, <2>6, <2>7, <2>8, <2>9,
    <2>10, <2>11, <2>12, <2>13, <2>14, <2>15, <2>16, <2>17 DEF MainNext
<1>4. CASE RelayNext
  <2>1. ASSUME NEW k \in Key, Callback(k) PROVE Publishers'
    BY <2>1 DEF Callback
  <2>2. ASSUME ActDrops PROVE Publishers'
    BY <2>2 DEF ActDrops, ActiveFor, NoLease
  <2>3. ASSUME ActAdmits PROVE Publishers'
    BY <2>3 DEF ActAdmits, ActiveFor, NoLease
  <2>4. ASSUME RequireBinding PROVE Publishers'
    BY <2>4 DEF RequireBinding, Bound, NoLease
  <2>5. ASSUME RequireRaises PROVE Publishers'
    BY <2>5 DEF RequireRaises, Bound, RelayRaises, NoLease
  <2>6. ASSUME Stamp PROVE Publishers'
    BY <2>6 DEF Stamp
  <2>7. ASSUME FindPublisher PROVE Publishers'
    BY <2>7 DEF FindPublisher
  <2>8. ASSUME CreatePublisher PROVE Publishers'
    BY <2>8 DEF CreatePublisher
  <2>9. ASSUME CreateRaises PROVE Publishers'
    BY <2>9 DEF CreateRaises, RelayRaises
  <2>10. ASSUME RegisterPublisher PROVE Publishers'
    BY <2>10 DEF RegisterPublisher
  <2>11. ASSUME Publish PROVE Publishers'
    BY <2>11 DEF Publish
  <2>12. ASSUME PublishRaises PROVE Publishers'
    BY <2>12 DEF PublishRaises, RelayRaises
  <2>. QED BY <1>4, <2>1, <2>2, <2>3, <2>4, <2>5, <2>6, <2>7, <2>8, <2>9,
    <2>10, <2>11, <2>12 DEF RelayNext
<1>5. CASE UNCHANGED vars
  BY <1>5 DEF vars
<1>. QED BY <1>1, <1>2, <1>3, <1>4, <1>5 DEF Next

-----------------------------------------------------------------------------
(* The callback and the exit of the scope.                                  *)

LEMMA ApartKept == IInv /\ [Next]_vars => Apart'
<1> SUFFICES ASSUME IInv, [Next]_vars PROVE Apart'
  OBVIOUS
<1> USE DEF IInv, TypeOK, emVars, cacheVars, scopeVars, clientVars, relayVars,
  Apart, Registered, Answered
<1>1. CASE EmNext
  <2>1. ASSUME EmGrant PROVE Apart'
    BY <2>1 DEF EmGrant
  <2>2. ASSUME EmRelease PROVE Apart'
    BY <2>2 DEF EmRelease, NoLease
  <2>3. ASSUME EmPreempt PROVE Apart'
    BY <2>3 DEF EmPreempt, NoLease
  <2>5. ASSUME EmFault PROVE Apart'
    BY <2>5 DEF EmFault, NoLease
  <2>4. ASSUME EmPublish PROVE Apart'
    BY <2>4 DEF EmPublish, NoLease, Other
  <2>. QED BY <1>1, <2>1, <2>2, <2>3, <2>4, <2>5 DEF EmNext
<1>2. CASE ExecutorNext
  <2>1. ASSUME OnStatus PROVE Apart'
    BY <2>1 DEF OnStatus
  <2>2. ASSUME OnEvent PROVE Apart'
    BY <2>2 DEF OnEvent
  <2>3. ASSUME OnAnswer PROVE Apart'
    BY <2>3 DEF OnAnswer
  <2>4. ASSUME StatusExpires PROVE Apart'
    BY <2>4 DEF StatusExpires, NoLease
  <2>. QED BY <1>2, <2>1, <2>2, <2>3, <2>4 DEF ExecutorNext
<1>3. CASE MainNext
  <2>1. ASSUME CallClaim PROVE Apart'
    BY <2>1 DEF CallClaim, Bindings, Publishers, Admission
  <2>17. ASSUME ClaimRaises PROVE Apart'
    BY <2>17 DEF ClaimRaises, Bindings, Publishers, Admission
  <2>2. ASSUME Bind PROVE Apart'
    BY <2>2 DEF Bind, NoLease, Bindings, Publishers, Admission
  <2>3. ASSUME Confirm PROVE Apart'
    BY <2>3 DEF Confirm, ActiveFor, NoLease, Bindings, Publishers, Admission
  <2>4. ASSUME AcquireTimesOut PROVE Apart'
    BY <2>4 DEF AcquireTimesOut, ActiveFor, NoLease, Bindings, Publishers,
      Admission
  <2>5. ASSUME StopListening PROVE Apart'
    BY <2>5 DEF StopListening, Bindings, Publishers, Admission
  <2>6. ASSUME ExitDisplaced PROVE Apart'
    BY <2>6 DEF ExitDisplaced, Displaced, NoLease, Bindings, Publishers,
      Admission
  <2>7. ASSUME ExitReleases PROVE Apart'
    BY <2>7 DEF ExitReleases, Displaced, NoLease, Bindings, Publishers,
      Admission
  <2>8. ASSUME ReleaseReturns PROVE Apart'
    BY <2>8 DEF ReleaseReturns, Bindings, Publishers, Admission
  <2>9. ASSUME ReleaseFails PROVE Apart'
    BY <2>9 DEF ReleaseFails, Bindings, Publishers, Admission
  <2>10. ASSUME UnbindBegins PROVE Apart'
    BY <2>10 DEF UnbindBegins, Bindings, Publishers, Admission
  <2>11. ASSUME NEW k \in Key, DestroyPublisher(k) PROVE Apart'
    BY <2>11 DEF DestroyPublisher, Bindings, Publishers, Admission
  <2>12. ASSUME AllDestroyed PROVE Apart'
    BY <2>12 DEF AllDestroyed, Bindings, Publishers, Admission
  <2>13. ASSUME UnbindRaises PROVE Apart'
    BY <2>13 DEF UnbindRaises, Bindings, Publishers, Admission
  <2>14. ASSUME ClearLease PROVE Apart'
    BY <2>14 DEF ClearLease, NoLease, Bindings, Publishers, Admission
  <2>15. ASSUME ClearBindings PROVE Apart'
    BY <2>15 DEF ClearBindings, Bindings, Publishers, Admission
  <2>16. ASSUME ClearPublishers PROVE Apart'
    BY <2>16 DEF ClearPublishers, Bindings, Publishers, Admission
  <2>. QED BY <1>3, <2>1, <2>2, <2>3, <2>4, <2>5, <2>6, <2>7, <2>8, <2>9,
    <2>10, <2>11, <2>12, <2>13, <2>14, <2>15, <2>16, <2>17 DEF MainNext
<1>4. CASE RelayNext
  <2>1. ASSUME NEW k \in Key, Callback(k) PROVE Apart'
    BY <2>1 DEF Callback, Bindings, Publishers, Admission
  <2>2. ASSUME ActDrops PROVE Apart'
    BY <2>2 DEF ActDrops, ActiveFor, NoLease, Bindings, Publishers, Admission
  <2>3. ASSUME ActAdmits PROVE Apart'
    BY <2>3 DEF ActAdmits, ActiveFor, NoLease, Bindings, Publishers, Admission
  <2>4. ASSUME RequireBinding PROVE Apart'
    BY <2>4 DEF RequireBinding, Bound, NoLease, Bindings, Publishers,
      Admission
  <2>5. ASSUME RequireRaises PROVE Apart'
    BY <2>5 DEF RequireRaises, Bound, RelayRaises, NoLease, Bindings,
      Publishers, Admission
  <2>6. ASSUME Stamp PROVE Apart'
    BY <2>6 DEF Stamp, Bindings, Publishers, Admission
  <2>7. ASSUME FindPublisher PROVE Apart'
    BY <2>7 DEF FindPublisher, Bindings, Publishers, Admission, PubState
  <2>8. ASSUME CreatePublisher PROVE Apart'
    BY <2>8 DEF CreatePublisher, Bindings, Publishers, Admission
  <2>9. ASSUME CreateRaises PROVE Apart'
    BY <2>9 DEF CreateRaises, RelayRaises, Bindings, Publishers, Admission
  <2>10. ASSUME RegisterPublisher PROVE Apart'
    BY <2>10 DEF RegisterPublisher, Bindings, Publishers, Admission
  <2>11. ASSUME Publish PROVE Apart'
    BY <2>11 DEF Publish, Bindings, Publishers, Admission
  <2>12. ASSUME PublishRaises PROVE Apart'
    BY <2>12 DEF PublishRaises, RelayRaises, Bindings, Publishers, Admission
  <2>. QED BY <1>4, <2>1, <2>2, <2>3, <2>4, <2>5, <2>6, <2>7, <2>8, <2>9,
    <2>10, <2>11, <2>12 DEF RelayNext
<1>5. CASE UNCHANGED vars
  BY <1>5 DEF vars
<1>. QED BY <1>1, <1>2, <1>3, <1>4, <1>5 DEF Next

-----------------------------------------------------------------------------
(* While a command is under way the cache can only grow old.                *)

LEMMA AdmissionKept == IInv /\ [Next]_vars => Admission'
<1> SUFFICES ASSUME IInv, [Next]_vars PROVE Admission'
  OBVIOUS
<1> USE DEF IInv, TypeOK, emVars, cacheVars, scopeVars, clientVars, relayVars,
  Admission, NoLease
<1>1. CASE EmNext
  BY <1>1, EmFrame
<1>2. CASE ExecutorNext
  <2>1. ASSUME OnStatus PROVE Admission'
    BY <2>1 DEF OnStatus
  <2>2. ASSUME OnEvent PROVE Admission'
    BY <2>2 DEF OnEvent
  <2>3. ASSUME OnAnswer PROVE Admission'
    BY <2>3 DEF OnAnswer
  <2>4. ASSUME StatusExpires PROVE Admission'
    BY <2>4 DEF StatusExpires
  <2>. QED BY <1>2, <2>1, <2>2, <2>3, <2>4 DEF ExecutorNext
<1>3. CASE MainNext
  <2>1. ASSUME CallClaim PROVE Admission'
    BY <2>1 DEF CallClaim
  <2>17. ASSUME ClaimRaises PROVE Admission'
    BY <2>17 DEF ClaimRaises
  <2>2. ASSUME Bind PROVE Admission'
    BY <2>2 DEF Bind
  <2>3. ASSUME Confirm PROVE Admission'
    BY <2>3 DEF Confirm, ActiveFor
  <2>4. ASSUME AcquireTimesOut PROVE Admission'
    BY <2>4 DEF AcquireTimesOut, ActiveFor
  <2>5. ASSUME StopListening PROVE Admission'
    BY <2>5 DEF StopListening
  <2>6. ASSUME ExitDisplaced PROVE Admission'
    BY <2>6 DEF ExitDisplaced, Displaced
  <2>7. ASSUME ExitReleases PROVE Admission'
    BY <2>7 DEF ExitReleases, Displaced
  <2>8. ASSUME ReleaseReturns PROVE Admission'
    BY <2>8 DEF ReleaseReturns
  <2>9. ASSUME ReleaseFails PROVE Admission'
    BY <2>9 DEF ReleaseFails
  <2>10. ASSUME UnbindBegins PROVE Admission'
    BY <2>10 DEF UnbindBegins, Registered
  <2>11. ASSUME NEW k \in Key, DestroyPublisher(k) PROVE Admission'
    BY <2>11 DEF DestroyPublisher, Registered
  <2>12. ASSUME AllDestroyed PROVE Admission'
    BY <2>12 DEF AllDestroyed, Registered
  <2>13. ASSUME UnbindRaises PROVE Admission'
    BY <2>13 DEF UnbindRaises, Registered
  <2>14. ASSUME ClearLease PROVE Admission'
    BY <2>14 DEF ClearLease
  <2>15. ASSUME ClearBindings PROVE Admission'
    BY <2>15 DEF ClearBindings
  <2>16. ASSUME ClearPublishers PROVE Admission'
    BY <2>16 DEF ClearPublishers
  <2>. QED BY <1>3, <2>1, <2>2, <2>3, <2>4, <2>5, <2>6, <2>7, <2>8, <2>9,
    <2>10, <2>11, <2>12, <2>13, <2>14, <2>15, <2>16, <2>17 DEF MainNext
<1>4. CASE RelayNext
  <2>1. ASSUME NEW k \in Key, Callback(k) PROVE Admission'
    BY <2>1 DEF Callback
  <2>2. ASSUME ActDrops PROVE Admission'
    BY <2>2 DEF ActDrops, ActiveFor
  <2>3. ASSUME ActAdmits PROVE Admission'
    BY <2>3 DEF ActAdmits, ActiveFor
  <2>4. ASSUME RequireBinding PROVE Admission'
    BY <2>4 DEF RequireBinding, Bound
  <2>5. ASSUME RequireRaises PROVE Admission'
    BY <2>5 DEF RequireRaises, Bound, RelayRaises
  <2>6. ASSUME Stamp PROVE Admission'
    BY <2>6 DEF Stamp
  <2>7. ASSUME FindPublisher PROVE Admission'
    BY <2>7 DEF FindPublisher
  <2>8. ASSUME CreatePublisher PROVE Admission'
    BY <2>8 DEF CreatePublisher
  <2>9. ASSUME CreateRaises PROVE Admission'
    BY <2>9 DEF CreateRaises, RelayRaises
  <2>10. ASSUME RegisterPublisher PROVE Admission'
    BY <2>10 DEF RegisterPublisher
  <2>11. ASSUME Publish PROVE Admission'
    BY <2>11 DEF Publish
  <2>12. ASSUME PublishRaises PROVE Admission'
    BY <2>12 DEF PublishRaises, RelayRaises
  <2>. QED BY <1>4, <2>1, <2>2, <2>3, <2>4, <2>5, <2>6, <2>7, <2>8, <2>9,
    <2>10, <2>11, <2>12 DEF RelayNext
<1>5. CASE UNCHANGED vars
  BY <1>5 DEF vars
<1>. QED BY <1>1, <1>2, <1>3, <1>4, <1>5 DEF Next

-----------------------------------------------------------------------------
(* Nothing goes wrong before the first exit without an answer: the callback *)
(* is over when unbind() begins, and bound to a lease for as long as it     *)
(* runs.                                                                    *)

LEMMA QuietReleaseKept == IInv /\ [Next]_vars => QuietRelease'
<1> SUFFICES ASSUME IInv, [Next]_vars PROVE QuietRelease'
  OBVIOUS
<1> USE DEF IInv, TypeOK, emVars, cacheVars, scopeVars, clientVars, relayVars,
  QuietRelease, Apart, Answered
<1>1. CASE EmNext
  BY <1>1, EmFrame
<1>2. CASE ExecutorNext
  BY <1>2, ExecutorFrame
<1>3. CASE MainNext
  <2>1. ASSUME CallClaim PROVE QuietRelease'
    BY <2>1 DEF CallClaim
  <2>17. ASSUME ClaimRaises PROVE QuietRelease'
    BY <2>17 DEF ClaimRaises
  <2>2. ASSUME Bind PROVE QuietRelease'
    BY <2>2 DEF Bind, NoLease
  <2>3. ASSUME Confirm PROVE QuietRelease'
    BY <2>3 DEF Confirm, ActiveFor, NoLease
  <2>4. ASSUME AcquireTimesOut PROVE QuietRelease'
    BY <2>4 DEF AcquireTimesOut, ActiveFor, NoLease
  <2>5. ASSUME StopListening PROVE QuietRelease'
    BY <2>5 DEF StopListening
  <2>6. ASSUME ExitDisplaced PROVE QuietRelease'
    BY <2>6 DEF ExitDisplaced, Displaced, NoLease
  <2>7. ASSUME ExitReleases PROVE QuietRelease'
    BY <2>7 DEF ExitReleases, Displaced, NoLease
  <2>8. ASSUME ReleaseReturns PROVE QuietRelease'
    BY <2>8 DEF ReleaseReturns
  <2>9. ASSUME ReleaseFails PROVE QuietRelease'
    BY <2>9 DEF ReleaseFails
  <2>10. ASSUME UnbindBegins PROVE QuietRelease'
    BY <2>10 DEF UnbindBegins, Registered
  <2>11. ASSUME NEW k \in Key, DestroyPublisher(k) PROVE QuietRelease'
    BY <2>11 DEF DestroyPublisher, Registered
  <2>12. ASSUME AllDestroyed PROVE QuietRelease'
    BY <2>12 DEF AllDestroyed, Registered
  <2>13. ASSUME UnbindRaises PROVE QuietRelease'
    BY <2>13 DEF UnbindRaises, Registered
  <2>14. ASSUME ClearLease PROVE QuietRelease'
    BY <2>14 DEF ClearLease, NoLease
  <2>15. ASSUME ClearBindings PROVE QuietRelease'
    BY <2>15 DEF ClearBindings
  <2>16. ASSUME ClearPublishers PROVE QuietRelease'
    BY <2>16 DEF ClearPublishers
  <2>. QED BY <1>3, <2>1, <2>2, <2>3, <2>4, <2>5, <2>6, <2>7, <2>8, <2>9,
    <2>10, <2>11, <2>12, <2>13, <2>14, <2>15, <2>16, <2>17 DEF MainNext
<1>4. CASE RelayNext
  <2>1. ASSUME NEW k \in Key, Callback(k) PROVE QuietRelease'
    BY <2>1 DEF Callback, Bindings, NoLease
  <2>2. ASSUME ActDrops PROVE QuietRelease'
    BY <2>2 DEF ActDrops, ActiveFor, NoLease, Bindings
  <2>3. ASSUME ActAdmits PROVE QuietRelease'
    BY <2>3 DEF ActAdmits, ActiveFor, NoLease, Bindings
  <2>4. ASSUME RequireBinding PROVE QuietRelease'
    BY <2>4 DEF RequireBinding, Bound, NoLease, Bindings
  <2>5. ASSUME RequireRaises PROVE QuietRelease'
    BY <2>5 DEF RequireRaises, Bound, RelayRaises, NoLease, Bindings
  <2>6. ASSUME Stamp PROVE QuietRelease'
    BY <2>6 DEF Stamp, Bindings, NoLease
  <2>7. ASSUME FindPublisher PROVE QuietRelease'
    BY <2>7 DEF FindPublisher, Bindings, NoLease
  <2>8. ASSUME CreatePublisher PROVE QuietRelease'
    BY <2>8 DEF CreatePublisher, Bindings, NoLease
  <2>9. ASSUME CreateRaises PROVE QuietRelease'
    BY <2>9 DEF CreateRaises, RelayRaises, Bindings, NoLease
  <2>10. ASSUME RegisterPublisher PROVE QuietRelease'
    BY <2>10 DEF RegisterPublisher, Bindings, NoLease
  <2>11. ASSUME Publish PROVE QuietRelease'
    BY <2>11 DEF Publish, Bindings, NoLease
  <2>12. ASSUME PublishRaises PROVE QuietRelease'
    BY <2>12 DEF PublishRaises, RelayRaises, Bindings, NoLease
  <2>. QED BY <1>4, <2>1, <2>2, <2>3, <2>4, <2>5, <2>6, <2>7, <2>8, <2>9,
    <2>10, <2>11, <2>12 DEF RelayNext
<1>5. CASE UNCHANGED vars
  BY <1>5 DEF vars
<1>. QED BY <1>1, <1>2, <1>3, <1>4, <1>5 DEF Next

-----------------------------------------------------------------------------
(* The theorems.                                                            *)

LEMMA Initially == Init => IInv
<1> SUFFICES ASSUME Init PROVE IInv
  OBVIOUS
<1>1. TypeOK
  <2>1. publishers \in [Key -> PubState]
    BY DEF Init, PubState
  <2>2. NoLease \in LeaseOrNone
    BY DEF LeaseOrNone
  <2>3. granted \in 0..MaxLease
    BY ConstantAssumption DEF Init
  <2>4. main \in Main /\ relay \in Relay /\ pub \in PubState
    BY DEF Init, Main, Relay, PubState
  <2>. QED BY <2>1, <2>2, <2>3, <2>4 DEF Init, TypeOK
<1>2. Bindings /\ Publishers /\ Admission
  BY DEF Init, Bindings, Publishers, Admission
<1>3. Apart /\ QuietRelease
  BY DEF Init, Apart, QuietRelease, Registered, Answered
<1>. QED BY <1>1, <1>2, <1>3 DEF IInv

\* The inductive invariant holds in every reachable state.
THEOREM Invariance == Spec => []IInv
<1>1. IInv /\ [Next]_vars => IInv'
  BY TypeKept, BindingsKept, PublishersKept, ApartKept, AdmissionKept,
    QuietReleaseKept DEF IInv
<1>. QED BY Initially, <1>1, PTL DEF Spec

\* Every variable of the client, its session and the callback keeps its type.
THEOREM TypeCorrect == Spec => []TypeOK
<1>1. IInv => TypeOK
  BY DEF IInv
<1>. QED BY Invariance, <1>1, PTL

\* provider.py: as long as every release was answered, no callback raises,
\* unbind() runs to its end and no envelope goes out without a lease.
THEOREM QuietReleaseHolds == Spec => []QuietRelease
<1>1. IInv => QuietRelease
  BY DEF IInv
<1>. QED BY Invariance, <1>1, PTL

\* provider.py, unbind(): as long as every release was answered no publisher
\* outlives its lease, and no callback runs outside a scope.
THEOREM NoStrayPublisherHolds == Spec => []NoStrayPublisher
<1>1. IInv => NoStrayPublisher
  BY DEF IInv, Apart, NoStrayPublisher
<1>. QED BY Invariance, <1>1, PTL

\* session.py, act(): a command goes out only while the status shows the lease
\* that was checked, or none any more.
THEOREM NoCommandOnceDisplacedHolds == Spec => NoCommandOnceDisplaced
<1>1. IInv => (Publish => shown \in {admitted, NoLease})
  BY DEF IInv, Admission, Publish
<1>. QED BY Invariance, <1>1, PTL DEF Spec, NoCommandOnceDisplaced
=============================================================================
