-------------------------- MODULE ControllerSwitch --------------------------
(***************************************************************************)
(* ControllerManagerClient: several callers switch the controllers of one  *)
(* part.  A switch is three service calls with an await between them (list,*)
(* switch, list again); the controller manager (environment) serves them   *)
(* in any order, and a request whose caller timed out may still be served. *)
(* A bound: a caller whose request is still unserved makes no new call.    *)
(***************************************************************************)
EXTENDS Naturals, FiniteSets

CONSTANTS
  Controller,  \* controllers that claim the same joints
  Caller       \* concurrent callers of switch_controller

VARIABLES
  loaded,      \* controllers the manager has loaded
  active,      \* those that are active
  cpc,         \* cpc[k]: idle, list, switch, verify, done, skipped or raised
  wish,        \* wish[k]: the arguments, [on, off]
  request,     \* request[k]: the switch request, reduced to what is loaded
  reply,       \* reply[k]: the answer to the switch request, then what the
               \* second list shows
  disturbed    \* callers whose confirmed switch was changed by another one

switchVars == <<loaded, active, cpc, wish, request, reply, disturbed>>

Request == [on : SUBSET Controller, off : SUBSET Controller]
Nothing == [on |-> {}, off |-> {}]
Bare(r) == r.on = {} /\ r.off = {}

TypeOK ==
  /\ loaded \subseteq Controller /\ active \subseteq loaded
  /\ Cardinality(active) <= 1
  /\ cpc \in [Caller -> {"idle", "list", "switch", "verify", "done", "skipped",
                         "raised"}]
  /\ wish \in [Caller -> Request]
  /\ request \in [Caller -> Request]
  /\ reply \in [Caller -> {"none", "ok", "rejected", "confirmed", "refuted"}]
  /\ disturbed \subseteq Caller

Init ==
  /\ loaded = {} /\ active = {}
  /\ cpc = [k \in Caller |-> "idle"]
  /\ wish = [k \in Caller |-> Nothing]
  /\ request = [k \in Caller |-> Nothing]
  /\ reply = [k \in Caller |-> "none"]
  /\ disturbed = {}

-----------------------------------------------------------------------------
\* switch_controller(activate, deactivate); both services are there.
Begin(k) ==
  /\ cpc[k] \in {"idle", "done", "skipped", "raised"} /\ Bare(request[k])
  /\ \E w \in Request :
       /\ ~Bare(w) /\ w.on \cap w.off = {} /\ Cardinality(w.on) <= 1
       /\ wish' = [wish EXCEPT ![k] = w]
  /\ cpc' = [cpc EXCEPT ![k] = "list"]
  /\ disturbed' = disturbed \ {k}
  /\ UNCHANGED <<loaded, active, request, reply>>

\* The first list: what is not loaded is left out of the request.  Nothing
\* left to do is a normal return when an activation was left out, and an
\* error otherwise.
Listed(k) ==
  LET kept == [on |-> wish[k].on \cap loaded, off |-> wish[k].off \cap loaded]
  IN /\ cpc[k] = "list"
     /\ request' = [request EXCEPT ![k] = kept]
     /\ reply' = [reply EXCEPT ![k] = "none"]
     /\ cpc' = [cpc EXCEPT ![k] = IF ~Bare(kept) THEN "switch"
                                  ELSE IF wish[k].on # {} THEN "skipped"
                                  ELSE "raised"]
     /\ UNCHANGED <<loaded, active, wish, disturbed>>

\* The second list has shown k its wish fulfilled; k may not know it yet.
Told(k) == cpc[k] = "done" \/ (cpc[k] = "verify" /\ reply[k] = "confirmed")

\* Environment: the manager performs a STRICT switch as a whole, or rejects
\* it; it rejects one that would leave two controllers on the same joints.
ServeSwitch(k) ==
  LET now == (active \ request[k].off) \cup request[k].on
  IN /\ ~Bare(request[k]) /\ reply[k] = "none"
     /\ \/ /\ Cardinality(now) <= 1
           /\ active' = now
           /\ reply' = [reply EXCEPT ![k] = "ok"]
           /\ disturbed' = IF now = active THEN disturbed
                           ELSE disturbed \cup {j \in Caller \ {k} : Told(j)}
        \/ /\ reply' = [reply EXCEPT ![k] = "rejected"]
           /\ UNCHANGED <<active, disturbed>>
     /\ request' = IF cpc[k] = "switch" THEN request
                   ELSE [request EXCEPT ![k] = Nothing]
     /\ UNCHANGED <<loaded, cpc, wish>>

Switched(k) ==
  /\ cpc[k] = "switch" /\ reply[k] # "none"
  /\ cpc' = [cpc EXCEPT ![k] = IF reply[k] = "ok" THEN "verify" ELSE "raised"]
  /\ request' = IF reply[k] = "ok" THEN request
                ELSE [request EXCEPT ![k] = Nothing]
  /\ UNCHANGED <<loaded, active, wish, reply, disturbed>>

Confirmed(k) == request[k].on \subseteq active /\ request[k].off \cap active = {}

\* Environment: the manager answers the second list.
ServeList(k) ==
  /\ cpc[k] = "verify" /\ reply[k] = "ok"
  /\ reply' = [reply EXCEPT ![k] = IF Confirmed(k) THEN "confirmed" ELSE "refuted"]
  /\ UNCHANGED <<loaded, active, cpc, wish, request, disturbed>>

\* Mutant of Verify: the states in the answer are not looked at.
VerifyByReply(k) ==
  /\ cpc[k] = "verify" /\ reply[k] \in {"confirmed", "refuted"}
  /\ cpc' = [cpc EXCEPT ![k] = "done"]
  /\ wish' = [wish EXCEPT ![k] = request[k]]
  /\ request' = [request EXCEPT ![k] = Nothing]
  /\ UNCHANGED <<loaded, active, reply, disturbed>>

\* The second list is received: the requested states are there, or the call
\* raises.  wish[k] keeps what was asked of the manager.
Verify(k) ==
  /\ cpc[k] = "verify" /\ reply[k] \in {"confirmed", "refuted"}
  /\ cpc' = [cpc EXCEPT ![k] = IF reply[k] = "confirmed" THEN "done" ELSE "raised"]
  /\ wish' = [wish EXCEPT ![k] = request[k]]
  /\ request' = [request EXCEPT ![k] = Nothing]
  /\ UNCHANGED <<loaded, active, reply, disturbed>>

\* A service is missing or a call is not answered in time; a switch request
\* that is under way stays under way.
TimesOut(k) ==
  /\ cpc[k] \in {"list", "switch", "verify"}
  /\ cpc' = [cpc EXCEPT ![k] = "raised"]
  /\ request' = IF cpc[k] = "switch" /\ reply[k] = "none" THEN request
                ELSE [request EXCEPT ![k] = Nothing]
  /\ UNCHANGED <<loaded, active, wish, reply, disturbed>>

\* Environment: a spawner loads a controller.
Load(c) ==
  /\ c \notin loaded
  /\ loaded' = loaded \cup {c}
  /\ UNCHANGED <<active, cpc, wish, request, reply, disturbed>>

Next ==
  \/ \E k \in Caller :
       \/ Begin(k) \/ Listed(k) \/ ServeSwitch(k) \/ Switched(k) \/ ServeList(k)
       \/ Verify(k) \/ TimesOut(k)
  \/ \E c \in Controller : Load(c)

Spec == Init /\ [][Next]_switchVars

-----------------------------------------------------------------------------
\* A switch that returned after its verification is true of what it asked the
\* manager for: that held when the second list was answered, and holds until
\* another caller's switch changes it, which may be before the caller is told.
\* (A switch whose reply was ok but which was undone before the second list
\* raises instead.)  Controllers that were not loaded are no part of the
\* request: a normal return, with nothing left to ask or not, says nothing of
\* them.
ReturnedMeansSwitched ==
  \A k \in Caller \ disturbed :
    cpc[k] = "done" => wish[k].on \subseteq active /\ wish[k].off \cap active = {}
=============================================================================
