---------------------------- MODULE EpisodeStore ----------------------------
(***************************************************************************)
(* EpisodeRecorder and its EpisodeScopes in front of the episode_recorder  *)
(* service (environment).  The facade is synchronous; what makes it hard   *)
(* is that each service call may fail before or after it took effect, that *)
(* bringing the service up takes two calls, and that scopes are objects    *)
(* which an application may enter again.                                   *)
(***************************************************************************)
EXTENDS Naturals

CONSTANTS
  Scope,      \* EpisodeScope objects
  MaxUse      \* bound: how often a scope is entered

NoScope == "none"

VARIABLES
  facade,     \* EpisodeRecorder._active
  service,    \* off, up (activated), ready (prepared) or recording
  entered,    \* scopes that are entered
  discarded,  \* scopes whose discarded flag is set
  recorded,   \* the scope whose __enter__ started the present recording
  unsure,     \* scopes with a failed recorder call for that recording
  uses        \* uses[s]: how often s was entered

storeVars == <<facade, service, entered, discarded, recorded, unsure, uses>>

TypeOK ==
  /\ facade \in BOOLEAN
  /\ service \in {"off", "up", "ready", "recording"}
  /\ entered \subseteq Scope /\ discarded \subseteq Scope
  /\ recorded \in Scope \cup {NoScope}
  /\ unsure \subseteq Scope
  /\ uses \in [Scope -> 0..MaxUse]

Init ==
  /\ facade = FALSE /\ service = "off"
  /\ entered = {} /\ discarded = {}
  /\ recorded = NoScope /\ unsure = {}
  /\ uses = [s \in Scope |-> 0]

-----------------------------------------------------------------------------
\* activate(): two calls, each may fail with the first already done.
Activate ==
  /\ ~facade
  /\ \/ /\ facade' = TRUE
        /\ service' = IF service = "recording" THEN service ELSE "ready"
     \/ /\ service = "off" /\ service' \in {"up", "ready"}
        /\ UNCHANGED facade
  /\ UNCHANGED <<entered, discarded, recorded, unsure, uses>>

\* __enter__, after its activate(): the service refuses to start a second
\* recording.  After a start whose answer was lost the scope is not entered.
Enter(s) ==
  /\ facade /\ s \notin entered /\ uses[s] < MaxUse
  /\ service = "ready"
  /\ service' = "recording" /\ recorded' = s
  /\ \/ /\ entered' = entered \cup {s}
        /\ unsure' = unsure \ {s}
     \/ /\ unsure' = unsure \cup {s}
        /\ UNCHANGED entered
  /\ uses' = [uses EXCEPT ![s] = @ + 1]
  /\ UNCHANGED <<facade, discarded>>

Ended == service' = IF service = "recording" THEN "ready" ELSE service

\* EpisodeScope.discard(): the flag is set once the call has returned.
Discard(s) ==
  /\ s \in entered \ discarded
  /\ \/ Ended /\ discarded' = discarded \cup {s} /\ UNCHANGED unsure
     \/ /\ Ended \/ UNCHANGED service
        /\ unsure' = unsure \cup {s}
        /\ UNCHANGED discarded
  /\ UNCHANGED <<facade, entered, recorded, uses>>

\* Mutant of ExitByError: the error passes through and nothing is discarded.
ExitByErrorOnly(s) ==
  /\ s \in entered
  /\ entered' = entered \ {s}
  /\ UNCHANGED <<service, discarded, unsure, facade, recorded, uses>>

\* __exit__ with an exception: an episode that is not yet discarded is; a
\* failure of that is logged and the scope is left all the same.
ExitByError(s) ==
  /\ s \in entered
  /\ entered' = entered \ {s}
  /\ \/ s \in discarded /\ UNCHANGED <<service, discarded, unsure>>
     \/ /\ s \notin discarded /\ Ended
        /\ discarded' = discarded \cup {s}
        /\ UNCHANGED unsure
     \/ /\ s \notin discarded /\ (Ended \/ UNCHANGED service)
        /\ unsure' = unsure \cup {s}
        /\ UNCHANGED discarded
  /\ UNCHANGED <<facade, recorded, uses>>

\* __exit__ without one: the episode is finalized, unless it was discarded.
ExitNormally(s) ==
  /\ s \in entered
  /\ entered' = entered \ {s}
  /\ \/ s \in discarded /\ UNCHANGED <<service, unsure>>
     \/ s \notin discarded /\ Ended /\ UNCHANGED unsure
     \/ /\ s \notin discarded /\ (Ended \/ UNCHANGED service)
        /\ unsure' = unsure \cup {s}
  /\ UNCHANGED <<facade, discarded, recorded, uses>>

\* EpisodeRecorder.discard(): whatever is being recorded.
DiscardAny ==
  /\ facade /\ service = "recording"
  /\ service' = "ready"
  /\ UNCHANGED <<facade, entered, discarded, recorded, unsure, uses>>

\* close(): only a facade that came up completely closes the service, and the
\* service ends a recording that is under way.  Or the call fails.
Close ==
  /\ facade
  /\ \/ facade' = FALSE /\ service' = "off"
     \/ service' \in {service, "off"} /\ UNCHANGED facade
  /\ UNCHANGED <<entered, discarded, recorded, unsure, uses>>

Next ==
  \/ Activate \/ DiscardAny \/ Close
  \/ \E s \in Scope : \/ Enter(s) \/ Discard(s)
                      \/ ExitByError(s) \/ ExitNormally(s)

Spec == Init /\ [][Next]_storeVars

-----------------------------------------------------------------------------
\* No recording goes on that nobody will end: the scope that started it is
\* still entered, or one of its recorder calls failed, or that scope object
\* had been discarded and was entered again (its flag is never reset, so it
\* neither finalizes nor discards what it records the second time).
RecordingHasAnEnd ==
  service = "recording" =>
    recorded \in entered \cup unsure \cup discarded
=============================================================================
