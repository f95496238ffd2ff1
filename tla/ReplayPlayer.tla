---------------------------- MODULE ReplayPlayer ----------------------------
(***************************************************************************)
(* Paced replay of recorded actions: McapActionSource yields record times, *)
(* ActionTimestampRebaser moves them onto the present clocks, ReplayPlayer *)
(* sleeps until each deadline.  A player may be iterated again, also when  *)
(* the iteration before was left half way, and its consumer takes its time.*)
(*                                                                         *)
(* The ROS clock and the steady clock tick together and differ by Ahead:   *)
(* stamps are times of the one, deadlines of the other.                    *)
(***************************************************************************)
EXTENDS Naturals, Sequences

CONSTANTS
  Episode,    \* recorded episodes: sequences of record times
  Ahead,      \* what the ROS clock shows more than the steady clock
  MaxTime,    \* bound: the steady clock
  MaxPass     \* bound: iterations, and calls of open()

VARIABLES
  clock,      \* the steady clock
  opened,     \* ReplayPlayer._opened, and the source has its reader
  opens,      \* calls of open() so far
  episode,    \* the episode the source reads
  next,       \* the next record of the reader
  origin,     \* the rebaser's origins: {[source, ros, steady]}, {} before start()
  last,       \* {_last_source_ns}, {} before the first action
  due,        \* the action on its way: {[stamp, deadline, source]}, or {}
  sent,       \* what this iteration has yielded: [stamp, deadline,
              \* source, at]
  halted,     \* the iteration raised
  pass,       \* iterations so far
  began       \* when the present iteration began

playerVars == <<clock, opened, opens, episode, next, origin, last, due, sent,
                halted, pass, began>>

TypeOK ==
  /\ clock \in 0..MaxTime
  /\ opened \in BOOLEAN /\ opens \in 0..MaxPass /\ halted \in BOOLEAN
  /\ episode \in Episode \cup {<<>>}
  /\ next \in Nat /\ next <= Len(episode) + 1
  /\ origin \subseteq [source : Nat, ros : Nat, steady : 0..MaxTime]
  /\ last \subseteq Nat
  /\ due \subseteq [stamp : Nat, deadline : Nat, source : Nat]
  /\ sent \in Seq([stamp : Nat, deadline : Nat, source : Nat, at : 0..MaxTime])
  /\ pass \in 0..MaxPass /\ began \in 0..MaxTime

Init ==
  /\ clock = 0 /\ opened = FALSE /\ opens = 0 /\ episode = <<>> /\ next = 1
  /\ origin = {} /\ last = {} /\ due = {}
  /\ sent = <<>> /\ halted = FALSE /\ pass = 0 /\ began = 0

-----------------------------------------------------------------------------
\* open(): the source starts a new reader on its episode.
Open ==
  /\ ~opened /\ opens < MaxPass
  /\ opened' = TRUE /\ opens' = opens + 1 /\ next' = 1
  /\ episode' \in IF opens = 0 THEN Episode ELSE {episode}
  /\ UNCHANGED <<clock, origin, last, due, sent, halted, pass, began>>

\* close(); an iteration that is left half way is not told.
ClosePlayer ==
  /\ opened /\ due = {} /\ pass > 0 /\ opened' = FALSE
  /\ UNCHANGED <<clock, opens, episode, next, origin, last, due, sent, halted,
                 pass, began>>

\* Mutant of Iterate: the rebaser of the iteration before is used again.
IterateRebaserKept ==
  /\ opened /\ due = {} /\ pass < MaxPass
  /\ pass' = pass + 1 /\ began' = clock
  /\ next' = 1 /\ last' = {}
  /\ sent' = <<>> /\ halted' = FALSE
  /\ UNCHANGED <<clock, opened, opens, episode, origin, due>>

\* __iter__: the source starts over, with a new rebaser.
Iterate ==
  /\ opened /\ due = {} /\ pass < MaxPass
  /\ pass' = pass + 1 /\ began' = clock
  /\ next' = 1 /\ origin' = {} /\ last' = {}
  /\ sent' = <<>> /\ halted' = FALSE
  /\ UNCHANGED <<clock, opened, opens, episode, due>>

\* rewrite() refuses a time before the origin and one that runs backwards.
Refused(t, from) == t < from.source \/ \E l \in last : t < l

\* The next action: the first one sets the origins.  Its stamp and its deadline
\* are as far from the present origins as its time from the recorded one.
Rewrite ==
  /\ opened /\ pass > 0 /\ ~halted /\ due = {} /\ next <= Len(episode)
  /\ LET t == episode[next]
         from == IF origin = {} THEN [source |-> t, ros |-> clock + Ahead,
                                          steady |-> clock]
                 ELSE CHOOSE o \in origin : TRUE
     IN /\ next' = next + 1
        /\ origin' = {from}
        /\ IF Refused(t, from)
           THEN halted' = TRUE /\ UNCHANGED <<last, due>>
           ELSE /\ last' = {t}
                /\ due' = {[stamp |-> from.ros + (t - from.source),
                            deadline |-> from.steady + (t - from.source),
                            source |-> t]}
                /\ UNCHANGED halted
  /\ UNCHANGED <<clock, opened, opens, episode, sent, pass, began>>

\* An iteration that goes on after close() has no reader any more: it raises.
ReadClosed ==
  /\ ~opened /\ pass > 0 /\ ~halted /\ halted' = TRUE
  /\ UNCHANGED <<clock, opened, opens, episode, next, origin, last, due, sent,
                 pass, began>>

\* Once its deadline is reached, or at once when it has passed, the action is
\* yielded.
Yield ==
  /\ \E d \in due :
       /\ clock >= d.deadline
       /\ sent' = Append(sent, [stamp |-> d.stamp, deadline |-> d.deadline,
                                source |-> d.source, at |-> clock])
  /\ due' = {}
  /\ UNCHANGED <<clock, opened, opens, episode, next, origin, last, halted,
                 pass, began>>

Tick ==
  /\ clock < MaxTime /\ clock' = clock + 1
  /\ UNCHANGED <<opened, opens, episode, next, origin, last, due, sent, halted,
                 pass, began>>

Next == Open \/ ClosePlayer \/ Iterate \/ Rewrite \/ ReadClosed \/ Yield \/ Tick

Spec == Init /\ [][Next]_playerVars

-----------------------------------------------------------------------------
\* Replay at 1x: within an iteration, stamps are as far apart as the recorded
\* times, never run backwards and start in the present, all on the ROS clock;
\* and no action goes out before the time of its stamp, read on the steady
\* clock, however late the consumer was with the one before.
PlayedAtRecordedPace ==
  \A i \in DOMAIN sent :
    /\ sent[i].at + Ahead >= sent[i].stamp
    /\ sent[i].stamp - sent[1].stamp = sent[i].source - sent[1].source
    /\ sent[i].stamp >= began + Ahead
    /\ i > 1 => sent[i - 1].stamp <= sent[i].stamp
=============================================================================
