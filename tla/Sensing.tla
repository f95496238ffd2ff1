------------------------------ MODULE Sensing ------------------------------
(***************************************************************************)
(* One sensor stream: the ROS callback fills a bounded SampleBuffer, and   *)
(* application threads read it or wait for the next sample under the       *)
(* buffer's condition variable.  A sample is its sequence number.          *)
(*                                                                         *)
(* Callbacks of one subscription do not overlap; a callback may still be   *)
(* on its way when the sensor is closed.                                   *)
(***************************************************************************)
EXTENDS Naturals, Sequences

CONSTANTS
  Waiter,     \* application threads
  Capacity,   \* history_size
  MaxSeq,     \* bound: messages delivered
  MaxCalls    \* bound: calls of a thread

VARIABLES
  sequence,   \* Sensor._sequence
  samples,    \* the buffer, oldest first
  open,       \* the subscription exists
  taken,      \* the executor is inside _on_message
  wpc,        \* wpc[w]: idle, checked, asleep, awake, got, timeout
  after,      \* after[w]: the sequence that w wants to see exceeded
  late,       \* late[w]: w's deadline has passed
  calls       \* calls[w]: calls made so far

sensingVars == <<sequence, samples, open, taken, wpc, after, late, calls>>

Newest == IF samples = <<>> THEN 0 ELSE samples[Len(samples)]

TypeOK ==
  /\ sequence \in 0..MaxSeq
  /\ samples \in Seq(1..MaxSeq) /\ Len(samples) <= Capacity
  /\ open \in BOOLEAN /\ taken \in BOOLEAN
  /\ wpc \in [Waiter -> {"idle", "checked", "asleep", "awake", "got",
                         "timeout"}]
  /\ after \in [Waiter -> 0..MaxSeq]
  /\ late \in [Waiter -> BOOLEAN]
  /\ calls \in [Waiter -> 0..MaxCalls]

Init ==
  /\ sequence = 0 /\ samples = <<>>
  /\ open = TRUE /\ taken = FALSE
  /\ wpc = [w \in Waiter |-> "idle"]
  /\ after = [w \in Waiter |-> 0]
  /\ late = [w \in Waiter |-> FALSE]
  /\ calls = [w \in Waiter |-> 0]

-----------------------------------------------------------------------------
\* The executor takes a message and enters _on_message.
TakeMessage ==
  /\ open /\ ~taken /\ sequence < MaxSeq
  /\ taken' = TRUE
  /\ UNCHANGED <<sequence, samples, open, wpc, after, late, calls>>

\* Mutant of Added: the buffer grows without bound.
AddedUnbounded(s) == Append(samples, s)

\* The buffer with one more sample; the oldest falls out of a full one.
Added(s) ==
  LET all == Append(samples, s)
  IN IF Len(all) > Capacity THEN Tail(all) ELSE all

\* Mutant of AddSample: the waiting threads are not notified.
AddSampleSilently ==
  /\ taken /\ taken' = FALSE
  /\ sequence' = sequence + 1
  /\ samples' = Added(sequence + 1)
  /\ UNCHANGED <<open, after, late, calls, wpc>>

\* The rest of _on_message: number the sample, add it, notify all.
AddSample ==
  /\ taken /\ taken' = FALSE
  /\ sequence' = sequence + 1
  /\ samples' = Added(sequence + 1)
  /\ wpc' = [w \in Waiter |-> IF wpc[w] = "asleep" THEN "awake" ELSE wpc[w]]
  /\ UNCHANGED <<open, after, late, calls>>

\* close(): no more messages are taken; sleeping threads sleep on.
Close ==
  /\ open /\ open' = FALSE
  /\ UNCHANGED <<sequence, samples, taken, wpc, after, late, calls>>

\* wait_until_ready() looks whether there is a sample; if not, the wait for
\* the next one is a later step.
CheckReady(w) ==
  /\ wpc[w] \in {"idle", "got", "timeout"} /\ calls[w] < MaxCalls
  /\ calls' = [calls EXCEPT ![w] = @ + 1]
  /\ wpc' = [wpc EXCEPT ![w] = IF samples # <<>> THEN "got" ELSE "checked"]
  /\ UNCHANGED <<sequence, samples, open, taken, after, late>>

\* wait_next(after_sequence): a = None stands for the newest sample there is
\* when the lock is taken.  The first look happens under the same lock.
EnterWait(w, a) ==
  /\ after' = [after EXCEPT ![w] = a]
  /\ late' = [late EXCEPT ![w] = FALSE]
  /\ wpc' = [wpc EXCEPT ![w] = IF Newest > a THEN "got" ELSE "asleep"]
  /\ UNCHANGED <<sequence, samples, open, taken>>

WaitNext(w) ==
  \/ /\ wpc[w] = "checked"
     /\ EnterWait(w, Newest)
     /\ UNCHANGED calls
  \/ /\ wpc[w] \in {"idle", "got", "timeout"} /\ calls[w] < MaxCalls
     /\ calls' = [calls EXCEPT ![w] = @ + 1]
     /\ \E a \in {Newest} \cup 0..sequence : EnterWait(w, a)

\* The deadline passes; the condition's own timeout wakes a sleeping thread.
Expire(w) ==
  /\ wpc[w] \in {"asleep", "awake"} /\ ~late[w]
  /\ late' = [late EXCEPT ![w] = TRUE]
  /\ wpc' = [wpc EXCEPT ![w] = "awake"]
  /\ UNCHANGED <<sequence, samples, open, taken, after, calls>>

\* Mutant of Recheck: a thread that was woken goes back to sleep whether or
\* not its deadline has passed.
RecheckForever(w) ==
  /\ wpc[w] = "awake"
  /\ wpc' = [wpc EXCEPT ![w] = IF Newest > after[w] THEN "got" ELSE "asleep"]
  /\ UNCHANGED <<sequence, samples, open, taken, after, late, calls>>

\* A woken thread has the lock again: the sample first, then the deadline.
Recheck(w) ==
  /\ wpc[w] = "awake"
  /\ wpc' = [wpc EXCEPT ![w] = IF Newest > after[w] THEN "got"
                               ELSE IF late[w] THEN "timeout" ELSE "asleep"]
  /\ UNCHANGED <<sequence, samples, open, taken, after, late, calls>>

Next ==
  \/ TakeMessage \/ AddSample \/ Close
  \/ \E w \in Waiter : CheckReady(w) \/ WaitNext(w) \/ Expire(w) \/ Recheck(w)

Spec == Init /\ [][Next]_sensingVars

\* Time passes for a waiting thread, and a woken thread gets the lock.
Fairness == \A w \in Waiter : WF_sensingVars(Expire(w)) /\ WF_sensingVars(Recheck(w))

-----------------------------------------------------------------------------
\* No wakeup is lost: a thread never sleeps on the condition while the buffer
\* holds a sample it waits for.
NoSleepOnNews == \A w \in Waiter : wpc[w] = "asleep" => Newest <= after[w]

\* Every wait ends, with a sample or a timeout, also when the sensor is
\* closed under the waiting thread.
WaitsEnd ==
  \A w \in Waiter : wpc[w] \in {"asleep", "awake"} ~> wpc[w] \in {"got", "timeout"}
=============================================================================
