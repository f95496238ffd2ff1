--------------------------- MODULE CameraCapture ---------------------------
(***************************************************************************)
(* The MJPEG camera node: the constructor opens and prepares the V4L2      *)
(* device, a capture thread passes the frames on, the destructor joins the *)
(* thread and closes the device.  Buffers go round between the driver and  *)
(* the capture thread.                                                     *)
(***************************************************************************)
EXTENDS Naturals, Sequences, FiniteSets

CONSTANTS
  Count,      \* numbers of buffers that the driver may grant
  Frame       \* what the driver may write: sequences of bytes

Byte == {"FF", "D8", "D9", "xx"}
Slots == UNION {1..n : n \in Count}

VARIABLES
  life,       \* what is next: open, query, format, request, prepare, stream;
              \* live, joining; failed (the constructor threw), gone
  opened,     \* fd_ is open
  granted,    \* buffers_.size()
  mapped,     \* buffers with a mapping
  driver,     \* buffers queued in the driver, waiting for a frame
  filled,     \* buffers in the driver with a frame
  memory,     \* memory[b]: what was last written to b
  running,    \* running_
  loop,       \* none, head, select, dequeue, publish, requeue or ended
  held,       \* the buffer in the loop's hand, 0 without one
  took,       \* the frame that was in it when it was dequeued
  sent        \* the last message published

cameraVars == <<life, opened, granted, mapped, driver, filled, memory,
                running, loop, held, took, sent>>

TypeOK ==
  /\ life \in {"open", "query", "format", "request", "prepare", "stream",
              "live", "joining", "failed", "gone"}
  /\ opened \in BOOLEAN /\ running \in BOOLEAN
  /\ granted \in {0} \cup Count
  /\ mapped \subseteq Slots /\ driver \subseteq Slots /\ filled \subseteq Slots
  /\ memory \in [Slots -> Frame \cup {<<>>}]
  /\ loop \in {"none", "head", "select", "dequeue", "publish", "requeue",
              "ended"}
  /\ held \in {0} \cup Slots
  /\ took \in Frame \cup {<<>>} /\ sent \in Seq(Byte)

Init ==
  /\ life = "open" /\ opened = FALSE /\ granted = 0
  /\ mapped = {} /\ driver = {} /\ filled = {}
  /\ memory = [b \in Slots |-> <<>>]
  /\ running = FALSE /\ loop = "none" /\ held = 0
  /\ took = <<>> /\ sent = <<>>

-----------------------------------------------------------------------------
\* close_device(): stream off, which takes the buffers back from the driver;
\* every mapping is undone and the descriptor closed.
CloseDevice ==
  /\ opened' = FALSE /\ granted' = 0
  /\ mapped' = {} /\ driver' = {} /\ filled' = {}

\* A call of open_device() fails: the device is closed and the constructor
\* throws, so that no destructor will run.
OpeningFails ==
  /\ life \in {"open", "query", "format", "request", "prepare", "stream"}
  /\ life' = "failed"
  /\ CloseDevice
  /\ UNCHANGED <<memory, running, loop, held, took, sent>>

OpenDevice ==
  /\ life = "open" /\ life' = "query" /\ opened' = TRUE
  /\ UNCHANGED <<granted, mapped, driver, filled, memory, running, loop, held,
                 took, sent>>

\* It is a streaming capture device.
QueryCapability ==
  /\ life = "query" /\ life' = "format"
  /\ UNCHANGED <<opened, granted, mapped, driver, filled, memory, running,
                 loop, held, took, sent>>

\* MJPEG was negotiated.  A frame rate that cannot be set is only a warning.
SetFormat ==
  /\ life = "format" /\ life' = "request"
  /\ UNCHANGED <<opened, granted, mapped, driver, filled, memory, running,
                 loop, held, took, sent>>

\* Four buffers are asked for; fewer than two are refused.
RequestBuffers ==
  /\ life = "request" /\ life' = "prepare"
  /\ \E n \in Count : n >= 2 /\ granted' = n
  /\ UNCHANGED <<opened, mapped, driver, filled, memory, running, loop, held,
                 took, sent>>

\* The next buffer is mapped and queued.  When the queueing fails it is
\* mapped already, which close_device() sees to.
PrepareBuffer ==
  /\ life = "prepare"
  /\ LET b == Cardinality(driver) + 1
     IN \/ /\ b \notin mapped /\ mapped' = mapped \cup {b}
           /\ UNCHANGED <<driver, life>>
        \/ /\ b \in mapped /\ driver' = driver \cup {b}
           /\ life' = IF b = granted THEN "stream" ELSE "prepare"
           /\ UNCHANGED mapped
  /\ UNCHANGED <<opened, granted, filled, memory, running, loop, held, took,
                 sent>>

\* The stream is on: the capture thread starts.
StreamOn ==
  /\ life = "stream" /\ life' = "live"
  /\ running' = TRUE /\ loop' = "head"
  /\ UNCHANGED <<opened, granted, mapped, driver, filled, memory, held, took,
                 sent>>

\* The head of the loop: stop when told to or when ROS is down.
LoopHead ==
  /\ loop = "head"
  /\ \/ running /\ loop' = "select"
     \/ loop' = "ended"
  /\ UNCHANGED <<life, opened, granted, mapped, driver, filled, memory,
                 running, held, took, sent>>

\* select(): a frame, 200 ms without one (or an interrupted call), or an
\* error, which ends the loop.
Select ==
  /\ loop = "select"
  /\ \/ filled # {} /\ loop' = "dequeue"
     \/ loop' \in {"head", "ended"}
  /\ UNCHANGED <<life, opened, granted, mapped, driver, filled, memory,
                 running, held, took, sent>>

\* VIDIOC_DQBUF: a filled buffer; EAGAIN starts over, another error ends the
\* loop.
Dequeue ==
  /\ loop = "dequeue"
  /\ \/ \E b \in filled :
          /\ filled' = filled \ {b} /\ held' = b /\ took' = memory[b]
          /\ loop' = "publish"
     \/ loop' \in {"head", "ended"} /\ UNCHANGED <<filled, held, took>>
  /\ UNCHANGED <<life, opened, granted, mapped, driver, memory, running, sent>>

\* jpeg_payload_size(): up to the last end-of-image marker, all of it when
\* the markers are missing.
Payload(d) ==
  LET ends == {i \in 2..Len(d) : d[i - 1] = "FF" /\ d[i] = "D9"}
  IN IF Len(d) < 4 \/ d[1] # "FF" \/ d[2] # "D8" \/ ends = {}
     THEN d
     ELSE SubSeq(d, 1, CHOOSE i \in ends : \A j \in ends : j <= i)

\* Mutant of Publish: a frame that is too short goes to the next iteration.
PublishOrContinue ==
  /\ loop = "publish"
  /\ IF held \in mapped /\ Len(memory[held]) >= 4
     THEN sent' = Payload(memory[held]) /\ loop' = "requeue"
     ELSE loop' = "head" /\ UNCHANGED sent
  /\ UNCHANGED <<life, opened, granted, mapped, driver, filled, memory,
                 running, held, took>>

\* A frame of at least four bytes is published, another one dropped.
Publish ==
  /\ loop = "publish" /\ loop' = "requeue"
  /\ IF held \in mapped /\ Len(memory[held]) >= 4
     THEN sent' = Payload(memory[held]) ELSE UNCHANGED sent
  /\ UNCHANGED <<life, opened, granted, mapped, driver, filled, memory,
                 running, held, took>>

\* VIDIOC_QBUF gives the buffer back; an error ends the loop.
Requeue ==
  /\ loop = "requeue" /\ held' = 0
  /\ \/ driver' = driver \cup {held} /\ loop' = "head"
     \/ loop' = "ended" /\ UNCHANGED driver
  /\ UNCHANGED <<life, opened, granted, mapped, filled, memory, running, took,
                 sent>>

\* The destructor tells the thread to stop and waits for it,
StopLoop ==
  /\ life = "live" /\ life' = "joining" /\ running' = FALSE
  /\ UNCHANGED <<opened, granted, mapped, driver, filled, memory, loop, held,
                 took, sent>>

\* then closes the device.
JoinAndClose ==
  /\ life = "joining" /\ loop = "ended" /\ life' = "gone"
  /\ CloseDevice
  /\ UNCHANGED <<memory, running, loop, held, took, sent>>

\* Environment: the driver writes a frame into a queued buffer.
DriverFills(b) ==
  /\ life \in {"live", "joining"} /\ b \in driver
  /\ \E f \in Frame : memory' = [memory EXCEPT ![b] = f]
  /\ driver' = driver \ {b} /\ filled' = filled \cup {b}
  /\ UNCHANGED <<life, opened, granted, mapped, running, loop, held, took, sent>>

Next ==
  \/ OpeningFails \/ OpenDevice \/ QueryCapability \/ SetFormat
  \/ RequestBuffers \/ PrepareBuffer \/ StreamOn
  \/ LoopHead \/ Select \/ Dequeue \/ Publish \/ Requeue
  \/ StopLoop \/ JoinAndClose
  \/ \E b \in Slots : DriverFills(b)

Spec == Init /\ [][Next]_cameraVars

-----------------------------------------------------------------------------
\* Buffers go round: between two frames the loop has given every buffer back
\* to the driver, whatever was in the frame; the one in its hand is mapped
\* and still holds the frame that was dequeued; and a device that failed to
\* open or was closed leaves no mapping and no descriptor behind.
BuffersGoRound ==
  /\ loop \in {"head", "select", "dequeue"} => driver \cup filled = 1..granted
  /\ loop = "publish" => held \in mapped /\ memory[held] = took
  /\ life \in {"failed", "gone"} => mapped = {} /\ ~opened
=============================================================================
