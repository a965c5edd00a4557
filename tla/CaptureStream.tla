---------------------------- MODULE CaptureStream ----------------------------
(* Sessions of the full-resolution stream on one open file: QBUF, DQBUF,       *)
(* STREAMON and STREAMOFF, against the copy thread and the firmware's callback.*)
(*                                                                             *)
(*   app     the ioctl caller, serialised by the device mutex;                 *)
(*   thread  isp_v4l2_stream_copy_thread, one per call of stream_on;           *)
(*   fw      the firmware thread in frame_buffer_fr_finished and callback_fr.  *)
(*                                                                             *)
(* videobuf2 is external: it owns the states of the buffers, gives them to the *)
(* driver with buf_queue and takes them back with vb2_buffer_done.  The DMA    *)
(* pipe is reduced to slots that are purged, in use or ready, in any order     *)
(* (FramePipeline has the order).  The format has been negotiated, the buffers *)
(* are allocated, and kthread_run succeeds.                                    *)
EXTENDS Naturals, FiniteSets

CONSTANTS Buffer,        \* the buffers of the queue
          Slot,          \* frame_buf_queue
          Worker,        \* kernel threads: as many copy threads as may exist at once
          MinBuffers,    \* min_buffers_needed, 3 in the build
          Null

ASSUME StreamAssumption ==
  /\ IsFiniteSet(Buffer) /\ MinBuffers \in 1..Cardinality(Buffer)
  /\ Null \notin Buffer /\ Null \notin Slot /\ Null \notin Worker

VARIABLES
  app,                   \* where the ioctl caller is
  vb,                    \* vb2: state of each buffer
  streaming, given,      \* vb2: q->streaming and start_streaming_called
  list,                  \* stream_buffer_list
  slot, status,          \* the DMA pipe: buffer and status of each slot
  sensorOn,              \* frames arrive
  started,               \* stream_started
  mailbox,               \* frame_mgr.frame_buffer when VALID
  kthread,               \* kthread_stream
  at, hand, stop,        \* of each thread: place, the frame it took, kthread_should_stop
  fw, frame,             \* the firmware thread's place and the slot it looks at
  \* History, for the properties only.
  leftOver               \* a session has ended with a frame in the mailbox or in a callback

queue == <<vb, streaming, given, list>>
dma == <<slot, status, sensorOn>>
threads == <<at, hand, stop>>
callback == <<fw, frame>>
vars == <<app, queue, dma, started, mailbox, kthread, threads, callback, leftOver>>

In(state) == {b \in Buffer : vb[b] = state}
Alive == {w \in Worker : at[w] # "none"}
InPipe == {slot[s] : s \in {t \in Slot : status[t] # "purge"}}
-----------------------------------------------------------------------------
(* The application.                                                            *)

Goto(from, to) == app = from /\ app' = to

\* isp_vb2_buf_queue for each of some buffers: each takes a purged slot while
\* there is one.
BufQueue(bs) ==
  /\ list' = list \cup bs
  /\ \E s \in [bs -> Slot \cup {Null}] :
       /\ \A b, c \in bs : s[b] = s[c] /\ s[b] # Null => b = c
       /\ \A b \in bs : s[b] # Null => status[s[b]] = "purge"
       /\ (\E b \in bs : s[b] = Null)
            => {t \in Slot : status[t] = "purge"} \subseteq {s[b] : b \in bs}
       /\ slot' = [t \in Slot |-> IF \E b \in bs : s[b] = t THEN CHOOSE b \in bs : s[b] = t ELSE slot[t]]
       /\ status' = [t \in Slot |-> IF \E b \in bs : s[b] = t THEN "empty" ELSE status[t]]

\* vb2_start_streaming: everything queued goes to the driver.
Give(states) ==
  LET bs == {b \in Buffer : states[b] = "queued"}
  IN /\ vb' = [b \in Buffer |-> IF b \in bs THEN "active" ELSE states[b]]
     /\ given' = TRUE
     /\ BufQueue(bs)

Keep(states) == vb' = states /\ UNCHANGED <<given, list, slot, status>>

\* vb2_qbuf
QBuf(b) ==
  /\ app = "idle" /\ vb[b] = "dequeued"
  /\ LET states == [vb EXCEPT ![b] = "queued"]
     IN IF given \/ (streaming /\ Cardinality(In("queued")) + 1 >= MinBuffers)
          THEN Give(states) ELSE Keep(states)
  /\ UNCHANGED <<app, streaming, sensorOn, started, mailbox, kthread, threads, callback, leftOver>>

\* vb2_dqbuf
DQBuf(b) ==
  /\ app = "idle" /\ streaming /\ vb[b] \in {"done", "error"}
  /\ vb' = [vb EXCEPT ![b] = "dequeued"]
  /\ UNCHANGED <<app, streaming, given, list, dma, started, mailbox, kthread, threads, callback, leftOver>>

\* isp_v4l2_streamon up to isp_v4l2_stream_on.  On a queue that streams
\* already vb2_streamon succeeds at once.  Worker bounds how often that happens.
StreamOn ==
  /\ Goto("idle", "spawn") /\ Alive # Worker
  /\ streaming' = TRUE
  /\ IF ~streaming /\ Cardinality(In("queued")) >= MinBuffers THEN Give(vb) ELSE Keep(vb)
  /\ UNCHANGED <<sensorOn, started, mailbox, kthread, threads, callback, leftOver>>

\* kthread_run: the new thread is remembered in the place of the last.
Spawn(w) ==
  /\ Goto("spawn", "start") /\ at[w] = "none"
  /\ kthread' = w
  /\ at' = [at EXCEPT ![w] = "wait"] /\ stop' = stop \ {w}
  /\ UNCHANGED <<queue, dma, started, mailbox, hand, callback, leftOver>>

\* fw_intf_stream_start
SensorStart ==
  /\ Goto("start", "flag")
  /\ sensorOn' = TRUE
  /\ UNCHANGED <<queue, slot, status, started, mailbox, kthread, threads, callback, leftOver>>

SetStarted ==
  /\ Goto("flag", "idle")
  /\ started' = TRUE
  /\ UNCHANGED <<queue, dma, mailbox, kthread, threads, callback, leftOver>>

\* isp_v4l2_streamoff: fw_intf_stream_stop
SensorStop ==
  /\ Goto("idle", "purge")
  /\ sensorOn' = FALSE
  /\ UNCHANGED <<queue, slot, status, started, mailbox, kthread, threads, callback, leftOver>>

\* acamera_api_dma_buff_queue_reset
QueueReset ==
  /\ Goto("purge", "join")
  /\ status' = [s \in Slot |-> "purge"]
  /\ UNCHANGED <<queue, slot, sensorOn, started, mailbox, kthread, threads, callback, leftOver>>

\* Mutant of StopThread: the thread is told to stop but not waited for.
StopThreadNoJoin ==
  /\ Goto("join", "release")
  /\ stop' = stop \cup ({kthread} \ {Null}) /\ kthread' = Null
  /\ UNCHANGED <<queue, dma, started, mailbox, at, hand, callback, leftOver>>

\* kthread_stop, when there is a thread
StopThread ==
  /\ IF kthread = Null
       THEN Goto("join", "release") /\ UNCHANGED stop
       ELSE Goto("join", "joined") /\ stop' = stop \cup {kthread}
  /\ UNCHANGED <<queue, dma, started, mailbox, kthread, at, hand, callback, leftOver>>

JoinThread ==
  /\ Goto("joined", "release") /\ at[kthread] = "exited"
  /\ at' = [at EXCEPT ![kthread] = "none"] /\ kthread' = Null
  /\ UNCHANGED <<queue, dma, started, mailbox, hand, stop, callback, leftOver>>

\* "Release all active buffers"
Release ==
  /\ Goto("release", "unflag")
  /\ vb' = [b \in Buffer |-> IF b \in list THEN "error" ELSE vb[b]] /\ list' = {}
  /\ UNCHANGED <<streaming, given, dma, started, mailbox, kthread, threads, callback, leftOver>>

ClearStarted ==
  /\ Goto("unflag", "cancel")
  /\ started' = FALSE
  /\ UNCHANGED <<queue, dma, mailbox, kthread, threads, callback, leftOver>>

\* vb2_streamoff: every buffer is the application's again.
Cancel ==
  /\ Goto("cancel", "idle")
  /\ vb' = [b \in Buffer |-> "dequeued"] /\ streaming' = FALSE /\ given' = FALSE
  /\ leftOver' = (leftOver \/ mailbox # Null \/ fw # "idle")
  /\ UNCHANGED <<list, dma, started, mailbox, kthread, threads, callback>>

App ==
  \/ \E b \in Buffer : QBuf(b) \/ DQBuf(b)
  \/ StreamOn \/ \E w \in Worker : Spawn(w)
  \/ SensorStart \/ SetStarted
  \/ SensorStop \/ QueueReset \/ StopThread \/ JoinThread \/ Release \/ ClearStarted \/ Cancel
-----------------------------------------------------------------------------
(* The copy thread.                                                            *)

ThreadGoto(w, from, to) == at[w] = from /\ at' = [at EXCEPT ![w] = to]

\* Mutant of ThreadExit: stream_started is looked at, which is cleared later.
ThreadExitUnstarted(w) ==
  /\ w \in stop /\ ~started /\ ThreadGoto(w, "wait", "exited")
  /\ UNCHANGED <<app, queue, dma, started, mailbox, kthread, hand, stop, callback, leftOver>>

\* The top of the loop.
ThreadExit(w) ==
  /\ w \in stop /\ ThreadGoto(w, "wait", "exited")
  /\ UNCHANGED <<app, queue, dma, started, mailbox, kthread, hand, stop, callback, leftOver>>

\* A frame is taken out of the mailbox, under its lock; a stop that comes after
\* the top of the loop does not matter any more.
ThreadTake(w) ==
  /\ mailbox # Null /\ ThreadGoto(w, "wait", "search")
  /\ hand' = [hand EXCEPT ![w] = mailbox] /\ mailbox' = Null
  /\ UNCHANGED <<app, queue, dma, started, kthread, stop, callback, leftOver>>

\* The buffer is looked up on the list, under the list's lock.
ThreadFind(w) ==
  /\ hand[w] \in list /\ ThreadGoto(w, "search", "done")
  /\ list' = list \ {hand[w]}
  /\ UNCHANGED <<app, vb, streaming, given, dma, started, mailbox, kthread, hand, stop, callback, leftOver>>

\* Mutant of ThreadMiss: the thread gives up.
ThreadMissExits(w) ==
  /\ hand[w] \notin list /\ ThreadGoto(w, "search", "exited")
  /\ hand' = [hand EXCEPT ![w] = Null]
  /\ UNCHANGED <<app, queue, dma, started, mailbox, kthread, stop, callback, leftOver>>

\* "Failed to find vb2 buffer on stream buffer list"
ThreadMiss(w) ==
  /\ hand[w] \notin list /\ ThreadGoto(w, "search", "wait")
  /\ hand' = [hand EXCEPT ![w] = Null]
  /\ UNCHANGED <<app, queue, dma, started, mailbox, kthread, stop, callback, leftOver>>

\* vb2_buffer_done, which refuses a buffer that is not active
ThreadDone(w) ==
  /\ ThreadGoto(w, "done", "wait")
  /\ vb' = [vb EXCEPT ![hand[w]] = IF @ = "active" THEN "done" ELSE @]
  /\ hand' = [hand EXCEPT ![w] = Null]
  /\ UNCHANGED <<app, streaming, given, list, dma, started, mailbox, kthread, stop, callback, leftOver>>

Thread(w) ==
  ThreadExit(w) \/ ThreadTake(w) \/ ThreadFind(w) \/ ThreadMiss(w) \/ ThreadDone(w)
-----------------------------------------------------------------------------
(* The firmware.                                                               *)

\* The ISP has written a frame and the pipe's update has retired its slot.
FrameWritten(s) ==
  /\ sensorOn /\ status[s] = "empty"
  /\ status' = [status EXCEPT ![s] = "ready"]
  /\ UNCHANGED <<app, queue, slot, sensorOn, started, mailbox, kthread, threads, callback, leftOver>>

\* frame_buffer_fr_finished has a ready slot and callback_fr finds the stream.
CallbackFind(s) ==
  /\ fw = "idle" /\ status[s] = "ready"
  /\ fw' = "found" /\ frame' = s
  /\ UNCHANGED <<app, queue, dma, started, mailbox, kthread, threads, leftOver>>

\* The frame was not taken: its slot is used again.
Recycle == status' = [status EXCEPT ![frame] = IF @ = "ready" THEN "empty" ELSE @]

CallbackCheck ==
  /\ fw = "found"
  /\ IF started THEN fw' = "save" /\ UNCHANGED status ELSE fw' = "idle" /\ Recycle
  /\ UNCHANGED <<app, queue, slot, sensorOn, started, mailbox, kthread, threads, frame, leftOver>>

\* Mutant of CallbackSave: the slot of the frame taken is used again.
CallbackSaveRecycles ==
  /\ fw = "save" /\ fw' = "idle"
  /\ mailbox' = IF mailbox = Null THEN slot[frame] ELSE mailbox
  /\ Recycle
  /\ UNCHANGED <<app, queue, slot, sensorOn, started, kthread, threads, frame, leftOver>>

\* Under the mailbox's lock; "lock buffer from firmware".
CallbackSave ==
  /\ fw = "save" /\ fw' = "idle"
  /\ IF mailbox = Null
       THEN mailbox' = slot[frame] /\ status' = [status EXCEPT ![frame] = "purge"]
       ELSE Recycle /\ UNCHANGED mailbox
  /\ UNCHANGED <<app, queue, slot, sensorOn, started, kthread, threads, frame, leftOver>>

Firmware ==
  (\E s \in Slot : FrameWritten(s) \/ CallbackFind(s)) \/ CallbackCheck \/ CallbackSave
-----------------------------------------------------------------------------
Init ==
  /\ app = "idle" /\ vb = [b \in Buffer |-> "dequeued"] /\ streaming = FALSE /\ given = FALSE
  /\ list = {} /\ slot = [s \in Slot |-> Null] /\ status = [s \in Slot |-> "purge"]
  /\ sensorOn = FALSE /\ started = FALSE /\ mailbox = Null /\ kthread = Null
  /\ at = [w \in Worker |-> "none"] /\ hand = [w \in Worker |-> Null] /\ stop = {}
  /\ fw = "idle" /\ \E s \in Slot : frame = s
  /\ leftOver = FALSE

Next == App \/ (\E w \in Worker : Thread(w)) \/ Firmware

Spec == Init /\ [][Next]_vars

\* An ioctl runs to its end, threads run, and the firmware finishes a callback
\* it has begun.  Nothing makes the application call or a frame arrive.
Fairness ==
  /\ WF_vars(App /\ app # "idle")
  /\ \A w \in Worker : WF_vars(Thread(w))
  /\ WF_vars(CallbackCheck \/ CallbackSave)

FairSpec == Spec /\ Fairness
-----------------------------------------------------------------------------
TypeOK ==
  /\ app \in {"idle", "spawn", "start", "flag", "purge", "join", "joined", "release", "unflag", "cancel"}
  /\ vb \in [Buffer -> {"dequeued", "queued", "active", "done", "error"}]
  /\ streaming \in BOOLEAN /\ given \in BOOLEAN /\ list \subseteq Buffer
  /\ slot \in [Slot -> Buffer \cup {Null}] /\ status \in [Slot -> {"purge", "empty", "ready"}]
  /\ sensorOn \in BOOLEAN /\ started \in BOOLEAN
  /\ mailbox \in Buffer \cup {Null} /\ kthread \in Worker \cup {Null}
  /\ at \in [Worker -> {"none", "wait", "search", "done", "exited"}]
  /\ hand \in [Worker -> Buffer \cup {Null}] /\ stop \subseteq Worker
  /\ fw \in {"idle", "found", "save"} /\ frame \in Slot
  /\ leftOver \in BOOLEAN

\* No buffer falls between the driver's hands: those vb2 has given and not got
\* back are on the list, or with the copy thread that is about to return them.
ActiveIsOwned ==
  In("active") = list \cup {hand[w] : w \in {v \in Worker : at[v] = "done"}}

\* When STREAMOFF reaches vb2_streamoff the driver owns no buffer, which is
\* what vb2 demands of a driver that has stopped.
ReturnedOnStop == app = "cancel" => In("active") = {}

\* Every buffer is owned while a session runs and given back when it ends.
NoBufferLost == ActiveIsOwned /\ ReturnedOnStop

\* A buffer about to be handed to the application is not in the DMA pipe,
\* unless an earlier session left a frame behind.
LockedUnlessLeftOver ==
  \A w \in Worker : at[w] = "done" /\ ~leftOver => hand[w] \notin InPipe

\* The same as the code says it, "lock buffer from firmware"
\* (isp-v4l2-stream.c:530): no buffer being delivered is one the ISP may write.
LockedFromFirmware == \A w \in Worker : at[w] = "done" => hand[w] \notin InPipe

\* STREAMOFF returns: the copy thread hears the stop whatever it is doing.
StopReturns == app = "join" ~> app = "idle"

\* A frame handed to a running stream is taken to the application's buffers,
\* or the stream is stopped.
FrameTaken == (mailbox # Null /\ streaming) ~> (mailbox = Null \/ app # "idle" \/ ~streaming)
=============================================================================
