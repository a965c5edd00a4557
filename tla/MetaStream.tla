------------------------------ MODULE MetaStream ------------------------------
(* The metadata stream, isp-v4l2-stream.c: it has no copy thread, so that the  *)
(* firmware's callback fills the buffers itself, and stream off waits for it by*)
(* the counter running.                                                        *)
(*                                                                             *)
(*   app     one file: open, S_FMT, the ioctls of a session, close;            *)
(*   fw      the firmware thread in callback_meta, once per frame.             *)
(*                                                                             *)
(* videobuf2 is external, as in CaptureStream: it gives buffers to the driver  *)
(* with buf_queue and takes them back with vb2_buffer_done.  The format is     *)
(* negotiated after each open and the buffers are allocated.                   *)
EXTENDS Integers, FiniteSets

CONSTANTS Buffer,        \* the buffers of the queue
          MinBuffers,    \* min_buffers_needed, 3 in the build
          Null

ASSUME MetaAssumption ==
  /\ IsFiniteSet(Buffer) /\ MinBuffers \in 1..Cardinality(Buffer)
  /\ Null \notin Buffer

VARIABLES
  app, closing,          \* where the caller is; whether stream off is part of close
  vb,                    \* vb2: state of each buffer
  streaming, given,      \* vb2: q->streaming and start_streaming_called
  indexed,               \* stream_id_index[V4L2_STREAM_TYPE_META] names the stream
  list, started,         \* stream_buffer_list, stream_started
  running,               \* -1 once stream off has waited, 1 while a buffer is filled
  fw, pbuf,              \* the callback's place and buffer
  \* History, for the properties only.
  raced                  \* stream off did not see a callback that had a buffer

queue == <<vb, streaming, given>>
stream == <<indexed, list, started, running>>
callback == <<fw, pbuf>>
vars == <<app, closing, queue, stream, callback, raced>>

In(state) == {b \in Buffer : vb[b] = state}
Goto(from, to) == app = from /\ app' = to
-----------------------------------------------------------------------------
(* The application.                                                            *)

\* isp_v4l2_stream_init
Open ==
  /\ Goto("closed", "opened")
  /\ list' = {} /\ started' = FALSE /\ running' = 0
  /\ raced' = (fw # "idle")
  /\ UNCHANGED <<closing, queue, indexed, callback>>

\* isp_v4l2_s_fmt_vid_cap with the metadata format
SetFormat ==
  /\ Goto("opened", "idle")
  /\ indexed' = TRUE
  /\ UNCHANGED <<closing, queue, list, started, running, callback, raced>>

\* vb2_start_streaming: everything queued goes on the list.
Give(states) ==
  LET bs == {b \in Buffer : states[b] = "queued"}
  IN /\ vb' = [b \in Buffer |-> IF b \in bs THEN "active" ELSE states[b]]
     /\ given' = TRUE /\ list' = list \cup bs

Keep(states) == vb' = states /\ UNCHANGED <<given, list>>

\* vb2_qbuf
QBuf(b) ==
  /\ app = "idle" /\ vb[b] = "dequeued"
  /\ LET states == [vb EXCEPT ![b] = "queued"]
     IN IF given \/ (streaming /\ Cardinality(In("queued")) + 1 >= MinBuffers)
          THEN Give(states) ELSE Keep(states)
  /\ UNCHANGED <<app, closing, streaming, indexed, started, running, callback, raced>>

\* vb2_dqbuf
DQBuf(b) ==
  /\ app = "idle" /\ streaming /\ vb[b] \in {"done", "error"}
  /\ vb' = [vb EXCEPT ![b] = "dequeued"]
  /\ UNCHANGED <<app, closing, streaming, given, stream, callback, raced>>

\* isp_v4l2_streamon up to isp_v4l2_stream_on; again on a stream that runs,
\* vb2_streamon succeeds at once.
StreamOn ==
  /\ Goto("idle", "reset")
  /\ streaming' = TRUE
  /\ IF ~streaming /\ Cardinality(In("queued")) >= MinBuffers THEN Give(vb) ELSE Keep(vb)
  /\ UNCHANGED <<closing, indexed, started, running, callback, raced>>

\* "metadata has no thread": what a callback has counted is forgotten.
ResetRunning ==
  /\ Goto("reset", "flag")
  /\ running' = 0
  /\ raced' = (raced \/ fw \in {"fill", "notify"})
  /\ UNCHANGED <<closing, queue, indexed, list, started, callback>>

SetStarted ==
  /\ Goto("flag", "idle")
  /\ started' = TRUE
  /\ UNCHANGED <<closing, queue, indexed, list, running, callback, raced>>

\* isp_v4l2_streamoff
StreamOff ==
  /\ Goto("idle", "wait")
  /\ closing' = FALSE
  /\ UNCHANGED <<queue, stream, callback, raced>>

\* isp_v4l2_fop_close: no callback finds the stream any more.
Close ==
  /\ Goto("idle", "wait")
  /\ closing' = TRUE /\ indexed' = FALSE
  /\ UNCHANGED <<queue, list, started, running, callback, raced>>

\* Mutant of Wait: a callback is not waited for.
WaitNot ==
  /\ Goto("wait", "mark")
  /\ raced' = (raced \/ fw = "popped")
  /\ UNCHANGED <<closing, queue, stream, callback>>

\* The loop on running ends.
Wait ==
  /\ Goto("wait", "mark") /\ running <= 0
  /\ raced' = (raced \/ fw = "popped")
  /\ UNCHANGED <<closing, queue, stream, callback>>

\* What a callback counts between the last look and this is overwritten.
Mark ==
  /\ Goto("mark", "release")
  /\ running' = -1
  /\ UNCHANGED <<closing, queue, indexed, list, started, callback, raced>>

\* Mutant of Release: the buffers are forgotten instead of returned.
ReleaseForgets ==
  /\ Goto("release", "unflag")
  /\ list' = {}
  /\ UNCHANGED <<closing, queue, indexed, started, running, callback, raced>>

\* "Release all active buffers"
Release ==
  /\ Goto("release", "unflag")
  /\ vb' = [b \in Buffer |-> IF b \in list THEN "error" ELSE vb[b]] /\ list' = {}
  /\ UNCHANGED <<closing, streaming, given, indexed, started, running, callback, raced>>

ClearStarted ==
  /\ Goto("unflag", IF closing THEN "free" ELSE "cancel")
  /\ started' = FALSE
  /\ UNCHANGED <<closing, queue, indexed, list, running, callback, raced>>

\* isp_v4l2_stream_deinit: a callback that has the stream goes on with freed
\* memory, and is not followed there.
Free ==
  /\ Goto("free", "cancel")
  /\ fw' = (IF fw = "idle" THEN "idle" ELSE "astray") /\ pbuf' = Null
  /\ UNCHANGED <<closing, queue, stream, raced>>

\* vb2_streamoff, or vb2_queue_release: every buffer is taken back.
Cancel ==
  /\ Goto("cancel", IF closing THEN "closed" ELSE "idle")
  /\ vb' = [b \in Buffer |-> "dequeued"] /\ streaming' = FALSE /\ given' = FALSE
  /\ UNCHANGED <<closing, stream, callback, raced>>

App ==
  \/ Open \/ SetFormat
  \/ \E b \in Buffer : QBuf(b) \/ DQBuf(b)
  \/ StreamOn \/ ResetRunning \/ SetStarted
  \/ StreamOff \/ Close \/ Wait \/ Mark \/ Release \/ ClearStarted \/ Free \/ Cancel
-----------------------------------------------------------------------------
(* The firmware thread in callback_meta.                                       *)

FwGoto(from, to) == fw = from /\ fw' = to

\* isp_v4l2_find_stream
Find ==
  /\ indexed /\ FwGoto("idle", "found")
  /\ UNCHANGED <<app, closing, queue, stream, pbuf, raced>>

Check ==
  /\ FwGoto("found", IF started THEN "checked" ELSE "idle")
  /\ UNCHANGED <<app, closing, queue, stream, pbuf, raced>>

\* Stream off has looked at running for the last time.
Waited == app \in {"mark", "release", "unflag", "free", "cancel"}

\* A buffer is taken off the list, under its lock.
Pop(b) ==
  /\ b \in list /\ FwGoto("checked", "popped")
  /\ list' = list \ {b} /\ pbuf' = b
  /\ raced' = (raced \/ Waited \/ running = -1)
  /\ UNCHANGED <<app, closing, queue, indexed, started, running>>

NoBuffer ==
  /\ list = {} /\ FwGoto("checked", "idle")
  /\ UNCHANGED <<app, closing, queue, stream, pbuf, raced>>

\* atomic_inc_and_test; "Already deinited stream" takes the mark away, and
\* leaves the buffer to vb2.
Count ==
  /\ running' = running + 1
  /\ IF running' = 0 THEN FwGoto("popped", "idle") /\ pbuf' = Null
                     ELSE FwGoto("popped", "fill") /\ UNCHANGED pbuf
  /\ UNCHANGED <<app, closing, queue, indexed, list, started, raced>>

\* The buffer is filled; vb2_buffer_done refuses one that is not active.
Fill ==
  /\ FwGoto("fill", "notify")
  /\ vb' = [vb EXCEPT ![pbuf] = IF @ = "active" THEN "done" ELSE @] /\ pbuf' = Null
  /\ UNCHANGED <<app, closing, streaming, given, stream, raced>>

\* Mutant of Finish: running is left as it was counted.
FinishCounted ==
  /\ FwGoto("notify", "idle")
  /\ UNCHANGED <<app, closing, queue, stream, pbuf, raced>>

\* Mutant of Finish: running is counted down.
FinishCountsDown ==
  /\ FwGoto("notify", "idle")
  /\ running' = running - 1
  /\ UNCHANGED <<app, closing, queue, indexed, list, started, pbuf, raced>>

Finish ==
  /\ FwGoto("notify", "idle")
  /\ running' = 0
  /\ UNCHANGED <<app, closing, queue, indexed, list, started, pbuf, raced>>

Callback == Check \/ (\E b \in Buffer : Pop(b)) \/ NoBuffer \/ Count \/ Fill \/ Finish
-----------------------------------------------------------------------------
Init ==
  /\ app = "closed" /\ closing = FALSE
  /\ vb = [b \in Buffer |-> "dequeued"] /\ streaming = FALSE /\ given = FALSE
  /\ indexed = FALSE /\ list = {} /\ started = FALSE /\ running = 0
  /\ fw = "idle" /\ pbuf = Null /\ raced = FALSE

Next == App \/ Find \/ Callback

Spec == Init /\ [][Next]_vars

\* A call runs to its end and the firmware finishes a callback it has begun.
\* Nothing makes the application call, or a frame arrive.
Fairness ==
  /\ WF_vars(App /\ app \notin {"idle", "opened", "closed"})
  /\ WF_vars(Callback)

FairSpec == Spec /\ Fairness
-----------------------------------------------------------------------------
\* In particular running stays within -1..1, whatever the order of its writers.
TypeOK ==
  /\ app \in {"closed", "opened", "idle", "reset", "flag", "wait", "mark", "release", "unflag",
              "free", "cancel"}
  /\ closing \in BOOLEAN
  /\ vb \in [Buffer -> {"dequeued", "queued", "active", "done", "error"}]
  /\ streaming \in BOOLEAN /\ given \in BOOLEAN
  /\ indexed \in BOOLEAN /\ list \subseteq Buffer /\ started \in BOOLEAN
  /\ running \in -1..1
  /\ fw \in {"idle", "found", "checked", "popped", "fill", "notify", "astray"}
  /\ pbuf \in Buffer \cup {Null} /\ raced \in BOOLEAN

\* A callback that counted itself before stream off looked is waited for: while
\* a buffer is filled the buffers are not taken back, nor the stream freed.
\* raced excuses a callback that took its buffer before the look and counts
\* after it, one that comes between the look and the end of stream off, and a
\* second STREAMON, which forgets the count.
FillWaitedFor == fw \in {"fill", "notify"} /\ Waited => raced

\* No buffer is lost: those vb2 has given and not got back are on the list or
\* with the callback, and none is left when STREAMOFF or close hands over to
\* vb2, with the same excuse.
NoBufferLost ==
  ~raced => /\ In("active") = list \cup ({pbuf} \ {Null})
            /\ pbuf \notin list
            /\ app = "cancel" => In("active") = {}

\* STREAMOFF and close return although frames go on and each may start a callback:
\* a callback counts itself only with a buffer, and no buffer comes while the
\* application waits.
StopReturns == app = "wait" ~> app \in {"idle", "closed"}
=============================================================================
