-------------------------------- MODULE Scaler --------------------------------
(* The scaler behind the DS2 stream, system_am_sc.c: a writer of its own, fed  *)
(* by its own interrupt from its own lists, with the session around it.        *)
(*                                                                             *)
(*   app      the ioctl caller, serialised by the device mutex;                *)
(*   isr      isp_sc_isr, at every vertical sync;                              *)
(*   tasklet  sc_do_tasklet and, within it, callback_ds2;                      *)
(*   thread   isp_v4l2_stream_copy_thread.                                     *)
(*                                                                             *)
(* A buffer stands for its entry in temp_buf, which the lists point to.  The   *)
(* writer is external: it takes its address some time after the sync           *)
(* (ISP_SCWR_SYNC_DLY), by when the handler is done, and flips a status bit    *)
(* when a frame is complete.  A frame that a sync finds incomplete is given    *)
(* up.  videobuf2 is external as well; the application asks for buffers before *)
(* it streams and not while it does, and alternates STREAMON and STREAMOFF.    *)
EXTENDS Naturals, Sequences, FiniteSets

CONSTANTS Buffer,        \* the buffers of the queue
          MinBuffers,    \* min_buffers_needed, 3 in the build
          Threshold,     \* start_delay_th, 1 in the build
          MaxSessions,   \* bound: calls of STREAMON
          MaxGivenUp,    \* bound: frames a sync finds incomplete
          Null

ASSUME ScalerAssumption ==
  /\ IsFiniteSet(Buffer) /\ Null \notin Buffer
  /\ MinBuffers \in 1..Cardinality(Buffer)
  /\ Threshold \in Nat /\ MaxSessions \in Nat /\ MaxGivenUp \in Nat

VARIABLES
  app,                   \* where the ioctl caller is
  vb,                    \* vb2: state of each buffer
  streaming, given,      \* vb2: q->streaming and start_streaming_called
  list,                  \* stream_buffer_list
  room, stopFlag,        \* temp_buf: "none", no entries or an entry for every buffer; stop_flag
  in, out,               \* sc_fifo_in, sc_fifo_out
  pre, delay, last,      \* pre_frame, start_delay_cnt, last_end_frame
  isr, next,             \* isp_sc_isr: where it is, its f_buf
  addr, on, syncs,       \* the writer: address, enabled, raises interrupts
  writing, bit,          \* a frame is being written; the frame end bit
  tasklet,               \* the buffer sc_do_tasklet has taken
  started,               \* stream_started
  mailbox,               \* frame_mgr.frame_buffer when VALID
  hand,                  \* the frame the copy thread has taken
  fault,                 \* a null pointer has been followed: the kernel stops
  \* History, for the properties only.
  sessions, givenUp,
  whole,                 \* buffers a frame was completed in since they were last programmed
  refused,               \* buffers of frames that callback_ds2 did not take
  repeated,              \* an incomplete frame was given up in a buffer nobody could replace
  leftOver               \* a session has ended with a frame in the mailbox

queue == <<vb, streaming, given, list>>
fifos == <<room, stopFlag, in, out, pre, delay, last>>
handler == <<isr, next>>
writer == <<addr, on, syncs, writing, bit>>
stream == <<tasklet, started, mailbox, hand>>
bounds == <<sessions, givenUp>>
history == <<whole, refused, repeated, leftOver>>
scaler == <<app, queue, fifos, handler, writer, stream, fault, bounds, history>>

Elements(s) == {s[i] : i \in DOMAIN s}
In(state) == {b \in Buffer : vb[b] = state}

\* A fault stops the kernel, so every step needs there to be none.
AppAt(place) == ~fault /\ app = place
Goto(from, to) == AppAt(from) /\ app' = to
IsrAt(place) == ~fault /\ isr = place

\* A fifo that am_sc_stop has freed counts what is put into it and keeps
\* nothing.
Freed == app \in {"kill", "delay", "clear", "irq"}
Put(fifo, b) == Append(fifo, IF Freed THEN Null ELSE b)
First(fifo) == IF fifo = <<>> THEN Null ELSE Head(fifo)
-----------------------------------------------------------------------------
(* The application.                                                            *)

\* am_sc_api_dma_buffer for some buffers, in any order.  Nothing looks whether
\* temp_buf has their entries.
BufQueue(bs) ==
  /\ list' = list \cup bs
  /\ fault' = (room # "full" /\ bs # {})
  /\ \E s \in [1..Cardinality(bs) -> bs] : Elements(s) = bs /\ in' = in \o s

\* vb2_start_streaming: everything queued goes to the driver.
Give(states) ==
  LET bs == {b \in Buffer : states[b] = "queued"}
  IN /\ vb' = [b \in Buffer |-> IF b \in bs THEN "active" ELSE states[b]]
     /\ given' = TRUE
     /\ BufQueue(bs)

Keep(states) == vb' = states /\ UNCHANGED <<given, list, in, fault>>

\* vb2_reqbufs for all the buffers or, which frees them, for none; then
\* am_sc_system_init, which leaves a temp_buf that is there as it is.
ReqBufs(count) ==
  /\ AppAt("idle") /\ ~streaming
  /\ vb' = [b \in Buffer |-> IF count = 0 THEN "absent" ELSE "dequeued"]
  /\ room' = IF room # "none" THEN room ELSE IF count = 0 THEN "empty" ELSE "full"
  /\ stopFlag' = FALSE
  /\ in' = <<>> /\ out' = <<>> /\ pre' = Null /\ delay' = 0
  /\ UNCHANGED <<app, streaming, given, list, last, handler, writer, stream, fault, bounds, history>>

QBuf(b) ==
  /\ AppAt("idle") /\ vb[b] = "dequeued"
  /\ LET states == [vb EXCEPT ![b] = "queued"]
     IN IF given \/ (streaming /\ Cardinality(In("queued")) + 1 >= MinBuffers)
          THEN Give(states) ELSE Keep(states)
  /\ UNCHANGED <<app, streaming, room, stopFlag, out, pre, delay, last,
                 handler, writer, stream, bounds, history>>

DQBuf(b) ==
  /\ AppAt("idle") /\ streaming /\ vb[b] = "done"
  /\ vb' = [vb EXCEPT ![b] = "dequeued"]
  /\ UNCHANGED <<app, streaming, given, list, fifos, handler, writer, stream, fault, bounds, history>>

StreamOn ==
  /\ Goto("idle", "init") /\ ~streaming /\ sessions < MaxSessions
  /\ In("absent") = {}
  /\ streaming' = TRUE /\ sessions' = sessions + 1 /\ UNCHANGED givenUp
  /\ IF Cardinality(In("queued")) >= MinBuffers THEN Give(vb) ELSE Keep(vb)
  /\ UNCHANGED <<room, stopFlag, out, pre, delay, last, handler, writer, stream, history>>

\* am_sc_hw_init and am_sc_start.  The first buffer is programmed, whether
\* there is one or not.
HwInit ==
  /\ Goto("init", "flag")
  /\ IF First(in) = Null
       THEN /\ fault' = TRUE
            /\ UNCHANGED <<in, pre, addr, on, syncs, writing, last, whole>>
       ELSE /\ in' = Tail(in) /\ pre' = Head(in) /\ addr' = Head(in)
            /\ whole' = whole \ {Head(in)}
            /\ on' = FALSE /\ writing' = FALSE /\ syncs' = TRUE
            /\ last' = bit
            /\ UNCHANGED fault
  /\ UNCHANGED <<queue, room, stopFlag, out, delay, handler, bit, stream, bounds, refused, repeated, leftOver>>

SetStarted ==
  /\ Goto("flag", "idle")
  /\ started' = TRUE
  /\ UNCHANGED <<queue, fifos, handler, writer, tasklet, mailbox, hand, fault, bounds, history>>

\* am_sc_stop: the registers, ...
StopRegs ==
  /\ AppAt("idle")
  /\ app' = IF stopFlag THEN "join" ELSE "free"
  /\ IF stopFlag THEN UNCHANGED writer
       ELSE on' = FALSE /\ syncs' = FALSE /\ writing' = FALSE /\ UNCHANGED <<addr, bit>>
  /\ UNCHANGED <<queue, fifos, handler, stream, fault, bounds, history>>

\* ... the fifos, while a handler or a tasklet may be at work still, ...
StopFree ==
  /\ Goto("free", "kill")
  /\ in' = <<>> /\ out' = <<>>
  /\ UNCHANGED <<queue, room, stopFlag, pre, delay, last, handler, writer, stream, fault, bounds, history>>

\* ... tasklet_kill waits for the tasklet, ...
StopKill ==
  /\ Goto("kill", "delay") /\ tasklet = Null
  /\ UNCHANGED <<queue, fifos, handler, writer, stream, fault, bounds, history>>

StopDelay ==
  /\ Goto("delay", "clear")
  /\ delay' = 0
  /\ UNCHANGED <<queue, room, stopFlag, in, out, pre, last, handler, writer, stream, fault, bounds, history>>

\* ... pre_frame and temp_buf, ...
StopClear ==
  /\ Goto("clear", "irq")
  /\ pre' = Null /\ room' = "none"
  /\ UNCHANGED <<queue, stopFlag, in, out, delay, last, handler, writer, stream, fault, bounds, history>>

\* ... and free_irq waits for the handler.
StopIrq ==
  /\ Goto("irq", "join") /\ isr = "idle"
  /\ stopFlag' = TRUE
  /\ UNCHANGED <<queue, room, in, out, pre, delay, last, handler, writer, stream, fault, bounds, history>>

\* The rest of isp_v4l2_stream_off and vb2_streamoff: the thread is joined, the
\* listed buffers are returned.
StreamOff ==
  /\ Goto("join", "idle") /\ hand = Null
  /\ list' = {}
  /\ vb' = [b \in Buffer |-> IF vb[b] = "absent" THEN "absent" ELSE "dequeued"]
  /\ streaming' = FALSE /\ given' = FALSE /\ started' = FALSE
  /\ refused' = {} /\ leftOver' = (leftOver \/ mailbox # Null)
  /\ UNCHANGED <<fifos, handler, writer, tasklet, mailbox, hand, fault, bounds, whole, repeated>>

Application ==
  \/ (\E count \in {0, Cardinality(Buffer)} : ReqBufs(count)) \/ (\E b \in Buffer : QBuf(b) \/ DQBuf(b))
  \/ StreamOn \/ HwInit \/ SetStarted
  \/ StopRegs \/ StopFree \/ StopKill \/ StopDelay \/ StopClear \/ StopIrq \/ StreamOff
-----------------------------------------------------------------------------
(* The writer and its interrupt.                                               *)

Elsewhere == UNCHANGED <<app, queue, room, stopFlag, stream, bounds>>

\* A frame is complete.
FrameEnd ==
  /\ on /\ writing /\ IsrAt("idle")
  /\ writing' = FALSE /\ bit' = 1 - bit /\ whole' = whole \cup {addr}
  /\ UNCHANGED <<in, out, pre, delay, last, handler, addr, on, syncs, fault, refused, repeated, leftOver>>
  /\ Elsewhere

\* Mutant of Sync: the syncs are counted for ever.
SyncCountsOn ==
  /\ syncs /\ IsrAt("idle")
  /\ delay' = delay + 1
  /\ on' = (on \/ delay = Threshold)
  /\ isr' = IF delay <= Threshold THEN isr ELSE "take"
  /\ writing' = (on' /\ delay <= Threshold)
  /\ UNCHANGED <<in, out, pre, last, next, addr, syncs, bit, fault, history>>
  /\ Elsewhere

\* The vertical sync.  The first ones are let pass, the next one switches the
\* writer on.
Sync ==
  /\ syncs /\ IsrAt("idle")
  /\ IF delay <= Threshold
       THEN /\ delay' = delay + 1
            /\ on' = (on \/ delay = Threshold) /\ writing' = on'
            /\ UNCHANGED <<isr, givenUp>>
       ELSE /\ isr' = "take" /\ writing' = FALSE
            /\ writing => givenUp < MaxGivenUp
            /\ givenUp' = IF writing THEN givenUp + 1 ELSE givenUp
            /\ UNCHANGED <<delay, on>>
  /\ UNCHANGED <<in, out, pre, last, next, addr, syncs, bit, fault, history>>
  /\ UNCHANGED <<app, queue, room, stopFlag, stream, sessions>>

\* Mutant of IsrTake: the last buffer stays where it is.
IsrTakeKeepsPre ==
  /\ IsrAt("take") /\ isr' = "config"
  /\ IF in # <<>> THEN next' = Head(in) /\ in' = Tail(in) /\ UNCHANGED pre
       ELSE next' = pre /\ UNCHANGED <<in, pre>>
  /\ UNCHANGED <<out, delay, last, writer, fault, history>>
  /\ Elsewhere

\* The next buffer; with none queued the last one once more.
IsrTake ==
  /\ IsrAt("take") /\ isr' = "config"
  /\ IF in # <<>> THEN next' = Head(in) /\ in' = Tail(in) /\ UNCHANGED pre
       ELSE next' = pre /\ pre' = Null /\ UNCHANGED in
  /\ UNCHANGED <<out, delay, last, writer, fault, history>>
  /\ Elsewhere

IsrConfig ==
  /\ IsrAt("config") /\ isr' = "sort"
  /\ fault' = (next = Null)
  /\ addr' = next /\ whole' = whole \ {next}
  /\ UNCHANGED <<in, out, pre, delay, last, next, on, syncs, writing, bit, refused, repeated, leftOver>>
  /\ Elsewhere

\* Mutant of IsrSort: the buffer of an incomplete frame is not queued again.
IsrSortDrops ==
  /\ IsrAt("sort") /\ isr' = "idle" /\ next' = Null
  /\ out' = IF bit # last /\ pre # Null THEN Put(out, pre) ELSE out
  /\ pre' = next /\ last' = bit /\ writing' = on
  /\ UNCHANGED <<in, delay, addr, on, syncs, bit, fault, history>>
  /\ Elsewhere

\* Mutant of IsrSort: the programmed buffer is not remembered.
IsrSortForgets ==
  /\ IsrAt("sort") /\ isr' = "idle" /\ next' = Null
  /\ IF bit = last
       THEN in' = Put(in, IF pre = Null THEN next ELSE pre) /\ UNCHANGED out
       ELSE out' = (IF pre # Null THEN Put(out, pre) ELSE out) /\ UNCHANGED in
  /\ pre' = Null /\ last' = bit /\ writing' = on
  /\ repeated' = (repeated \/ (bit = last /\ pre = Null))
  /\ UNCHANGED <<delay, addr, on, syncs, bit, fault, whole, refused, leftOver>>
  /\ Elsewhere

\* The last buffer is delivered when its frame is complete, and queued again
\* when it is not; in want of a last buffer the next one is queued, although
\* it has just been programmed.
IsrSort ==
  /\ IsrAt("sort") /\ isr' = "idle" /\ next' = Null
  /\ IF bit = last
       THEN in' = Put(in, IF pre = Null THEN next ELSE pre) /\ UNCHANGED out
       ELSE out' = (IF pre # Null THEN Put(out, pre) ELSE out) /\ UNCHANGED in
  /\ pre' = next /\ last' = bit /\ writing' = on
  /\ repeated' = (repeated \/ (bit = last /\ pre = Null))
  /\ UNCHANGED <<delay, addr, on, syncs, bit, fault, whole, refused, leftOver>>
  /\ Elsewhere
-----------------------------------------------------------------------------
(* The way to the application.                                                 *)

Before == ~fault /\ UNCHANGED <<app, fifos, handler, writer, fault, bounds, whole, repeated, leftOver>>

\* sc_do_tasklet; from a freed fifo it takes a pointer that was never set.
TaskletTake ==
  /\ ~fault /\ tasklet = Null /\ out # <<>>
  /\ tasklet' = Head(out) /\ out' = Tail(out)
  /\ fault' = (Head(out) = Null)
  /\ UNCHANGED <<app, queue, room, stopFlag, in, pre, delay, last, handler, writer,
                 started, mailbox, hand, bounds, history>>

\* callback_ds2: a frame that comes before the stream has started, or while
\* another waits, is not taken.
Callback ==
  /\ tasklet # Null /\ tasklet' = Null
  /\ IF started /\ mailbox = Null
       THEN mailbox' = tasklet /\ UNCHANGED refused
       ELSE refused' = refused \cup {tasklet} /\ UNCHANGED mailbox
  /\ UNCHANGED <<queue, started, hand>> /\ Before

\* The copy thread; it runs from STREAMON to STREAMOFF.
ThreadTake ==
  /\ streaming /\ hand = Null /\ mailbox # Null
  /\ hand' = mailbox /\ mailbox' = Null
  /\ UNCHANGED <<queue, tasklet, started, refused>> /\ Before

\* A frame whose buffer is not listed is thrown away.
ThreadDone ==
  /\ hand # Null /\ hand' = Null
  /\ list' = list \ {hand}
  /\ vb' = IF hand \in list THEN [vb EXCEPT ![hand] = "done"] ELSE vb
  /\ UNCHANGED <<streaming, given, tasklet, started, mailbox, refused>> /\ Before

Interrupt == FrameEnd \/ Sync \/ IsrTake \/ IsrConfig \/ IsrSort
Delivery == TaskletTake \/ Callback \/ ThreadTake \/ ThreadDone
-----------------------------------------------------------------------------
ScalerInit ==
  /\ app = "idle"
  /\ vb = [b \in Buffer |-> "absent"] /\ streaming = FALSE /\ given = FALSE /\ list = {}
  /\ room = "none" /\ stopFlag = FALSE
  /\ in = <<>> /\ out = <<>> /\ pre = Null /\ delay = 0 /\ last = 0
  /\ isr = "idle" /\ next = Null
  /\ addr = Null /\ on = FALSE /\ syncs = FALSE /\ writing = FALSE /\ bit \in {0, 1}
  /\ tasklet = Null /\ started = FALSE /\ mailbox = Null /\ hand = Null
  /\ fault = FALSE
  /\ sessions = 0 /\ givenUp = 0 /\ whole = {} /\ refused = {} /\ repeated = FALSE /\ leftOver = FALSE

ScalerNext == Application \/ Interrupt \/ Delivery

ScalerSpec == ScalerInit /\ [][ScalerNext]_scaler
-----------------------------------------------------------------------------
ScalerTypes ==
  /\ app \in {"idle", "init", "flag", "free", "kill", "delay", "clear", "irq", "join"}
  /\ vb \in [Buffer -> {"absent", "dequeued", "queued", "active", "done"}]
  /\ list \subseteq Buffer /\ whole \subseteq Buffer /\ refused \subseteq Buffer
  /\ room \in {"none", "empty", "full"} /\ delay \in 0..Threshold + 1
  /\ last \in {0, 1} /\ bit \in {0, 1} /\ isr \in {"idle", "take", "config", "sort"}
  /\ in \in Seq(Buffer \cup {Null}) /\ out \in Seq(Buffer \cup {Null})
  /\ pre \in Buffer \cup {Null} /\ next \in Buffer \cup {Null} /\ addr \in Buffer \cup {Null}
  /\ tasklet \in Buffer \cup {Null} /\ mailbox \in Buffer \cup {Null} /\ hand \in Buffer \cup {Null}
  /\ streaming \in BOOLEAN /\ given \in BOOLEAN /\ stopFlag \in BOOLEAN
  /\ on \in BOOLEAN /\ syncs \in BOOLEAN /\ writing \in BOOLEAN
  /\ started \in BOOLEAN /\ fault \in BOOLEAN /\ repeated \in BOOLEAN /\ leftOver \in BOOLEAN

Stopping == app \in {"free", "kill", "delay", "clear", "irq", "join"}

\* As long as nobody stops the scaler its interrupt handler has a buffer to
\* program, however few are queued and however many frames are given up.
RunningHasBuffer == isr = "config" /\ ~Stopping => next # Null

\* What the scaler may write, now or later, and what is on its way to the
\* application or with it.
Writable == (Elements(in) \cup (IF on THEN {addr} ELSE {})) \ {Null}
HandedOver == ({mailbox, hand} \ {Null}) \cup In("done") \cup In("dequeued")

\* A buffer handed over is out of the scaler's reach, but for the two ways
\* that defeat it: a frame given up while no other buffer was queued, and a
\* frame left over from an earlier session.
LockedUnlessRepeated == repeated \/ leftOver \/ Writable \cap HandedOver = {}

\* No buffer is lost between the lists of vb2, interrupt, tasklet and thread,
\* except those whose frame the callback did not take.
NothingLost ==
  ~Stopping =>
    list \subseteq Elements(in) \cup Elements(out) \cup {pre, next, tasklet, mailbox, hand} \cup refused

\* A frame on its way to the application is complete: it was ended in that
\* buffer, after the buffer was last programmed.
DeliveredIsWhole ==
  repeated \/ leftOver \/ (Elements(out) \cup {tasklet, mailbox, hand}) \ {Null} \subseteq whole

\* What is handed over is whole and stays so.
HandedOverWhole == LockedUnlessRepeated /\ DeliveredIsWhole

=============================================================================
