----------------------------- MODULE FramePipeline -----------------------------
(* A running full-resolution stream, from the frame-start interrupt to the     *)
(* buffer the application gets back.                                           *)
(*                                                                             *)
(*   ISP       starts a frame on the configuration page it was told to use     *)
(*             next and writes it to the buffer that page names;               *)
(*   irq       acamera_interrupt_handler selects the other page and starts the *)
(*             copies of the configuration to it and of the statistics from it;*)
(*   tasklets  finish the copies and raise new_frame or drop_frame;            *)
(*   fw        the firmware thread pops events one at a time and dispatches    *)
(*             them to the state machines: new_frame and drop_frame update the *)
(*             DMA pipe, fr_ready hands a buffer to the stream;                *)
(*   copy      the stream's copy thread returns it to the application, which   *)
(*             queues it again.                                                *)
(*                                                                             *)
(* The event queue is the abstract one that EventQueue implements.  An address *)
(* programmed in the pipe's update takes two frame starts to reach the ISP:    *)
(* the pointers in1, in0 and last are to follow it there and back.             *)
EXTENDS DmaPipe, Sequences

CONSTANTS Primed,      \* min_buffers_needed: buffers queued before the stream starts
          Control,     \* the events raised by V4L2 controls and by user space
          Rates        \* <<sensor rate, requested rate>> of the frame rate control

NewFrame == 25         \* event_id_new_frame
DropFrame == 32        \* event_id_drop_frame
FrReady == 15          \* event_id_frame_buffer_fr_ready

ASSUME PipelineAssumption ==
  /\ Primed \in Nat \ {0}
  /\ Control \subseteq 0..31 \ {NewFrame, FrReady}
  /\ Null \notin 0..DropFrame
  /\ IsFiniteSet(Buffer) /\ Cardinality(Buffer) <= MaxFrames
  /\ \A r \in Rates : r \in (Nat \ {0}) \X (Nat \ {0}) /\ r[2] <= r[1]

\* isp_frame_counter, of which only remainders matter, is arbitrary.
FrameCount == 0..2

Event == Control \cup {NewFrame, DropFrame, FrReady}

VARIABLES
  current, next,         \* pages the ISP is using and was told to use next
  page,                  \* the writer's address and enable on each page
  writing,               \* the buffer the ISP is writing to
  raised,                \* the frame-start interrupt is raised
  cfgDone, meterDone,    \* dma_flag_isp_config_completed, dma_flag_isp_metering_completed
  cfgCopy, meterCopy,    \* copies under way; cfgCopy says which callback it has
  pending,               \* the event queue
  fw,                    \* the event being dispatched, or Null
  pipe,                  \* the DMA pipe of the stream
  streaming,             \* the ISP has been started
  list,                  \* stream_buffer_list
  mailbox,               \* frame_mgr.frame_buffer when VALID
  \* History, for the properties only.
  late,                  \* the firmware or a copy has overrun a frame
  fresh                  \* buffers that hold a whole frame taken since they were queued

isp == <<current, page, writing>>
dma == <<cfgDone, meterDone, cfgCopy, meterCopy>>
stream == <<streaming, list, mailbox>>
vars == <<isp, next, raised, dma, pending, fw, pipe, stream, late, fresh>>

BitOf(e) == e % 32

Queue == INSTANCE PendingEvents

\* acamera_event_queue_push: an event whose bit is waiting is skipped.
Push(e) == IF Queue!Blocked(e) THEN UNCHANGED pending ELSE Queue!Raise(e)

Other(p) == IF p = "ping" THEN "pong" ELSE "ping"

\* The software map as a copy of the configuration finds it.
Shadow(p) == [addr |-> p.addr, on |-> p.on]
-----------------------------------------------------------------------------
\* The ISP starts a frame.  Its interrupts are taken before the next frame.
FrameStart ==
  /\ streaming
  /\ ~raised /\ raised' = TRUE
  /\ current' = next
  /\ writing' = IF page[next].on THEN page[next].addr ELSE Null
  /\ fresh' = fresh \cup ({writing} \ {Null})
  /\ late' = (late \/ cfgCopy # "none")
  /\ UNCHANGED <<page, next, dma, pending, fw, pipe, stream>>

\* "DMA is not finished ... skip this frame"
SkipInterrupt ==
  /\ raised /\ raised' = FALSE
  /\ ~(cfgDone /\ meterDone)
  /\ UNCHANGED <<isp, next, dma, pending, fw, pipe, stream, late, fresh>>

\* Whether acamera_event_queue_not_empty finds anything: when the ring has
\* wrapped it throws the events away and says that there were none.
Answers == IF pending = <<>> THEN {FALSE} ELSE BOOLEAN

\* Mutant of FrameInterrupt: a dropped frame waits for a metering copy that is
\* never started.
DropForgetsMetering(busy) ==
  /\ raised /\ raised' = FALSE
  /\ cfgDone /\ meterDone
  /\ pending' = <<>>
  /\ next' = Other(current)
  /\ cfgDone' = FALSE /\ meterDone' = FALSE
  /\ cfgCopy' = IF busy THEN "drop" ELSE "process"
  /\ meterCopy' = ~busy
  /\ late' = (late \/ fw \in {NewFrame, DropFrame})
  /\ UNCHANGED <<isp, fw, pipe, stream, fresh>>

FrameInterrupt(busy) ==
  /\ raised /\ raised' = FALSE
  /\ cfgDone /\ meterDone
  /\ pending' = <<>>
  /\ next' = Other(current)
  /\ cfgDone' = FALSE /\ meterDone' = busy
  /\ cfgCopy' = IF busy THEN "drop" ELSE "process"
  /\ meterCopy' = ~busy
  /\ late' = (late \/ fw \in {NewFrame, DropFrame})
  /\ UNCHANGED <<isp, fw, pipe, stream, fresh>>

\* dma_complete_metering_func after the last copy of the channel
MeteringCopied ==
  /\ meterCopy /\ meterCopy' = FALSE
  /\ meterDone' = TRUE
  /\ IF cfgDone THEN Push(NewFrame) ELSE UNCHANGED pending
  /\ UNCHANGED <<isp, next, raised, cfgDone, cfgCopy, fw, pipe, stream, late, fresh>>

\* dma_complete_context_func and dma_drop_context_func
ConfigCopied ==
  /\ cfgCopy # "none" /\ cfgCopy' = "none"
  /\ page' = [page EXCEPT ![next] = Shadow(pipe)]
  /\ cfgDone' = TRUE
  /\ IF meterDone THEN Push(IF cfgCopy = "drop" THEN DropFrame ELSE NewFrame)
                  ELSE UNCHANGED pending
  /\ UNCHANGED <<current, writing, next, raised, meterDone, meterCopy, fw, pipe, stream, late, fresh>>
-----------------------------------------------------------------------------
\* acamera_fsm_mgr_process_events: an event is popped, then dispatched with
\* interrupts on.
PopEvent ==
  /\ fw = Null /\ pending # <<>>
  /\ fw' = Head(pending) /\ pending' = Tail(pending)
  /\ UNCHANGED <<isp, next, raised, dma, pipe, stream, late, fresh>>

Dispatched(e) == fw = e /\ fw' = Null

\* dma_writer_pipe_process_interrupt
UpdatePipe(drop) ==
  \E frame \in FrameCount : pipe' = PipeSetFps(PipeUpdate(pipe, drop), frame)

HandleNewFrame ==
  /\ Dispatched(NewFrame)
  /\ UpdatePipe(FALSE)
  /\ Push(FrReady)
  /\ UNCHANGED <<isp, next, raised, dma, stream, late, fresh>>

HandleDropFrame ==
  /\ Dispatched(DropFrame)
  /\ UpdatePipe(TRUE)
  /\ UNCHANGED <<isp, next, raised, dma, pending, stream, late, fresh>>

\* frame_buffer_fr_finished and callback_fr: the buffer is handed over when the
\* copy thread has taken the last one.
HandleFrReady ==
  /\ Dispatched(FrReady)
  /\ pipe' = Finish(pipe, mailbox = Null)
  /\ mailbox' = IF mailbox = Null /\ NextReady(pipe) # Null THEN pipe.buf[NextReady(pipe)] ELSE mailbox
  /\ UNCHANGED <<isp, next, raised, dma, pending, streaming, list, late, fresh>>

HandleControl(e) ==
  /\ Dispatched(e)
  /\ UNCHANGED <<isp, next, raised, dma, pending, pipe, stream, late, fresh>>

Firmware ==
  \/ PopEvent \/ HandleNewFrame \/ HandleDropFrame \/ HandleFrReady
  \/ \E e \in Control : HandleControl(e)
-----------------------------------------------------------------------------
\* isp_v4l2_stream_copy_thread: the buffer is found on the list and done.
CopyThread ==
  /\ mailbox # Null /\ mailbox' = Null
  /\ list' = list \ {mailbox}
  /\ UNCHANGED <<isp, next, raised, dma, pending, fw, pipe, streaming, late, fresh>>

\* isp_vb2_buf_queue, for a buffer the application has; during STREAMON vb2
\* calls it for those queued before.
QueueBuffer(b) ==
  /\ b \notin list /\ list' = list \cup {b}
  /\ pipe' = WriteFrameQueue(pipe, b)
  /\ fresh' = fresh \ {b}
  /\ UNCHANGED <<isp, next, raised, dma, pending, fw, streaming, mailbox, late>>

\* A control such as V4L2_CID_EXPOSURE: acamera_fw_exposure_apply
SetControl(e) ==
  /\ streaming
  /\ Push(e)
  /\ UNCHANGED <<isp, next, raised, dma, fw, pipe, stream, late, fresh>>

\* fw_intf_set_fr_fps; a rate above the sensor's is refused.
SetFrameRate(r) ==
  /\ streaming
  /\ pipe' = SetRate(pipe, r[1], r[2])
  /\ UNCHANGED <<isp, next, raised, dma, pending, fw, stream, late, fresh>>

\* STREAMON: the map is copied to PING, the next buffer is programmed and the
\* map is copied to PONG.
StreamOn ==
  /\ ~streaming /\ streaming' = TRUE
  /\ Cardinality(list) >= Primed
  /\ pipe' = PipeUpdate(pipe, FALSE)
  /\ page' = [p \in {"ping", "pong"} |-> Shadow(IF p = "ping" THEN pipe ELSE pipe')]
  /\ UNCHANGED <<current, writing, next, raised, dma, pending, fw, list, mailbox, late, fresh>>

Init ==
  /\ pipe = InitialPipe
  /\ page = [p \in {"ping", "pong"} |-> Shadow(InitialPipe)]
  /\ streaming = FALSE /\ list = {} /\ mailbox = Null
  /\ current = "pong" /\ next = "ping" /\ writing = Null /\ raised = FALSE
  /\ cfgDone = TRUE /\ meterDone = TRUE /\ cfgCopy = "none" /\ meterCopy = FALSE
  /\ pending = <<>> /\ fw = Null
  /\ late = FALSE /\ fresh = {}

Next ==
  \/ StreamOn \/ FrameStart \/ SkipInterrupt \/ \E busy \in Answers : FrameInterrupt(busy)
  \/ MeteringCopied \/ ConfigCopied
  \/ Firmware \/ CopyThread
  \/ \E b \in Buffer : QueueBuffer(b)
  \/ \E e \in Control : SetControl(e)
  \/ \E r \in Rates : SetFrameRate(r)

Spec == Init /\ [][Next]_vars
-----------------------------------------------------------------------------
TypeOK ==
  /\ current \in {"ping", "pong"} /\ next \in {"ping", "pong"}
  /\ page \in [{"ping", "pong"} -> [addr : Buffer \cup {Null}, on : BOOLEAN]]
  /\ writing \in Buffer \cup {Null} /\ raised \in BOOLEAN
  /\ cfgDone \in BOOLEAN /\ meterDone \in BOOLEAN
  /\ cfgCopy \in {"none", "process", "drop"} /\ meterCopy \in BOOLEAN
  /\ pending \in Seq(Event) /\ fw \in Event \cup {Null}
  /\ pipe.buf \in [Slot -> Buffer \cup {Null}] /\ pipe.status \in [Slot -> Status]
  /\ {pipe.rdi, pipe.wri} \subseteq Slot
  /\ {pipe.last, pipe.in0, pipe.in1, pipe.back} \subseteq Slot \cup {Null}
  /\ streaming \in BOOLEAN /\ list \subseteq Buffer /\ mailbox \in Buffer \cup {Null}
  /\ late \in BOOLEAN /\ fresh \subseteq Buffer

\* The ISP never writes to a buffer the application has, as long as the
\* firmware and the copies keep up with the frames: the three pointers of the
\* pipe hold an address back for exactly as long as a page may still name it.
UserBufferUntouched == ~late /\ writing # Null => writing \in list

\* What the application gets is a whole frame taken since it queued the buffer,
\* never an old one or one still being written.
DeliveredIsFresh == ~late /\ mailbox # Null => mailbox \in fresh

\* No buffer is lost or counted twice, however late the firmware is: those the
\* driver has are in one live slot each, or on their way to the copy thread.
BuffersAccounted ==
  /\ mailbox \notin InPipe(pipe)
  /\ list = InPipe(pipe) \cup ({mailbox} \ {Null})
  /\ \A s, t \in Live(pipe) : pipe.buf[s] = pipe.buf[t] => s = t

\* The pointers name different slots, all busy: nothing else takes, delivers or
\* recovers a slot that is on its way through the ISP, a reduced rate included.
HeldDistinct ==
  /\ \A s \in Held(pipe) : pipe.status[s] = "busy"
  /\ \A f, g \in {"last", "in0", "in1", "back"} : pipe[f] = pipe[g] /\ pipe[f] # Null => f = g

\* Together: every buffer is in one place, and no slot on its way through the ISP
\* is anyone else's.
PipeSound == BuffersAccounted /\ HeldDistinct

\* A completion flag that is down is backed by the copy that will raise it: the
\* interrupt handler does not skip frames for ever.
FlagsBacked == (cfgDone \/ cfgCopy # "none") /\ (meterDone \/ meterCopy)
=============================================================================
