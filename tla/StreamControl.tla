---------------------------- MODULE StreamControl ----------------------------
(* Starting and stopping the full-resolution stream while the ISP's interrupt  *)
(* handler may be recovering from an error.                                    *)
(*                                                                             *)
(*   thread   the V4L2 caller, serialised by the device mutex: on STREAMON     *)
(*            acamera_fw_stream_rearm and SENSOR_STREAMING ON, on STREAMOFF    *)
(*            acamera_fw_stream_quiesce and SENSOR_STREAMING OFF;              *)
(*   irq      acamera_interrupt_handler, running acamera_fw_error_routine on   *)
(*            an error bit, on any CPU, between any two steps of the thread;   *)
(*   fw       the firmware thread, whose DMA writer update follows a frame;    *)
(*   port, pipe, sensor   the hardware.                                        *)
(*                                                                             *)
(* Each register write or polling loop is one step.  A polling loop ends when  *)
(* its condition holds or, after a bounded number of polls, without it: it may *)
(* give up in any state in which the condition does not hold.                  *)
EXTENDS Naturals

CONSTANTS MaxRetry,   \* ACAMERA_FW_ERROR_MAX_RETRY, 3 in the build
          MaxCount    \* bound of the model on acamera_fw_error_count

ASSUME ControlAssumption == MaxRetry \in Nat /\ MaxCount \in Nat /\ MaxRetry < MaxCount

VARIABLES
  thread,             \* where the V4L2 caller is
  irq,                \* where the interrupt handler is, "idle" when not running
  errCount,           \* acamera_fw_error_count
  local,              \* error_count of the running error routine
  clean,              \* stopped_cleanly of the running error routine
  drained,            \* quiesce left its loop before the timeout
  masked,             \* interrupt_mask_vector disables everything
  latched,            \* bits of interrupt_status_vector
  request, status,    \* input port mode_request and mode_status
  pipe,               \* fr pipeline: idle, busy with a frame, or wedged (busy for ever)
  sensor,             \* pixels arrive
  shadowOn, hwOn,     \* FR writer's frame_write_on: software map, page the ISP uses
  enabled,            \* the FR DMA pipe has been armed by a first buffer
  fwWork,             \* the firmware thread has a frame to process
  \* History, for the properties only.
  cleanStart,         \* no error routine was running or due when this session's rearm began
  undisturbed,        \* none has run since the thread's current operation began
  gaveUp,             \* an error routine gave up since the last rearm began
  restarts            \* times an error routine restarted the ISP since then

hw == <<masked, latched, request, status, pipe, sensor>>
writer == <<shadowOn, hwOn, enabled, fwWork>>
history == <<cleanStart, undisturbed, gaveUp, restarts>>
routine == <<irq, local, clean>>
vars == <<thread, routine, errCount, drained, hw, writer, history>>

Busy == pipe # "idle"
Drained == status = "stop" /\ ~Busy
-----------------------------------------------------------------------------
(* The V4L2 caller.                                                            *)

\* A step of the thread from one place to another that changes nothing else
\* unless the action says so.
Goto(from, to) == thread = from /\ thread' = to

\* No error routine is running, nor can one start while the sensor is off.
Quiet == irq = "idle" /\ (masked \/ "error" \notin latched)

\* acamera_fw_stream_rearm
RearmCount ==
  /\ Goto("off", "clear")
  /\ errCount' = 0
  /\ cleanStart' = Quiet /\ undisturbed' = Quiet
  /\ gaveUp' = FALSE /\ restarts' = 0
  /\ UNCHANGED <<routine, drained, hw, writer>>

RearmClear ==
  /\ Goto("clear", "unmask")
  /\ latched' = {}
  /\ UNCHANGED <<routine, errCount, drained, masked, request, status, pipe, sensor, writer, history>>

\* Mutant of RearmUnmask: the driver before acamera_fw_stream_rearm existed.
RearmForgetsMask ==
  /\ Goto("unmask", "arm")
  /\ UNCHANGED <<routine, errCount, drained, hw, writer, history>>

RearmUnmask ==
  /\ Goto("unmask", "arm")
  /\ masked' = FALSE
  /\ UNCHANGED <<routine, errCount, drained, latched, request, status, pipe, sensor, writer, history>>

RearmArm ==
  /\ Goto("arm", "configure")
  /\ request' = "start"
  /\ UNCHANGED <<routine, errCount, drained, masked, latched, status, pipe, sensor, writer, history>>

\* SENSOR_STREAMING ON: the software map is copied to PING, the next empty
\* buffer, if there is one, is programmed and the map is copied to PONG.
Configure ==
  /\ Goto("configure", "safe_start")
  /\ hwOn' = shadowOn
  /\ shadowOn' \in IF enabled THEN BOOLEAN ELSE {shadowOn}
  /\ UNCHANGED <<routine, errCount, drained, hw, enabled, fwWork, history>>

\* isp_safe_start; its result is ignored.
SafeStart ==
  /\ Goto("safe_start", "started")
  /\ request' = "start"
  /\ UNCHANGED <<routine, errCount, drained, masked, latched, status, pipe, sensor, writer, history>>

\* Either mode_status has followed or the wait has timed out.
SensorOn ==
  /\ Goto("started", "on")
  /\ sensor' = TRUE
  /\ UNCHANGED <<routine, errCount, drained, masked, latched, request, status, pipe, writer, history>>

\* acamera_fw_stream_quiesce
QuiesceStop ==
  /\ Goto("on", "drain")
  /\ request' = "stop"
  /\ undisturbed' = (irq = "idle")
  /\ UNCHANGED <<routine, errCount, drained, masked, latched, status, pipe, sensor, writer,
                 cleanStart, gaveUp, restarts>>

\* Mutant of QuiescePoll: mode_status alone is waited for.
QuiescePollsStatusOnly ==
  /\ Goto("drain", "silence")
  /\ drained' = (status = "stop")
  /\ UNCHANGED <<routine, errCount, hw, writer, history>>

\* Mutant of QuiescePoll: no timeout.
QuiescePollsForever ==
  /\ Goto("drain", "silence")
  /\ Drained /\ drained' = TRUE
  /\ UNCHANGED <<routine, errCount, hw, writer, history>>

QuiescePoll ==
  /\ Goto("drain", "silence")
  /\ drained' = Drained
  /\ UNCHANGED <<routine, errCount, hw, writer, history>>

QuiesceMask ==
  /\ Goto("silence", "cut")
  /\ masked' = TRUE
  /\ UNCHANGED <<routine, errCount, drained, latched, request, status, pipe, sensor, writer, history>>

\* SENSOR_STREAMING OFF: the sensor goes first.  A frame in the pipeline is
\* broken and stays there.
SensorOff ==
  /\ Goto("cut", "safe_stop")
  /\ sensor' = FALSE
  /\ IF pipe = "busy" THEN pipe' = "wedged" /\ latched' = latched \cup {"error"}
                      ELSE UNCHANGED <<pipe, latched>>
  /\ UNCHANGED <<routine, errCount, drained, masked, request, status, writer, history>>

\* isp_safe_stop; its result is ignored.
SafeStop ==
  /\ Goto("safe_stop", "reset")
  /\ request' = "stop"
  /\ UNCHANGED <<routine, errCount, drained, masked, latched, status, pipe, sensor, writer, history>>

\* acamera_api_dma_buff_queue_reset( dma_fr )
QueueReset ==
  /\ Goto("reset", "off")
  /\ shadowOn' = FALSE /\ enabled' = FALSE
  /\ UNCHANGED <<routine, errCount, drained, hw, hwOn, fwWork, history>>

\* The first buffer queued to a pipe that is not enabled arms it.
QueueBuffer ==
  /\ thread \in {"off", "on"} /\ ~enabled
  /\ enabled' = TRUE /\ shadowOn' = TRUE
  /\ UNCHANGED <<thread, routine, errCount, drained, hw, hwOn, fwWork, history>>

Thread ==
  \/ RearmCount \/ RearmClear \/ RearmUnmask \/ RearmArm
  \/ Configure \/ SafeStart \/ SensorOn
  \/ QuiesceStop \/ QuiescePoll \/ QuiesceMask \/ SensorOff \/ SafeStop \/ QueueReset
-----------------------------------------------------------------------------
(* The interrupt handler.                                                      *)

Step(from, to) == irq = from /\ irq' = to

\* Status read and cleared; no error bit: the frame start copies the software
\* map to the page of the next frame and raises new_frame.
FrameInterrupt ==
  /\ irq = "idle" /\ ~masked /\ latched = {"frame"}
  /\ latched' = {}
  /\ hwOn' = shadowOn /\ fwWork' = TRUE
  /\ UNCHANGED <<thread, routine, errCount, drained, masked, request, status, pipe, sensor,
                 shadowOn, enabled, history>>

\* An error bit: every other bit is skipped.  ++acamera_fw_error_count is a
\* load and a store, with no lock against rearm.
ErrorInterrupt ==
  /\ Step("idle", "count")
  /\ ~masked /\ "error" \in latched /\ errCount < MaxCount
  /\ latched' = {}
  /\ local' = errCount + 1
  /\ undisturbed' = FALSE
  /\ UNCHANGED <<thread, clean, errCount, drained, masked, request, status, pipe, sensor, writer,
                 cleanStart, gaveUp, restarts>>

ErrorCount ==
  /\ Step("count", "write_off")
  /\ errCount' = local
  /\ UNCHANGED <<thread, local, clean, drained, hw, writer, history>>

\* frame_write_on := 0 in the software map.
ErrorWriteOff ==
  /\ Step("write_off", "mask")
  /\ shadowOn' = FALSE
  /\ UNCHANGED <<thread, local, clean, errCount, drained, hw, hwOn, enabled, fwWork, history>>

\* Mutant of ErrorMask: the interrupts stay on while the routine runs.
ErrorForgetsMask ==
  /\ Step("mask", "stop")
  /\ UNCHANGED <<thread, local, clean, errCount, drained, hw, writer, history>>

ErrorMask ==
  /\ Step("mask", "stop")
  /\ masked' = TRUE
  /\ UNCHANGED <<thread, local, clean, errCount, drained, latched, request, status, pipe, sensor,
                 writer, history>>

ErrorStop ==
  /\ Step("stop", "poll")
  /\ request' = "stop"
  /\ UNCHANGED <<thread, local, clean, errCount, drained, masked, latched, status, pipe, sensor,
                 writer, history>>

\* Mutant of ErrorPoll: a timeout is not noticed (the vendor's routine).
ErrorPollIgnoresTimeout ==
  /\ Step("poll", "fsm_reset")
  /\ clean' = TRUE
  /\ UNCHANGED <<thread, local, errCount, drained, hw, writer, history>>

ErrorPoll ==
  /\ Step("poll", "fsm_reset")
  /\ clean' = Drained
  /\ UNCHANGED <<thread, local, errCount, drained, hw, writer, history>>

\* global_fsm_reset := 1, 0: whatever was in the pipeline is gone.
ErrorReset ==
  /\ Step("fsm_reset", "decide")
  /\ pipe' = "idle"
  /\ UNCHANGED <<thread, local, clean, errCount, drained, masked, latched, request, status, sensor,
                 writer, history>>

ErrorGiveUp ==
  /\ Step("decide", "idle")
  /\ local > MaxRetry \/ ~clean
  /\ gaveUp' = TRUE
  /\ UNCHANGED <<thread, local, clean, errCount, drained, hw, writer, cleanStart, undisturbed, restarts>>

ErrorUnmask ==
  /\ Step("decide", "restart")
  /\ ~(local > MaxRetry \/ ~clean)
  /\ masked' = FALSE
  /\ UNCHANGED <<thread, local, clean, errCount, drained, latched, request, status, pipe, sensor,
                 writer, history>>

ErrorRestart ==
  /\ Step("restart", "idle")
  /\ request' = "start"
  /\ restarts' = restarts + 1
  /\ UNCHANGED <<thread, local, clean, errCount, drained, masked, latched, status, pipe, sensor,
                 writer, cleanStart, undisturbed, gaveUp>>

Irq ==
  \/ FrameInterrupt \/ ErrorInterrupt \/ ErrorCount \/ ErrorWriteOff \/ ErrorMask \/ ErrorStop
  \/ ErrorPoll \/ ErrorReset \/ ErrorGiveUp \/ ErrorUnmask \/ ErrorRestart

\* The firmware thread: dma_writer_pipe_update sets write_on when there is an
\* empty buffer and clears it when there is none.
FwUpdate ==
  /\ fwWork /\ fwWork' = FALSE
  /\ shadowOn' \in IF enabled THEN BOOLEAN ELSE {shadowOn}
  /\ UNCHANGED <<thread, routine, errCount, drained, hw, hwOn, enabled, history>>
-----------------------------------------------------------------------------
(* The hardware: a request takes effect between frames as far as new frames    *)
(* are concerned, a frame in flight is finished while pixels arrive.           *)

Only(hardware) ==
  UNCHANGED <<thread, routine, errCount, drained, writer, history, masked, request, sensor>> /\ hardware

PortFollows == status # request /\ Only(status' = request /\ UNCHANGED <<pipe, latched>>)

FrameStart ==
  /\ sensor /\ status = "start" /\ pipe = "idle"
  /\ Only(pipe' = "busy" /\ latched' = latched \cup {"frame"} /\ UNCHANGED status)

FrameEnd == sensor /\ pipe = "busy" /\ Only(pipe' = "idle" /\ UNCHANGED <<status, latched>>)

\* The sensor or the receiver drops part of a frame.
FrameBreaks ==
  sensor /\ pipe = "busy" /\ Only(pipe' = "wedged" /\ latched' = latched \cup {"error"} /\ UNCHANGED status)

\* A frame starts before the last one has left the pipeline.
Collision ==
  /\ sensor /\ status = "start" /\ Busy /\ "error" \notin latched
  /\ Only(latched' = latched \cup {"error"} /\ UNCHANGED <<status, pipe>>)

Hardware == PortFollows \/ FrameStart \/ FrameEnd \/ FrameBreaks \/ Collision

\* After module load: acamera_init has unmasked the interrupts and
\* sensor_sw_init has armed the input port; the sensor is off.
Init ==
  /\ thread = "off" /\ irq = "idle" /\ errCount = 0 /\ local = 0 /\ clean = TRUE /\ drained = FALSE
  /\ masked = FALSE /\ latched = {} /\ request = "start" /\ status = "start"
  /\ pipe = "idle" /\ sensor = FALSE
  /\ shadowOn = FALSE /\ hwOn = FALSE /\ enabled = FALSE /\ fwWork = FALSE
  /\ cleanStart = TRUE /\ undisturbed = TRUE /\ gaveUp = FALSE /\ restarts = 0

Next == Thread \/ QueueBuffer \/ Irq \/ FwUpdate \/ Hardware

Spec == Init /\ [][Next]_vars

\* A called function runs to its end, a raised interrupt is taken and handled,
\* the firmware thread runs, the port obeys, and a sensor that is on keeps
\* sending frames.  The application need not ever start or stop a stream.
Fairness ==
  /\ WF_vars(Thread /\ thread \notin {"off", "on"})
  /\ WF_vars(Irq) /\ WF_vars(FwUpdate)
  /\ WF_vars(PortFollows) /\ WF_vars(FrameStart) /\ WF_vars(FrameEnd)
  /\ WF_vars(pipe = "wedged" /\ Collision)

FairSpec == Spec /\ Fairness
-----------------------------------------------------------------------------
ThreadAt == {"off", "clear", "unmask", "arm", "configure", "safe_start", "started", "on",
             "drain", "silence", "cut", "safe_stop", "reset"}
IrqAt == {"idle", "count", "write_off", "mask", "stop", "poll", "fsm_reset", "decide", "restart"}

TypeOK ==
  /\ thread \in ThreadAt /\ irq \in IrqAt
  /\ errCount \in 0..MaxCount /\ local \in 0..MaxCount
  /\ clean \in BOOLEAN /\ drained \in BOOLEAN /\ masked \in BOOLEAN
  /\ latched \subseteq {"frame", "error"}
  /\ request \in {"start", "stop"} /\ status \in {"start", "stop"}
  /\ pipe \in {"idle", "busy", "wedged"} /\ sensor \in BOOLEAN
  /\ shadowOn \in BOOLEAN /\ hwOn \in BOOLEAN /\ enabled \in BOOLEAN /\ fwWork \in BOOLEAN
  /\ cleanStart \in BOOLEAN /\ undisturbed \in BOOLEAN /\ gaveUp \in BOOLEAN
  /\ restarts \in Nat

\* Teardown in order (acamera_fw.c:165-169): when quiesce has drained the ISP
\* and no error routine interfered, the sensor is cut with no frame in the
\* pipeline, the port stopped and the interrupts masked.
UndisturbedTeardown ==
  thread = "cut" /\ drained /\ undisturbed => ~Busy /\ status = "stop" /\ masked

\* A restart from the error routine (acamera_fw.c:433-435) happens over a
\* stopped port and an empty pipeline, unless the routine reaches over from an
\* earlier session into one that has armed the port again.
RestartOverIdle ==
  irq \in {"fsm_reset", "decide", "restart"} /\ clean /\ cleanStart => Drained

\* "every fresh stream start gets a fresh budget of recovery attempts"
\* (acamera_fw.c:79): within a session the ISP is restarted at most MaxRetry
\* times, whatever the errors.
RestartBudget == cleanStart => restarts <= MaxRetry

\* Every restart is due and paid for.
RestartsJustified == RestartOverIdle /\ RestartBudget

\* Once the error routine has given up nothing rearms the ISP before the next
\* STREAMON: not the firmware thread, not a teardown.
GivenUpStaysDown == gaveUp /\ cleanStart => masked /\ request = "stop"

\* A session that started with no error routine running and has seen none since
\* can hear its frames: rearm undid what earlier sessions left latched.
StartedIsArmed ==
  thread = "on" /\ cleanStart /\ undisturbed => ~masked /\ request = "start" /\ errCount = 0

\* STREAMOFF returns although the pipeline may never drain.
StopReturns == thread = "drain" ~> thread = "off"

\* No deaf session (acamera_fw.c:153-160): a stream that has been started sees
\* a frame interrupt, or an error routine that gives up, or is stopped.
StartedIsServed == thread = "on" ~> (fwWork \/ gaveUp \/ thread # "on")
=============================================================================
