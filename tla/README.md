# A verification development for the Radxa Zero 2 Pro camera stack

This directory holds TLA+ models of the out-of-tree camera drivers in this
repository, chiefly the ARM/Amlogic ISP driver `isp-module`, with TLC
configurations that check them on small instances and proofs that TLAPS checks
for every instance. `PROJECT.json` lists the runs, the code lines every
definition stands for, the mutants that show each property can fail, the
hazards the properties are aimed at, and the theorems.

Paths below are relative to the repository; `fw_lib/`, `v4l2_interface/` and
`platform/` abbreviate `isp-module/src/fw_lib/`,
`isp-module/app/v4l2_interface/` and `isp-module/src/platform/`.

## 1. The system

A frame travels: sensor (`imx415/`) -> MIPI receiver and adapter
(`platform/system_am_mipi.c`, `system_am_adap.c`) -> ISP -> DMA writer of the
full-resolution pipe (FR), and of the scaler (DS1, DS2) -> V4L2 buffers.
Three kinds of actors run concurrently:

* **The V4L2 callers**, serialised by `vfd->lock` (mlock): open, formats,
  REQBUFS, QBUF, STREAMON, STREAMOFF, controls. `close` and the per-stream copy
  thread (`isp_v4l2_stream_copy_thread`) run outside it.
* **The interrupt handler** `acamera_interrupt_handler` (`fw_lib/acamera.c`),
  and the completion callbacks and tasklets of the DMA engine
  (`platform/system_dma.c`), which run on the interrupt's CPU.
* **The firmware thread** (`main_firmware.c`, `acamera_fsm_mgr.c`), which pops
  events from a queue and dispatches each to some twenty state machines.

| component | state it keeps | operations | what is hard about it |
|---|---|---|---|
| event queue, `acamera_event_queue.c`, `acamera_loop_buf.c` | ring of bytes, duplicate mask | push, pop, not_empty (which resets) | two copies of one fact; shift width; wrap |
| stream control, `acamera_fw.c`, `acamera_command_api_impl.c`, `fw-interface.c` | interrupt mask, port mode, error counter, write-on bits | rearm, quiesce, SENSOR_STREAMING, error routine | polling with timeouts; an interrupt between any two steps; latches left by earlier sessions |
| frame interrupt, `acamera.c`, `system_dma.c` | page selector, completion flags, raised bits | frame start, copy completions | pages alternate, frames are dropped and skipped |
| DMA writer, `dma_writer.c`, `dma_writer_func.c` | frame queue of a pipe, four slot pointers, rate | write_frame_queue, pipe_update, set_pipe_fps, fr_finished, reset | a programmed address takes two frame starts to reach the ISP; unlocked callers |
| state machine manager, `acamera_fsm_mgr.c` | machines, event queue | raise, process_events | an event popped is no longer in the queue |
| V4L2 streams, `isp-v4l2.c`, `isp-v4l2-stream.c`, `isp-vb2.c` | open files, stream slots, buffer lists, mailbox, copy thread | open, close, set format, stream on/off, queue, callbacks | close against callbacks; repeated and failed stream on; sessions |
| V4L2 controls, `isp-v4l2-ctrl.c`, `fw-interface.c` | settings | one setter each | controls raised while frames run |
| 3A and image machines, `cmos_*`, `ae_*`, `awb_*`, `af_*`, ... | statistics, tables, exposure | one handler per event | arithmetic; delayed application |
| sensor machine and bridge, `sensor_fsm.c`, `sensor_func.c`, `driver/sensor/V4L2_drv.c` | mode, streaming flags, receive path | init, streaming, mode switch | two owners of one flag; what a stop takes down |
| shared buffers, `sbuf_func.c`, `sbuf_fsm.c` | rings of statistics and a calibration, in a page mapped by a user-space daemon | fill, publish, read, write back, recycle, exchange | the daemon may end between two calls; a reset that initialises a lock another thread holds |
| control connection, `acamera_connection.c`, `system_chardev.c`, `acamera_ctrl_channel_k2u.c` | request parser, fifos | read, write, process | partial reads |
| scaler, `system_am_sc.c` | fifos of buffers, frame being written, tasklet | queue, start, stop, interrupt | fifos shared with an interrupt and freed by stop |
| adapter and MIPI, `system_am_adap.c`, `system_am_mipi.c` | DDR frame ring | alloc, start, interrupt | ring indices |
| sensor driver, `imx415/imx415.c` | streaming, power, window, controls under a mutex | s_stream, set_fmt, set_selection, s_ctrl | a control whose handler changes another's range; lost writes; power that fails |
| clocks, `isp-clkc/`, `ao-mclk/`; loaders, `dtbo-loader/`, `main_kernel_juno_v4l2.c` | registers, module state | enable, rate, probe, remove | order of undoing |

What makes each part correct:

* *event queue*: FIFO, no event locked out or doubled, never overflows;
* *stream control*: the sensor is cut only when no frame is in the pipeline, a
  restart happens only over an idle ISP and at most so many times, a started
  stream is heard, STREAMOFF returns;
* *frame interrupt and DMA writer*: the ISP writes only to buffers the driver
  owns, what is delivered is a whole new frame, no buffer is lost or held
  twice, frames are not skipped for ever;
* *V4L2 streams*: a session gives every buffer back, starts from a clean
  state, has one copy thread, and no callback uses a stream that is gone;
* *shared buffers*: an item is with one side at a time, counted while it is,
  and never lost, results come in order, the calibration is not exchanged under
  the daemon's hands;
* *connection*: every request is answered once and in order, within the buffer;
* *scaler*: the handler always has a buffer to program, none is lost, a frame
  handed over is whole and out of the writer's reach;
* *sensor driver*: ranges, cached values and registers agree, power is held
  exactly while streaming, after failures too.

The full list of hazards, each at its line with the properties that would
catch it, is in `PROJECT.json`.

## 2. Plan

Written so far, in this order (most important behaviour first):

1. `PendingEvents`, `EventQueue`: the queue every other part relies on, with the
   abstract FIFO it implements; proofs in `Interrupts_proof`.
2. `StreamControl`, `StreamControl_proof`: STREAMON, STREAMOFF and the error
   routine against each other.
3. `DmaPipe`, `FramePipeline`, `FramePipeline_proof`: the
   frame queue of a DMA pipe as pure operators, and the running stream that
   composes it with the interrupt handler, the copies, the abstract event queue
   (`INSTANCE PendingEvents`), the firmware thread and the copy thread.
4. `CaptureStream`, `CaptureStream_proof`: sessions of a stream, with the DMA
   pipe reduced to a bag of slots.
5. `OpenFiles`: open, close and format negotiation; proofs in `Devices_proof`.
6. `SharedBuffers`, `StatsQueue`, `SharedBuffers_proof`: the statistics and the
   calibration shared with a daemon that may end at any time, against the
   abstract queue each ring implements.
7. `Scaler`: the DS2 writer with its interrupt handler, tasklet and sessions;
   proofs in `Interrupts_proof`.
8. `Sensor`, `Sensor_proof`: the imx415 driver, the bridge of the ISP to it and
   the calls that reach it.
9. `Connection`: requests and answers over the character device; proofs in
   `Devices_proof`.
10. `MetaStream`, `MetaStream_proof`: the metadata stream, whose buffers the
   firmware's callback fills itself, against stream off and close.

The theorems state every safety property, action property and refinement that a
passing run checks; what is left to TLC is in section 8.

What a next version would add, in this order:

* `DmaWriter`: the callers of the DMA writer as processes of their own, over
  the same `DmaPipe` operators: the unlocked copy out and back of
  `acamera_frame_buffer_update`, the queue reset of STREAMOFF, the rate written
  while it is read;
* the failing paths of open and of stream on (`isp-v4l2.c:143`), in `OpenFiles`
  and `CaptureStream`;
* `Adapter`: the frame ring of `system_am_adap.c` in its DDR modes;
* `Clocks` (`isp_clkc.c`): dividers as arithmetic, gates as counters.

## 3. Modules and code

**EventQueue** is `acamera_event_queue.c` over `acamera_loop_buf.c`. `head`,
`tail`, `buf` are the ring's positions and its bytes, `mask` is
`event_bit_mask`. `Push`, `Pop` and `NotEmpty` are the functions of these names,
each under the queue's spin lock and therefore one step. `BitOf` is
`1 << event` as the compiler computes it, an int shift, so that events 32 apart
share a bit; `NotEmpty` includes the reset in the answer "yes" and the scan that
misses a wrapped ring.

**StreamControl** has one action per register access or polling loop.
`Rearm*`, `Quiesce*` are `acamera_fw_stream_rearm` and `_quiesce`;
`Configure`, `SafeStart`, `SensorOn`, `SensorOff`, `SafeStop`, `QueueReset` are
SENSOR_STREAMING and `fw_intf_stream_stop`; `Error*` is
`acamera_fw_error_routine` inside `acamera_interrupt_handler`. `masked`,
`latched`, `request`, `status` are the interrupt and port registers; `pipe` says
whether a frame is in the full-resolution pipeline, and "wedged" is a frame that
will never leave it. A polling loop may end in any state that does not satisfy
its condition: its timeout. `shadowOn` and `hwOn` are the two copies of
`frame_write_on`. Hardware actions (`PortFollows`, `FrameStart`, `FrameEnd`,
`FrameBreaks`, `Collision`) are external, taken from what the code's comments
and loops expect of the ISP.

**DmaPipe** holds the operators of `dma_writer.c` on one pipe: a record of the
frame queue (`buf`, `status`), the read and write indices and the four slot
pointers (`last_tframe`, `inqueue_tframe[0]`, `[1]` and the slot a reduced rate
takes back). Each operator is one function and returns the next record.

**FramePipeline** is a running stream. `FrameInterrupt` and `SkipInterrupt` are
the handler at a frame start, `MeteringCopied` and `ConfigCopied` the
completion callbacks with their flags, `PopEvent` and `Handle*` the firmware
thread, `CopyThread` and `QueueBuffer` the V4L2 side, `SetFrameRate` and
`SetControl` the controls. The application queues its buffers and `StreamOn`
starts the stream once there are `Primed` of them. `page` is what each of the
two configuration pages says of the writer: an address programmed by the
firmware reaches a page with the next configuration copy and the ISP one frame
start later.

**CaptureStream** follows one open file through any number of sessions. The
application's calls are sequences of actions (`app` says where it is):
`StreamOn, Spawn, SensorStart, SetStarted` and `SensorStop, QueueReset,
StopThread, JoinThread, Release, ClearStarted, Cancel`. The copy thread's loop
is `ThreadExit, ThreadTake, ThreadFind, ThreadMiss, ThreadDone`, and the
firmware's callback `CallbackFind, CallbackCheck, CallbackSave`. videobuf2 is
external: `vb` is its state of each buffer, `Give` its start_streaming. A slot
of the DMA pipe is purged, in use or ready; which one the ISP fills next is
left open, since `FramePipeline` decides it.

**OpenFiles** is `isp_v4l2_fop_open`, `isp_v4l2_fop_close` and what
`isp_v4l2_s_fmt_vid_cap` does to the tables, cut where a lock is released or
another file's step can be seen. `at` is the place of each file, `opened`,
`mask`, `stream`, `index`, `handle` are the fields of `isp_v4l2_dev_t`.

**SharedBuffers** is `sbuf_func.c`. For each type of statistics `st`, `rd`,
`wr`, `using` are `buf_status`, `read_idx`, `write_idx` and
`item_status_count[USING]` of its ring (the other three counts are read off the
statuses; only a log reads that of the empty items). `GetEmpty`, `SetDone`,
`GetDone`, `SetEmpty` are the operations under its spin lock. `fw` is the
firmware thread: `Fill`, `Filled` produce an item, `Drain`, `Pair`, `Unpaired`,
`GiveBack`, `Checked`, `Publish` choose what to hand out, where the reader is
checked under one lock and the index set written under another. The daemon
(`dm`) opens, fetches the calibration, reads the set, works on it, writes it
back and closes; it may close between any two of these. What it had read is gone
with it (`mine`, `copy`).

A close is `Release`, then `sbuf_mgr_reset`, which initialises the spin lock
(`sbuf_func.c:544`) before it takes it. With nobody at the rings this is
`Reset`. With the firmware thread in an operation on a ring, or the control
thread counting the items in use, the holder's unlock opens the reset's lock
too (`ResetUnlocked`), and the reset goes on item by item (`ResetItem`, with
`seen` items of each type looked at, to `ResetEnd`) beside the firmware thread.
An operation of that thread on the item the reset is looking at comes before it,
after it, or is caught by it: `GetDoneCaught` when the reset sees the item in
use before it is counted, `SetEmptyCaught` when both count it off. The type is
then `torn`.
`Calibration` is the control thread that exchanges the calibration when the WDR
mode changes, with its thousand polls as a timeout that may come at any time.
**StatsQueue** is the abstract queue of one type.

**Scaler** is `system_am_sc.c` with the part of `isp-v4l2-stream.c` that feeds
it. A buffer stands for its entry in `temp_buf`. `Sync`, `IsrTake`, `IsrConfig`,
`IsrSort` are `isp_sc_isr`, cut where a fifo is accessed; `TaskletTake` and
`Callback` are `sc_do_tasklet` and `callback_ds2`; `Stop*` is `am_sc_stop` in
the order of the code, which frees the fifos (`Freed`) before it waits for the
handler. `fault` is the null pointer the handler then follows.

**Sensor** has the driver's state as a record `drv`, and each entry point of
`imx415.c` as a function from it to the next record and the register writes, so
that a control whose handler changes the range of another, and so calls itself,
is a composition of functions (`SetVblank` with `UpdateExposureRange` with
`SetExposure`). `Write` sends the writes to `reg`, of which at most `MaxLost`
are lost. `Start`, `Stop`, `SetMode`, `ModeDone` and `SensorUpdate` are
`V4L2_drv.c` and the sensor machine above it, `Node*` the application on the
subdevice's own node, `Autosuspend` the work of runtime power management.

**Connection** is `acamera_connection.c` over `system_chardev.c`. `in` and
`out` are the two fifos, `state`, `buf`, `size`, `skipped`, `reply`, `tx` the
fields of `con`. A packet is counted in words, and a word is known by its
request and its place there. `FopsOpen` and `FopsRelease` are the file
operations of these names, `GetHeader`, `Skip`, `GetData`, `Send` the four
states of `acamera_connection_process`, and `Answer` the length
`process_request` gives the answer, by type, size and outcome. The client
writes and reads in pieces and may close anywhere. `handled` and `due` are
history: the answers made since the device was opened, and the words of them
the client has not read.

**MetaStream** is one file of the metadata type, from open to close any number
of times. `StreamOn, ResetRunning, SetStarted` are STREAMON; `StreamOff` or
`Close` begins `Wait, Mark, Release, ClearStarted`, and close goes on with
`Free`; then vb2 takes every buffer back (`Cancel`). The firmware's
`callback_meta` is `Find, Check, Pop` (or `NoBuffer`), `Count, Fill, Finish`,
cut at each access to what both sides use: the index, `stream_started`, the
list and `running`. The list is a set, since the order of its buffers decides
nothing here. The format is negotiated right after each open. A callback that
still has the stream when close frees it is "astray" and is not followed into
freed memory. `raced` is history: a callback took a buffer that stream off did
not see counted.

Mutants are operators named after the definition they replace; each precedes it
and says in a comment what the mistake would be.

## 4. Runs

| run | instance | what it shows |
|---|---|---|
| `event_queue` | five slots, four events on three bits | FIFO, mask and ring agree, no overflow; refines `PendingEvents` |
| `stream_control` | one restart, counter up to 3 | order of teardown, restarts over an idle ISP only, their budget, giving up is final, a new stream is armed; STREAMOFF returns, a stream is not left deaf |
| `frame_pipeline` | three buffers and slots, rates 3/3, 3/2 and 3/1, one control, the firmware arbitrarily late | the ISP writes only to the driver's buffers, delivered frames are whole and new; the pipe's pointers and flags are sound however late the firmware is |
| `capture_stream` | two buffers and slots, `MinBuffers` 2, one copy thread at a time | ownership of buffers over sessions; STREAMOFF returns; frames are taken |
| `capture_stream_stale` | three buffers, `MinBuffers` 3 | *violation*: a frame of an old session is delivered in a new one |
| `open_files` | three stream ids, four files | ids, tables and counters under concurrent open and close |
| `shared_buffers` | two types, three items each, the daemon ends once | positions of the rings, ownership of items and what a torn count leaves, exchange of the calibration; statistics go on; refines `StatsQueue` |
| `scaler` | three buffers, `MinBuffers` 2, two sessions, two frames given up | the handler has a buffer, none is lost, frames handed over are whole and locked |
| `sensor` | six lines, windows of four and six, one lost write | ranges and registers agree, power is held exactly while streaming, an idle sensor suspends |
| `sensor_receiver` | the same | *violation*: after STREAMON, STREAMOFF, STREAMON the receiver is down |
| `connection` | three requests of five kinds, fifos of two words, a buffer of five | answers in order, within the buffer, and each of them given |
| `meta_stream` | three buffers, `MinBuffers` 3 | a buffer being filled is waited for, none is lost; STREAMOFF and close return |

Most type invariants have no run of their own: each is a theorem (`TypeCorrect`,
or `ScalerTypesCorrect` and `ConnectionInvariant`), and part of the inductive
invariant of its proof module.

Bounds and why they are enough.

* *StreamControl.* `MaxRetry` 1 has a recovery, a recovery that exhausts the
  budget and a late routine reaching into the next session; the theorems cover
  every `MaxRetry`. `MaxCount` stops the counter, and with it error interrupts
  of a session, two above the limit: the routine behaves alike from
  `MaxRetry + 1` on.
* *FramePipeline.* Three buffers are `min_buffers_needed` and fill the three
  pointers of the pipe; as many slots make the indices wrap at once.
  `isp_frame_counter` is taken modulo 3, the sensor rate. The rates are 3/3,
  3/2, where frames are both written and skipped and a slot is taken back, and
  3/1, where two frames in a row are skipped; the theorems cover every rate.
  `VIEW Relevant` counts as one the states that nothing in the model tells
  apart: a slot is known by its distance from the read index and a buffer by
  its places (the slots it is in, the mailbox, the application), so that
  neither the names of buffers nor the rotation of the ring multiply states; of
  the two pages it keeps the one to be used next; and once a frame has started
  before the last one's work was done (`late`), it forgets the pages and the
  ISP's place in them: the two properties that read them exclude it (see
  section 7), and the other two do not read them.
* *CaptureStream.* Two buffers are enough for one to be delivered while the
  other is written, and for a session's first buffer to be in the mailbox when
  the next begins; sessions are unbounded. `Worker` bounds how many copy
  threads can exist, one where STREAMON is not called on a running stream.
* *OpenFiles.* One file more than there are ids, so that the limit is reached,
  missed and contested; the theorems cover every number.
* *SharedBuffers.* Three items are the least the choice of the next slot needs
  (four in the build): one in use, one done, one to write. Two types are the
  pair that is handed out together. `MaxResets` 1 has the
  first session and the close that ends it, with and without the lock, beside
  everything the firmware and control threads do then and after; the theorems
  cover every number of each, sessions after a close included.
* *Scaler.* One buffer with the writer, one complete and one waiting or with the
  application. Two sessions show what one leaves to the next, two frames given
  up what happens with and without another buffer. The handler may follow a
  null pointer into a freed fifo, which stops the kernel: the run therefore has
  `CHECK_DEADLOCK FALSE`, and bounded sessions end besides.
* *Sensor.* Small numbers with the inequalities between the limits the driver's
  constants satisfy (`SensorAssumption`); one exposure below the range and one
  above it, which is inside once the range has grown, blankings at the two
  ends. One lost write shows for each register what a loss does; the theorems
  cover every number.
* *Connection.* The fifos (two words) are shorter than a request and than an
  answer (five), as 4 KiB are against 26 KiB in the build, so that both sides
  have to go on piece by piece. The requests are one answered with data, one
  with a status, one malformed, one that asks for too much and one that is too
  long. Three requests let one be written while one is answered and one read. A
  size below that of a header is not among the requests.
* *MetaStream.* Three buffers are `min_buffers_needed`, and let several
  callbacks meet one stream off; sessions and opens are unbounded.

## 5. Fairness

Six specifications state it, for their liveness properties.

`StreamControl!FairSpec`: a function that has been called runs to its end, a
raised interrupt is taken and its handler finishes, the firmware thread runs
(it is a kernel thread woken by a semaphore), the port follows its request, and
a sensor that is on keeps sending frames; a wedged pipeline collides with the
next frame. Nothing forces the application to start or to stop.

`CaptureStream!FairSpec`: an ioctl runs to its end except for the wait in
`kthread_stop`, which needs the thread; the copy thread is scheduled; the
firmware thread finishes a callback it has begun. No frame need ever arrive: the
copy thread wakes by its timeout, which is why `StopReturns` holds without one.

`SharedBuffers!FairSpec`: the control thread that has begun an update of the
calibration goes on, copying or giving up after its polls. The daemon need do
nothing, so that `Resumes` does not rest on it.

`Sensor!FairSpec`: the power management core runs the autosuspend work it has
scheduled.

`Connection!FairSpec`: the connection thread runs (a loop that sleeps two
jiffies at most), and a client reads what there is as long as it has the device
open. It need not write, and may close.

`MetaStream!FairSpec`: a call runs to its end and the firmware thread finishes
a callback it has begun. `StopReturns` needs no more although every frame may
begin another callback while stream off waits: only a callback that has a
buffer counts itself, and no buffer comes while the application waits.

## 6. Proofs

TLAPS checks every theorem for all values of the constants that satisfy the
named assumptions (`QueueAssumption`, `ControlAssumption`, `StreamAssumption`,
`OpenAssumption`, `SharedAssumption`, `SensorAssumption`, `PipeAssumption`,
`PipelineAssumption`, `MetaAssumption`, `ScalerAssumption`,
`ConnectionAssumption`).

*Interrupts_proof, the event queue.* `QueueInv` is `TypeOK /\ MaskMatchesQueue
/\ NoDuplicates`, the latter two being `MaskExact`. The mask is right after a
pop only because the popped bit occurs once, and a write never meets a full
ring because the waiting events have different bits and there are fewer bits
than slots (pigeonhole). From it: `TypeCorrect`, `MaskCorrect`,
`OverflowImpossible`, and `Refinement`, which shows `PendingEvents` implemented
step by step.

*Interrupts_proof, the scaler.* `ScalerInv` is `Running /\ Ordered`. `Running`
holds in every session. It follows the stages of the handler and of
`am_sc_stop`: which of them may be under way when a session begins, has been
flagged to stop or has been stopped (`Session`, `Ended`), that a handler past
its first access has the buffer it will need there, because it takes the
last one once more when the input fifo is empty (`Fed`), and that a buffer is on its
round (`NothingLost`). `Ordered` is the part that the two known ways break
(`repeated`, `leftOver`, section 7), and is a disjunction with them: no buffer
is in two of the places fifo, writer, tasklet, mailbox and thread (`Apart`),
each that is somewhere is active in vb2 (`Owned`), and every buffer past the
handler is a whole frame, for the register names the buffer the next frame goes
to (`Written`). From it: `ScalerInvariant`, `ScalerTypesCorrect`,
`HandlerHasBuffer`, `NoneIsLost`, `HandedOverIsWhole`.

*StreamControl_proof.* No safety property is inductive by itself.
`QuietStart` says that a rearm begun with no error routine running or due stays
so until the sensor is on, because no pixel can raise an error and the old bit
is cleared before the mask is lifted (`SensorWithin`). From it `RoutineAlone`: a
routine of this session finds the port stopped and the interrupts masked from
its own writes to its restart, since the thread does not write "start" again.
`RestartsPaid` ties the number of restarts to `acamera_fw_error_count` at every
place of the routine. `Undisturbed` carries what rearm and quiesce have written
as long as no routine runs. From these: `TypeCorrect`, `TeardownOrdered`,
`RestartsBounded`, `GivenUpFinal`, `StartArms`.

*CaptureStream_proof.* The theorems assume `OneThread`: `Worker` has at most
one element, so that `StreamOn` waits for the last session's thread to be gone,
as it is when no application calls STREAMON on a running stream (section 7 says
what happens otherwise). Then `ThreadKnown`: `kthread_stream` names the thread
there is, and it is Null from the join to the end of STREAMOFF. `TakenBack`
says that the purge of the pipe and the emptied list last until STREAMOFF is
over, `OffList` and `Owned` that a buffer leaves the list only into the
thread's hands; these give `BuffersOwned`. For the lock, `FramesApart` and
`CallbackApart` follow a frame through slot, callback, mailbox and thread: at
each place its buffer is active in vb2, so QBUF cannot queue it again, and no
two places have the same buffer. A buffer that vb2 cancels while its frame is
in the mailbox or under the callback breaks this, which is what `leftOver`
records; `LockedInSession` holds until then.

*FramePipeline_proof.* `IInv` is about whose hands a buffer is in, whatever the
order of interrupts, thread and application. `PipeInv` says of the pipe alone
that a slot in use has a buffer and no two the same (`Filled`), that the
pointers name busy slots (`Busy`) and different ones (`Apart`), and that a pipe
that is not enabled is empty (`Unarmed`); each operation of `DmaPipe` has a
lemma that it keeps this. `Accounts` says that the driver's list is the pipe
and the mailbox, which never share a buffer. There are no more buffers than
slots, so as long as the application has one to queue a slot is free
(`SlotFree`, by counting), and QBUF never meets a full pipe. From these:
`PipelineInvariant`, `TypeCorrect`, `PipeIsSound`, `FlagsAreBacked`. They hold
however late the firmware is.

Of the same module: what the ISP writes needs the order of one frame. As long
as no frame has started before the last one's work was done (`~late`, section
7), `TimingInv` tells two halves of a frame apart. Before the update of the
pipe (`Ahead`) the page to be used next names the slot `in1` and the ISP still
writes `in0` or, when nothing was left to write, `in1`; after it (`Behind`) the
pointers have moved on, the page names `in0` and the ISP writes `last` or
`in0`. `OneUpdate` says that an interrupt is followed by one update only,
`Taken` that the buffer in `last` is whole or still being written. From it:
`PagesInStep`, `UserBuffersSafe`, `DeliveredFramesFresh`.

*Devices_proof, the video device.* The heart is counting: `opened` is the
number of files counted and not yet uncounted, those admitted are among them
when the limit is checked, and so at most as many as ids are ever admitted
(`Counting`). A file in search of an id is admitted without holding one, so
fewer ids are held than exist and the search cannot come up empty (`FreeId`, by
pigeonhole). Then ids are distinct, the mask is exact, and each table entry is
written by one file only. `FoundIsLive` needs `Unindexed`: no index leads to a
file between `Unindex` and `Forget`. From these: `TypeCorrect`, `IdsAreOwned`,
`TablesAreRight`, `LookupIsLive`.

*Devices_proof, the control device.* `AnsweredInOrder` does not say what is in
the fifo, and without that nothing follows of the words the thread takes from
it next. `ConnectionInv` therefore speaks of the thread's buffer and the fifo
behind it together (`Pending`): they are one piece of what the client has
written (`Stream`), which begins with the first word of the request after the
last one answered and ends before the word the client writes next, with no word
missing between. A word taken for a size is then the size of that request, so
`state = "rx"` waits for exactly its end. The other half is that `out` and what
is unsent make up `due`. Both hold as long as the thread is not `astray`; the
bounds of the buffer hold even then. The lemmas are about cutting and joining
such pieces. From it: `ConnectionInvariant`, `BuffersAreBounded`,
`AnswersInOrder`.

*SharedBuffers_proof.* The invariant is built in layers. `RingInv` is about the
statuses and positions of each ring alone: the slot to write is empty, one item
at most is prepared and one in use, the prepared one is the newest
(`PreparedIsNewest`), and `read_idx` names the oldest result; that the choice of
the next slot passes over the item in use and moves `read_idx` when it takes the
oldest needs arithmetic on distances around the ring. `CountInv` ties
`item_status_count[USING]` to the statuses: it counts the item in use, and of a
torn type it is 1 or -1 with nothing in use. The two are kept together:
the guards read the count, so only with it exact is one item at most in use, and
a torn type, which no guard lets through, never has one in use again.
`HoldInv` says which hand names an item in use at each place of the firmware
thread and the daemon (`HandsInv`), that one always does or the reset has yet to
come to the item (`Named`), and for the first session that only one of them does
(`FirstSession`). `TornLate`: only an unlocked reset tears a count, so in the
first session none is torn. `CalInv` rests on all of them: the update starts
copying only when the counts add up to 0, which in the first session means that
nothing is in use, and the daemon has fetched. From these: `TypeCorrect`,
`Positions`, `Owning`, `Exchanging`. `Owning` holds over any number of daemons
for its first two parts (`NoItemLost`, `TornStops`) and of the first session for
the third; section 7 says why. That there are finitely many types
(`SharedAssumption`) is needed where counts are added up.

`RingsImplementQueues` is the refinement: a ring's results, in the order of
their distance from the write index, are the abstract queue of its type, and
what is in use is the abstract item in use. The result of rank n is the one
with n - 1 nearer ones (`Ranked`), so that the order is a function and no
induction is needed. Three lemmas about that order carry the steps. An item
further than all others is appended (`NewestLast`): finishing an item produces,
by `PreparedIsNewest`. Without the nearest one the tail is left
(`OldestAtHead`): taking the item `read_idx` names is `Take`. Distances from
the new write index keep the order (`SameOrder`): moving it to a free slot is
nothing, to a result is to discard the oldest. Giving items back is `Return`,
since a type has one in use at most; the steps of the daemon's calls and of the
calibration are stutters.

*Sensor_proof.* `Inv` is `TypeOK /\ RangesCoherent /\ PowerBalanced`, which is
inductive. The proof follows the functions: each of `SetExposure`,
`UpdateExposureRange`, `SetVblank`, `UpdateGeometry` has a lemma that says from
which half-updated record it restores `Coherent`. From it: `TypeCorrect`,
`ControlsCoherent`, `PowerHeld`.

`Programming` is about the registers. A call is a sequence of writes, of which
any may be lost, and per register the last one decides: `Ends` says that the
last write of a sequence to a register has a value, `Spares` that there is
none, and both are followed through the composition of the functions
(`WritesJoin`, `Reaching`). Between calls `VMAX`, `SHR0` and the window then
hold what the record says unless the register is `suspect`, its own last write
having been lost, and with the proviso for SHR0 and the window that section 7
explains.

*MetaStream_proof.* `IInv` says where a buffer is at each place of the
callback. `HandKnown` says when the callback has one. `CountExact` says that
without a race `running` is 1 exactly while the callback fills, and that a
callback with a buffer finds stream off before its last look; `CountedOnce`
that with a race, too, 1 means a callback that fills, which bounds the counter.
`Released` and `NothingGiven` say that nothing is left on the list, or with
vb2's start, from the release of the buffers until a new stream is set up. From
it: `TypeCorrect`, `FillsWaitedFor`, `BuffersReturned`.

## 7. Findings

Two disagreements between the code and its own comments are runs that TLC
finds violated:

* *capture_stream_stale*: stream off leaves a VALID frame in the mailbox; the
  next session delivers it although the buffer has been queued to the pipe
  again. `LockedUnlessLeftOver` says that nothing else breaks the lock.
* *sensor_receiver*: stopping the sensor takes adapter and MIPI down
  (`V4L2_drv.c:601`), and only setting a mode brings them up.

Others were met while modelling; they are built into the models and excused by
name in the properties, and have no run of their own:

* *Event numbers 32 apart.* The duplicate mask is 64 bits wide but the shift is
  `1 << event` on an int (`acamera_event_queue.c:49`): `event_id_drop_frame`
  (32) and event 0 share a bit, and one is dropped while only the other waits.
* *Teardown.* The error routine may restart the port between quiesce's last poll
  and its mask (`acamera_fw.c:433-435`), so that the comment of line 168 does
  not hold of that interleaving. `UndisturbedTeardown` has the proviso.
* *Frame start.* `acamera.c:642-643` asks whether the queue is empty, which it
  is while `new_frame` is being dispatched. What is programmed after the copy
  reaches the ISP a frame later than the pipe's pointers assume, hence `~late`.
  The same question empties the queue, and with it an `exposure_changed`.
* *A second STREAMON* on a running stream overwrites `kthread_stream`
  (`isp-v4l2-stream.c:1171`); the first copy thread is never stopped.
* *A daemon that ends* and one that follows: an index published between the
  release of the device and its reset is handed to the new daemon although its
  item has been given back (`sbuf_func.c:1197` says "we can't use the sbuf which
  is in using by sb"), hence `resets = 0`. Statistics are published to a daemon
  that has not fetched its calibration (`sbuf_func.c:935`).
* *A close beside the firmware thread.* `sbuf_mgr_reset` initialises the spin
  lock before it takes it (`sbuf_func.c:544`), so that it may run inside an
  operation of the firmware thread on a ring (1160, 1308), or inside the count
  of the control thread (403), whose unlock then opens the lock for the firmware
  thread. When the two change `item_status_count[USING]` for the same item (556
  against 1245 and 1329), it ends at 1 or -1 with no item in use, against "sum
  of this array should equals to item_total_count after each operation" (59-60).
  The guards at 1234 and 1323 then give no item of the type out and take none
  back, for good and for every later daemon; and updates of the calibration time
  out, unless the torn counts of two types add up to 0 (438). `torn` names these
  types: `NoItemLost` excuses them, `TornStops` says what becomes of them. The
  model follows the reset beside the firmware thread with one assumption: what
  the reset does with one item (552-557, some instructions with interrupts off)
  overlaps one operation of that thread at most. A processor held up for longer
  there, and a lock that stays open because each unlock opens another's, into
  the next session, are not followed.
* *Scaler.* When a sync finds a frame incomplete and no other buffer is queued,
  the buffer just programmed goes on the input list a second time
  (`system_am_sc.c:1017`): it is handed over while the list still has it, hence
  `repeated`. `am_sc_stop` frees the fifos before it waits for the handler
  (1357), hence `Stopping`. A frame that a session
  leaves in the mailbox is met by the next, as in the first run above, hence
  `leftOver`.
* *VBLANK while streaming.* When the range of EXPOSURE moves but not its value,
  VMAX is written and SHR0 is not, so that the integration time in lines, the
  distance between them, changes (`imx415.c:893-910`), hence `unpaired`.
* *The window while streaming.* `set_fmt` and `set_selection` accept it on a
  running sensor, hence `recropped`. `imx415_write` returns 0 whatever the bus
  says (757), hence `suspect`; the bridge reads the range of EXPOSURE only when
  a mode is set; STREAMON ignores that the sensor did not start
  (`fw-interface.c:332`).
* *Metadata.* `isp-v4l2-stream.c:279` says "add atomic started here to prevent
  raise condition with closing", but a callback counts itself only after it has
  found the stream, seen it started and taken a buffer (330), and stream off
  reads `running` and sets it to -1 in two steps (1221-1227). The first
  callback after that takes the mark away and keeps its buffer; the next one
  fills. A second STREAMON zeroes the count of a running callback (1181). Each
  is `raced`.
* *Connection.* A request that is too long is counted from zero although its
  header has been read (`acamera_connection.c:548`), so that as many bytes of
  the next request are skipped, or the answer waits for them. Closing the device
  resets the fifos (`system_chardev.c:120`) and not what the thread has in its
  buffer. Both are `astray`; a close that finds the thread at rest ends it.

## 8. Only model-checked

* Liveness: `StopReturns`, `StartedIsServed`, `FrameTaken`, `Resumes`,
  `Suspends`, `Answered` are outside what the prover does: they need fairness
  and ENABLED.
* The two violations.

## 9. Not modelled

* Of some 96,800 lines of C in the repository about 39,000 are generated
  register headers and most of the rest is arithmetic, tables and register
  sequences with no state shared between actors; the map covers the part where
  actors meet, which is a few per cent.
* Memory allocation, `kthread_run` and interruptible waits for a mutex do not
  fail in the models. A release of the control device whose wait is interrupted
  leaves it open for good (`system_chardev.c:111`).
* Image quality: the 3A machines, tables, colour and noise processing are
  arithmetic on statistics with no state shared between actors.
* Register accessors, logging, calibration data, probe and removal of modules,
  device tree overlays, shell scripts: generated, pure I/O or linear.
* System sleep: the power operations of `imx415.c` (1947) restore power and
  program nothing, whatever is running; only runtime power management is
  modelled.
* The DS1 stream, the unlocked callers of the DMA writer, the DDR
  modes of the adapter and the clock controller are left to the plan of
  section 2. With more buffers than `MAX_DMA_QUEUE_FRAMES` the surplus gets no
  slot; the models assume there are not more.
