-------------------------------- MODULE DmaPipe --------------------------------
(* One output pipe of the DMA writer, dma_writer.c and the frame functions of  *)
(* dma_writer_func.c, as operators on a record.  A buffer queued by V4L2 takes *)
(* a slot of frame_buf_queue and goes through the statuses                     *)
(*     purge -> empty -> busy -> ready -> purge (handed over) or empty         *)
(* while up to three slots are held by the pointers in1, in0 and last.         *)
(*                                                                             *)
(* Left out: the secondary (UV) plane, which follows the primary; geometry and *)
(* line offsets; vertical flip; init_delay, which nothing sets to other than 0.*)
(* Every buffer is large enough and the output format is not disabled.         *)
EXTENDS Naturals, FiniteSets, FiniteSetsExt

CONSTANTS MaxFrames,   \* MAX_DMA_QUEUE_FRAMES, 6 in the build
          Buffer,      \* the vb2 buffers of the stream
          Null         \* the null pointer

Slot == 0..MaxFrames - 1

ASSUME PipeAssumption ==
  /\ MaxFrames \in Nat \ {0}
  /\ Null \notin Buffer /\ Null \notin Slot

Status == {"purge", "empty", "busy", "ready"}

\* buf and status: frame_buf_queue; rdi, wri: where the searches begin;
\* last, in0, in1, back: last_tframe, inqueue_tframe[0] and [1], back_tframe;
\* enabled: armed by a first buffer, which also makes buf_num_size non-zero;
\* addr, on: the writer's bank0_base and frame_write_on in the software map;
\* cFps, tFps, interval: c_fps, t_fps and inter_val.
Pipe == [buf : [Slot -> Buffer \cup {Null}], status : [Slot -> Status], rdi : Slot, wri : Slot,
         last : Slot \cup {Null}, in0 : Slot \cup {Null}, in1 : Slot \cup {Null},
         back : Slot \cup {Null}, enabled : BOOLEAN, addr : Buffer \cup {Null}, on : BOOLEAN,
         cFps : Nat, tFps : Nat, interval : Nat]

\* dma_writer_reset: the slots keep their old buffers, purged.
Reset(p) ==
  [p EXCEPT !.status = [s \in Slot |-> "purge"], !.rdi = 0, !.wri = 0,
            !.last = Null, !.in0 = Null, !.in1 = Null, !.back = Null,
            !.enabled = FALSE, !.on = FALSE, !.cFps = 0, !.tFps = 0, !.interval = 0]

\* dma_writer_init on the zeroed handle.
InitialPipe ==
  [buf |-> [s \in Slot |-> Null], status |-> [s \in Slot |-> "purge"], rdi |-> 0, wri |-> 0,
   last |-> Null, in0 |-> Null, in1 |-> Null, back |-> Null,
   enabled |-> FALSE, addr |-> Null, on |-> FALSE, cFps |-> 0, tFps |-> 0, interval |-> 0]

\* The slots with a status, as distances from a starting point, and the first.
Distances(p, from, st) == {i \in Slot : p.status[(from + i) % MaxFrames] = st}

FirstFrom(p, from, st) ==
  IF Distances(p, from, st) = {} THEN Null
  ELSE (from + Min(Distances(p, from, st))) % MaxFrames

\* The first buffer of a disabled pipe arms it.
Arm(p, s) ==
  [p EXCEPT !.status[s] = "busy", !.in1 = s, !.addr = p.buf[s], !.enabled = TRUE, !.on = TRUE]

\* dma_writer_write_frame_queue with one buffer: no purged slot, no entry.  The
\* slot armed is the search's count, not the index the buffer went to.
WriteFrameQueue(p, b) ==
  LET free   == Distances(p, p.rdi, "purge")
      set_i  == IF free = {} THEN 0 ELSE Min(free)
      index  == (p.rdi + set_i) % MaxFrames
      queued == IF free = {} THEN p ELSE [p EXCEPT !.buf[index] = b, !.status[index] = "empty"]
  IN IF p.enabled THEN queued ELSE Arm(queued, set_i)

\* A busy slot where the last search ended that no pointer holds is recovered.
Stuck(p, s) == p.status[s] = "busy" /\ s \notin {p.last, p.in0, p.in1}

\* dma_get_next_empty_frame, when it finds slot s.
TakeEmpty(p, s) ==
  [p EXCEPT !.wri = (s + 1) % MaxFrames,
            !.status[p.wri] = IF Stuck(p, p.wri) THEN "empty" ELSE @]

Program(p, s) ==
  [p EXCEPT !.in1 = s, !.status[s] = "busy", !.addr = p.buf[s], !.on = TRUE]

\* The slot written longest ago: recycled when the frame is dropped.
Retire(p, drop) ==
  IF p.last = Null THEN p
  ELSE [p EXCEPT !.status[p.last] = IF drop THEN "empty" ELSE "ready"]

\* Mutant of Shift: a programmed buffer retires one frame early.
ShiftTwo(p) == [p EXCEPT !.last = p.in1, !.in0 = Null, !.in1 = Null]

Shift(p) == [p EXCEPT !.last = p.in0, !.in0 = p.in1, !.in1 = Null]

\* dma_writer_pipe_update
PipeUpdate(p, drop) ==
  LET q    == Shift(Retire(p, drop))
      next == IF p.back # Null THEN p.back ELSE FirstFrom(q, q.wri, "empty")
  IN IF ~p.enabled THEN p
     ELSE IF next = Null THEN [q EXCEPT !.on = FALSE]
     ELSE IF p.back # Null THEN Program(q, next)
     ELSE Program(TakeEmpty(q, next), next)

\* dma_writer_set_pipe_fps, for parameters it accepts.
SetRate(p, c, t) ==
  [p EXCEPT !.cFps = c, !.tFps = t, !.interval = (c + t - 1) \div t]

\* The frames a reduced rate leaves out.
Skipped(p, frame) ==
  IF p.interval > 2 THEN frame % p.interval # 0
  ELSE p.interval = 2 /\ frame % (p.cFps \div (p.cFps - p.tFps)) = 0

\* Mutant of PipeSetFps: the slot is taken back but stays programmed.
PipeSetFpsTwice(p, frame) ==
  IF p.in1 # Null /\ Skipped(p, frame)
    THEN [p EXCEPT !.on = FALSE, !.back = p.in1]
    ELSE [p EXCEPT !.back = Null]

\* dma_writer_pipe_set_fps, after every update: the slot just programmed is
\* taken back for the next one.
PipeSetFps(p, frame) ==
  IF p.in1 # Null /\ Skipped(p, frame)
    THEN [p EXCEPT !.on = FALSE, !.back = p.in1, !.in1 = Null]
    ELSE [p EXCEPT !.back = Null]

\* dma_writer_api_return_next_ready_frame and what frame_buffer_fr_finished
\* makes of it: handed over the slot is purged, otherwise used again.
NextReady(p) == FirstFrom(p, p.rdi, "ready")

\* Mutant of Finish: a buffer nobody took is not used again.
FinishPurges(p, handedOver) ==
  LET s == NextReady(p)
  IN IF s = Null THEN p
     ELSE [p EXCEPT !.rdi = (s + 1) % MaxFrames, !.status[s] = "purge"]

Finish(p, handedOver) ==
  LET s == NextReady(p)
  IN IF s = Null THEN p
     ELSE [p EXCEPT !.rdi = (s + 1) % MaxFrames,
                    !.status[s] = IF handedOver THEN "purge" ELSE "empty"]
-----------------------------------------------------------------------------
\* The slots a buffer occupies, and whether it is in the pipe at all.
Live(p) == {s \in Slot : p.status[s] # "purge"}

Held(p) == {p.last, p.in0, p.in1, p.back} \ {Null}

InPipe(p) == {p.buf[s] : s \in Live(p)}
=============================================================================
