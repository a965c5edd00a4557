--------------------------- MODULE MCFramePipeline ----------------------------
(* Three buffers in as many slots, all queued before the stream starts         *)
(* (min_buffers_needed): while one is written, one is about to be and one      *)
(* retires, or is on its way to the application and back.  The frame rate may  *)
(* be reduced while the stream runs, to two frames of three or to one.         *)
EXTENDS FramePipeline

CONSTANTS a, b, c

MCBuffer == {a, b, c}
MCControl == {12}      \* event_id_exposure_changed

MCReduced == {<<3, 2>>, <<3, 1>>}

(* The view.  No operator reads the name of a buffer or where on the ring the  *)
(* read index is: a slot is known by its distance from there and a buffer by   *)
(* its places, the slots it is in, the mailbox or the application.             *)
Distance(s) == IF s = Null THEN Null ELSE (s - pipe.rdi + MaxFrames) % MaxFrames

Places(x) ==
  {Distance(s) : s \in {t \in Live(pipe) : pipe.buf[t] = x}}
    \cup (IF x \in {mailbox} \ {Null} THEN {MaxFrames} ELSE {})
    \cup (IF x \in Buffer \ list THEN {MaxFrames + 1} ELSE {})

Ring ==
  <<[i \in Slot |-> pipe.status[(pipe.rdi + i) % MaxFrames]], Distance(pipe.wri),
    Distance(pipe.last), Distance(pipe.in0), Distance(pipe.in1), Distance(pipe.back),
    pipe.enabled, pipe.cFps, pipe.tFps>>

FirmwareSide == <<raised, dma, pending, fw, streaming, mailbox = Null, Places(mailbox), Ring>>

Address(p) == Places(IF p.on THEN p.addr ELSE Null)

\* Of the two pages only the one to be used next matters, and that not while a
\* copy that will overwrite it is under way.
FrameSide ==
  <<next = current, Address(IF cfgCopy = "none" THEN page[next] ELSE pipe),
    Places(writing), {Places(x) : x \in fresh \cap list}, Address(pipe)>>

\* Nothing is said of pages and frames any more once a frame was overrun, and
\* late stays.
Relevant == IF late THEN <<FirmwareSide>> ELSE <<FirmwareSide, FrameSide>>
=============================================================================
