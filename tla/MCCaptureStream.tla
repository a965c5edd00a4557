--------------------------- MODULE MCCaptureStream ---------------------------
(* Three buffers, the least a session needs, in three slots (or two in two),   *)
(* and one copy thread.                                                        *)
EXTENDS CaptureStream, TLC

CONSTANTS a, b, c, x, y, z, t

MCBuffer == {a, b, c}
MCSlot == {x, y, z}
MCTwoBuffers == {a, b}
MCTwoSlots == {x, y}
MCWorker == {t}

Interchangeable == Permutations(MCBuffer) \cup Permutations(MCSlot)
=============================================================================
