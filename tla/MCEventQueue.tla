----------------------------- MODULE MCEventQueue -----------------------------
(* The event queue with a ring of five slots and four events on three bits:    *)
(* 0 and 32 are WB_matrix_ready and drop_frame, the pair that shares bit 0 in  *)
(* the build.                                                                  *)
EXTENDS EventQueue

MCSize == 5
MCEvent == {0, 15, 25, 32}
=============================================================================
