------------------------------- MODULE MCScaler -------------------------------
(* Three buffers, of which two must be queued before the stream starts.        *)
EXTENDS Scaler, TLC

CONSTANTS b1, b2, b3

Buffers == {b1, b2, b3}
Symmetry == Permutations(Buffers)
=============================================================================
