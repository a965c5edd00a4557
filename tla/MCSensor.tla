------------------------------ MODULE MCSensor ------------------------------
(* An array of six lines, of which four may be cropped; a lost write, power    *)
(* failures.                                                                   *)
EXTENDS Sensor

MCHeight == {4, 6}
MCExposure == {1, 7}
MCVblank == {2, 5}
=============================================================================
