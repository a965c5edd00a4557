--------------------------- MODULE MCSharedBuffers ---------------------------
(* Two types of statistics, the pair that goes to the daemon together, rings   *)
(* of three items, two WDR modes.                                              *)
EXTENDS SharedBuffers

CONSTANTS ae, iridix, linear, fs_lin, half

MCType == {ae, iridix}
MCMode == {linear, fs_lin}
=============================================================================
