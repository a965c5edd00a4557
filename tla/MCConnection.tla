----------------------------- MODULE MCConnection -----------------------------
(* A header of two words and an argument, fifos shorter than a request, and     *)
(* requests that are answered with data, refused, malformed or too long.       *)
EXTENDS Connection

Message(t, s, n) == [type |-> t, size |-> s, n |-> n]

MCRequest == {Message("BUFRead", 3, 2), Message("RegWrite", 4, 1),
              Message("unknown", 2, 0), Message("RegRead", 3, 3), Message("RegRead", 6, 1)}
=============================================================================
