----------------------------- MODULE MCMetaStream -----------------------------
(* Three buffers, as many as vb2 wants before it starts, so that several       *)
(* callbacks can meet one stream off.                                          *)
EXTENDS MetaStream

CONSTANTS a, b, c

MCBuffer == {a, b, c}
=============================================================================
