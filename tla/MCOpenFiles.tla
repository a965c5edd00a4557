----------------------------- MODULE MCOpenFiles ------------------------------
(* Three stream ids, one of them META's, and one file more than there are ids. *)
EXTENDS OpenFiles, TLC

CONSTANTS f1, f2, f3, f4

MCFile == {f1, f2, f3, f4}

Interchangeable == Permutations(MCFile)

\* The id and the format of a file without an id mean nothing.
Meaningful(v) == [f \in File |-> IF f \in Holder THEN v[f] ELSE Null]
Relevant == <<at, opened, mask, Meaningful(id), Meaningful(type), tables>>
=============================================================================
