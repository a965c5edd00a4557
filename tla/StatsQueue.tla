----------------------------- MODULE StatsQueue -----------------------------
(* What the shared statistics buffers promise for every type of statistics,   *)
(* whatever the ring looks like: the newest results wait in the order they    *)
(* were produced, the producer never waits and throws away the oldest one     *)
(* when it needs room, and one result at a time is being used.                *)
EXTENDS Sequences

CONSTANTS Type, Item

VARIABLES waiting,     \* of each type: the results nobody took, oldest first
          inUse        \* of each type: the item being used, at most one

vars == <<waiting, inUse>>

Init ==
  /\ waiting = [t \in Type |-> <<>>]
  /\ inUse = [t \in Type |-> {}]

Produce(t, i) ==
  /\ waiting' = [waiting EXCEPT ![t] = Append(@, i)]
  /\ UNCHANGED inUse

Discard(t) ==
  /\ waiting[t] # <<>>
  /\ waiting' = [waiting EXCEPT ![t] = Tail(@)]
  /\ UNCHANGED inUse

Take(t) ==
  /\ waiting[t] # <<>> /\ inUse[t] = {}
  /\ waiting' = [waiting EXCEPT ![t] = Tail(@)]
  /\ inUse' = [inUse EXCEPT ![t] = {Head(waiting[t])}]

\* Items of several types may come back in one step.
Return ==
  /\ \E kept \in SUBSET Type :
       inUse' = [t \in Type |-> IF t \in kept THEN inUse[t] ELSE {}]
  /\ UNCHANGED waiting

Next ==
  \/ Return
  \/ \E t \in Type : Discard(t) \/ Take(t) \/ \E i \in Item : Produce(t, i)

Spec == Init /\ [][Next]_vars
=============================================================================
