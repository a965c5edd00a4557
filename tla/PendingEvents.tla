---------------------------- MODULE PendingEvents ----------------------------
(* What the firmware event queue promises its users: a FIFO of events in which *)
(* no two events share a mask bit.  The interrupt handler and the state        *)
(* machines Raise events, the firmware thread Takes them in order, and the     *)
(* frame-start interrupt may Discard everything that is still waiting.         *)
EXTENDS Naturals, Sequences

CONSTANTS Event,        \* event numbers
          BitOf(_)      \* the mask bit an event number is kept under

VARIABLE pending        \* the waiting events, oldest first

Blocked(e) == \E i \in 1..Len(pending) : BitOf(pending[i]) = BitOf(e)

Init == pending = << >>

\* A raised event waits at the end unless its bit is already waiting.
Raise(e) == ~Blocked(e) /\ pending' = Append(pending, e)

\* The oldest event is handed to the firmware thread.
Take == pending # << >> /\ pending' = Tail(pending)

\* Everything that waits is thrown away.
Discard == pending' = << >>

Next == (\E e \in Event : Raise(e)) \/ Take \/ Discard

Spec == Init /\ [][Next]_pending
=============================================================================
