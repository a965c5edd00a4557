------------------------------ MODULE EventQueue ------------------------------
(* The firmware event queue: acamera_event_queue.c over the byte ring of       *)
(* acamera_loop_buf.c.  Every operation runs under the queue's spinlock, so    *)
(* each is one action.  The duplicate mask is a 64-bit word in which an event  *)
(* is entered with the 32-bit shift (1 << event): on arm64 that shift takes    *)
(* the event number modulo 32.  Bit 31 is stored sign-extended and cleared     *)
(* the same way, so the mask is a set of numbers below 32.  reset_threshold is *)
(* the constant 1, so not_empty_count is 0 whenever the lock is free and is    *)
(* not a variable here.                                                        *)
EXTENDS Naturals, Sequences, FiniteSets

CONSTANTS Size,             \* data_buf_size: ACAMERA_EVENT_QUEUE_SIZE, 256 in the build
          Event             \* event_id_t: 0..32 in the build

BitOf(e) == e % 32

Bits == {BitOf(e) : e \in Event}

\* One slot of the ring stays free, and every queued event owns a bit.
ASSUME QueueAssumption ==
  /\ Size \in Nat /\ Event \subseteq Nat
  /\ IsFiniteSet(Bits) /\ Cardinality(Bits) < Size

VARIABLES buf,              \* p_data_buf
          head, tail,       \* positions of the next write and of the next read
          mask              \* avail_event_mask

vars == <<buf, head, tail, mask>>

Slot == 0..Size - 1

\* Positions wrap by one subtraction, as the code does it.
Wrap(p) == IF p >= Size THEN p - Size ELSE p

Used == IF head >= tail THEN head - tail ELSE head + Size - tail

\* The i-th waiting event, counted from 0.
At(i) == buf[Wrap(tail + i)]

Contents == [i \in 1..Used |-> At(i - 1)]

ResetKeepsMask == head' = 0 /\ tail' = 0 /\ mask' = mask      \* mutant of Reset

\* acamera_event_queue_reset
Reset == head' = 0 /\ tail' = 0 /\ mask' = {}

\* acamera_event_queue_push: an event whose bit is set is skipped; a write that
\* would fill the last slot throws everything away.
Skip(e) == BitOf(e) \in mask /\ UNCHANGED vars

\* Mutant of Write: the duplicate test is gone.
WriteIgnoresMask(e) ==
  /\ buf' = [buf EXCEPT ![head] = e]
  /\ IF Wrap(head + 1) # tail
       THEN head' = Wrap(head + 1) /\ mask' = mask \cup {BitOf(e)} /\ tail' = tail
       ELSE Reset

Write(e) ==
  /\ BitOf(e) \notin mask
  /\ buf' = [buf EXCEPT ![head] = e]
  /\ IF Wrap(head + 1) # tail
       THEN head' = Wrap(head + 1) /\ mask' = mask \cup {BitOf(e)} /\ tail' = tail
       ELSE Reset

Push(e) == Skip(e) \/ Write(e)

\* Mutant of Pop: the bit is looked up after the read position has moved.
PopClearsNextBit ==
  /\ head # tail
  /\ tail' = Wrap(tail + 1)
  /\ mask' = mask \ {BitOf(At(1))}
  /\ UNCHANGED <<buf, head>>

\* acamera_event_queue_pop with something to read; the event popped is At(0).
Pop ==
  /\ head # tail
  /\ tail' = Wrap(tail + 1)
  /\ mask' = mask \ {BitOf(At(0))}
  /\ UNCHANGED <<buf, head>>

\* The value acamera_event_queue_not_empty returns.  Its scan stops at the end
\* of the array: when the ring has wrapped it counts nothing.
Remaining == IF head > tail THEN head - tail ELSE 0

\* acamera_event_queue_not_empty: asking is what empties the queue.
NotEmpty == head # tail /\ Reset /\ UNCHANGED buf

\* acamera_loop_buffer_init on the zeroed static context.
Init ==
  /\ buf = [s \in Slot |-> 0]
  /\ head = 0 /\ tail = 0 /\ mask = {}

Next == (\E e \in Event : Push(e)) \/ Pop \/ NotEmpty

Spec == Init /\ [][Next]_vars
-----------------------------------------------------------------------------
\* Positions stay inside the array (the code's "Event Queue Corrupted" test)
\* and the buffer holds event numbers.
TypeOK ==
  /\ buf \in [Slot -> Event \cup {0}]
  /\ head \in Slot /\ tail \in Slot
  /\ mask \subseteq Bits

\* The mask says exactly which bits wait in the ring: an event is neither
\* locked out by a stale bit nor entered twice behind a lost one.
MaskMatchesQueue == mask = {BitOf(At(i)) : i \in 0..Used - 1}

\* No two waiting events share a bit.
NoDuplicates ==
  \A i, j \in 0..Used - 1 : BitOf(At(i)) = BitOf(At(j)) => i = j

\* The duplicate mask and the ring are one fact: what waits is marked, what is
\* marked waits, once.
MaskExact == MaskMatchesQueue /\ NoDuplicates

\* The branch of push that throws the whole queue away ("Event Queue
\* overflow") is never taken: the mask bounds the number of waiting events.
NeverOverflows ==
  \A e \in Event : BitOf(e) \notin mask => Wrap(head + 1) # tail

\* The ring with its mask is a FIFO of events with distinct bits: nothing is
\* lost, reordered or invented by wrapping, popping and discarding.
Abstract == INSTANCE PendingEvents WITH pending <- Contents
RefinesPendingEvents == Abstract!Spec
=============================================================================
