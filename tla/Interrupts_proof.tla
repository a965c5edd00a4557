--------------------------- MODULE Interrupts_proof ---------------------------
(* Proofs about what the interrupt handlers hand on.                           *)
(*                                                                             *)
(* The event queue, for every ring size and every set of events with fewer     *)
(* bits than the ring has slots (QueueAssumption): its mask always says what   *)
(* waits, no two waiting events share a bit, its overflow branch is dead code, *)
(* and it implements PendingEvents.                                            *)
(*                                                                             *)
(* The scaler, for every set of buffers, threshold and number of sessions and  *)
(* of frames given up: its handler has a buffer to program, no buffer is lost, *)
(* and what it hands over is whole and stays so.                               *)
EXTENDS EventQueue, Scaler, FiniteSetTheorems, SequenceTheorems, TLAPS
-----------------------------------------------------------------------------
(* The event queue.                                                            *)

\* The inductive invariant: none of its parts is inductive without the others.
\* TypeOK needs the mask to hold no foreign bit, NoDuplicates needs the mask to
\* be right about what waits, and MaskMatchesQueue survives a Pop only because
\* the popped event's bit occurs once, and a Write only because it never fills
\* the ring.
QueueInv == TypeOK /\ MaskMatchesQueue /\ NoDuplicates

\* The ring has at least one slot: a set of bits is strictly smaller than it.
LEMMA SizePositive == Size \in Nat /\ Size > 0
  BY QueueAssumption, FS_CardinalityType

\* A waiting event lies in the array.
LEMMA UsedType ==
  ASSUME TypeOK
  PROVE  /\ Used \in 0..Size - 1
         /\ \A i \in 0..Size - 1 : Wrap(tail + i) \in Slot
         /\ \A i \in 0..Used - 1 : Wrap(tail + i) # head
         /\ Wrap(tail + Used) = head
  BY SizePositive DEF TypeOK, Used, Wrap, Slot

\* An event's bit can be computed.
LEMMA BitType == \A e \in Event : BitOf(e) \in Bits /\ e \in Nat
  BY QueueAssumption DEF Bits

\* The ring is never full when an event with a free bit arrives: its waiting
\* events and the new one have pairwise different bits, and there are fewer
\* bits than slots.
LEMMA RoomForFresh ==
  ASSUME QueueInv, NEW e \in Event, BitOf(e) \notin mask
  PROVE  Used < Size - 1
<1>1. SUFFICES ASSUME Used = Size - 1 PROVE FALSE
  BY UsedType, SizePositive DEF QueueInv
<1> DEFINE f == [i \in 0..Size - 1 |-> IF i < Used THEN BitOf(At(i)) ELSE BitOf(e)]
<1>2. ASSUME NEW i \in 0..Used - 1 PROVE BitOf(At(i)) \in mask /\ BitOf(At(i)) \in Bits
  BY DEF QueueInv, MaskMatchesQueue, TypeOK
<1>3. f \in [0..Size - 1 -> Bits]
  <2>1. ASSUME NEW i \in 0..Size - 1, i < Used PROVE i \in 0..Used - 1
    BY <2>1, SizePositive, <1>1
  <2>2. BitOf(e) \in Bits
    BY BitType
  <2> QED BY <2>1, <2>2, <1>2
<1>4. IsFiniteSet(0..Size - 1) /\ Cardinality(0..Size - 1) = Size
  <2>1. 0 \in Int /\ Size - 1 \in Int /\ ~(0 > Size - 1) /\ Size - 1 - 0 + 1 = Size
    BY SizePositive
  <2> QED BY <2>1, FS_Interval
<1>5. PICK x, y \in 0..Size - 1 : x # y /\ f[x] = f[y]
  <2>1. IsFiniteSet(Bits) /\ Cardinality(Bits) < Cardinality(0..Size - 1)
    BY <1>4, QueueAssumption
  <2> HIDE DEF f
  <2> QED BY <1>3, <1>4, <2>1, FS_PigeonHole
<1>6. CASE x < Used /\ y < Used
  <2>1. x \in 0..Used - 1 /\ y \in 0..Used - 1
    BY <1>1, <1>6, SizePositive
  <2>2. BitOf(At(x)) = BitOf(At(y))
    BY <1>5, <1>6
  <2> QED BY <1>5, <2>1, <2>2 DEF QueueInv, NoDuplicates
<1>7. CASE x < Used /\ ~(y < Used)
  <2>1. x \in 0..Used - 1 /\ BitOf(At(x)) = BitOf(e)
    BY <1>1, <1>5, <1>7, SizePositive
  <2> QED BY <1>2, <2>1
<1>8. CASE ~(x < Used) /\ y < Used
  <2>1. y \in 0..Used - 1 /\ BitOf(At(y)) = BitOf(e)
    BY <1>1, <1>5, <1>8, SizePositive
  <2> QED BY <1>2, <2>1
<1>9. CASE ~(x < Used) /\ ~(y < Used)
  BY <1>1, <1>5, <1>9, SizePositive
<1> QED BY <1>6, <1>7, <1>8, <1>9

\* What a write does to the waiting events: one more, at the end.
LEMMA WriteEffect ==
  ASSUME QueueInv, NEW e \in Event, Write(e)
  PROVE  /\ Used' = Used + 1
         /\ \A i \in 0..Used - 1 : At(i)' = At(i)
         /\ \A k \in 0..Size - 1 : k = Used => At(k)' = e
         /\ mask' = mask \cup {BitOf(e)}
         /\ TypeOK'
<1>1. Used < Size - 1
  BY RoomForFresh DEF Write
<1>2. TypeOK
  BY DEF QueueInv
<1>3. Wrap(head + 1) # tail
  BY <1>1, <1>2, SizePositive DEF TypeOK, Used, Wrap, Slot
<1>4. /\ head' = Wrap(head + 1) /\ tail' = tail /\ buf' = [buf EXCEPT ![head] = e]
      /\ mask' = mask \cup {BitOf(e)}
  BY <1>3 DEF Write
<1>5. Used' = Used + 1
  BY <1>2, <1>3, <1>4, SizePositive DEF TypeOK, Used, Wrap, Slot
<1>6. ASSUME NEW i \in 0..Used - 1 PROVE At(i)' = At(i)
  <2>1. Wrap(tail + i)' = Wrap(tail + i)
    BY <1>4 DEF Wrap
  <2>2. Wrap(tail + i) \in Slot /\ Wrap(tail + i) # head
    BY <1>2, UsedType, SizePositive
  <2> QED BY <1>2, <1>4, <2>1, <2>2 DEF At, TypeOK
<1>7. ASSUME NEW k \in 0..Size - 1, k = Used PROVE At(k)' = e
  <2>1. Wrap(tail + k) = head
    BY <1>2, <1>7, UsedType
  <2>2. Wrap(tail + k)' = head
    BY <1>4, <2>1 DEF Wrap
  <2>3. buf'[head] = e
    BY <1>2, <1>4 DEF TypeOK
  <2> QED BY <2>2, <2>3 DEF At
<1>8. TypeOK'
  <2>1. head' \in Slot /\ tail' \in Slot
    BY <1>2, <1>4, SizePositive DEF TypeOK, Wrap, Slot
  <2>2. buf' \in [Slot -> Event \cup {0}]
    BY <1>2, <1>4 DEF TypeOK
  <2>3. mask' \subseteq Bits
    BY <1>2, <1>4, BitType DEF TypeOK
  <2> QED BY <2>1, <2>2, <2>3 DEF TypeOK
<1> QED BY <1>4, <1>5, <1>6, <1>7, <1>8

\* What a pop does: the oldest waiting event goes, the others move up.
LEMMA PopEffect ==
  ASSUME QueueInv, Pop
  PROVE  /\ Used > 0
         /\ Used' = Used - 1
         /\ \A i \in 0..Used - 2 : At(i)' = At(i + 1)
         /\ mask' = mask \ {BitOf(At(0))}
         /\ TypeOK'
<1>1. TypeOK
  BY DEF QueueInv
<1>2. Used > 0 /\ Used' = Used - 1
  BY <1>1, SizePositive DEF TypeOK, Used, Pop, Wrap, Slot
<1>3. ASSUME NEW i \in 0..Used - 2 PROVE At(i)' = At(i + 1)
  <2>1. Used \in 0..Size - 1
    BY <1>1, UsedType
  <2>2. Wrap(tail + i)' = Wrap(tail + (i + 1))
    BY <1>1, <2>1, SizePositive DEF TypeOK, Pop, Wrap, Slot
  <2> QED BY <2>2 DEF At, Pop
<1>4. TypeOK'
  <2>1. tail' \in Slot
    BY <1>1, SizePositive DEF TypeOK, Pop, Wrap, Slot
  <2> QED BY <1>1, <2>1 DEF TypeOK, Pop
<1> QED BY <1>2, <1>3, <1>4 DEF Pop

\* Emptying the queue leaves nothing waiting and no bit set.
LEMMA NotEmptyEffect ==
  ASSUME QueueInv, NotEmpty
  PROVE  Used' = 0 /\ mask' = {} /\ TypeOK'
  BY SizePositive DEF QueueInv, TypeOK, NotEmpty, Reset, Used, Slot

\* The ring starts empty.
LEMMA InitIInv == Init => QueueInv
  BY SizePositive DEF Init, QueueInv, TypeOK, MaskMatchesQueue, NoDuplicates, Used, Slot

\* Every operation keeps the inductive invariant.
LEMMA StepIInv == QueueInv /\ [Next]_vars => QueueInv'
<1> SUFFICES ASSUME QueueInv, [Next]_vars PROVE QueueInv'
  OBVIOUS
<1>1. Used \in 0..Size - 1
  BY UsedType DEF QueueInv
<1>2. ASSUME NEW e \in Event, Skip(e) PROVE QueueInv'
  BY <1>2 DEF Skip, vars, QueueInv, TypeOK, MaskMatchesQueue, NoDuplicates, Used, At, Wrap
<1>3. ASSUME NEW e \in Event, Write(e) PROVE QueueInv'
  <2>1. /\ Used' = Used + 1 /\ mask' = mask \cup {BitOf(e)} /\ TypeOK'
        /\ \A i \in 0..Used - 1 : At(i)' = At(i)
        /\ \A k \in 0..Size - 1 : k = Used => At(k)' = e
    BY <1>3, WriteEffect
  <2>2. ASSUME NEW i \in 0..Used' - 1
        PROVE  \/ i \in 0..Used - 1 /\ At(i)' = At(i)
               \/ i = Used /\ At(i)' = e
    BY <1>1, <2>1, SizePositive
  <2>3. BitOf(e) \notin mask
    BY <1>3 DEF Write
  <2>4. MaskMatchesQueue'
    <3>1. ASSUME NEW b \in mask'
          PROVE  \E i \in 0..Used' - 1 : b = BitOf(At(i)')
      <4>1. CASE b = BitOf(e)
        <5>1. PICK k \in 0..Size - 1 : k = Used
          BY <1>1
        <5>2. k \in 0..Used' - 1 /\ At(k)' = e
          BY <1>1, <2>1, <5>1, SizePositive
        <5> QED BY <4>1, <5>2
      <4>2. CASE b \in mask
        <5>1. PICK i \in 0..Used - 1 : b = BitOf(At(i))
          BY <4>2 DEF QueueInv, MaskMatchesQueue
        <5>2. i \in 0..Used' - 1 /\ At(i)' = At(i)
          BY <1>1, <2>1, <5>1
        <5> QED BY <5>1, <5>2
      <4> QED BY <2>1, <3>1, <4>1, <4>2
    <3>2. ASSUME NEW i \in 0..Used' - 1 PROVE BitOf(At(i)') \in mask'
      <4>1. CASE i \in 0..Used - 1 /\ At(i)' = At(i)
        BY <2>1, <4>1 DEF QueueInv, MaskMatchesQueue
      <4>2. CASE i = Used /\ At(i)' = e
        BY <2>1, <4>2
      <4> QED BY <2>2, <4>1, <4>2
    <3> QED BY <3>1, <3>2 DEF MaskMatchesQueue, BitOf
  <2>5. NoDuplicates'
    <3> SUFFICES ASSUME NEW i \in 0..Used' - 1, NEW j \in 0..Used' - 1,
                        BitOf(At(i)') = BitOf(At(j)')
                 PROVE  i = j
      BY DEF NoDuplicates, BitOf
    <3>1. ASSUME NEW k \in 0..Used - 1 PROVE BitOf(At(k)) # BitOf(e)
      BY <2>3 DEF QueueInv, MaskMatchesQueue
    <3> QED BY <2>2, <3>1 DEF QueueInv, NoDuplicates
  <2> QED BY <2>1, <2>4, <2>5 DEF QueueInv
<1>4. CASE Pop
  <2>1. /\ Used > 0 /\ Used' = Used - 1 /\ mask' = mask \ {BitOf(At(0))} /\ TypeOK'
        /\ \A i \in 0..Used - 2 : At(i)' = At(i + 1)
    BY <1>4, PopEffect
  <2>2. ASSUME NEW i \in 0..Used' - 1
        PROVE  At(i)' = At(i + 1) /\ i + 1 \in 0..Used - 1 /\ i + 1 # 0
    BY <1>1, <2>1
  <2>3. 0 \in 0..Used - 1
    BY <1>1, <2>1
  <2>4. MaskMatchesQueue'
    <3>1. ASSUME NEW b \in mask'
          PROVE  \E i \in 0..Used' - 1 : b = BitOf(At(i)')
      <4>1. PICK j \in 0..Used - 1 : b = BitOf(At(j)) /\ j # 0
        BY <2>1, <3>1 DEF QueueInv, MaskMatchesQueue
      <4>2. j - 1 \in 0..Used' - 1 /\ j - 1 \in 0..Used - 2 /\ (j - 1) + 1 = j
        BY <1>1, <2>1, <4>1
      <4>3. At(j - 1)' = At(j)
        BY <2>1, <4>2
      <4> QED BY <4>1, <4>2, <4>3
    <3>2. ASSUME NEW i \in 0..Used' - 1 PROVE BitOf(At(i)') \in mask'
      <4>1. BitOf(At(i + 1)) # BitOf(At(0))
        BY <2>2, <2>3 DEF QueueInv, NoDuplicates
      <4>2. BitOf(At(i + 1)) \in mask
        BY <2>2 DEF QueueInv, MaskMatchesQueue
      <4> QED BY <2>1, <2>2, <4>1, <4>2
    <3> QED BY <3>1, <3>2 DEF MaskMatchesQueue, BitOf
  <2>5. NoDuplicates'
    <3> SUFFICES ASSUME NEW i \in 0..Used' - 1, NEW j \in 0..Used' - 1,
                        BitOf(At(i)') = BitOf(At(j)')
                 PROVE  i = j
      BY DEF NoDuplicates, BitOf
    <3>1. i + 1 = j + 1
      BY <2>2 DEF QueueInv, NoDuplicates
    <3> QED BY <1>1, <2>1, <3>1
  <2> QED BY <2>1, <2>4, <2>5 DEF QueueInv
<1>5. CASE NotEmpty
  <2>1. Used' = 0 /\ mask' = {} /\ TypeOK'
    BY <1>5, NotEmptyEffect
  <2> QED BY <2>1 DEF QueueInv, MaskMatchesQueue, NoDuplicates
<1>6. CASE UNCHANGED vars
  BY <1>6 DEF vars, QueueInv, TypeOK, MaskMatchesQueue, NoDuplicates, Used, At, Wrap
<1> QED BY <1>2, <1>3, <1>4, <1>5, <1>6 DEF Next, Push

\* In every reachable state the positions lie inside the array, the mask names
\* exactly what waits, and what waits has pairwise different bits.
THEOREM QueueInvariant == Spec => []QueueInv
  BY InitIInv, StepIInv, PTL DEF Spec

\* "Event Queue Corrupted" is never logged.
THEOREM TypeCorrect == Spec => []TypeOK
<1>1. QueueInv => TypeOK
  BY DEF QueueInv
<1> QED BY <1>1, QueueInvariant, PTL

\* The mask never locks an event out for good and never lets one in twice.
THEOREM MaskCorrect == Spec => []MaskExact
<1>1. QueueInv => MaskExact
  BY DEF QueueInv, MaskExact
<1> QED BY <1>1, QueueInvariant, PTL

\* "Event Queue overflow" is never logged, whatever the ring size, as long as
\* there are fewer bits than slots: with 32 bits and 256 slots the branch of
\* push that empties the queue is dead.
THEOREM OverflowImpossible == Spec => []NeverOverflows
<1>1. QueueInv => NeverOverflows
  <2> SUFFICES ASSUME QueueInv, NEW e \in Event, BitOf(e) \notin mask
               PROVE  Wrap(head + 1) # tail
    BY DEF NeverOverflows
  <2>1. Used < Size - 1
    BY RoomForFresh
  <2> QED BY <2>1, SizePositive DEF QueueInv, TypeOK, Used, Wrap, Slot
<1> QED BY <1>1, QueueInvariant, PTL

\* Refinement, one lemma per operation.  The waiting events form a sequence.
LEMMA ContentsType ==
  TypeOK => /\ Contents \in Seq(Event \cup {0})
            /\ Len(Contents) = Used
            /\ \A i \in 1..Used : Contents[i] = At(i - 1)
<1> SUFFICES ASSUME TypeOK
             PROVE  /\ Contents \in Seq(Event \cup {0})
                    /\ Len(Contents) = Used
                    /\ \A i \in 1..Used : Contents[i] = At(i - 1)
  OBVIOUS
<1>1. Used \in Nat /\ Used \in 0..Size - 1
  BY UsedType, SizePositive
<1>2. ASSUME NEW i \in 1..Used PROVE At(i - 1) \in Event \cup {0}
  <2>1. i - 1 \in 0..Size - 1
    BY <1>1, SizePositive
  <2>2. Wrap(tail + (i - 1)) \in Slot
    BY <2>1, UsedType
  <2> QED BY <2>2 DEF At, TypeOK
<1> QED BY <1>1, <1>2 DEF Contents

\* A skipped event is one PendingEvents blocks, so nothing happens in either.
LEMMA SkipRefines ==
  ASSUME QueueInv, NEW e \in Event, Skip(e)
  PROVE  UNCHANGED Contents
  BY DEF Skip, vars, Contents, Used, At, Wrap

\* A write appends.
LEMMA WriteRefines ==
  ASSUME QueueInv, NEW e \in Event, Write(e)
  PROVE  Abstract!Raise(e)
<1>1. /\ Used' = Used + 1 /\ TypeOK /\ TypeOK'
      /\ \A i \in 0..Used - 1 : At(i)' = At(i)
      /\ \A k \in 0..Size - 1 : k = Used => At(k)' = e
  BY WriteEffect DEF QueueInv
<1>2. Used \in 0..Size - 1 /\ Used \in Nat
  BY <1>1, UsedType, SizePositive
<1>3. ~Abstract!Blocked(e)
  <2> SUFFICES ASSUME NEW i \in 1..Len(Contents), BitOf(Contents[i]) = BitOf(e)
               PROVE  FALSE
    BY DEF Abstract!Blocked
  <2>1. i \in 1..Used /\ Contents[i] = At(i - 1) /\ i - 1 \in 0..Used - 1
    BY <1>1, <1>2, ContentsType
  <2>2. BitOf(e) \in mask
    BY <2>1 DEF QueueInv, MaskMatchesQueue
  <2> QED BY <2>2 DEF Write
<1>4. Contents' = Append(Contents, e)
  <2>1. Contents' = [i \in 1..Used + 1 |-> At(i - 1)']
    BY <1>1 DEF Contents
  <2>2. ASSUME NEW i \in 1..Used + 1
        PROVE  At(i - 1)' = IF i = Used + 1 THEN e ELSE Contents[i]
    <3>1. CASE i = Used + 1
      BY <1>1, <1>2, <3>1
    <3>2. CASE i # Used + 1
      BY <1>1, <1>2, <3>2 DEF Contents
    <3> QED BY <3>1, <3>2
  <2>3. Contents \in Seq(Event \cup {0}) /\ Len(Contents) = Used
    BY <1>1, ContentsType
  <2> DEFINE t == Append(Contents, e)
  <2>4. /\ t \in Seq(Event \cup {0}) /\ Len(t) = Used + 1
        /\ \A i \in 1..Used + 1 : t[i] = IF i = Used + 1 THEN e ELSE Contents[i]
    BY <2>3, <1>2, AppendProperties
  <2>5. Contents' \in Seq(Event \cup {0}) /\ Len(Contents') = Used + 1
    <3>1. (TypeOK => Contents \in Seq(Event \cup {0}) /\ Len(Contents) = Used)'
      BY ContentsType, PTL
    <3> QED BY <1>1, <3>1
  <2>6. \A i \in 1..Used + 1 : Contents'[i] = t[i]
    BY <2>1, <2>2, <2>4
  <2> HIDE DEF t
  <2>7. Contents' = t
    BY <2>4, <2>5, <2>6, SeqEqual
  <2> QED BY <2>7 DEF t
<1> QED BY <1>3, <1>4 DEF Abstract!Raise

\* A pop takes the oldest event.
LEMMA PopRefines ==
  ASSUME QueueInv, Pop
  PROVE  Abstract!Take
<1>1. /\ Used > 0 /\ Used' = Used - 1 /\ TypeOK
      /\ \A i \in 0..Used - 2 : At(i)' = At(i + 1)
  BY PopEffect DEF QueueInv
<1>2. Used \in 0..Size - 1 /\ Used \in Nat
  BY <1>1, UsedType, SizePositive
<1>3. Contents \in Seq(Event \cup {0}) /\ Len(Contents) = Used
  BY <1>1, ContentsType
<1>4. Contents # << >>
  BY <1>1, <1>2, <1>3
<1>5. Contents' = Tail(Contents)
  <2>1. Contents' = [i \in 1..Used - 1 |-> At(i - 1)']
    BY <1>1 DEF Contents
  <2>2. ASSUME NEW i \in 1..Used - 1
        PROVE  At(i - 1)' = Contents[i + 1]
    <3>1. i - 1 \in 0..Used - 2 /\ (i - 1) + 1 = i /\ i + 1 \in 1..Used
      BY <1>2
    <3>2. At(i - 1)' = At(i)
      BY <1>1, <3>1
    <3>3. Contents[i + 1] = At(i)
      BY <3>1, <1>1, ContentsType, <1>2
    <3> QED BY <3>2, <3>3
  <2> DEFINE t == Tail(Contents)
  <2>3. /\ t \in Seq(Event \cup {0}) /\ Len(t) = Used - 1
        /\ \A i \in 1..Used - 1 : t[i] = Contents[i + 1]
    BY <1>2, <1>3, <1>4, HeadTailProperties
  <2>4. Contents' \in Seq(Event \cup {0}) /\ Len(Contents') = Used - 1
    <3>1. (TypeOK => Contents \in Seq(Event \cup {0}) /\ Len(Contents) = Used)'
      BY ContentsType, PTL
    <3>2. TypeOK'
      BY PopEffect
    <3> QED BY <1>1, <3>1, <3>2
  <2>5. \A i \in 1..Used - 1 : Contents'[i] = t[i]
    BY <2>1, <2>2, <2>3
  <2> HIDE DEF t
  <2>6. Contents' = t
    BY <2>3, <2>4, <2>5, SeqEqual
  <2> QED BY <2>6 DEF t
<1> QED BY <1>4, <1>5 DEF Abstract!Take

\* The ring with its mask implements PendingEvents: initial states map to the
\* empty sequence, every operation to an abstract step or to a stutter.
THEOREM Refinement == Spec => RefinesPendingEvents
<1>1. Init => Abstract!Init
  <2> SUFFICES ASSUME Init PROVE Contents = << >>
    BY DEF Abstract!Init
  <2>1. TypeOK /\ Used = 0
    BY InitIInv DEF Init, Used, QueueInv
  <2> QED BY <2>1, ContentsType
<1>2. QueueInv /\ [Next]_vars => [Abstract!Next]_Contents
  <2> SUFFICES ASSUME QueueInv, [Next]_vars PROVE [Abstract!Next]_Contents
    OBVIOUS
  <2>1. ASSUME NEW e \in Event, Skip(e) PROVE [Abstract!Next]_Contents
    BY <2>1, SkipRefines
  <2>2. ASSUME NEW e \in Event, Write(e) PROVE [Abstract!Next]_Contents
    BY <2>2, WriteRefines DEF Abstract!Next
  <2>3. CASE Pop
    BY <2>3, PopRefines DEF Abstract!Next
  <2>4. CASE NotEmpty
    <3>1. Used' = 0 /\ TypeOK'
      BY <2>4, NotEmptyEffect
    <3>2. Contents' = << >>
      BY <3>1 DEF Contents
    <3> QED BY <3>2 DEF Abstract!Next, Abstract!Discard
  <2>5. CASE UNCHANGED vars
    BY <2>5 DEF vars, Contents, Used, At, Wrap
  <2> QED BY <2>1, <2>2, <2>3, <2>4, <2>5 DEF Next, Push
<1> QED BY <1>1, <1>2, QueueInvariant, PTL DEF Spec, RefinesPendingEvents, Abstract!Spec
-----------------------------------------------------------------------------
(* The scaler.                                                                 *)

\* No session runs: none has begun, or the scaler has been stopped.
Quiet == app = "init" \/ ~streaming \/ stopFlag

\* What the session, the registers and the fifos have to do with one another.
Session ==
  /\ given => streaming
  /\ ~streaming => list = {} /\ hand = Null
  /\ app \in {"init", "flag"} => streaming
  /\ app = "join" => stopFlag
  /\ stopFlag \/ app = "irq" => room = "none"
  /\ on => syncs
  /\ Stopping => ~syncs

\* What am_sc_stop waits for, and what is left when it is done.
Ended ==
  /\ Quiet => ~syncs /\ isr = "idle" /\ tasklet = Null /\ Elements(out) \subseteq {Null}
  /\ Quiet /\ ~stopFlag => pre = Null
  /\ app \in {"delay", "clear", "irq"} => tasklet = Null
  /\ Freed => Elements(in) \cup Elements(out) \subseteq {Null}
  /\ stopFlag /\ ~fault => Elements(in) \subseteq {Null}

\* A running handler has a buffer to fall back on.
Fed ==
  /\ ~Freed =>
       /\ isr = "take" => pre # Null
       /\ isr \in {"config", "sort"} => next # Null
       /\ syncs /\ isr = "idle" => pre # Null
       /\ ~stopFlag => Null \notin Elements(in)
  /\ isr \in {"idle", "take"} => next = Null
  /\ syncs => addr # Null

Item == Buffer \cup {Null}
Running == ScalerTypes /\ Session /\ Ended /\ Fed /\ NothingLost

\* No buffer twice in a list; the last buffer as long as it means one; what is
\* in the fifos.
Distinct(s) == \A i, j \in DOMAIN s : s[i] = s[j] => i = j \/ s[i] = Null
Known == IF stopFlag THEN Null ELSE pre
Listed == Elements(in) \cup Elements(out)

\* No buffer is in two places, ...
Apart ==
  /\ Distinct(in) /\ Distinct(out) /\ Elements(in) \cap Elements(out) \subseteq {Null}
  /\ \A x \in {Known, next, tasklet, mailbox, hand} : x \in Listed => x = Null
  /\ next \in {Known, tasklet, mailbox, hand} => next = Null
  /\ tasklet \in {Known, mailbox, hand} => tasklet = Null
  /\ mailbox \in {Known, hand} => mailbox = Null
  /\ hand = Known => hand = Null

\* ... those that are somewhere are the driver's, ...
Owned == (Listed \cup {Known, next, tasklet, mailbox, hand}) \ {Null} \subseteq In("active")

\* ... and a frame that has ended has ended in the last buffer.
Written ==
  /\ syncs => addr = IF isr = "sort" \/ (isr = "config" /\ pre = Null) THEN next ELSE pre
  /\ bit # last /\ Known # Null => Known \in whole
  /\ ~streaming => mailbox = Null
  /\ Elements(out) \ {Null} \subseteq whole
  /\ {tasklet, mailbox, hand} \ {Null} \subseteq whole
Ordered == repeated \/ leftOver \/ (Apart /\ Owned /\ Written)

ScalerInv == Running /\ Ordered
-----------------------------------------------------------------------------
(* Lists.                                                                      *)

\* The first of a list and the others.
LEMMA TailElements ==
  ASSUME NEW s \in Seq(Item), s # <<>>
  PROVE  /\ Head(s) \in Item /\ Tail(s) \in Seq(Item)
         /\ Elements(s) = {Head(s)} \cup Elements(Tail(s))
         /\ Distinct(s) => /\ Distinct(Tail(s))
                           /\ Head(s) \in Elements(Tail(s)) => Head(s) = Null
<1>1. /\ Len(s) \in Nat /\ Len(s) >= 1 /\ DOMAIN s = 1..Len(s)
      /\ Head(s) = s[1] /\ Head(s) \in Item
  OBVIOUS
<1> DEFINE t == Tail(s)
<1>2. /\ t \in Seq(Item) /\ Len(t) = Len(s) - 1 /\ DOMAIN t = 1..Len(s) - 1
      /\ \A i \in 1..Len(s) - 1 : t[i] = s[i + 1]
  BY <1>1
<1> HIDE DEF t
<1>3. \A i \in 1..Len(s) - 1 : i + 1 \in 1..Len(s) /\ i + 1 # 1
  BY <1>1
<1>4. \A i \in 1..Len(s) : i = 1 \/ (i - 1 \in 1..Len(s) - 1 /\ (i - 1) + 1 = i)
  BY <1>1
<1>5. Elements(s) = {Head(s)} \cup Elements(t)
  <2>1. ASSUME NEW x \in Elements(s) PROVE x = Head(s) \/ x \in Elements(t)
    <3>1. PICK i \in 1..Len(s) : x = s[i]
      BY <2>1, <1>1 DEF Elements
    <3>2. CASE i = 1
      BY <3>1, <3>2, <1>1
    <3>3. CASE i # 1
      <4>1. i - 1 \in 1..Len(s) - 1 /\ t[i - 1] = s[i]
        BY <3>3, <1>2, <1>4
      <4> QED BY <3>1, <4>1, <1>2 DEF Elements
    <3> QED BY <3>2, <3>3
  <2>2. ASSUME NEW x \in Elements(t) PROVE x \in Elements(s)
    <3>1. PICK i \in 1..Len(s) - 1 : x = t[i]
      BY <2>2, <1>2 DEF Elements
    <3>2. i + 1 \in 1..Len(s) /\ x = s[i + 1]
      BY <3>1, <1>2, <1>3
    <3> QED BY <3>2, <1>1 DEF Elements
  <2>3. Head(s) \in Elements(s)
    <3>1. 1 \in DOMAIN s
      BY <1>1
    <3> QED BY <3>1, <1>1 DEF Elements
  <2> QED BY <2>1, <2>2, <2>3
<1>6. ASSUME Distinct(s) PROVE Distinct(t) /\ (Head(s) \in Elements(t) => Head(s) = Null)
  <2>1. ASSUME NEW i \in DOMAIN t, NEW j \in DOMAIN t, t[i] = t[j] PROVE i = j \/ t[i] = Null
    <3>1. /\ i + 1 \in DOMAIN s /\ j + 1 \in DOMAIN s
          /\ t[i] = s[i + 1] /\ t[j] = s[j + 1] /\ (i + 1 = j + 1 => i = j)
      BY <1>1, <1>2, <1>3
    <3> QED BY <2>1, <3>1, <1>6 DEF Distinct
  <2>2. ASSUME Head(s) \in Elements(t) PROVE Head(s) = Null
    <3>1. PICK i \in 1..Len(s) - 1 : Head(s) = t[i]
      BY <2>2, <1>2 DEF Elements
    <3>2. i + 1 \in DOMAIN s /\ 1 \in DOMAIN s /\ i + 1 # 1 /\ s[i + 1] = s[1]
      BY <3>1, <1>1, <1>2, <1>3
    <3> QED BY <3>2, <1>1, <1>6 DEF Distinct
  <2> QED BY <2>1, <2>2 DEF Distinct
<1> QED BY <1>1, <1>2, <1>5, <1>6 DEF t

\* One list after another.
LEMMA JoinElements ==
  ASSUME NEW s \in Seq(Item), NEW t \in Seq(Item)
  PROVE  /\ s \o t \in Seq(Item)
         /\ Elements(s \o t) = Elements(s) \cup Elements(t)
         /\ Distinct(s) /\ Distinct(t) /\ Elements(s) \cap Elements(t) \subseteq {Null} =>
               Distinct(s \o t)
<1> DEFINE u == s \o t
<1>1. /\ Len(s) \in Nat /\ Len(t) \in Nat
      /\ DOMAIN s = 1..Len(s) /\ DOMAIN t = 1..Len(t)
      /\ u \in Seq(Item) /\ Len(u) = Len(s) + Len(t) /\ DOMAIN u = 1..Len(s) + Len(t)
      /\ \A i \in 1..Len(s) + Len(t) : u[i] = IF i <= Len(s) THEN s[i] ELSE t[i - Len(s)]
  BY ConcatProperties
<1> HIDE DEF u
<1>2. ASSUME NEW i \in DOMAIN u
      PROVE  \/ i \in DOMAIN s /\ u[i] = s[i] /\ u[i] \in Elements(s)
             \/ i - Len(s) \in DOMAIN t /\ u[i] = t[i - Len(s)] /\ u[i] \in Elements(t)
  <2>1. CASE i <= Len(s)
    <3>1. i \in DOMAIN s /\ u[i] = s[i]
      BY <2>1, <1>1
    <3> QED BY <3>1 DEF Elements
  <2>2. CASE ~(i <= Len(s))
    <3>1. i - Len(s) \in DOMAIN t /\ u[i] = t[i - Len(s)]
      BY <2>2, <1>1
    <3> QED BY <3>1 DEF Elements
  <2> QED BY <2>1, <2>2
<1>3. Elements(u) = Elements(s) \cup Elements(t)
  <2>1. ASSUME NEW x \in Elements(u) PROVE x \in Elements(s) \cup Elements(t)
    BY <2>1, <1>2 DEF Elements
  <2>2. ASSUME NEW x \in Elements(s) PROVE x \in Elements(u)
    <3>1. PICK i \in DOMAIN s : x = s[i]
      BY <2>2 DEF Elements
    <3>2. i \in DOMAIN u /\ u[i] = s[i]
      BY <1>1
    <3> QED BY <3>1, <3>2 DEF Elements
  <2>3. ASSUME NEW x \in Elements(t) PROVE x \in Elements(u)
    <3>1. PICK i \in DOMAIN t : x = t[i]
      BY <2>3 DEF Elements
    <3>2. Len(s) + i \in DOMAIN u /\ ~(Len(s) + i <= Len(s)) /\ (Len(s) + i) - Len(s) = i
      BY <1>1
    <3>3. u[Len(s) + i] = t[i]
      BY <3>2, <1>1
    <3> QED BY <3>1, <3>2, <3>3 DEF Elements
  <2> QED BY <2>1, <2>2, <2>3
<1>4. ASSUME Distinct(s), Distinct(t), Elements(s) \cap Elements(t) \subseteq {Null},
             NEW i \in DOMAIN u, NEW j \in DOMAIN u, u[i] = u[j]
      PROVE  i = j \/ u[i] = Null
  <2>1. i \in Int /\ j \in Int /\ (i - Len(s) = j - Len(s) => i = j)
    BY <1>1
  <2>2. CASE i \in DOMAIN s /\ u[i] = s[i] /\ j \in DOMAIN s /\ u[j] = s[j]
    BY <2>2, <1>4 DEF Distinct
  <2>3. CASE /\ i - Len(s) \in DOMAIN t /\ u[i] = t[i - Len(s)]
             /\ j - Len(s) \in DOMAIN t /\ u[j] = t[j - Len(s)]
    BY <2>1, <2>3, <1>4 DEF Distinct
  <2>4. CASE u[i] \in Elements(s) /\ u[j] \in Elements(t)
    BY <2>4, <1>4
  <2>5. CASE u[i] \in Elements(t) /\ u[j] \in Elements(s)
    BY <2>5, <1>4
  <2>6. \/ i \in DOMAIN s /\ u[i] = s[i] /\ u[i] \in Elements(s)
        \/ i - Len(s) \in DOMAIN t /\ u[i] = t[i - Len(s)] /\ u[i] \in Elements(t)
    BY <1>2
  <2>7. \/ j \in DOMAIN s /\ u[j] = s[j] /\ u[j] \in Elements(s)
        \/ j - Len(s) \in DOMAIN t /\ u[j] = t[j - Len(s)] /\ u[j] \in Elements(t)
    BY <1>2
  <2> QED BY <2>2, <2>3, <2>4, <2>5, <2>6, <2>7
<1>5. Distinct(s) /\ Distinct(t) /\ Elements(s) \cap Elements(t) \subseteq {Null} => Distinct(u)
  BY <1>4 DEF Distinct
<1> QED BY <1>1, <1>3, <1>5 DEF u

\* A list that one is added to.
LEMMA AppendElements ==
  ASSUME NEW s \in Seq(Item), NEW x \in Item
  PROVE  /\ Append(s, x) \in Seq(Item)
         /\ Elements(Append(s, x)) = Elements(s) \cup {x}
         /\ Distinct(s) /\ (x \in Elements(s) => x = Null) => Distinct(Append(s, x))
<1>1. <<x>> \in Seq(Item) /\ Append(s, x) = s \o <<x>> /\ DOMAIN <<x>> = {1} /\ <<x>>[1] = x
  OBVIOUS
<1>2. Elements(<<x>>) = {x} /\ Distinct(<<x>>)
  BY <1>1 DEF Elements, Distinct
<1> DEFINE t == <<x>>
<1> HIDE DEF t
<1>3. /\ s \o t \in Seq(Item) /\ Elements(s \o t) = Elements(s) \cup Elements(t)
      /\ Distinct(s) /\ Distinct(t) /\ Elements(s) \cap Elements(t) \subseteq {Null} =>
            Distinct(s \o t)
  <2>1. t \in Seq(Item)
    BY <1>1 DEF t
  <2> QED BY <2>1, JoinElements
<1>4. Append(s, x) = s \o t /\ Elements(t) = {x} /\ Distinct(t)
  BY <1>1, <1>2 DEF t
<1> QED BY <1>3, <1>4

\* A set of buffers in some order.
LEMMA InOrderElements ==
  ASSUME NEW bs \in SUBSET Buffer, NEW s \in [1..Cardinality(bs) -> bs], Elements(s) = bs
  PROVE  s \in Seq(Item) /\ Distinct(s)
<1>1. IsFiniteSet(bs) /\ Cardinality(bs) \in Nat
  BY ScalerAssumption, FS_Subset, FS_CardinalityType
<1>2. s \in Seq(Item)
  BY <1>1 DEF Item
<1>3. IsFiniteSet(1..Cardinality(bs)) /\ Cardinality(1..Cardinality(bs)) = Cardinality(bs)
  BY <1>1, FS_Interval
<1>4. s \in Surjection(1..Cardinality(bs), bs)
  BY DEF Surjection, Elements
<1>5. s \in Injection(1..Cardinality(bs), bs)
  BY <1>1, <1>3, <1>4, FS_SurjSameCardinalityImpliesInj
<1>6. \A i, j \in DOMAIN s : s[i] = s[j] => i = j
  BY <1>5 DEF Injection, IsInjective
<1> QED BY <1>2, <1>6 DEF Distinct

-----------------------------------------------------------------------------
(* What a step does to the lists.                                              *)

\* A list the driver puts a buffer into.
LEMMA PutElements ==
  ASSUME NEW fifo \in Seq(Item), NEW b \in Item
  PROVE  /\ Put(fifo, b) \in Seq(Item)
         /\ Elements(Put(fifo, b)) = Elements(fifo) \cup {IF Freed THEN Null ELSE b}
         /\ Distinct(fifo) /\ (b \in Elements(fifo) => b = Null) => Distinct(Put(fifo, b))
<1>1. CASE Freed
  <2>1. Null \in Item
    BY DEF Item
  <2>2. Put(fifo, b) = Append(fifo, Null)
    BY <1>1 DEF Put
  <2> QED BY <1>1, <2>1, <2>2, AppendElements
<1>2. CASE ~Freed
  <2>1. Put(fifo, b) = Append(fifo, b)
    BY <1>2 DEF Put
  <2> QED BY <1>2, <2>1, AppendElements
<1> QED BY <1>1, <1>2

\* Buffers that are queued go to the end of the list.
LEMMA QueuedElements ==
  ASSUME in \in Seq(Item), NEW bs \in SUBSET Buffer, BufQueue(bs)
  PROVE  /\ in' \in Seq(Item)
         /\ Elements(in') = Elements(in) \cup bs
         /\ Distinct(in) /\ Elements(in) \cap bs \subseteq {Null} => Distinct(in')
<1>1. PICK s \in [1..Cardinality(bs) -> bs] : Elements(s) = bs /\ in' = in \o s
  BY DEF BufQueue
<1>2. s \in Seq(Item) /\ Distinct(s)
  BY <1>1, InOrderElements
<1> QED BY <1>1, <1>2, JoinElements
-----------------------------------------------------------------------------
(* The types.                                                                  *)

\* The first state is of the types.
LEMMA TypesInit == ScalerInit => ScalerTypes
<1> SUFFICES ASSUME ScalerInit PROVE ScalerTypes
  OBVIOUS
<1>1. Threshold + 1 \in Nat /\ 0 \in 0..Threshold + 1
  BY ScalerAssumption
<1>2. vb \in [Buffer -> {"absent", "dequeued", "queued", "active", "done"}]
  BY DEF ScalerInit
<1>3. in \in Seq(Buffer \cup {Null}) /\ out \in Seq(Buffer \cup {Null})
  BY DEF ScalerInit
<1>4. /\ room \in {"none", "empty", "full"} /\ delay \in 0..Threshold + 1
      /\ last \in {0, 1} /\ bit \in {0, 1} /\ isr \in {"idle", "take", "config", "sort"}
      /\ list \subseteq Buffer /\ whole \subseteq Buffer /\ refused \subseteq Buffer
  BY <1>1 DEF ScalerInit
<1> QED BY <1>2, <1>3, <1>4 DEF ScalerInit, ScalerTypes

\* What vb2_start_streaming does.
QueuedIn(states) == {b \in Buffer : states[b] = "queued"}

LEMMA GiveEffect ==
  ASSUME ScalerTypes, NEW states,
         states \in [Buffer -> {"absent", "dequeued", "queued", "active", "done"}], Give(states)
  PROVE  /\ vb' \in [Buffer -> {"absent", "dequeued", "queued", "active", "done"}]
         /\ vb' = [b \in Buffer |-> IF b \in QueuedIn(states) THEN "active" ELSE states[b]]
         /\ \A x \in Buffer : vb'[x] = IF x \in QueuedIn(states) THEN "active" ELSE states[x]
         /\ given' = TRUE /\ fault' = (room # "full" /\ QueuedIn(states) # {})
         /\ list' = list \cup QueuedIn(states) /\ list' \subseteq Buffer
         /\ in' \in Seq(Buffer \cup {Null}) /\ Elements(in') = Elements(in) \cup QueuedIn(states)
         /\ Distinct(in) /\ Elements(in) \cap QueuedIn(states) \subseteq {Null} => Distinct(in')
<1> DEFINE bs == QueuedIn(states)
<1>1. /\ vb' = [b \in Buffer |-> IF b \in bs THEN "active" ELSE states[b]]
      /\ given' = TRUE /\ BufQueue(bs) /\ bs \subseteq Buffer
  BY DEF Give, QueuedIn
<1> HIDE DEF bs
<1>2. /\ in' \in Seq(Item) /\ Elements(in') = Elements(in) \cup bs
      /\ Distinct(in) /\ Elements(in) \cap bs \subseteq {Null} => Distinct(in')
  <2>1. in \in Seq(Item)
    BY DEF ScalerTypes, Item
  <2> QED BY <1>1, <2>1, QueuedElements
<1>3. list' = list \cup bs /\ fault' = (room # "full" /\ bs # {})
  BY <1>1 DEF BufQueue
<1>4. list' \subseteq Buffer
  BY <1>1, <1>3 DEF ScalerTypes
<1>5. vb' \in [Buffer -> {"absent", "dequeued", "queued", "active", "done"}]
  BY <1>1
<1> QED BY <1>1, <1>2, <1>3, <1>4, <1>5 DEF bs, Item

\* Every step keeps the types.
LEMMA TypesNext == Running /\ [ScalerNext]_scaler => ScalerTypes'
<1> SUFFICES ASSUME Running, [ScalerNext]_scaler PROVE ScalerTypes'
  OBVIOUS
<1> USE DEF queue, fifos, handler, writer, stream, bounds, history, Goto, AppAt, IsrAt,
            Elsewhere, Before, ScalerTypes, Running
<1>e. Elements(<<>>) = {} /\ <<>> \in Seq(Item) /\ Distinct(<<>>)
  BY DEF Elements, Distinct
<1>s. in \in Seq(Item) /\ out \in Seq(Item)
  BY DEF Item
<1>1. ASSUME NEW count \in {0, Cardinality(Buffer)}, ReqBufs(count) PROVE ScalerTypes'
  <2>1. 0 \in 0..Threshold + 1
    BY ScalerAssumption
  <2>2. vb' \in [Buffer -> {"absent", "dequeued", "queued", "active", "done"}]
    BY <1>1 DEF ReqBufs
  <2>3. in' \in Seq(Buffer \cup {Null}) /\ out' \in Seq(Buffer \cup {Null})
    BY <1>1, <1>e, <2>1, <2>2 DEF ReqBufs, Item
  <2>4. /\ app' \in {"idle", "init", "flag", "free", "kill", "delay", "clear", "irq", "join"}
       /\ vb' \in [Buffer -> {"absent", "dequeued", "queued", "active", "done"}]
       /\ list' \subseteq Buffer /\ whole' \subseteq Buffer /\ refused' \subseteq Buffer
       /\ room' \in {"none", "empty", "full"} /\ delay' \in 0..Threshold + 1
       /\ last' \in {0, 1} /\ bit' \in {0, 1} /\ isr' \in {"idle", "take", "config", "sort"}
    BY <1>1, <1>e, <2>1, <2>2 DEF ReqBufs, Item
  <2>5. /\ pre' \in Item /\ next' \in Item /\ addr' \in Item
       /\ tasklet' \in Item /\ mailbox' \in Item /\ hand' \in Item
    BY <1>1, <1>e, <2>1, <2>2 DEF ReqBufs, Item
  <2>6. /\ streaming' \in BOOLEAN /\ given' \in BOOLEAN /\ stopFlag' \in BOOLEAN
       /\ on' \in BOOLEAN /\ syncs' \in BOOLEAN /\ writing' \in BOOLEAN
       /\ started' \in BOOLEAN /\ fault' \in BOOLEAN
       /\ repeated' \in BOOLEAN /\ leftOver' \in BOOLEAN
    BY <1>1, <1>e, <2>1, <2>2 DEF ReqBufs, Item
  <2> QED BY <2>3, <2>4, <2>5, <2>6 DEF Item
<1>2. ASSUME NEW b \in Buffer, QBuf(b) PROVE ScalerTypes'
  <2> DEFINE states == [vb EXCEPT ![b] = "queued"]
  <2>1. /\ AppAt("idle") /\ vb[b] = "dequeued"
        /\ UNCHANGED <<app, streaming, bounds, room, stopFlag, out, pre, delay, last,
                        handler, writer, stream, history>>
    BY <1>2 DEF QBuf
  <2>2. states \in [Buffer -> {"absent", "dequeued", "queued", "active", "done"}]
    OBVIOUS
  <2>3. CASE streaming /\ Give(states)
    <3>1. /\ vb' \in [Buffer -> {"absent", "dequeued", "queued", "active", "done"}]
          /\ given' = TRUE /\ fault' = (room # "full" /\ QueuedIn(states) # {})
          /\ list' = list \cup QueuedIn(states) /\ list' \subseteq Buffer
          /\ in' \in Seq(Buffer \cup {Null})
          /\ Elements(in') = Elements(in) \cup QueuedIn(states)
          /\ QueuedIn(states) \subseteq Buffer
      BY <2>2, <2>3, GiveEffect DEF QueuedIn
    <3>2. in' \in Seq(Buffer \cup {Null}) /\ out' \in Seq(Buffer \cup {Null})
      BY <2>1, <3>1 DEF Item
    <3>3. /\ app' \in {"idle", "init", "flag", "free", "kill", "delay", "clear", "irq", "join"}
         /\ vb' \in [Buffer -> {"absent", "dequeued", "queued", "active", "done"}]
         /\ list' \subseteq Buffer /\ whole' \subseteq Buffer /\ refused' \subseteq Buffer
         /\ room' \in {"none", "empty", "full"} /\ delay' \in 0..Threshold + 1
         /\ last' \in {0, 1} /\ bit' \in {0, 1} /\ isr' \in {"idle", "take", "config", "sort"}
      BY <2>1, <3>1 DEF Item
    <3>4. /\ pre' \in Item /\ next' \in Item /\ addr' \in Item
         /\ tasklet' \in Item /\ mailbox' \in Item /\ hand' \in Item
      BY <2>1, <3>1 DEF Item
    <3>5. /\ streaming' \in BOOLEAN /\ given' \in BOOLEAN /\ stopFlag' \in BOOLEAN
         /\ on' \in BOOLEAN /\ syncs' \in BOOLEAN /\ writing' \in BOOLEAN
         /\ started' \in BOOLEAN /\ fault' \in BOOLEAN
         /\ repeated' \in BOOLEAN /\ leftOver' \in BOOLEAN
      BY <2>1, <3>1 DEF Item
    <3> QED BY <3>2, <3>3, <3>4, <3>5 DEF Item
  <2>4. CASE Keep(states)
    BY <2>1, <2>2, <2>4 DEF Keep
  <2> QED BY <1>2, <2>3, <2>4 DEF QBuf, Session
<1>3. ASSUME NEW b \in Buffer, DQBuf(b) PROVE ScalerTypes'
  BY <1>3, <1>e DEF DQBuf
<1>4. CASE StreamOn
  <2>1. /\ Goto("idle", "init") /\ ~streaming /\ In("absent") = {} /\ streaming' = TRUE
        /\ UNCHANGED <<givenUp, room, stopFlag, out, pre, delay, last,
                        handler, writer, stream, history>>
    BY <1>4 DEF StreamOn
  <2>2. vb \in [Buffer -> {"absent", "dequeued", "queued", "active", "done"}]
    OBVIOUS
  <2>3. CASE Give(vb)
    <3>1. /\ vb' \in [Buffer -> {"absent", "dequeued", "queued", "active", "done"}]
          /\ given' = TRUE /\ fault' = (room # "full" /\ QueuedIn(vb) # {})
          /\ list' = list \cup QueuedIn(vb) /\ list' \subseteq Buffer
          /\ in' \in Seq(Buffer \cup {Null})
          /\ Elements(in') = Elements(in) \cup QueuedIn(vb)
          /\ QueuedIn(vb) \subseteq Buffer
      BY <2>2, <2>3, GiveEffect DEF QueuedIn
    <3> QED BY <2>1, <2>3, <3>1, ScalerAssumption DEF AppAt
  <2>4. CASE Keep(vb)
    BY <2>1, <2>2, <2>4 DEF Keep
  <2> QED BY <1>4, <2>3, <2>4 DEF StreamOn
<1>5. CASE HwInit
  <2>1. CASE First(in) = Null
    BY <1>5, <2>1 DEF HwInit
  <2>2. CASE First(in) # Null
    <3>1. in # <<>> /\ Head(in) # Null
      BY <2>2 DEF First
    <3>2. /\ Head(in) \in Item /\ Tail(in) \in Seq(Item)
          /\ Elements(in) = {Head(in)} \cup Elements(Tail(in))
      BY <3>1, <1>s, TailElements
    <3>3. in' \in Seq(Buffer \cup {Null}) /\ out' \in Seq(Buffer \cup {Null})
      BY <1>5, <2>2, <3>1, <3>2 DEF HwInit, Item
    <3>4. /\ app' \in {"idle", "init", "flag", "free", "kill", "delay", "clear", "irq", "join"}
         /\ vb' \in [Buffer -> {"absent", "dequeued", "queued", "active", "done"}]
         /\ list' \subseteq Buffer /\ whole' \subseteq Buffer /\ refused' \subseteq Buffer
         /\ room' \in {"none", "empty", "full"} /\ delay' \in 0..Threshold + 1
         /\ last' \in {0, 1} /\ bit' \in {0, 1} /\ isr' \in {"idle", "take", "config", "sort"}
      BY <1>5, <2>2, <3>1, <3>2 DEF HwInit, Item
    <3>5. /\ pre' \in Item /\ next' \in Item /\ addr' \in Item
         /\ tasklet' \in Item /\ mailbox' \in Item /\ hand' \in Item
      BY <1>5, <2>2, <3>1, <3>2 DEF HwInit, Item
    <3>6. /\ streaming' \in BOOLEAN /\ given' \in BOOLEAN /\ stopFlag' \in BOOLEAN
         /\ on' \in BOOLEAN /\ syncs' \in BOOLEAN /\ writing' \in BOOLEAN
         /\ started' \in BOOLEAN /\ fault' \in BOOLEAN
         /\ repeated' \in BOOLEAN /\ leftOver' \in BOOLEAN
      BY <1>5, <2>2, <3>1, <3>2 DEF HwInit, Item
    <3> QED BY <3>3, <3>4, <3>5, <3>6 DEF Item
  <2> QED BY <2>1, <2>2
<1>6. CASE SetStarted
  BY <1>6, <1>e DEF SetStarted
<1>7. CASE StopRegs
  <2>1. CASE stopFlag
    BY <1>7, <2>1 DEF StopRegs
  <2>2. CASE ~stopFlag
    <3>1. in' \in Seq(Buffer \cup {Null}) /\ out' \in Seq(Buffer \cup {Null})
      BY <1>7, <2>2 DEF StopRegs, Item
    <3>2. /\ app' \in {"idle", "init", "flag", "free", "kill", "delay", "clear", "irq", "join"}
         /\ vb' \in [Buffer -> {"absent", "dequeued", "queued", "active", "done"}]
         /\ list' \subseteq Buffer /\ whole' \subseteq Buffer /\ refused' \subseteq Buffer
         /\ room' \in {"none", "empty", "full"} /\ delay' \in 0..Threshold + 1
         /\ last' \in {0, 1} /\ bit' \in {0, 1} /\ isr' \in {"idle", "take", "config", "sort"}
      BY <1>7, <2>2 DEF StopRegs, Item
    <3>3. /\ pre' \in Item /\ next' \in Item /\ addr' \in Item
         /\ tasklet' \in Item /\ mailbox' \in Item /\ hand' \in Item
      BY <1>7, <2>2 DEF StopRegs, Item
    <3>4. /\ streaming' \in BOOLEAN /\ given' \in BOOLEAN /\ stopFlag' \in BOOLEAN
         /\ on' \in BOOLEAN /\ syncs' \in BOOLEAN /\ writing' \in BOOLEAN
         /\ started' \in BOOLEAN /\ fault' \in BOOLEAN
         /\ repeated' \in BOOLEAN /\ leftOver' \in BOOLEAN
      BY <1>7, <2>2 DEF StopRegs, Item
    <3> QED BY <3>1, <3>2, <3>3, <3>4 DEF Item
  <2> QED BY <2>1, <2>2
<1>8. CASE StopFree
  BY <1>8, <1>e DEF StopFree
<1>9. CASE StopKill
  BY <1>9, <1>e DEF StopKill
<1>10. CASE StopDelay
  <2>1. 0 \in 0..Threshold + 1
    BY ScalerAssumption
  <2> QED BY <1>10, <2>1 DEF StopDelay
<1>11. CASE StopClear
  BY <1>11, <1>e DEF StopClear
<1>12. CASE StopIrq
  BY <1>12, <1>e DEF StopIrq
<1>13. CASE StreamOff
  <2>1. in' \in Seq(Buffer \cup {Null}) /\ out' \in Seq(Buffer \cup {Null})
    BY <1>13 DEF StreamOff, Item
  <2>2. /\ app' \in {"idle", "init", "flag", "free", "kill", "delay", "clear", "irq", "join"}
       /\ vb' \in [Buffer -> {"absent", "dequeued", "queued", "active", "done"}]
       /\ list' \subseteq Buffer /\ whole' \subseteq Buffer /\ refused' \subseteq Buffer
       /\ room' \in {"none", "empty", "full"} /\ delay' \in 0..Threshold + 1
       /\ last' \in {0, 1} /\ bit' \in {0, 1} /\ isr' \in {"idle", "take", "config", "sort"}
    BY <1>13 DEF StreamOff, Item
  <2>3. /\ pre' \in Item /\ next' \in Item /\ addr' \in Item
       /\ tasklet' \in Item /\ mailbox' \in Item /\ hand' \in Item
    BY <1>13 DEF StreamOff, Item
  <2>4. /\ streaming' \in BOOLEAN /\ given' \in BOOLEAN /\ stopFlag' \in BOOLEAN
       /\ on' \in BOOLEAN /\ syncs' \in BOOLEAN /\ writing' \in BOOLEAN
       /\ started' \in BOOLEAN /\ fault' \in BOOLEAN
       /\ repeated' \in BOOLEAN /\ leftOver' \in BOOLEAN
    BY <1>13 DEF StreamOff, Item
  <2> QED BY <2>1, <2>2, <2>3, <2>4 DEF Item
<1>14. CASE FrameEnd
  <2>1. 1 - bit \in {0, 1}
    OBVIOUS
  <2>2. addr \in Buffer
    BY <1>14 DEF FrameEnd, Session, Fed
  <2>3. in' \in Seq(Buffer \cup {Null}) /\ out' \in Seq(Buffer \cup {Null})
    BY <1>14, <2>1, <2>2 DEF FrameEnd, Item
  <2>4. /\ app' \in {"idle", "init", "flag", "free", "kill", "delay", "clear", "irq", "join"}
       /\ vb' \in [Buffer -> {"absent", "dequeued", "queued", "active", "done"}]
       /\ list' \subseteq Buffer /\ whole' \subseteq Buffer /\ refused' \subseteq Buffer
       /\ room' \in {"none", "empty", "full"} /\ delay' \in 0..Threshold + 1
       /\ last' \in {0, 1} /\ bit' \in {0, 1} /\ isr' \in {"idle", "take", "config", "sort"}
    BY <1>14, <2>1, <2>2 DEF FrameEnd, Item
  <2>5. /\ pre' \in Item /\ next' \in Item /\ addr' \in Item
       /\ tasklet' \in Item /\ mailbox' \in Item /\ hand' \in Item
    BY <1>14, <2>1, <2>2 DEF FrameEnd, Item
  <2>6. /\ streaming' \in BOOLEAN /\ given' \in BOOLEAN /\ stopFlag' \in BOOLEAN
       /\ on' \in BOOLEAN /\ syncs' \in BOOLEAN /\ writing' \in BOOLEAN
       /\ started' \in BOOLEAN /\ fault' \in BOOLEAN
       /\ repeated' \in BOOLEAN /\ leftOver' \in BOOLEAN
    BY <1>14, <2>1, <2>2 DEF FrameEnd, Item
  <2> QED BY <2>3, <2>4, <2>5, <2>6 DEF Item
<1>15. CASE Sync
  <2>1. delay' \in 0..Threshold + 1
    BY <1>15, ScalerAssumption DEF Sync
  <2>2. on' \in BOOLEAN /\ writing' \in BOOLEAN
    BY <1>15 DEF Sync
  <2> QED BY <1>15, <2>1, <2>2 DEF Sync
<1>16. CASE IsrTake
  <2>1. CASE in # <<>>
    <3>1. /\ Head(in) \in Item /\ Tail(in) \in Seq(Item)
          /\ Elements(in) = {Head(in)} \cup Elements(Tail(in))
      BY <2>1, <1>s, TailElements
    <3> QED BY <1>16, <2>1, <3>1 DEF IsrTake, Item
  <2>2. CASE in = <<>>
    BY <1>16, <2>2 DEF IsrTake
  <2> QED BY <2>1, <2>2
<1>17. CASE IsrConfig
  BY <1>17, <1>e DEF IsrConfig
<1>18. CASE IsrSort
  <2>1. pre \in Item /\ next \in Item
    BY DEF Item
  <2>2. CASE bit = last /\ pre = Null
    <3>1. in' = Put(in, next)
      BY <1>18, <2>2 DEF IsrSort
    <3>2. in' \in Seq(Item) /\ Elements(in') = Elements(in) \cup {IF Freed THEN Null ELSE next}
      BY <2>1, <3>1, <1>s, PutElements
    <3> QED BY <1>18, <2>1, <2>2, <3>2 DEF IsrSort, Item
  <2>3. CASE bit = last /\ pre # Null
    <3>1. in' = Put(in, pre)
      BY <1>18, <2>3 DEF IsrSort
    <3>2. in' \in Seq(Item) /\ Elements(in') = Elements(in) \cup {IF Freed THEN Null ELSE pre}
      BY <2>1, <3>1, <1>s, PutElements
    <3> QED BY <1>18, <2>1, <2>3, <3>2 DEF IsrSort, Item
  <2>4. CASE bit # last /\ pre # Null
    <3>1. out' = Put(out, pre)
      BY <1>18, <2>4 DEF IsrSort
    <3>2. out' \in Seq(Item) /\ Elements(out') = Elements(out) \cup {IF Freed THEN Null ELSE pre}
      BY <2>1, <3>1, <1>s, PutElements
    <3> QED BY <1>18, <2>1, <2>4, <3>2 DEF IsrSort, Item
  <2>5. CASE bit # last /\ pre = Null
    BY <1>18, <2>5 DEF IsrSort
  <2> QED BY <2>2, <2>3, <2>4, <2>5
<1>19. CASE TaskletTake
  <2>1. /\ Head(out) \in Item /\ Tail(out) \in Seq(Item)
        /\ Elements(out) = {Head(out)} \cup Elements(Tail(out))
    BY <1>19, <1>s, TailElements DEF TaskletTake
  <2> QED BY <1>19, <2>1 DEF TaskletTake, Item
<1>20. CASE Callback
  BY <1>20, <1>e DEF Callback
<1>21. CASE ThreadTake
  BY <1>21, <1>e DEF ThreadTake
<1>22. CASE ThreadDone
  BY <1>22, <1>e DEF ThreadDone
<1>23. CASE UNCHANGED scaler
  BY <1>23 DEF scaler
<1> QED BY <1>1, <1>2, <1>3, <1>4, <1>5, <1>6, <1>7, <1>8, <1>9, <1>10, <1>11, <1>12,
           <1>13, <1>14, <1>15, <1>16, <1>17, <1>18, <1>19, <1>20, <1>21, <1>22, <1>23
           DEF ScalerNext, Application, Interrupt, Delivery

-----------------------------------------------------------------------------
(* The session.                                                                *)

\* Every step keeps what session, registers and fifos have to do with one another.
LEMMA SessionNext == Running /\ [ScalerNext]_scaler => Session'
<1> SUFFICES ASSUME Running, [ScalerNext]_scaler PROVE Session'
  OBVIOUS
<1> USE DEF queue, fifos, handler, writer, stream, bounds, history, Goto, AppAt, IsrAt,
            Elsewhere, Before, ScalerTypes, Running
<1> USE DEF Session, Ended, Quiet, Stopping
<1>e. Elements(<<>>) = {} /\ <<>> \in Seq(Item) /\ Distinct(<<>>)
  BY DEF Elements, Distinct
<1>s. in \in Seq(Item) /\ out \in Seq(Item)
  BY DEF Item
<1>1. ASSUME NEW count \in {0, Cardinality(Buffer)}, ReqBufs(count) PROVE Session'
  BY <1>1, <1>e DEF ReqBufs
<1>2. ASSUME NEW b \in Buffer, QBuf(b) PROVE Session'
  <2> DEFINE states == [vb EXCEPT ![b] = "queued"]
  <2>1. /\ AppAt("idle") /\ vb[b] = "dequeued"
        /\ UNCHANGED <<app, streaming, bounds, room, stopFlag, out, pre, delay, last,
                        handler, writer, stream, history>>
    BY <1>2 DEF QBuf
  <2>2. states \in [Buffer -> {"absent", "dequeued", "queued", "active", "done"}]
    OBVIOUS
  <2>3. CASE streaming /\ Give(states)
    <3>1. /\ vb' \in [Buffer -> {"absent", "dequeued", "queued", "active", "done"}]
          /\ given' = TRUE /\ fault' = (room # "full" /\ QueuedIn(states) # {})
          /\ list' = list \cup QueuedIn(states) /\ list' \subseteq Buffer
          /\ in' \in Seq(Buffer \cup {Null})
          /\ Elements(in') = Elements(in) \cup QueuedIn(states)
          /\ QueuedIn(states) \subseteq Buffer
      BY <2>2, <2>3, GiveEffect DEF QueuedIn
    <3> QED BY <2>1, <2>3, <3>1, ScalerAssumption DEF AppAt
  <2>4. CASE Keep(states)
    BY <2>1, <2>2, <2>4 DEF Keep
  <2> QED BY <1>2, <2>3, <2>4 DEF QBuf, Session
<1>3. ASSUME NEW b \in Buffer, DQBuf(b) PROVE Session'
  BY <1>3, <1>e DEF DQBuf
<1>4. CASE StreamOn
  <2>1. /\ Goto("idle", "init") /\ ~streaming /\ In("absent") = {} /\ streaming' = TRUE
        /\ UNCHANGED <<givenUp, room, stopFlag, out, pre, delay, last,
                        handler, writer, stream, history>>
    BY <1>4 DEF StreamOn
  <2>2. vb \in [Buffer -> {"absent", "dequeued", "queued", "active", "done"}]
    OBVIOUS
  <2>3. CASE Give(vb)
    <3>1. /\ vb' \in [Buffer -> {"absent", "dequeued", "queued", "active", "done"}]
          /\ given' = TRUE /\ fault' = (room # "full" /\ QueuedIn(vb) # {})
          /\ list' = list \cup QueuedIn(vb) /\ list' \subseteq Buffer
          /\ in' \in Seq(Buffer \cup {Null})
          /\ Elements(in') = Elements(in) \cup QueuedIn(vb)
          /\ QueuedIn(vb) \subseteq Buffer
      BY <2>2, <2>3, GiveEffect DEF QueuedIn
    <3> QED BY <2>1, <2>3, <3>1, ScalerAssumption DEF AppAt
  <2>4. CASE Keep(vb)
    BY <2>1, <2>2, <2>4 DEF Keep
  <2> QED BY <1>4, <2>3, <2>4 DEF StreamOn
<1>5. CASE HwInit
  <2>1. CASE First(in) = Null
    BY <1>5, <2>1 DEF HwInit
  <2>2. CASE First(in) # Null
    <3>1. in # <<>> /\ Head(in) # Null
      BY <2>2 DEF First
    <3>2. /\ Head(in) \in Item /\ Tail(in) \in Seq(Item)
          /\ Elements(in) = {Head(in)} \cup Elements(Tail(in))
      BY <3>1, <1>s, TailElements
    <3> QED BY <1>5, <2>2, <3>1, <3>2 DEF HwInit, Item
  <2> QED BY <2>1, <2>2
<1>6. CASE SetStarted
  BY <1>6, <1>e DEF SetStarted
<1>7. CASE StopRegs
  <2>1. CASE stopFlag
    BY <1>7, <2>1 DEF StopRegs
  <2>2. CASE ~stopFlag
    BY <1>7, <2>2 DEF StopRegs
  <2> QED BY <2>1, <2>2
<1>8. CASE StopFree
  BY <1>8, <1>e DEF StopFree
<1>9. CASE StopKill
  BY <1>9, <1>e DEF StopKill
<1>10. CASE StopDelay
  BY <1>10, <1>e DEF StopDelay
<1>11. CASE StopClear
  BY <1>11, <1>e DEF StopClear
<1>12. CASE StopIrq
  BY <1>12, <1>e DEF StopIrq
<1>13. CASE StreamOff
  BY <1>13, <1>e DEF StreamOff
<1>14. CASE FrameEnd
  BY <1>14, <1>e DEF FrameEnd
<1>15. CASE Sync
  BY <1>15, <1>e DEF Sync
<1>16. CASE IsrTake
  <2>1. CASE in # <<>>
    <3>1. /\ Head(in) \in Item /\ Tail(in) \in Seq(Item)
          /\ Elements(in) = {Head(in)} \cup Elements(Tail(in))
      BY <2>1, <1>s, TailElements
    <3> QED BY <1>16, <2>1, <3>1 DEF IsrTake, Item
  <2>2. CASE in = <<>>
    BY <1>16, <2>2 DEF IsrTake
  <2> QED BY <2>1, <2>2
<1>17. CASE IsrConfig
  BY <1>17, <1>e DEF IsrConfig
<1>18. CASE IsrSort
  <2>1. pre \in Item /\ next \in Item
    BY DEF Item
  <2>2. CASE bit = last /\ pre = Null
    <3>1. in' = Put(in, next)
      BY <1>18, <2>2 DEF IsrSort
    <3>2. in' \in Seq(Item) /\ Elements(in') = Elements(in) \cup {IF Freed THEN Null ELSE next}
      BY <2>1, <3>1, <1>s, PutElements
    <3> QED BY <1>18, <2>1, <2>2, <3>2 DEF IsrSort, Item
  <2>3. CASE bit = last /\ pre # Null
    <3>1. in' = Put(in, pre)
      BY <1>18, <2>3 DEF IsrSort
    <3>2. in' \in Seq(Item) /\ Elements(in') = Elements(in) \cup {IF Freed THEN Null ELSE pre}
      BY <2>1, <3>1, <1>s, PutElements
    <3> QED BY <1>18, <2>1, <2>3, <3>2 DEF IsrSort, Item
  <2>4. CASE bit # last /\ pre # Null
    <3>1. out' = Put(out, pre)
      BY <1>18, <2>4 DEF IsrSort
    <3>2. out' \in Seq(Item) /\ Elements(out') = Elements(out) \cup {IF Freed THEN Null ELSE pre}
      BY <2>1, <3>1, <1>s, PutElements
    <3> QED BY <1>18, <2>1, <2>4, <3>2 DEF IsrSort, Item
  <2>5. CASE bit # last /\ pre = Null
    BY <1>18, <2>5 DEF IsrSort
  <2> QED BY <2>2, <2>3, <2>4, <2>5
<1>19. CASE TaskletTake
  <2>1. /\ Head(out) \in Item /\ Tail(out) \in Seq(Item)
        /\ Elements(out) = {Head(out)} \cup Elements(Tail(out))
    BY <1>19, <1>s, TailElements DEF TaskletTake
  <2> QED BY <1>19, <2>1 DEF TaskletTake, Item
<1>20. CASE Callback
  BY <1>20, <1>e DEF Callback
<1>21. CASE ThreadTake
  BY <1>21, <1>e DEF ThreadTake
<1>22. CASE ThreadDone
  BY <1>22, <1>e DEF ThreadDone
<1>23. CASE UNCHANGED scaler
  BY <1>23 DEF scaler
<1> QED BY <1>1, <1>2, <1>3, <1>4, <1>5, <1>6, <1>7, <1>8, <1>9, <1>10, <1>11, <1>12,
           <1>13, <1>14, <1>15, <1>16, <1>17, <1>18, <1>19, <1>20, <1>21, <1>22, <1>23
           DEF ScalerNext, Application, Interrupt, Delivery

\* Nothing is at work, and nothing is left, when a session has ended.
LEMMA EndedNext == Running /\ [ScalerNext]_scaler => Ended'
<1> SUFFICES ASSUME Running, [ScalerNext]_scaler PROVE Ended'
  OBVIOUS
<1> USE DEF queue, fifos, handler, writer, stream, bounds, history, Goto, AppAt, IsrAt,
            Elsewhere, Before, ScalerTypes, Running
<1> USE DEF Session, Ended, Quiet, Freed, Stopping
<1>e. Elements(<<>>) = {} /\ <<>> \in Seq(Item) /\ Distinct(<<>>)
  BY DEF Elements, Distinct
<1>s. in \in Seq(Item) /\ out \in Seq(Item)
  BY DEF Item
<1>1. ASSUME NEW count \in {0, Cardinality(Buffer)}, ReqBufs(count) PROVE Ended'
  BY <1>1, <1>e DEF ReqBufs
<1>2. ASSUME NEW b \in Buffer, QBuf(b) PROVE Ended'
  <2> DEFINE states == [vb EXCEPT ![b] = "queued"]
  <2>1. /\ AppAt("idle") /\ vb[b] = "dequeued"
        /\ UNCHANGED <<app, streaming, bounds, room, stopFlag, out, pre, delay, last,
                        handler, writer, stream, history>>
    BY <1>2 DEF QBuf
  <2>2. states \in [Buffer -> {"absent", "dequeued", "queued", "active", "done"}]
    OBVIOUS
  <2>3. CASE streaming /\ Give(states)
    <3>1. /\ vb' \in [Buffer -> {"absent", "dequeued", "queued", "active", "done"}]
          /\ given' = TRUE /\ fault' = (room # "full" /\ QueuedIn(states) # {})
          /\ list' = list \cup QueuedIn(states) /\ list' \subseteq Buffer
          /\ in' \in Seq(Buffer \cup {Null})
          /\ Elements(in') = Elements(in) \cup QueuedIn(states)
          /\ QueuedIn(states) \subseteq Buffer
      BY <2>2, <2>3, GiveEffect DEF QueuedIn
    <3> QED BY <2>1, <2>3, <3>1, ScalerAssumption DEF AppAt
  <2>4. CASE Keep(states)
    BY <2>1, <2>2, <2>4 DEF Keep
  <2> QED BY <1>2, <2>3, <2>4 DEF QBuf, Session
<1>3. ASSUME NEW b \in Buffer, DQBuf(b) PROVE Ended'
  BY <1>3, <1>e DEF DQBuf
<1>4. CASE StreamOn
  <2>1. /\ Goto("idle", "init") /\ ~streaming /\ In("absent") = {} /\ streaming' = TRUE
        /\ UNCHANGED <<givenUp, room, stopFlag, out, pre, delay, last,
                        handler, writer, stream, history>>
    BY <1>4 DEF StreamOn
  <2>2. vb \in [Buffer -> {"absent", "dequeued", "queued", "active", "done"}]
    OBVIOUS
  <2>3. CASE Give(vb)
    <3>1. /\ vb' \in [Buffer -> {"absent", "dequeued", "queued", "active", "done"}]
          /\ given' = TRUE /\ fault' = (room # "full" /\ QueuedIn(vb) # {})
          /\ list' = list \cup QueuedIn(vb) /\ list' \subseteq Buffer
          /\ in' \in Seq(Buffer \cup {Null})
          /\ Elements(in') = Elements(in) \cup QueuedIn(vb)
          /\ QueuedIn(vb) \subseteq Buffer
      BY <2>2, <2>3, GiveEffect DEF QueuedIn
    <3> QED BY <2>1, <2>3, <3>1, ScalerAssumption DEF AppAt
  <2>4. CASE Keep(vb)
    BY <2>1, <2>2, <2>4 DEF Keep
  <2> QED BY <1>4, <2>3, <2>4 DEF StreamOn
<1>5. CASE HwInit
  <2>1. CASE First(in) = Null
    BY <1>5, <2>1 DEF HwInit
  <2>2. CASE First(in) # Null
    <3>1. in # <<>> /\ Head(in) # Null
      BY <2>2 DEF First
    <3>2. /\ Head(in) \in Item /\ Tail(in) \in Seq(Item)
          /\ Elements(in) = {Head(in)} \cup Elements(Tail(in))
      BY <3>1, <1>s, TailElements
    <3> QED BY <1>5, <2>2, <3>1, <3>2 DEF HwInit, Item
  <2> QED BY <2>1, <2>2
<1>6. CASE SetStarted
  BY <1>6, <1>e DEF SetStarted
<1>7. CASE StopRegs
  <2>1. CASE stopFlag
    BY <1>7, <2>1 DEF StopRegs
  <2>2. CASE ~stopFlag
    BY <1>7, <2>2 DEF StopRegs
  <2> QED BY <2>1, <2>2
<1>8. CASE StopFree
  BY <1>8, <1>e DEF StopFree
<1>9. CASE StopKill
  BY <1>9, <1>e DEF StopKill
<1>10. CASE StopDelay
  BY <1>10, <1>e DEF StopDelay
<1>11. CASE StopClear
  BY <1>11, <1>e DEF StopClear
<1>12. CASE StopIrq
  BY <1>12, <1>e DEF StopIrq
<1>13. CASE StreamOff
  BY <1>13, <1>e DEF StreamOff
<1>14. CASE FrameEnd
  BY <1>14, <1>e DEF FrameEnd
<1>15. CASE Sync
  BY <1>15, <1>e DEF Sync
<1>16. CASE IsrTake
  <2>1. CASE in # <<>>
    <3>1. /\ Head(in) \in Item /\ Tail(in) \in Seq(Item)
          /\ Elements(in) = {Head(in)} \cup Elements(Tail(in))
      BY <2>1, <1>s, TailElements
    <3> QED BY <1>16, <2>1, <3>1 DEF IsrTake, Item
  <2>2. CASE in = <<>>
    BY <1>16, <2>2 DEF IsrTake
  <2> QED BY <2>1, <2>2
<1>17. CASE IsrConfig
  BY <1>17, <1>e DEF IsrConfig
<1>18. CASE IsrSort
  <2>1. pre \in Item /\ next \in Item
    BY DEF Item
  <2>2. CASE bit = last /\ pre = Null
    <3>1. in' = Put(in, next)
      BY <1>18, <2>2 DEF IsrSort
    <3>2. in' \in Seq(Item) /\ Elements(in') = Elements(in) \cup {IF Freed THEN Null ELSE next}
      BY <2>1, <3>1, <1>s, PutElements
    <3> QED BY <1>18, <2>1, <2>2, <3>2 DEF IsrSort, Item
  <2>3. CASE bit = last /\ pre # Null
    <3>1. in' = Put(in, pre)
      BY <1>18, <2>3 DEF IsrSort
    <3>2. in' \in Seq(Item) /\ Elements(in') = Elements(in) \cup {IF Freed THEN Null ELSE pre}
      BY <2>1, <3>1, <1>s, PutElements
    <3> QED BY <1>18, <2>1, <2>3, <3>2 DEF IsrSort, Item
  <2>4. CASE bit # last /\ pre # Null
    <3>1. out' = Put(out, pre)
      BY <1>18, <2>4 DEF IsrSort
    <3>2. out' \in Seq(Item) /\ Elements(out') = Elements(out) \cup {IF Freed THEN Null ELSE pre}
      BY <2>1, <3>1, <1>s, PutElements
    <3> QED BY <1>18, <2>1, <2>4, <3>2 DEF IsrSort, Item
  <2>5. CASE bit # last /\ pre = Null
    BY <1>18, <2>5 DEF IsrSort
  <2> QED BY <2>2, <2>3, <2>4, <2>5
<1>19. CASE TaskletTake
  <2>1. /\ Head(out) \in Item /\ Tail(out) \in Seq(Item)
        /\ Elements(out) = {Head(out)} \cup Elements(Tail(out))
    BY <1>19, <1>s, TailElements DEF TaskletTake
  <2> QED BY <1>19, <2>1 DEF TaskletTake, Item
<1>20. CASE Callback
  BY <1>20, <1>e DEF Callback
<1>21. CASE ThreadTake
  BY <1>21, <1>e DEF ThreadTake
<1>22. CASE ThreadDone
  BY <1>22, <1>e DEF ThreadDone
<1>23. CASE UNCHANGED scaler
  BY <1>23 DEF scaler
<1> QED BY <1>1, <1>2, <1>3, <1>4, <1>5, <1>6, <1>7, <1>8, <1>9, <1>10, <1>11, <1>12,
           <1>13, <1>14, <1>15, <1>16, <1>17, <1>18, <1>19, <1>20, <1>21, <1>22, <1>23
           DEF ScalerNext, Application, Interrupt, Delivery

\* The handler keeps a buffer to fall back on.
LEMMA FedNext == Running /\ [ScalerNext]_scaler => Fed'
<1> SUFFICES ASSUME Running, [ScalerNext]_scaler PROVE Fed'
  OBVIOUS
<1> USE DEF queue, fifos, handler, writer, stream, bounds, history, Goto, AppAt, IsrAt,
            Elsewhere, Before, ScalerTypes, Running
<1> USE DEF Session, Ended, Fed, Quiet, Freed, Stopping
<1>e. Elements(<<>>) = {} /\ <<>> \in Seq(Item) /\ Distinct(<<>>)
  BY DEF Elements, Distinct
<1>s. in \in Seq(Item) /\ out \in Seq(Item)
  BY DEF Item
<1>1. ASSUME NEW count \in {0, Cardinality(Buffer)}, ReqBufs(count) PROVE Fed'
  BY <1>1, <1>e DEF ReqBufs
<1>2. ASSUME NEW b \in Buffer, QBuf(b) PROVE Fed'
  <2> DEFINE states == [vb EXCEPT ![b] = "queued"]
  <2>1. /\ AppAt("idle") /\ vb[b] = "dequeued"
        /\ UNCHANGED <<app, streaming, bounds, room, stopFlag, out, pre, delay, last,
                        handler, writer, stream, history>>
    BY <1>2 DEF QBuf
  <2>2. states \in [Buffer -> {"absent", "dequeued", "queued", "active", "done"}]
    OBVIOUS
  <2>3. CASE streaming /\ Give(states)
    <3>1. /\ vb' \in [Buffer -> {"absent", "dequeued", "queued", "active", "done"}]
          /\ given' = TRUE /\ fault' = (room # "full" /\ QueuedIn(states) # {})
          /\ list' = list \cup QueuedIn(states) /\ list' \subseteq Buffer
          /\ in' \in Seq(Buffer \cup {Null})
          /\ Elements(in') = Elements(in) \cup QueuedIn(states)
          /\ QueuedIn(states) \subseteq Buffer
      BY <2>2, <2>3, GiveEffect DEF QueuedIn
    <3> QED BY <2>1, <2>3, <3>1, ScalerAssumption DEF AppAt
  <2>4. CASE Keep(states)
    BY <2>1, <2>2, <2>4 DEF Keep
  <2> QED BY <1>2, <2>3, <2>4 DEF QBuf, Session
<1>3. ASSUME NEW b \in Buffer, DQBuf(b) PROVE Fed'
  BY <1>3, <1>e DEF DQBuf
<1>4. CASE StreamOn
  <2>1. /\ Goto("idle", "init") /\ ~streaming /\ In("absent") = {} /\ streaming' = TRUE
        /\ UNCHANGED <<givenUp, room, stopFlag, out, pre, delay, last,
                        handler, writer, stream, history>>
    BY <1>4 DEF StreamOn
  <2>2. vb \in [Buffer -> {"absent", "dequeued", "queued", "active", "done"}]
    OBVIOUS
  <2>3. CASE Give(vb)
    <3>1. /\ vb' \in [Buffer -> {"absent", "dequeued", "queued", "active", "done"}]
          /\ given' = TRUE /\ fault' = (room # "full" /\ QueuedIn(vb) # {})
          /\ list' = list \cup QueuedIn(vb) /\ list' \subseteq Buffer
          /\ in' \in Seq(Buffer \cup {Null})
          /\ Elements(in') = Elements(in) \cup QueuedIn(vb)
          /\ QueuedIn(vb) \subseteq Buffer
      BY <2>2, <2>3, GiveEffect DEF QueuedIn
    <3> QED BY <2>1, <2>3, <3>1, ScalerAssumption DEF AppAt
  <2>4. CASE Keep(vb)
    BY <2>1, <2>2, <2>4 DEF Keep
  <2> QED BY <1>4, <2>3, <2>4 DEF StreamOn
<1>5. CASE HwInit
  <2>1. CASE First(in) = Null
    BY <1>5, <2>1 DEF HwInit
  <2>2. CASE First(in) # Null
    <3>1. in # <<>> /\ Head(in) # Null
      BY <2>2 DEF First
    <3>2. /\ Head(in) \in Item /\ Tail(in) \in Seq(Item)
          /\ Elements(in) = {Head(in)} \cup Elements(Tail(in))
      BY <3>1, <1>s, TailElements
    <3> QED BY <1>5, <2>2, <3>1, <3>2 DEF HwInit, Item
  <2> QED BY <2>1, <2>2
<1>6. CASE SetStarted
  BY <1>6, <1>e DEF SetStarted
<1>7. CASE StopRegs
  <2>1. CASE stopFlag
    BY <1>7, <2>1 DEF StopRegs
  <2>2. CASE ~stopFlag
    BY <1>7, <2>2 DEF StopRegs
  <2> QED BY <2>1, <2>2
<1>8. CASE StopFree
  BY <1>8, <1>e DEF StopFree
<1>9. CASE StopKill
  BY <1>9, <1>e DEF StopKill
<1>10. CASE StopDelay
  BY <1>10, <1>e DEF StopDelay
<1>11. CASE StopClear
  BY <1>11, <1>e DEF StopClear
<1>12. CASE StopIrq
  BY <1>12, <1>e DEF StopIrq
<1>13. CASE StreamOff
  BY <1>13, <1>e DEF StreamOff
<1>14. CASE FrameEnd
  BY <1>14, <1>e DEF FrameEnd
<1>15. CASE Sync
  BY <1>15, <1>e DEF Sync
<1>16. CASE IsrTake
  <2>1. CASE in # <<>>
    <3>1. /\ Head(in) \in Item /\ Tail(in) \in Seq(Item)
          /\ Elements(in) = {Head(in)} \cup Elements(Tail(in))
      BY <2>1, <1>s, TailElements
    <3> QED BY <1>16, <2>1, <3>1 DEF IsrTake, Item
  <2>2. CASE in = <<>>
    BY <1>16, <2>2 DEF IsrTake
  <2> QED BY <2>1, <2>2
<1>17. CASE IsrConfig
  BY <1>17, <1>e DEF IsrConfig
<1>18. CASE IsrSort
  <2>1. pre \in Item /\ next \in Item
    BY DEF Item
  <2>2. CASE bit = last /\ pre = Null
    <3>1. in' = Put(in, next)
      BY <1>18, <2>2 DEF IsrSort
    <3>2. in' \in Seq(Item) /\ Elements(in') = Elements(in) \cup {IF Freed THEN Null ELSE next}
      BY <2>1, <3>1, <1>s, PutElements
    <3> QED BY <1>18, <2>1, <2>2, <3>2 DEF IsrSort, Item
  <2>3. CASE bit = last /\ pre # Null
    <3>1. in' = Put(in, pre)
      BY <1>18, <2>3 DEF IsrSort
    <3>2. in' \in Seq(Item) /\ Elements(in') = Elements(in) \cup {IF Freed THEN Null ELSE pre}
      BY <2>1, <3>1, <1>s, PutElements
    <3> QED BY <1>18, <2>1, <2>3, <3>2 DEF IsrSort, Item
  <2>4. CASE bit # last /\ pre # Null
    <3>1. out' = Put(out, pre)
      BY <1>18, <2>4 DEF IsrSort
    <3>2. out' \in Seq(Item) /\ Elements(out') = Elements(out) \cup {IF Freed THEN Null ELSE pre}
      BY <2>1, <3>1, <1>s, PutElements
    <3> QED BY <1>18, <2>1, <2>4, <3>2 DEF IsrSort, Item
  <2>5. CASE bit # last /\ pre = Null
    BY <1>18, <2>5 DEF IsrSort
  <2> QED BY <2>2, <2>3, <2>4, <2>5
<1>19. CASE TaskletTake
  <2>1. /\ Head(out) \in Item /\ Tail(out) \in Seq(Item)
        /\ Elements(out) = {Head(out)} \cup Elements(Tail(out))
    BY <1>19, <1>s, TailElements DEF TaskletTake
  <2> QED BY <1>19, <2>1 DEF TaskletTake, Item
<1>20. CASE Callback
  BY <1>20, <1>e DEF Callback
<1>21. CASE ThreadTake
  BY <1>21, <1>e DEF ThreadTake
<1>22. CASE ThreadDone
  BY <1>22, <1>e DEF ThreadDone
<1>23. CASE UNCHANGED scaler
  BY <1>23 DEF scaler
<1> QED BY <1>1, <1>2, <1>3, <1>4, <1>5, <1>6, <1>7, <1>8, <1>9, <1>10, <1>11, <1>12,
           <1>13, <1>14, <1>15, <1>16, <1>17, <1>18, <1>19, <1>20, <1>21, <1>22, <1>23
           DEF ScalerNext, Application, Interrupt, Delivery

\* No step loses a listed buffer.
LEMMA NothingLostNext == Running /\ [ScalerNext]_scaler => NothingLost'
<1> SUFFICES ASSUME Running, [ScalerNext]_scaler PROVE NothingLost'
  OBVIOUS
<1> USE DEF queue, fifos, handler, writer, stream, bounds, history, Goto, AppAt, IsrAt,
            Elsewhere, Before, ScalerTypes, Running
<1> USE DEF Session, Ended, Fed, NothingLost, Quiet, Freed, Stopping
<1>e. Elements(<<>>) = {} /\ <<>> \in Seq(Item) /\ Distinct(<<>>)
  BY DEF Elements, Distinct
<1>s. in \in Seq(Item) /\ out \in Seq(Item)
  BY DEF Item
<1>1. ASSUME NEW count \in {0, Cardinality(Buffer)}, ReqBufs(count) PROVE NothingLost'
  BY <1>1, <1>e DEF ReqBufs
<1>2. ASSUME NEW b \in Buffer, QBuf(b) PROVE NothingLost'
  <2> DEFINE states == [vb EXCEPT ![b] = "queued"]
  <2>1. /\ AppAt("idle") /\ vb[b] = "dequeued"
        /\ UNCHANGED <<app, streaming, bounds, room, stopFlag, out, pre, delay, last,
                        handler, writer, stream, history>>
    BY <1>2 DEF QBuf
  <2>2. states \in [Buffer -> {"absent", "dequeued", "queued", "active", "done"}]
    OBVIOUS
  <2>3. CASE streaming /\ Give(states)
    <3>1. /\ vb' \in [Buffer -> {"absent", "dequeued", "queued", "active", "done"}]
          /\ given' = TRUE /\ fault' = (room # "full" /\ QueuedIn(states) # {})
          /\ list' = list \cup QueuedIn(states) /\ list' \subseteq Buffer
          /\ in' \in Seq(Buffer \cup {Null})
          /\ Elements(in') = Elements(in) \cup QueuedIn(states)
          /\ QueuedIn(states) \subseteq Buffer
      BY <2>2, <2>3, GiveEffect DEF QueuedIn
    <3> QED BY <2>1, <2>3, <3>1, ScalerAssumption DEF AppAt
  <2>4. CASE Keep(states)
    BY <2>1, <2>2, <2>4 DEF Keep
  <2> QED BY <1>2, <2>3, <2>4 DEF QBuf, Session
<1>3. ASSUME NEW b \in Buffer, DQBuf(b) PROVE NothingLost'
  BY <1>3, <1>e DEF DQBuf
<1>4. CASE StreamOn
  <2>1. /\ Goto("idle", "init") /\ ~streaming /\ In("absent") = {} /\ streaming' = TRUE
        /\ UNCHANGED <<givenUp, room, stopFlag, out, pre, delay, last,
                        handler, writer, stream, history>>
    BY <1>4 DEF StreamOn
  <2>2. vb \in [Buffer -> {"absent", "dequeued", "queued", "active", "done"}]
    OBVIOUS
  <2>3. CASE Give(vb)
    <3>1. /\ vb' \in [Buffer -> {"absent", "dequeued", "queued", "active", "done"}]
          /\ given' = TRUE /\ fault' = (room # "full" /\ QueuedIn(vb) # {})
          /\ list' = list \cup QueuedIn(vb) /\ list' \subseteq Buffer
          /\ in' \in Seq(Buffer \cup {Null})
          /\ Elements(in') = Elements(in) \cup QueuedIn(vb)
          /\ QueuedIn(vb) \subseteq Buffer
      BY <2>2, <2>3, GiveEffect DEF QueuedIn
    <3> QED BY <2>1, <2>3, <3>1, ScalerAssumption DEF AppAt
  <2>4. CASE Keep(vb)
    BY <2>1, <2>2, <2>4 DEF Keep
  <2> QED BY <1>4, <2>3, <2>4 DEF StreamOn
<1>5. CASE HwInit
  <2>1. CASE First(in) = Null
    BY <1>5, <2>1 DEF HwInit
  <2>2. CASE First(in) # Null
    <3>1. in # <<>> /\ Head(in) # Null
      BY <2>2 DEF First
    <3>2. /\ Head(in) \in Item /\ Tail(in) \in Seq(Item)
          /\ Elements(in) = {Head(in)} \cup Elements(Tail(in))
      BY <3>1, <1>s, TailElements
    <3> QED BY <1>5, <2>2, <3>1, <3>2 DEF HwInit, Item
  <2> QED BY <2>1, <2>2
<1>6. CASE SetStarted
  BY <1>6, <1>e DEF SetStarted
<1>7. CASE StopRegs
  <2>1. CASE stopFlag
    BY <1>7, <2>1 DEF StopRegs
  <2>2. CASE ~stopFlag
    BY <1>7, <2>2 DEF StopRegs
  <2> QED BY <2>1, <2>2
<1>8. CASE StopFree
  BY <1>8, <1>e DEF StopFree
<1>9. CASE StopKill
  BY <1>9, <1>e DEF StopKill
<1>10. CASE StopDelay
  BY <1>10, <1>e DEF StopDelay
<1>11. CASE StopClear
  BY <1>11, <1>e DEF StopClear
<1>12. CASE StopIrq
  BY <1>12, <1>e DEF StopIrq
<1>13. CASE StreamOff
  BY <1>13, <1>e DEF StreamOff
<1>14. CASE FrameEnd
  BY <1>14, <1>e DEF FrameEnd
<1>15. CASE Sync
  BY <1>15, <1>e DEF Sync
<1>16. CASE IsrTake
  <2>1. CASE in # <<>>
    <3>1. /\ Head(in) \in Item /\ Tail(in) \in Seq(Item)
          /\ Elements(in) = {Head(in)} \cup Elements(Tail(in))
      BY <2>1, <1>s, TailElements
    <3> QED BY <1>16, <2>1, <3>1, ScalerAssumption, ZenonT(90) DEF IsrTake, Item
  <2>2. CASE in = <<>>
    BY <1>16, <2>2 DEF IsrTake
  <2> QED BY <2>1, <2>2
<1>17. CASE IsrConfig
  BY <1>17, <1>e DEF IsrConfig
<1>18. CASE IsrSort
  <2>1. pre \in Item /\ next \in Item
    BY DEF Item
  <2>2. CASE bit = last /\ pre = Null
    <3>1. in' = Put(in, next)
      BY <1>18, <2>2 DEF IsrSort
    <3>2. in' \in Seq(Item) /\ Elements(in') = Elements(in) \cup {IF Freed THEN Null ELSE next}
      BY <2>1, <3>1, <1>s, PutElements
    <3> QED BY <1>18, <2>1, <2>2, <3>2 DEF IsrSort, Item
  <2>3. CASE bit = last /\ pre # Null
    <3>1. in' = Put(in, pre)
      BY <1>18, <2>3 DEF IsrSort
    <3>2. in' \in Seq(Item) /\ Elements(in') = Elements(in) \cup {IF Freed THEN Null ELSE pre}
      BY <2>1, <3>1, <1>s, PutElements
    <3> QED BY <1>18, <2>1, <2>3, <3>2 DEF IsrSort, Item
  <2>4. CASE bit # last /\ pre # Null
    <3>1. out' = Put(out, pre)
      BY <1>18, <2>4 DEF IsrSort
    <3>2. out' \in Seq(Item) /\ Elements(out') = Elements(out) \cup {IF Freed THEN Null ELSE pre}
      BY <2>1, <3>1, <1>s, PutElements
    <3> QED BY <1>18, <2>1, <2>4, <3>2 DEF IsrSort, Item
  <2>5. CASE bit # last /\ pre = Null
    BY <1>18, <2>5 DEF IsrSort
  <2> QED BY <2>2, <2>3, <2>4, <2>5
<1>19. CASE TaskletTake
  <2>1. /\ Head(out) \in Item /\ Tail(out) \in Seq(Item)
        /\ Elements(out) = {Head(out)} \cup Elements(Tail(out))
    BY <1>19, <1>s, TailElements DEF TaskletTake
  <2> QED BY <1>19, <2>1, ScalerAssumption DEF TaskletTake, Item
<1>20. CASE Callback
  BY <1>20, <1>e DEF Callback
<1>21. CASE ThreadTake
  BY <1>21, <1>e DEF ThreadTake
<1>22. CASE ThreadDone
  BY <1>22, <1>e DEF ThreadDone
<1>23. CASE UNCHANGED scaler
  BY <1>23 DEF scaler
<1> QED BY <1>1, <1>2, <1>3, <1>4, <1>5, <1>6, <1>7, <1>8, <1>9, <1>10, <1>11, <1>12,
           <1>13, <1>14, <1>15, <1>16, <1>17, <1>18, <1>19, <1>20, <1>21, <1>22, <1>23
           DEF ScalerNext, Application, Interrupt, Delivery

-----------------------------------------------------------------------------
(* The buffers' ways.                                                          *)

\* No step puts a buffer in a second place.
LEMMA ApartNext ==
  Running /\ Apart /\ Owned /\ Written /\ ~repeated' /\ ~leftOver' /\ [ScalerNext]_scaler =>
    Apart'
<1> SUFFICES ASSUME Running /\ Apart /\ Owned /\ Written /\ ~repeated' /\ ~leftOver',
                    [ScalerNext]_scaler
             PROVE  Apart'
  OBVIOUS
<1> USE DEF queue, fifos, handler, writer, stream, bounds, history, Goto, AppAt, IsrAt,
            Elsewhere, Before, ScalerTypes, Running
<1> USE DEF Session, Ended, Fed, Quiet, Freed, Stopping, Apart, Owned, Written, Known,
            Listed, In
<1>e. Elements(<<>>) = {} /\ <<>> \in Seq(Item) /\ Distinct(<<>>)
  BY DEF Elements, Distinct
<1>s. in \in Seq(Item) /\ out \in Seq(Item)
  BY DEF Item
<1>a. /\ Distinct(in) /\ Distinct(out)
      /\ ~stopFlag /\ pre # Null => pre \notin Elements(in) \cup Elements(out)
  BY DEF Apart, Known, Listed
<1>r. /\ bit = last /\ pre = Null /\ isr = "sort" => ~IsrSort
  BY DEF IsrSort
<1>1. ASSUME NEW count \in {0, Cardinality(Buffer)}, ReqBufs(count) PROVE Apart'
  BY <1>1, <1>e DEF ReqBufs
<1>2. ASSUME NEW b \in Buffer, QBuf(b) PROVE Apart'
  <2> DEFINE states == [vb EXCEPT ![b] = "queued"]
  <2>1. /\ AppAt("idle") /\ vb[b] = "dequeued"
        /\ UNCHANGED <<app, streaming, bounds, room, stopFlag, out, pre, delay, last,
                        handler, writer, stream, history>>
    BY <1>2 DEF QBuf
  <2>2. states \in [Buffer -> {"absent", "dequeued", "queued", "active", "done"}]
    OBVIOUS
  <2>3. CASE streaming /\ Give(states)
    <3>0. (Listed \cup {Known, next, tasklet, mailbox, hand}) \cap QueuedIn(states) \subseteq {Null}
      BY <2>1 DEF QueuedIn, Owned, In, AppAt
    <3>v. In("active")' = In("active") \cup QueuedIn(states)
      <4>1. ASSUME NEW x \in Buffer
            PROVE  vb'[x] = "active" <=> vb[x] = "active" \/ x \in QueuedIn(states)
        <5>1. vb'[x] = IF x \in QueuedIn(states) THEN "active" ELSE states[x]
          BY <2>2, <2>3, <4>1, GiveEffect
        <5>2. states[x] # vb[x] => states[x] = "queued" /\ vb[x] = "dequeued"
          BY <2>1, <4>1
        <5> QED BY <4>1, <5>1, <5>2 DEF QueuedIn
      <4> QED BY <4>1 DEF In, QueuedIn
    <3>d. Distinct(in')
      BY <1>a, <2>2, <2>3, <3>0, GiveEffect DEF Listed
    <3>1. /\ vb' \in [Buffer -> {"absent", "dequeued", "queued", "active", "done"}]
          /\ given' = TRUE /\ fault' = (room # "full" /\ QueuedIn(states) # {})
          /\ list' = list \cup QueuedIn(states) /\ list' \subseteq Buffer
          /\ in' \in Seq(Buffer \cup {Null})
          /\ Elements(in') = Elements(in) \cup QueuedIn(states)
          /\ QueuedIn(states) \subseteq Buffer
      BY <2>2, <2>3, GiveEffect DEF QueuedIn
    <3> QED BY <3>0, <3>d, <3>v, <2>1, <2>3, <3>1, ScalerAssumption, ZenonT(90) DEF AppAt
  <2>4. CASE Keep(states)
    BY <2>1, <2>2, <2>4 DEF Keep
  <2> QED BY <1>2, <2>3, <2>4 DEF QBuf, Session
<1>3. ASSUME NEW b \in Buffer, DQBuf(b) PROVE Apart'
  BY <1>3, <1>e DEF DQBuf
<1>4. CASE StreamOn
  <2>1. /\ Goto("idle", "init") /\ ~streaming /\ In("absent") = {} /\ streaming' = TRUE
        /\ UNCHANGED <<givenUp, room, stopFlag, out, pre, delay, last,
                        handler, writer, stream, history>>
    BY <1>4 DEF StreamOn
  <2>2. vb \in [Buffer -> {"absent", "dequeued", "queued", "active", "done"}]
    OBVIOUS
  <2>3. CASE Give(vb)
    <3>0. (Listed \cup {Known, next, tasklet, mailbox, hand}) \cap QueuedIn(vb) \subseteq {Null}
      BY <2>1 DEF QueuedIn, Owned, In, AppAt
    <3>v. In("active")' = In("active") \cup QueuedIn(vb)
      <4>1. ASSUME NEW x \in Buffer
            PROVE  vb'[x] = "active" <=> vb[x] = "active" \/ x \in QueuedIn(vb)
        <5>1. vb'[x] = IF x \in QueuedIn(vb) THEN "active" ELSE vb[x]
          BY <2>2, <2>3, <4>1, GiveEffect
        <5>2. vb[x] # vb[x] => vb[x] = "queued" /\ vb[x] = "dequeued"
          BY <2>1, <4>1
        <5> QED BY <4>1, <5>1, <5>2 DEF QueuedIn
      <4> QED BY <4>1 DEF In, QueuedIn
    <3>d. Distinct(in')
      BY <1>a, <2>2, <2>3, <3>0, GiveEffect DEF Listed
    <3>1. /\ vb' \in [Buffer -> {"absent", "dequeued", "queued", "active", "done"}]
          /\ given' = TRUE /\ fault' = (room # "full" /\ QueuedIn(vb) # {})
          /\ list' = list \cup QueuedIn(vb) /\ list' \subseteq Buffer
          /\ in' \in Seq(Buffer \cup {Null})
          /\ Elements(in') = Elements(in) \cup QueuedIn(vb)
          /\ QueuedIn(vb) \subseteq Buffer
      BY <2>2, <2>3, GiveEffect DEF QueuedIn
    <3> QED BY <3>0, <3>d, <3>v, <2>1, <2>3, <3>1, ScalerAssumption DEF AppAt
  <2>4. CASE Keep(vb)
    BY <2>1, <2>2, <2>4 DEF Keep
  <2> QED BY <1>4, <2>3, <2>4 DEF StreamOn
<1>5. CASE HwInit
  <2>1. CASE First(in) = Null
    BY <1>5, <2>1 DEF HwInit
  <2>2. CASE First(in) # Null
    <3>1. in # <<>> /\ Head(in) # Null
      BY <2>2 DEF First
    <3>2. /\ Head(in) \in Item /\ Elements(in) = {Head(in)} \cup Elements(Tail(in))
          /\ Distinct(Tail(in)) /\ Head(in) \notin Elements(Tail(in))
      BY <3>1, <1>s, <1>a, TailElements
    <3>3. ~stopFlag /\ pre = Null /\ tasklet = Null /\ isr = "idle" /\ next = Null
      BY <1>5, <3>1, <3>2 DEF HwInit, Ended, Fed, Quiet
    <3> QED BY <1>5, <2>2, <3>1, <3>2, <3>3, ZenonT(90) DEF HwInit, Item
  <2> QED BY <2>1, <2>2
<1>6. CASE SetStarted
  BY <1>6, <1>e DEF SetStarted
<1>7. CASE StopRegs
  <2>1. CASE stopFlag
    BY <1>7, <2>1 DEF StopRegs
  <2>2. CASE ~stopFlag
    BY <1>7, <2>2 DEF StopRegs
  <2> QED BY <2>1, <2>2
<1>8. CASE StopFree
  BY <1>8, <1>e DEF StopFree
<1>9. CASE StopKill
  BY <1>9, <1>e DEF StopKill
<1>10. CASE StopDelay
  BY <1>10, <1>e DEF StopDelay
<1>11. CASE StopClear
  BY <1>11, <1>e DEF StopClear
<1>12. CASE StopIrq
  BY <1>12, <1>e DEF StopIrq
<1>13. CASE StreamOff
  BY <1>13, <1>e DEF StreamOff
<1>14. CASE FrameEnd
  BY <1>14, <1>e DEF FrameEnd
<1>15. CASE Sync
  BY <1>15, <1>e DEF Sync
<1>16. CASE IsrTake
  <2>1. ~stopFlag /\ next = Null
    BY <1>16 DEF IsrTake, Ended, Fed, Quiet
  <2>2. CASE in # <<>>
    <3>1. /\ Head(in) \in Item /\ Elements(in) = {Head(in)} \cup Elements(Tail(in))
          /\ Distinct(Tail(in)) /\ (Head(in) \in Elements(Tail(in)) => Head(in) = Null)
      BY <2>2, <1>s, <1>a, TailElements
    <3> QED BY <1>16, <2>1, <2>2, <3>1, ZenonT(90) DEF IsrTake, Item
  <2>3. CASE in = <<>>
    BY <1>16, <2>1, <2>3 DEF IsrTake
  <2> QED BY <2>2, <2>3
<1>17. CASE IsrConfig
  BY <1>17, <1>e DEF IsrConfig
<1>18. CASE IsrSort
  <2>1. pre \in Item /\ next \in Item /\ ~stopFlag
    BY <1>18 DEF Item, IsrSort, Ended, Quiet
  <2>2. CASE bit = last
    <3>1. pre # Null /\ in' = Put(in, pre)
      BY <1>18, <1>r, <2>2 DEF IsrSort
    <3>2. pre \notin Elements(in)
      BY <1>a, <2>1, <3>1
    <3>3. /\ in' \in Seq(Item) /\ Elements(in') = Elements(in) \cup {IF Freed THEN Null ELSE pre}
          /\ Distinct(in')
      BY <1>a, <2>1, <3>1, <3>2, <1>s, PutElements
    <3> QED BY <1>18, <2>1, <2>2, <3>1, <3>3 DEF IsrSort, Item
  <2>3. CASE bit # last /\ pre # Null
    <3>1. out' = Put(out, pre)
      BY <1>18, <2>3 DEF IsrSort
    <3>2. pre \notin Elements(out)
      BY <1>a, <2>1, <2>3
    <3>3. /\ out' \in Seq(Item) /\ Elements(out') = Elements(out) \cup {IF Freed THEN Null ELSE pre}
          /\ Distinct(out')
      BY <1>a, <2>1, <3>1, <3>2, <1>s, PutElements
    <3> QED BY <1>18, <2>1, <2>3, <3>3 DEF IsrSort, Item
  <2>4. CASE bit # last /\ pre = Null
    BY <1>18, <2>1, <2>4 DEF IsrSort
  <2> QED BY <2>2, <2>3, <2>4
<1>19. CASE TaskletTake
  <2>1. /\ Head(out) \in Item /\ Elements(out) = {Head(out)} \cup Elements(Tail(out))
        /\ Distinct(Tail(out)) /\ (Head(out) \in Elements(Tail(out)) => Head(out) = Null)
    BY <1>19, <1>s, <1>a, TailElements DEF TaskletTake
  <2> QED BY <1>19, <2>1 DEF TaskletTake, Item
<1>20. CASE Callback
  BY <1>20, <1>e DEF Callback
<1>21. CASE ThreadTake
  BY <1>21, <1>e DEF ThreadTake
<1>22. CASE ThreadDone
  BY <1>22, <1>e DEF ThreadDone
<1>23. CASE UNCHANGED scaler
  BY <1>23 DEF scaler
<1> QED BY <1>1, <1>2, <1>3, <1>4, <1>5, <1>6, <1>7, <1>8, <1>9, <1>10, <1>11, <1>12,
           <1>13, <1>14, <1>15, <1>16, <1>17, <1>18, <1>19, <1>20, <1>21, <1>22, <1>23
           DEF ScalerNext, Application, Interrupt, Delivery

\* The buffers that are somewhere stay the driver's.
LEMMA OwnedNext ==
  Running /\ Apart /\ Owned /\ Written /\ ~repeated' /\ ~leftOver' /\ [ScalerNext]_scaler =>
    Owned'
<1> SUFFICES ASSUME Running /\ Apart /\ Owned /\ Written /\ ~repeated' /\ ~leftOver',
                    [ScalerNext]_scaler
             PROVE  Owned'
  OBVIOUS
<1> USE DEF queue, fifos, handler, writer, stream, bounds, history, Goto, AppAt, IsrAt,
            Elsewhere, Before, ScalerTypes, Running
<1> USE DEF Session, Ended, Fed, Quiet, Freed, Stopping, Apart, Owned, Written, Known,
            Listed, In
<1>e. Elements(<<>>) = {} /\ <<>> \in Seq(Item) /\ Distinct(<<>>)
  BY DEF Elements, Distinct
<1>s. in \in Seq(Item) /\ out \in Seq(Item)
  BY DEF Item
<1>a. /\ Distinct(in) /\ Distinct(out)
      /\ ~stopFlag /\ pre # Null => pre \notin Elements(in) \cup Elements(out)
  BY DEF Apart, Known, Listed
<1>r. /\ bit = last /\ pre = Null /\ isr = "sort" => ~IsrSort
  BY DEF IsrSort
<1>1. ASSUME NEW count \in {0, Cardinality(Buffer)}, ReqBufs(count) PROVE Owned'
  BY <1>1, <1>e DEF ReqBufs
<1>2. ASSUME NEW b \in Buffer, QBuf(b) PROVE Owned'
  <2> DEFINE states == [vb EXCEPT ![b] = "queued"]
  <2>1. /\ AppAt("idle") /\ vb[b] = "dequeued"
        /\ UNCHANGED <<app, streaming, bounds, room, stopFlag, out, pre, delay, last,
                        handler, writer, stream, history>>
    BY <1>2 DEF QBuf
  <2>2. states \in [Buffer -> {"absent", "dequeued", "queued", "active", "done"}]
    OBVIOUS
  <2>3. CASE streaming /\ Give(states)
    <3>0. (Listed \cup {Known, next, tasklet, mailbox, hand}) \cap QueuedIn(states) \subseteq {Null}
      BY <2>1 DEF QueuedIn, Owned, In, AppAt
    <3>v. In("active")' = In("active") \cup QueuedIn(states)
      <4>1. ASSUME NEW x \in Buffer
            PROVE  vb'[x] = "active" <=> vb[x] = "active" \/ x \in QueuedIn(states)
        <5>1. vb'[x] = IF x \in QueuedIn(states) THEN "active" ELSE states[x]
          BY <2>2, <2>3, <4>1, GiveEffect
        <5>2. states[x] # vb[x] => states[x] = "queued" /\ vb[x] = "dequeued"
          BY <2>1, <4>1
        <5> QED BY <4>1, <5>1, <5>2 DEF QueuedIn
      <4> QED BY <4>1 DEF In, QueuedIn
    <3>d. Distinct(in')
      BY <1>a, <2>2, <2>3, <3>0, GiveEffect DEF Listed
    <3>1. /\ vb' \in [Buffer -> {"absent", "dequeued", "queued", "active", "done"}]
          /\ given' = TRUE /\ fault' = (room # "full" /\ QueuedIn(states) # {})
          /\ list' = list \cup QueuedIn(states) /\ list' \subseteq Buffer
          /\ in' \in Seq(Buffer \cup {Null})
          /\ Elements(in') = Elements(in) \cup QueuedIn(states)
          /\ QueuedIn(states) \subseteq Buffer
      BY <2>2, <2>3, GiveEffect DEF QueuedIn
    <3> QED BY <3>0, <3>d, <3>v, <2>1, <2>3, <3>1, ScalerAssumption DEF AppAt
  <2>4. CASE Keep(states)
    BY <2>1, <2>2, <2>4 DEF Keep
  <2> QED BY <1>2, <2>3, <2>4 DEF QBuf, Session
<1>3. ASSUME NEW b \in Buffer, DQBuf(b) PROVE Owned'
  BY <1>3, <1>e DEF DQBuf
<1>4. CASE StreamOn
  <2>1. /\ Goto("idle", "init") /\ ~streaming /\ In("absent") = {} /\ streaming' = TRUE
        /\ UNCHANGED <<givenUp, room, stopFlag, out, pre, delay, last,
                        handler, writer, stream, history>>
    BY <1>4 DEF StreamOn
  <2>2. vb \in [Buffer -> {"absent", "dequeued", "queued", "active", "done"}]
    OBVIOUS
  <2>3. CASE Give(vb)
    <3>0. (Listed \cup {Known, next, tasklet, mailbox, hand}) \cap QueuedIn(vb) \subseteq {Null}
      BY <2>1 DEF QueuedIn, Owned, In, AppAt
    <3>v. In("active")' = In("active") \cup QueuedIn(vb)
      <4>1. ASSUME NEW x \in Buffer
            PROVE  vb'[x] = "active" <=> vb[x] = "active" \/ x \in QueuedIn(vb)
        <5>1. vb'[x] = IF x \in QueuedIn(vb) THEN "active" ELSE vb[x]
          BY <2>2, <2>3, <4>1, GiveEffect
        <5>2. vb[x] # vb[x] => vb[x] = "queued" /\ vb[x] = "dequeued"
          BY <2>1, <4>1
        <5> QED BY <4>1, <5>1, <5>2 DEF QueuedIn
      <4> QED BY <4>1 DEF In, QueuedIn
    <3>d. Distinct(in')
      BY <1>a, <2>2, <2>3, <3>0, GiveEffect DEF Listed
    <3>1. /\ vb' \in [Buffer -> {"absent", "dequeued", "queued", "active", "done"}]
          /\ given' = TRUE /\ fault' = (room # "full" /\ QueuedIn(vb) # {})
          /\ list' = list \cup QueuedIn(vb) /\ list' \subseteq Buffer
          /\ in' \in Seq(Buffer \cup {Null})
          /\ Elements(in') = Elements(in) \cup QueuedIn(vb)
          /\ QueuedIn(vb) \subseteq Buffer
      BY <2>2, <2>3, GiveEffect DEF QueuedIn
    <3> QED BY <3>0, <3>d, <3>v, <2>1, <2>3, <3>1, ScalerAssumption DEF AppAt
  <2>4. CASE Keep(vb)
    BY <2>1, <2>2, <2>4 DEF Keep
  <2> QED BY <1>4, <2>3, <2>4 DEF StreamOn
<1>5. CASE HwInit
  <2>1. CASE First(in) = Null
    BY <1>5, <2>1 DEF HwInit
  <2>2. CASE First(in) # Null
    <3>1. in # <<>> /\ Head(in) # Null
      BY <2>2 DEF First
    <3>2. /\ Head(in) \in Item /\ Elements(in) = {Head(in)} \cup Elements(Tail(in))
          /\ Distinct(Tail(in)) /\ Head(in) \notin Elements(Tail(in))
      BY <3>1, <1>s, <1>a, TailElements
    <3>3. ~stopFlag /\ pre = Null /\ tasklet = Null /\ isr = "idle" /\ next = Null
      BY <1>5, <3>1, <3>2 DEF HwInit, Ended, Fed, Quiet
    <3> QED BY <1>5, <2>2, <3>1, <3>2, <3>3, ZenonT(90) DEF HwInit, Item
  <2> QED BY <2>1, <2>2
<1>6. CASE SetStarted
  BY <1>6, <1>e DEF SetStarted
<1>7. CASE StopRegs
  <2>1. CASE stopFlag
    BY <1>7, <2>1 DEF StopRegs
  <2>2. CASE ~stopFlag
    BY <1>7, <2>2 DEF StopRegs
  <2> QED BY <2>1, <2>2
<1>8. CASE StopFree
  BY <1>8, <1>e DEF StopFree
<1>9. CASE StopKill
  BY <1>9, <1>e DEF StopKill
<1>10. CASE StopDelay
  BY <1>10, <1>e DEF StopDelay
<1>11. CASE StopClear
  BY <1>11, <1>e DEF StopClear
<1>12. CASE StopIrq
  BY <1>12, <1>e DEF StopIrq
<1>13. CASE StreamOff
  BY <1>13, <1>e DEF StreamOff
<1>14. CASE FrameEnd
  BY <1>14, <1>e DEF FrameEnd
<1>15. CASE Sync
  BY <1>15, <1>e DEF Sync
<1>16. CASE IsrTake
  <2>1. ~stopFlag /\ next = Null
    BY <1>16 DEF IsrTake, Ended, Fed, Quiet
  <2>2. CASE in # <<>>
    <3>1. /\ Head(in) \in Item /\ Elements(in) = {Head(in)} \cup Elements(Tail(in))
          /\ Distinct(Tail(in)) /\ (Head(in) \in Elements(Tail(in)) => Head(in) = Null)
      BY <2>2, <1>s, <1>a, TailElements
    <3> QED BY <1>16, <2>1, <2>2, <3>1 DEF IsrTake, Item
  <2>3. CASE in = <<>>
    BY <1>16, <2>1, <2>3 DEF IsrTake
  <2> QED BY <2>2, <2>3
<1>17. CASE IsrConfig
  BY <1>17, <1>e DEF IsrConfig
<1>18. CASE IsrSort
  <2>1. pre \in Item /\ next \in Item /\ ~stopFlag
    BY <1>18 DEF Item, IsrSort, Ended, Quiet
  <2>2. CASE bit = last
    <3>1. pre # Null /\ in' = Put(in, pre)
      BY <1>18, <1>r, <2>2 DEF IsrSort
    <3>2. pre \notin Elements(in)
      BY <1>a, <2>1, <3>1
    <3>3. /\ in' \in Seq(Item) /\ Elements(in') = Elements(in) \cup {IF Freed THEN Null ELSE pre}
          /\ Distinct(in')
      BY <1>a, <2>1, <3>1, <3>2, <1>s, PutElements
    <3> QED BY <1>18, <2>1, <2>2, <3>1, <3>3 DEF IsrSort, Item
  <2>3. CASE bit # last /\ pre # Null
    <3>1. out' = Put(out, pre)
      BY <1>18, <2>3 DEF IsrSort
    <3>2. pre \notin Elements(out)
      BY <1>a, <2>1, <2>3
    <3>3. /\ out' \in Seq(Item) /\ Elements(out') = Elements(out) \cup {IF Freed THEN Null ELSE pre}
          /\ Distinct(out')
      BY <1>a, <2>1, <3>1, <3>2, <1>s, PutElements
    <3> QED BY <1>18, <2>1, <2>3, <3>3 DEF IsrSort, Item
  <2>4. CASE bit # last /\ pre = Null
    BY <1>18, <2>1, <2>4 DEF IsrSort
  <2> QED BY <2>2, <2>3, <2>4
<1>19. CASE TaskletTake
  <2>1. /\ Head(out) \in Item /\ Elements(out) = {Head(out)} \cup Elements(Tail(out))
        /\ Distinct(Tail(out)) /\ (Head(out) \in Elements(Tail(out)) => Head(out) = Null)
    BY <1>19, <1>s, <1>a, TailElements DEF TaskletTake
  <2> QED BY <1>19, <2>1 DEF TaskletTake, Item
<1>20. CASE Callback
  BY <1>20, <1>e DEF Callback
<1>21. CASE ThreadTake
  BY <1>21, <1>e DEF ThreadTake
<1>22. CASE ThreadDone
  BY <1>22, <1>e DEF ThreadDone
<1>23. CASE UNCHANGED scaler
  BY <1>23 DEF scaler
<1> QED BY <1>1, <1>2, <1>3, <1>4, <1>5, <1>6, <1>7, <1>8, <1>9, <1>10, <1>11, <1>12,
           <1>13, <1>14, <1>15, <1>16, <1>17, <1>18, <1>19, <1>20, <1>21, <1>22, <1>23
           DEF ScalerNext, Application, Interrupt, Delivery

\* What is on its way to the application stays written.
LEMMA WrittenNext ==
  Running /\ Apart /\ Owned /\ Written /\ ~repeated' /\ ~leftOver' /\ [ScalerNext]_scaler =>
    Written'
<1> SUFFICES ASSUME Running /\ Apart /\ Owned /\ Written /\ ~repeated' /\ ~leftOver',
                    [ScalerNext]_scaler
             PROVE  Written'
  OBVIOUS
<1> USE DEF queue, fifos, handler, writer, stream, bounds, history, Goto, AppAt, IsrAt,
            Elsewhere, Before, ScalerTypes, Running
<1> USE DEF Session, Ended, Fed, Quiet, Freed, Stopping, Apart, Owned, Written, Known,
            Listed, In
<1>e. Elements(<<>>) = {} /\ <<>> \in Seq(Item) /\ Distinct(<<>>)
  BY DEF Elements, Distinct
<1>s. in \in Seq(Item) /\ out \in Seq(Item)
  BY DEF Item
<1>a. /\ Distinct(in) /\ Distinct(out)
      /\ ~stopFlag /\ pre # Null => pre \notin Elements(in) \cup Elements(out)
  BY DEF Apart, Known, Listed
<1>r. /\ bit = last /\ pre = Null /\ isr = "sort" => ~IsrSort
  BY DEF IsrSort
<1>1. ASSUME NEW count \in {0, Cardinality(Buffer)}, ReqBufs(count) PROVE Written'
  BY <1>1, <1>e DEF ReqBufs
<1>2. ASSUME NEW b \in Buffer, QBuf(b) PROVE Written'
  <2> DEFINE states == [vb EXCEPT ![b] = "queued"]
  <2>1. /\ AppAt("idle") /\ vb[b] = "dequeued"
        /\ UNCHANGED <<app, streaming, bounds, room, stopFlag, out, pre, delay, last,
                        handler, writer, stream, history>>
    BY <1>2 DEF QBuf
  <2>2. states \in [Buffer -> {"absent", "dequeued", "queued", "active", "done"}]
    OBVIOUS
  <2>3. CASE streaming /\ Give(states)
    <3>0. (Listed \cup {Known, next, tasklet, mailbox, hand}) \cap QueuedIn(states) \subseteq {Null}
      BY <2>1 DEF QueuedIn, Owned, In, AppAt
    <3>v. In("active")' = In("active") \cup QueuedIn(states)
      <4>1. ASSUME NEW x \in Buffer
            PROVE  vb'[x] = "active" <=> vb[x] = "active" \/ x \in QueuedIn(states)
        <5>1. vb'[x] = IF x \in QueuedIn(states) THEN "active" ELSE states[x]
          BY <2>2, <2>3, <4>1, GiveEffect
        <5>2. states[x] # vb[x] => states[x] = "queued" /\ vb[x] = "dequeued"
          BY <2>1, <4>1
        <5> QED BY <4>1, <5>1, <5>2 DEF QueuedIn
      <4> QED BY <4>1 DEF In, QueuedIn
    <3>d. Distinct(in')
      BY <1>a, <2>2, <2>3, <3>0, GiveEffect DEF Listed
    <3>1. /\ vb' \in [Buffer -> {"absent", "dequeued", "queued", "active", "done"}]
          /\ given' = TRUE /\ fault' = (room # "full" /\ QueuedIn(states) # {})
          /\ list' = list \cup QueuedIn(states) /\ list' \subseteq Buffer
          /\ in' \in Seq(Buffer \cup {Null})
          /\ Elements(in') = Elements(in) \cup QueuedIn(states)
          /\ QueuedIn(states) \subseteq Buffer
      BY <2>2, <2>3, GiveEffect DEF QueuedIn
    <3> QED BY <3>0, <3>d, <3>v, <2>1, <2>3, <3>1, ScalerAssumption DEF AppAt
  <2>4. CASE Keep(states)
    BY <2>1, <2>2, <2>4 DEF Keep
  <2> QED BY <1>2, <2>3, <2>4 DEF QBuf, Session
<1>3. ASSUME NEW b \in Buffer, DQBuf(b) PROVE Written'
  BY <1>3, <1>e DEF DQBuf
<1>4. CASE StreamOn
  <2>1. /\ Goto("idle", "init") /\ ~streaming /\ In("absent") = {} /\ streaming' = TRUE
        /\ UNCHANGED <<givenUp, room, stopFlag, out, pre, delay, last,
                        handler, writer, stream, history>>
    BY <1>4 DEF StreamOn
  <2>2. vb \in [Buffer -> {"absent", "dequeued", "queued", "active", "done"}]
    OBVIOUS
  <2>3. CASE Give(vb)
    <3>0. (Listed \cup {Known, next, tasklet, mailbox, hand}) \cap QueuedIn(vb) \subseteq {Null}
      BY <2>1 DEF QueuedIn, Owned, In, AppAt
    <3>v. In("active")' = In("active") \cup QueuedIn(vb)
      <4>1. ASSUME NEW x \in Buffer
            PROVE  vb'[x] = "active" <=> vb[x] = "active" \/ x \in QueuedIn(vb)
        <5>1. vb'[x] = IF x \in QueuedIn(vb) THEN "active" ELSE vb[x]
          BY <2>2, <2>3, <4>1, GiveEffect
        <5>2. vb[x] # vb[x] => vb[x] = "queued" /\ vb[x] = "dequeued"
          BY <2>1, <4>1
        <5> QED BY <4>1, <5>1, <5>2 DEF QueuedIn
      <4> QED BY <4>1 DEF In, QueuedIn
    <3>d. Distinct(in')
      BY <1>a, <2>2, <2>3, <3>0, GiveEffect DEF Listed
    <3>1. /\ vb' \in [Buffer -> {"absent", "dequeued", "queued", "active", "done"}]
          /\ given' = TRUE /\ fault' = (room # "full" /\ QueuedIn(vb) # {})
          /\ list' = list \cup QueuedIn(vb) /\ list' \subseteq Buffer
          /\ in' \in Seq(Buffer \cup {Null})
          /\ Elements(in') = Elements(in) \cup QueuedIn(vb)
          /\ QueuedIn(vb) \subseteq Buffer
      BY <2>2, <2>3, GiveEffect DEF QueuedIn
    <3> QED BY <3>0, <3>d, <3>v, <2>1, <2>3, <3>1, ScalerAssumption DEF AppAt
  <2>4. CASE Keep(vb)
    BY <2>1, <2>2, <2>4 DEF Keep
  <2> QED BY <1>4, <2>3, <2>4 DEF StreamOn
<1>5. CASE HwInit
  <2>1. CASE First(in) = Null
    BY <1>5, <2>1 DEF HwInit
  <2>2. CASE First(in) # Null
    <3>1. in # <<>> /\ Head(in) # Null
      BY <2>2 DEF First
    <3>2. /\ Head(in) \in Item /\ Elements(in) = {Head(in)} \cup Elements(Tail(in))
          /\ Distinct(Tail(in)) /\ Head(in) \notin Elements(Tail(in))
      BY <3>1, <1>s, <1>a, TailElements
    <3>3. ~stopFlag /\ pre = Null /\ tasklet = Null /\ isr = "idle" /\ next = Null
      BY <1>5, <3>1, <3>2 DEF HwInit, Ended, Fed, Quiet
    <3> QED BY <1>5, <2>2, <3>1, <3>2, <3>3 DEF HwInit, Item
  <2> QED BY <2>1, <2>2
<1>6. CASE SetStarted
  BY <1>6, <1>e DEF SetStarted
<1>7. CASE StopRegs
  <2>1. CASE stopFlag
    BY <1>7, <2>1 DEF StopRegs
  <2>2. CASE ~stopFlag
    BY <1>7, <2>2 DEF StopRegs
  <2> QED BY <2>1, <2>2
<1>8. CASE StopFree
  BY <1>8, <1>e DEF StopFree
<1>9. CASE StopKill
  BY <1>9, <1>e DEF StopKill
<1>10. CASE StopDelay
  BY <1>10, <1>e DEF StopDelay
<1>11. CASE StopClear
  BY <1>11, <1>e DEF StopClear
<1>12. CASE StopIrq
  BY <1>12, <1>e DEF StopIrq
<1>13. CASE StreamOff
  BY <1>13, <1>e DEF StreamOff
<1>14. CASE FrameEnd
  BY <1>14, <1>e DEF FrameEnd
<1>15. CASE Sync
  BY <1>15, <1>e DEF Sync
<1>16. CASE IsrTake
  <2>1. ~stopFlag /\ next = Null
    BY <1>16 DEF IsrTake, Ended, Fed, Quiet
  <2>2. CASE in # <<>>
    <3>1. /\ Head(in) \in Item /\ Elements(in) = {Head(in)} \cup Elements(Tail(in))
          /\ Distinct(Tail(in)) /\ (Head(in) \in Elements(Tail(in)) => Head(in) = Null)
      BY <2>2, <1>s, <1>a, TailElements
    <3> QED BY <1>16, <2>1, <2>2, <3>1 DEF IsrTake, Item
  <2>3. CASE in = <<>>
    BY <1>16, <2>1, <2>3 DEF IsrTake
  <2> QED BY <2>2, <2>3
<1>17. CASE IsrConfig
  BY <1>17, <1>e DEF IsrConfig
<1>18. CASE IsrSort
  <2>1. pre \in Item /\ next \in Item /\ ~stopFlag
    BY <1>18 DEF Item, IsrSort, Ended, Quiet
  <2>2. CASE bit = last
    <3>1. pre # Null /\ in' = Put(in, pre)
      BY <1>18, <1>r, <2>2 DEF IsrSort
    <3>2. pre \notin Elements(in)
      BY <1>a, <2>1, <3>1
    <3>3. /\ in' \in Seq(Item) /\ Elements(in') = Elements(in) \cup {IF Freed THEN Null ELSE pre}
          /\ Distinct(in')
      BY <1>a, <2>1, <3>1, <3>2, <1>s, PutElements
    <3> QED BY <1>18, <2>1, <2>2, <3>1, <3>3 DEF IsrSort, Item
  <2>3. CASE bit # last /\ pre # Null
    <3>1. out' = Put(out, pre)
      BY <1>18, <2>3 DEF IsrSort
    <3>2. pre \notin Elements(out)
      BY <1>a, <2>1, <2>3
    <3>3. /\ out' \in Seq(Item) /\ Elements(out') = Elements(out) \cup {IF Freed THEN Null ELSE pre}
          /\ Distinct(out')
      BY <1>a, <2>1, <3>1, <3>2, <1>s, PutElements
    <3> QED BY <1>18, <2>1, <2>3, <3>3 DEF IsrSort, Item
  <2>4. CASE bit # last /\ pre = Null
    BY <1>18, <2>1, <2>4 DEF IsrSort
  <2> QED BY <2>2, <2>3, <2>4
<1>19. CASE TaskletTake
  <2>1. /\ Head(out) \in Item /\ Elements(out) = {Head(out)} \cup Elements(Tail(out))
        /\ Distinct(Tail(out)) /\ (Head(out) \in Elements(Tail(out)) => Head(out) = Null)
    BY <1>19, <1>s, <1>a, TailElements DEF TaskletTake
  <2> QED BY <1>19, <2>1 DEF TaskletTake, Item
<1>20. CASE Callback
  BY <1>20, <1>e DEF Callback
<1>21. CASE ThreadTake
  BY <1>21, <1>e DEF ThreadTake
<1>22. CASE ThreadDone
  BY <1>22, <1>e DEF ThreadDone
<1>23. CASE UNCHANGED scaler
  BY <1>23 DEF scaler
<1> QED BY <1>1, <1>2, <1>3, <1>4, <1>5, <1>6, <1>7, <1>8, <1>9, <1>10, <1>11, <1>12,
           <1>13, <1>14, <1>15, <1>16, <1>17, <1>18, <1>19, <1>20, <1>21, <1>22, <1>23
           DEF ScalerNext, Application, Interrupt, Delivery

\* Once an incomplete frame had nowhere else to go, or one was left over, that
\* is remembered.
LEMMA ExcusesStay ==
  ScalerTypes /\ [ScalerNext]_scaler => (repeated => repeated') /\ (leftOver => leftOver')
<1> SUFFICES ASSUME ScalerTypes, [ScalerNext]_scaler
             PROVE  (repeated => repeated') /\ (leftOver => leftOver')
  OBVIOUS
<1> USE DEF history
<1>1. CASE StreamOff
  BY <1>1 DEF StreamOff, ScalerTypes
<1>2. CASE IsrSort
  BY <1>2 DEF IsrSort, ScalerTypes
<1>3. CASE (\E count \in {0, Cardinality(Buffer)} : ReqBufs(count))
             \/ (\E b \in Buffer : QBuf(b) \/ DQBuf(b))
  BY <1>3 DEF ReqBufs, QBuf, DQBuf, ScalerTypes
<1>4. CASE StreamOn \/ HwInit \/ SetStarted
  BY <1>4 DEF StreamOn, HwInit, SetStarted, ScalerTypes
<1>5. CASE StopRegs \/ StopFree \/ StopKill \/ StopDelay \/ StopClear \/ StopIrq
  BY <1>5 DEF StopRegs, StopFree, StopKill, StopDelay, StopClear, StopIrq, ScalerTypes
<1>6. CASE FrameEnd \/ Sync \/ IsrTake \/ IsrConfig
  BY <1>6 DEF FrameEnd, Sync, IsrTake, IsrConfig, ScalerTypes
<1>7. CASE Delivery
  BY <1>7 DEF Delivery, Before, TaskletTake, Callback, ThreadTake, ThreadDone, ScalerTypes
<1> QED BY <1>1, <1>2, <1>3, <1>4, <1>5, <1>6, <1>7 DEF ScalerNext, Application, Interrupt, scaler

\* Every step keeps the buffers' ways in order.
LEMMA OrderedNext == Running /\ Ordered /\ [ScalerNext]_scaler => Ordered'
<1> SUFFICES ASSUME Running, Ordered, [ScalerNext]_scaler, ~repeated', ~leftOver'
             PROVE  Apart' /\ Owned' /\ Written'
  BY DEF Ordered
<1>1. Apart /\ Owned /\ Written
  BY ExcusesStay DEF Ordered, Running
<1> QED BY <1>1, ApartNext, OwnedNext, WrittenNext
-----------------------------------------------------------------------------
(* The theorems.                                                               *)

\* The invariant, what the scaler's properties follow from.
THEOREM ScalerInvariant == ScalerSpec => []ScalerInv
<1>1. ScalerInit => ScalerInv
  <2> SUFFICES ASSUME ScalerInit PROVE ScalerInv
    OBVIOUS
  <2>1. Elements(<<>>) = {} /\ Distinct(<<>>)
    BY DEF Elements, Distinct
  <2>2. ScalerTypes
    BY TypesInit
  <2>3. Session /\ Ended /\ Fed /\ NothingLost
    BY <2>1 DEF ScalerInit, Session, Ended, Fed, NothingLost, Quiet, Freed, Stopping
  <2>4. Apart /\ Owned /\ Written
    BY <2>1 DEF ScalerInit, Apart, Owned, Written, Known, Listed
  <2> QED BY <2>2, <2>3, <2>4 DEF ScalerInv, Running, Ordered
<1>2. ScalerInv /\ [ScalerNext]_scaler => ScalerInv'
  BY TypesNext, SessionNext, EndedNext, FedNext, NothingLostNext, OrderedNext
     DEF ScalerInv, Running
<1> QED BY <1>1, <1>2, PTL DEF ScalerSpec

\* Every variable of the scaler keeps its type: lists and fifos hold buffers,
\* or the null pointer that a freed fifo gives.
THEOREM ScalerTypesCorrect == ScalerSpec => []ScalerTypes
<1>1. ScalerInv => ScalerTypes
  BY DEF ScalerInv, Running
<1> QED BY <1>1, ScalerInvariant, PTL

\* As long as nobody stops the scaler, its handler has a buffer to program.
THEOREM HandlerHasBuffer == ScalerSpec => []RunningHasBuffer
<1>1. ScalerInv => RunningHasBuffer
  BY DEF ScalerInv, Running, Fed, RunningHasBuffer, Freed, Stopping
<1> QED BY <1>1, ScalerInvariant, PTL

\* Every buffer videobuf2 has given to the driver is somewhere on the round from
\* fifo to writer to tasklet to thread, or its frame was refused.
THEOREM NoneIsLost == ScalerSpec => []NothingLost
<1>1. ScalerInv => NothingLost
  BY DEF ScalerInv, Running
<1> QED BY <1>1, ScalerInvariant, PTL

\* A frame handed over is complete, and the scaler can no longer write to its
\* buffer, but for the two ways that the property names.
THEOREM HandedOverIsWhole == ScalerSpec => []HandedOverWhole
<1>1. ScalerInv => HandedOverWhole
  <2> SUFFICES ASSUME Running, Apart, Owned, Written PROVE HandedOverWhole
    BY DEF ScalerInv, Ordered, HandedOverWhole, LockedUnlessRepeated, DeliveredIsWhole
  <2>1. on => ~stopFlag /\ (addr = pre \/ addr = next) /\ addr # Null
    BY DEF Running, Session, Ended, Fed, Quiet, Written
  <2>2. Writable \subseteq In("active")
    BY <2>1 DEF Writable, Owned, Known, Listed
  <2>3. mailbox \notin Writable /\ hand \notin Writable
    BY <2>1 DEF Writable, Apart, Known, Listed
  <2>4. Writable \cap HandedOver = {}
    BY <2>2, <2>3 DEF HandedOver, In
  <2>5. DeliveredIsWhole
    BY DEF DeliveredIsWhole, Written
  <2> QED BY <2>4, <2>5 DEF HandedOverWhole, LockedUnlessRepeated
<1> QED BY <1>1, ScalerInvariant, PTL
===============================================================================
