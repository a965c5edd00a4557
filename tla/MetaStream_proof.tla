--------------------------- MODULE MetaStream_proof ---------------------------
(* Proofs about the metadata stream, for any set of buffers.                   *)
EXTENDS MetaStream, TLAPS

Filling == fw \in {"fill", "notify"}

\* The callback knows its buffer while it has one.
HandKnown == pbuf # Null <=> fw \in {"popped", "fill"}

\* Without a race the counter says what the callback does, and a callback with a
\* buffer finds stream off before its last look.
CountExact ==
  ~raced => /\ IF Filling THEN running = 1 ELSE running \in {-1, 0}
            /\ fw = "popped" => running = 0
            /\ fw = "popped" \/ Filling => ~Waited

\* Only one callback counts itself at a time.
CountedOnce == running = 1 => Filling \/ fw = "astray"

\* The list is empty once it has been released.
Released == app \in {"unflag", "free", "cancel"} /\ ~raced => list = {}

\* vb2 has given no buffer to a stream that is not set up.
NothingGiven == app \in {"closed", "opened"} => In("active") = {}

IInv ==
  TypeOK /\ HandKnown /\ CountExact /\ CountedOnce /\ Released /\ NothingGiven /\ NoBufferLost

LEMMA InitIInv == Init => IInv
<1> SUFFICES ASSUME Init PROVE IInv
  OBVIOUS
<1>1. TypeOK
  <2>1. running \in -1..1
    BY DEF Init
  <2> QED BY <2>1 DEF Init, TypeOK
<1>4. In("active") = {}
  BY DEF Init, In
<1>2. HandKnown /\ CountExact /\ CountedOnce /\ Released
  BY DEF Init, HandKnown, CountExact, CountedOnce, Released, Filling, Waited
<1>3. NothingGiven /\ NoBufferLost
  BY <1>4 DEF Init, NothingGiven, NoBufferLost
<1> QED BY <1>1, <1>2, <1>3 DEF IInv

-----------------------------------------------------------------------------
\* What the application's calls do to the buffers.
LEMMA GiveKeeps ==
  ASSUME IInv, app \in {"idle"}, NEW states \in [Buffer -> {"dequeued", "queued", "active", "done", "error"}],
         \A x \in Buffer : states[x] = "active" <=> vb[x] = "active",
         Give(states) \/ Keep(states),
         UNCHANGED <<indexed, started, running, fw, pbuf, raced, closing>>,
         streaming' \in BOOLEAN, app' \in {"idle", "reset"}
  PROVE  IInv'
<1>1. TypeOK'
  <2>1. CASE Keep(states)
    BY <2>1 DEF IInv, TypeOK, Keep
  <2>2. CASE Give(states)
    <3> DEFINE bs == {x \in Buffer : states[x] = "queued"}
    <3>1. /\ vb' = [x \in Buffer |-> IF x \in bs THEN "active" ELSE states[x]]
          /\ given' = TRUE /\ list' = list \cup bs
      BY <2>2 DEF Give
    <3>2. vb' \in [Buffer -> {"dequeued", "queued", "active", "done", "error"}]
      BY <3>1
    <3>3. bs \subseteq Buffer
      OBVIOUS
    <3> HIDE DEF bs
    <3> QED BY <3>1, <3>2, <3>3 DEF IInv, TypeOK
  <2> QED BY <2>1, <2>2
<1>2. HandKnown' /\ CountExact' /\ CountedOnce' /\ Released' /\ NothingGiven'
  BY DEF IInv, HandKnown, CountExact, CountedOnce, Released, NothingGiven, Filling, Waited
<1>3. ASSUME ~raced PROVE pbuf # Null => vb[pbuf] = "active"
  BY <1>3 DEF IInv, NoBufferLost, In
<1>4. NoBufferLost'
  <2>1. CASE Keep(states)
    BY <2>1 DEF IInv, NoBufferLost, In, Keep, TypeOK
  <2>2. CASE Give(states)
    <3> DEFINE bs == {x \in Buffer : states[x] = "queued"}
    <3>1. list' = list \cup bs /\ vb' = [x \in Buffer |-> IF x \in bs THEN "active" ELSE states[x]]
      BY <2>2 DEF Give
    <3>2. In("active")' = In("active") \cup bs
      BY <3>1 DEF In
    <3>3. ~raced => pbuf \notin bs
      BY <1>3, MetaAssumption
    <3> HIDE DEF bs
    <3> QED BY <3>1, <3>2, <3>3 DEF IInv, NoBufferLost
  <2> QED BY <2>1, <2>2
<1> QED BY <1>1, <1>2, <1>4 DEF IInv

LEMMA AppIInv == IInv /\ App => IInv'
<1> SUFFICES ASSUME IInv, App PROVE IInv'
  OBVIOUS
<1> USE DEF Goto
<1>1. CASE Open
  <2>1. raced' \in BOOLEAN /\ (~raced' => fw = "idle")
    BY <1>1 DEF Open
  <2>2. TypeOK'
    <3>1. running' \in -1..1
      BY <1>1 DEF Open
    <3> QED BY <1>1, <2>1, <3>1 DEF Open, IInv, TypeOK, queue, callback
  <2>3. In("active")' = {}
    BY <1>1 DEF Open, IInv, NothingGiven, In, queue
  <2>4. HandKnown' /\ CountExact' /\ CountedOnce' /\ Released'
    BY <1>1, <2>1 DEF Open, IInv, HandKnown, CountExact, CountedOnce, Released, Filling, Waited, callback
  <2>5. ~raced' => pbuf' = Null
    BY <1>1, <2>1 DEF Open, IInv, HandKnown, callback
  <2> QED BY <1>1, <2>2, <2>3, <2>4, <2>5 DEF Open, IInv, NothingGiven, NoBufferLost
<1>2. CASE SetFormat
  BY <1>2 DEF SetFormat, IInv, TypeOK, HandKnown, CountExact, CountedOnce, Released, NothingGiven,
     NoBufferLost, Filling, Waited, In, queue, callback
<1>3. ASSUME NEW b \in Buffer, QBuf(b) PROVE IInv'
  <2> DEFINE states == [vb EXCEPT ![b] = "queued"]
  <2>1. /\ states \in [Buffer -> {"dequeued", "queued", "active", "done", "error"}]
        /\ \A x \in Buffer : states[x] = "active" <=> vb[x] = "active"
    BY <1>3 DEF QBuf, IInv, TypeOK
  <2>2. Give(states) \/ Keep(states)
    BY <1>3 DEF QBuf
  <2>3. /\ UNCHANGED <<indexed, started, running, fw, pbuf, raced, closing>>
        /\ streaming' \in BOOLEAN /\ app = "idle" /\ app' = "idle"
    BY <1>3 DEF QBuf, IInv, TypeOK, callback
  <2> HIDE DEF states
  <2> QED BY <2>1, <2>2, <2>3, GiveKeeps
<1>4. ASSUME NEW b \in Buffer, DQBuf(b) PROVE IInv'
  <2>1. In("active")' = In("active") /\ TypeOK'
    BY <1>4 DEF DQBuf, IInv, TypeOK, In, stream, callback
  <2> QED BY <1>4, <2>1 DEF DQBuf, IInv, HandKnown, CountExact, CountedOnce, Released, NothingGiven,
             NoBufferLost, Filling, Waited, stream, callback
<1>5. CASE StreamOn
  <2>1. /\ vb \in [Buffer -> {"dequeued", "queued", "active", "done", "error"}]
        /\ Give(vb) \/ Keep(vb)
    BY <1>5 DEF StreamOn, IInv, TypeOK
  <2>2. /\ UNCHANGED <<indexed, started, running, fw, pbuf, raced, closing>>
        /\ streaming' \in BOOLEAN /\ app = "idle" /\ app' = "reset"
    BY <1>5 DEF StreamOn, callback
  <2> QED BY <2>1, <2>2, GiveKeeps
<1>6. CASE ResetRunning
  <2>1. TypeOK' /\ In("active")' = In("active")
    BY <1>6 DEF ResetRunning, IInv, TypeOK, In, queue, callback
  <2>2. ~raced' => ~raced /\ ~Filling
    BY <1>6 DEF ResetRunning, Filling
  <2>3. CountExact' /\ CountedOnce'
    BY <1>6, <2>2 DEF ResetRunning, CountExact, CountedOnce, Filling, Waited, callback
  <2>4. HandKnown' /\ Released' /\ NothingGiven' /\ NoBufferLost'
    BY <1>6, <2>1, <2>2 DEF ResetRunning, IInv, HandKnown, Released, NothingGiven, NoBufferLost, callback
  <2> QED BY <2>1, <2>3, <2>4 DEF IInv
<1>7. CASE SetStarted
  BY <1>7 DEF SetStarted, IInv, TypeOK, HandKnown, CountExact, CountedOnce, Released, NothingGiven,
     NoBufferLost, Filling, Waited, In, queue, callback
<1>8. CASE StreamOff \/ Close
  <2>1. CASE StreamOff
    BY <2>1 DEF StreamOff, IInv, TypeOK, HandKnown, CountExact, CountedOnce, Released, NothingGiven,
       NoBufferLost, Filling, Waited, In, queue, stream, callback
  <2>2. CASE Close
    BY <2>2 DEF Close, IInv, TypeOK, HandKnown, CountExact, CountedOnce, Released, NothingGiven,
       NoBufferLost, Filling, Waited, In, queue, stream, callback
  <2> QED BY <1>8, <2>1, <2>2
<1>9. CASE Wait
  <2>1. TypeOK' /\ In("active")' = In("active")
    BY <1>9 DEF Wait, IInv, TypeOK, In, queue, stream, callback
  <2>2. ~raced' => ~raced /\ fw # "popped"
    BY <1>9 DEF Wait
  <2>3. ~raced => ~Filling
    BY <1>9 DEF Wait, IInv, TypeOK, CountExact
  <2>4. CountExact' /\ CountedOnce'
    BY <1>9, <2>2, <2>3 DEF Wait, IInv, CountExact, CountedOnce, Filling, stream, callback
  <2>5. HandKnown' /\ Released' /\ NothingGiven' /\ NoBufferLost'
    BY <1>9, <2>1, <2>2 DEF Wait, IInv, HandKnown, Released, NothingGiven, NoBufferLost, stream, callback
  <2> QED BY <2>1, <2>4, <2>5 DEF IInv
<1>10. CASE Mark
  BY <1>10 DEF Mark, IInv, TypeOK, HandKnown, CountExact, CountedOnce, Released, NothingGiven,
     NoBufferLost, Filling, Waited, In, queue, callback
<1>11. CASE Release
  <2>1. ~raced => pbuf = Null /\ In("active") = list
    BY <1>11 DEF Release, IInv, HandKnown, CountExact, NoBufferLost, Filling, Waited
  <2>2. ~raced => In("active")' = {}
    BY <1>11, <2>1 DEF Release, In
  <2>3. TypeOK'
    BY <1>11 DEF Release, IInv, TypeOK, callback
  <2>4. HandKnown' /\ CountExact' /\ CountedOnce'
    BY <1>11 DEF Release, IInv, HandKnown, CountExact, CountedOnce, Filling, Waited, callback
  <2>5. Released' /\ NothingGiven' /\ NoBufferLost'
    BY <1>11, <2>1, <2>2 DEF Release, Released, NothingGiven, NoBufferLost, callback
  <2> QED BY <2>3, <2>4, <2>5 DEF IInv
<1>12. CASE ClearStarted
  <2>1. ~raced => pbuf = Null /\ list = {}
    BY <1>12 DEF ClearStarted, IInv, HandKnown, CountExact, CountedOnce, Released, Filling, Waited
  <2> QED BY <1>12, <2>1 DEF ClearStarted, IInv, TypeOK, HandKnown, CountExact, CountedOnce, Released,
             NothingGiven, NoBufferLost, Filling, Waited, In, queue, callback
<1>13. CASE Free
  <2>1. ~raced => pbuf = Null /\ list = {}
    BY <1>13 DEF Free, IInv, HandKnown, CountExact, CountedOnce, Released, Filling, Waited
  <2> QED BY <1>13, <2>1 DEF Free, IInv, TypeOK, HandKnown, CountExact, CountedOnce, Released,
             NothingGiven, NoBufferLost, Filling, Waited, In, queue, stream
<1>14. CASE Cancel
  <2>1. In("active")' = {} /\ TypeOK'
    BY <1>14 DEF Cancel, IInv, TypeOK, In, stream, callback
  <2>2. ~raced => pbuf = Null /\ list = {}
    BY <1>14 DEF Cancel, IInv, HandKnown, CountExact, CountedOnce, Released, Filling, Waited
  <2> QED BY <1>14, <2>1, <2>2 DEF Cancel, IInv, HandKnown, CountExact, CountedOnce, Released,
             NothingGiven, NoBufferLost, Filling, Waited, stream, callback
<1> QED BY <1>1, <1>2, <1>3, <1>4, <1>5, <1>6, <1>7, <1>8, <1>9, <1>10, <1>11, <1>12, <1>13,
           <1>14 DEF App

LEMMA FirmwareIInv == IInv /\ (Find \/ Callback) => IInv'
<1> SUFFICES ASSUME IInv, Find \/ Callback PROVE IInv'
  OBVIOUS
<1> USE DEF FwGoto
<1>1. CASE Find \/ Check \/ NoBuffer
  BY <1>1 DEF Find, Check, NoBuffer, IInv, TypeOK, HandKnown, CountExact, CountedOnce, Released, NothingGiven,
     NoBufferLost, Filling, Waited, In, queue, stream
<1>2. ASSUME NEW b \in Buffer, Pop(b) PROVE IInv'
  <2>1. TypeOK' /\ pbuf = Null /\ pbuf' = b /\ b # Null
    BY <1>2, MetaAssumption DEF Pop, IInv, TypeOK, HandKnown, queue
  <2>2. HandKnown' /\ NothingGiven' /\ CountExact' /\ CountedOnce'
    BY <1>2, <2>1 DEF Pop, IInv, TypeOK, HandKnown, NothingGiven, CountExact, CountedOnce, Filling, Waited, In, queue
  <2>3. Released' /\ NoBufferLost'
    BY <1>2, <2>1 DEF Pop, IInv, Released, NoBufferLost, Waited, In, queue
  <2> QED BY <2>1, <2>2, <2>3 DEF IInv
<1>3. CASE Count
  <2>1. ~raced => running = 0 /\ running' = 1
    BY <1>3 DEF Count, IInv, CountExact
  <2>2. TypeOK'
    <3>1. running' \in -1..1
      BY <1>3 DEF Count, IInv, TypeOK, CountedOnce, Filling
    <3> QED BY <1>3, <3>1 DEF Count, IInv, TypeOK, queue
  <2> QED BY <1>3, <2>1, <2>2 DEF Count, IInv, HandKnown, CountExact, CountedOnce, Released, NothingGiven,
             NoBufferLost, Filling, Waited, In, queue
<1>4. CASE Fill
  <2>1. pbuf \in Buffer /\ pbuf' = Null
    BY <1>4 DEF Fill, IInv, TypeOK, HandKnown
  <2>2. In("active")' = In("active") \ {pbuf}
    BY <1>4, <2>1 DEF Fill, IInv, TypeOK, In
  <2>3. TypeOK'
    BY <1>4, <2>1 DEF Fill, IInv, TypeOK, stream
  <2>4. Null \notin list'
    BY <1>4, MetaAssumption DEF Fill, IInv, TypeOK, stream
  <2> QED BY <1>4, <2>1, <2>2, <2>3, <2>4 DEF Fill, IInv, HandKnown, CountExact, CountedOnce, Released, NothingGiven,
             NoBufferLost, Filling, Waited, stream
<1>5. CASE Finish
  BY <1>5 DEF Finish, IInv, TypeOK, HandKnown, CountExact, CountedOnce, Released, NothingGiven,
     NoBufferLost, Filling, Waited, In, queue
<1> QED BY <1>1, <1>2, <1>3, <1>4, <1>5 DEF Callback

LEMMA StepIInv == IInv /\ [Next]_vars => IInv'
<1>1. IInv /\ UNCHANGED vars => IInv'
  BY DEF vars, queue, stream, callback, IInv, TypeOK, HandKnown, CountExact, CountedOnce, Released,
     NothingGiven, NoBufferLost, Filling, Waited, In
<1> QED BY <1>1, AppIInv, FirmwareIInv DEF Next

\* Unless a callback was missed, running says whether a buffer is being filled,
\* and none is once stream off has looked.
THEOREM Inductive == Spec => []IInv
BY InitIInv, StepIInv, PTL DEF Spec
-----------------------------------------------------------------------------
\* The variables stay within their types, running within -1..1: the increments,
\* the marks and the resets of two threads never add up.
THEOREM TypeCorrect == Spec => []TypeOK
<1>1. IInv => TypeOK
  BY DEF IInv
<1> QED BY <1>1, Inductive, PTL

\* Stream off waits for every callback that has counted itself by then.
THEOREM FillsWaitedFor == Spec => []FillWaitedFor
<1>1. IInv => FillWaitedFor
  BY DEF IInv, CountExact, FillWaitedFor, Filling
<1> QED BY <1>1, Inductive, PTL

\* Every buffer vb2 has given is on the list or with the callback, and all are
\* returned when a session ends.
THEOREM BuffersReturned == Spec => []NoBufferLost
<1>1. IInv => NoBufferLost
  BY DEF IInv
<1> QED BY <1>1, Inductive, PTL
=============================================================================
