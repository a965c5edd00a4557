------------------------- MODULE CaptureStream_proof --------------------------
(* Proofs about the sessions of a stream, for any number of buffers and slots  *)
(* and one copy thread at a time: an application that does not call STREAMON   *)
(* on a running stream.                                                        *)
EXTENDS CaptureStream, TLAPS

\* One worker: StreamOn then waits for the last session's thread to be gone.
OneThread == \A v, w \in Worker : v = w

Purged == {"join", "joined", "release", "unflag", "cancel"}
Released == {"unflag", "cancel"}
Handling == {w \in Worker : at[w] \in {"search", "done"}}

\* kthread_stream names the thread there is, and STREAMOFF outlives it.
ThreadKnown ==
  /\ \A w \in Worker : at[w] # "none" <=> kthread = w
  /\ app \in {"spawn", "release", "unflag", "cancel"} => kthread = Null
  /\ app = "joined" => kthread # Null

\* A buffer in a thread's hands is off the list when it is about to be returned.
OffList ==
  /\ \A w \in Handling : hand[w] \in Buffer
  /\ \A w \in Worker : at[w] = "done" => hand[w] \notin list

\* What STREAMOFF has taken back stays taken back until it is over.
TakenBack ==
  /\ app \in Purged => \A s \in Slot : status[s] = "purge"
  /\ app \in Purged \cup {"purge"} => ~sensorOn
  /\ app \in Released => list = {}

\* Within a session, every frame between the pipe and the application is of a
\* buffer vb2 has given, and no two of them are of the same.
FramesApart ==
  ~leftOver =>
    /\ \A s \in Slot : status[s] # "purge" => slot[s] \in list
    /\ \A s, t \in Slot : status[s] # "purge" /\ status[t] # "purge" /\ slot[s] = slot[t] => s = t
    /\ \A s \in Slot : status[s] # "purge" => slot[s] # mailbox
    /\ \A w \in Handling : /\ hand[w] # mailbox /\ vb[hand[w]] = "active"
                           /\ \A s \in Slot : status[s] # "purge" => slot[s] # hand[w]
    /\ mailbox # Null /\ app \notin Released => vb[mailbox] = "active"

\* So is the frame the firmware's callback looks at.
CallbackApart ==
  ~leftOver /\ fw # "idle" =>
    /\ app \notin Purged => status[frame] = "ready"
    /\ app \notin Released => /\ slot[frame] \in Buffer /\ vb[slot[frame]] = "active"
                              /\ slot[frame] # mailbox
                              /\ \A w \in Handling : hand[w] # slot[frame]

\* The same as ActiveIsOwned, buffer by buffer.
Owned == \A b \in Buffer : vb[b] = "active" <=> \/ b \in list
                                                 \/ \E w \in Worker : at[w] = "done" /\ hand[w] = b

\* The type invariant in the parts that are proved one by one.
PlacesOK ==
  /\ app \in {"idle", "spawn", "start", "flag", "purge", "join", "joined", "release", "unflag", "cancel"}
  /\ at \in [Worker -> {"none", "wait", "search", "done", "exited"}]
  /\ stop \subseteq Worker /\ kthread \in Worker \cup {Null}
  /\ fw \in {"idle", "found", "save"} /\ frame \in Slot
QueueOK ==
  /\ vb \in [Buffer -> {"dequeued", "queued", "active", "done", "error"}]
  /\ list \subseteq Buffer
PipeOK ==
  /\ slot \in [Slot -> Buffer \cup {Null}] /\ status \in [Slot -> {"purge", "empty", "ready"}]
FramesOK == mailbox \in Buffer \cup {Null} /\ hand \in [Worker -> Buffer \cup {Null}]
FlagsOK ==
  /\ streaming \in BOOLEAN /\ given \in BOOLEAN
  /\ sensorOn \in BOOLEAN /\ started \in BOOLEAN /\ leftOver \in BOOLEAN

IInv ==
  /\ TypeOK
  /\ ThreadKnown /\ OffList /\ TakenBack
  /\ Owned
  /\ FramesApart /\ CallbackApart

\* What QBUF and STREAMON do to the buffers and the pipe: the driver is given
\* bs, and some of them take a purged slot each.
Given(bs) ==
  /\ list' = list \cup bs
  /\ \A b \in Buffer : IF b \in bs THEN vb[b] # "active" /\ vb'[b] = "active"
                                   ELSE vb'[b] = "active" <=> vb[b] = "active"
  /\ \A t \in Slot : \/ status'[t] = status[t] /\ slot'[t] = slot[t]
                     \/ status[t] = "purge" /\ status'[t] = "empty" /\ slot'[t] \in bs
  /\ \A t, u \in Slot : /\ status[t] = "purge" /\ status'[t] # "purge"
                        /\ status[u] = "purge" /\ status'[u] # "purge"
                        /\ slot'[t] = slot'[u]
                        => t = u
-----------------------------------------------------------------------------
\* The two ways to say who owns an active buffer agree.
LEMMA OwnedIsActiveIsOwned ==
  ASSUME TypeOK, OffList
  PROVE  Owned <=> ActiveIsOwned
<1>1. \A w \in Worker : at[w] = "done" => hand[w] \in Buffer
  BY DEF OffList, Handling
<1>2. list \subseteq Buffer
  BY DEF TypeOK
<1> QED BY <1>1, <1>2 DEF Owned, ActiveIsOwned, In

\* buf_queue puts its buffers on the list, and a slot it takes was purged.
LEMMA BufQueueEffect ==
  ASSUME PipeOK, NEW bs \in SUBSET Buffer, BufQueue(bs)
  PROVE  /\ PipeOK'
         /\ list' = list \cup bs
         /\ \A t \in Slot : \/ status'[t] = status[t] /\ slot'[t] = slot[t]
                            \/ status[t] = "purge" /\ status'[t] = "empty" /\ slot'[t] \in bs
         /\ \A t, u \in Slot : /\ status[t] = "purge" /\ status'[t] # "purge"
                               /\ status[u] = "purge" /\ status'[u] # "purge"
                               /\ slot'[t] = slot'[u]
                               => t = u
<1> USE DEF PipeOK
<1>1. PICK s \in [bs -> Slot \cup {Null}] :
       /\ \A b, c \in bs : s[b] = s[c] /\ s[b] # Null => b = c
       /\ \A b \in bs : s[b] # Null => status[s[b]] = "purge"
       /\ slot' = [t \in Slot |-> IF \E b \in bs : s[b] = t THEN CHOOSE b \in bs : s[b] = t ELSE slot[t]]
       /\ status' = [t \in Slot |-> IF \E b \in bs : s[b] = t THEN "empty" ELSE status[t]]
  BY DEF BufQueue
<1>2. \A t \in Slot : (\E b \in bs : s[b] = t) => slot'[t] \in bs /\ s[slot'[t]] = t
  BY <1>1
<1>3. \A t \in Slot : (\E b \in bs : s[b] = t) => status[t] = "purge" /\ status'[t] = "empty"
  BY <1>1, StreamAssumption
<1>4. \A t \in Slot : ~(\E b \in bs : s[b] = t) => status'[t] = status[t] /\ slot'[t] = slot[t]
  BY <1>1
<1>5. PipeOK'
  <2>1. slot' \in [Slot -> Buffer \cup {Null}]
    <3>1. \A t \in Slot : slot'[t] \in Buffer \cup {Null}
      BY <1>2, <1>4
    <3> QED BY <1>1, <3>1
  <2>2. status' \in [Slot -> {"purge", "empty", "ready"}]
    BY <1>1
  <2> QED BY <2>1, <2>2
<1>6. list' = list \cup bs
  BY DEF BufQueue
<1>7. \A t, u \in Slot : /\ status[t] = "purge" /\ status'[t] # "purge"
                         /\ status[u] = "purge" /\ status'[u] # "purge"
                         /\ slot'[t] = slot'[u]
                         => t = u
  BY <1>2, <1>4
<1> QED BY <1>2, <1>3, <1>4, <1>5, <1>6, <1>7

\* Nothing is given, or everything queued is.
LEMMA GiveEffect ==
  ASSUME QueueOK, PipeOK,
         NEW states \in [Buffer -> {"dequeued", "queued", "active", "done", "error"}],
         \A b \in Buffer : states[b] = "active" <=> vb[b] = "active",
         Give(states) \/ Keep(states)
  PROVE  QueueOK' /\ PipeOK' /\ \E bs \in SUBSET Buffer : Given(bs)
<1>1. CASE Keep(states)
  <2>1. QueueOK' /\ PipeOK'
    BY <1>1 DEF Keep, QueueOK, PipeOK
  <2>2. Given({})
    BY <1>1 DEF Keep, Given
  <2> QED BY <2>1, <2>2
<1>2. CASE Give(states)
  <2> DEFINE bs == {b \in Buffer : states[b] = "queued"}
  <2>1. bs \in SUBSET Buffer
    OBVIOUS
  <2>2. BufQueue(bs) /\ vb' = [b \in Buffer |-> IF b \in bs THEN "active" ELSE states[b]]
    BY <1>2 DEF Give
  <2>3. \A b \in bs : vb[b] # "active"
    OBVIOUS
  <2>4. \A b \in Buffer : IF b \in bs THEN vb[b] # "active" /\ vb'[b] = "active"
                                      ELSE vb'[b] = "active" <=> vb[b] = "active"
    BY <2>2, <2>3
  <2> HIDE DEF bs
  <2>5. PipeOK' /\ Given(bs)
    BY <2>1, <2>2, <2>4, BufQueueEffect DEF Given
  <2>6. QueueOK'
    BY <2>1, <2>2, <2>5 DEF QueueOK, Given
  <2> QED BY <2>1, <2>5, <2>6
<1> QED BY <1>1, <1>2

\* Both calls that give buffers to the driver.
LEMMA GivingCalls ==
  ASSUME QueueOK, PipeOK, StreamOn \/ \E b \in Buffer : QBuf(b)
  PROVE  QueueOK' /\ PipeOK' /\ \E bs \in SUBSET Buffer : Given(bs)
<1>1. CASE StreamOn
  <2>1. Give(vb) \/ Keep(vb)
    BY <1>1 DEF StreamOn
  <2> QED BY <2>1, GiveEffect DEF QueueOK
<1>2. ASSUME NEW b \in Buffer, QBuf(b)
      PROVE  QueueOK' /\ PipeOK' /\ \E bs \in SUBSET Buffer : Given(bs)
  <2> DEFINE states == [vb EXCEPT ![b] = "queued"]
  <2>1. Give(states) \/ Keep(states)
    BY <1>2 DEF QBuf
  <2>2. states \in [Buffer -> {"dequeued", "queued", "active", "done", "error"}]
    BY DEF QueueOK
  <2>3. \A c \in Buffer : states[c] = "active" <=> vb[c] = "active"
    BY <1>2 DEF QBuf, QueueOK
  <2> HIDE DEF states
  <2> QED BY <2>1, <2>2, <2>3, GiveEffect
<1> QED BY <1>1, <1>2
-----------------------------------------------------------------------------
\* Places, threads and the callback's slot keep their ranges.
LEMMA PlacesStep ==
  ASSUME PlacesOK, [Next]_vars
  PROVE  PlacesOK'
<1> USE DEF PlacesOK, threads, callback, Goto, ThreadGoto
<1>1. CASE App
  BY <1>1 DEF App, QBuf, DQBuf, StreamOn, Spawn, SensorStart, SetStarted, SensorStop, QueueReset,
    StopThread, JoinThread, Release, ClearStarted, Cancel
<1>2. ASSUME NEW w \in Worker, Thread(w) PROVE PlacesOK'
  BY <1>2 DEF Thread, ThreadExit, ThreadTake, ThreadFind, ThreadMiss, ThreadDone
<1>3. CASE Firmware
  BY <1>3 DEF Firmware, FrameWritten, CallbackFind, CallbackCheck, CallbackSave
<1>4. CASE UNCHANGED vars
  BY <1>4 DEF vars
<1> QED BY <1>1, <1>2, <1>3, <1>4 DEF Next

\* The buffers keep to vb2's states and the pipe's slots to theirs.
LEMMA QueueAndPipeStep ==
  ASSUME QueueOK, PipeOK, PlacesOK, FramesOK, [Next]_vars
  PROVE  QueueOK' /\ PipeOK'
<1> USE DEF QueueOK, PipeOK
<1>1. ASSUME UNCHANGED <<vb, list, slot, status>> PROVE QueueOK' /\ PipeOK'
  BY <1>1
<1>2. CASE App
  <2>1. CASE StreamOn \/ \E b \in Buffer : QBuf(b)
    BY <2>1, GivingCalls
  <2>2. ASSUME NEW b \in Buffer, DQBuf(b) PROVE QueueOK' /\ PipeOK'
    BY <2>2 DEF DQBuf, dma
  <2>3. CASE QueueReset
    BY <2>3 DEF QueueReset, queue
  <2>4. CASE Release
    BY <2>4 DEF Release, dma
  <2>5. CASE Cancel
    BY <2>5 DEF Cancel, dma
  <2>6. CASE (\E w \in Worker : Spawn(w)) \/ SensorStart \/ SetStarted \/ SensorStop \/ StopThread
             \/ JoinThread \/ ClearStarted
    <3>1. UNCHANGED <<vb, list, slot, status>>
      BY <2>6 DEF Spawn, SensorStart, SetStarted, SensorStop, StopThread, JoinThread, ClearStarted, queue, dma
    <3> QED BY <3>1, <1>1
  <2> QED BY <1>2, <2>1, <2>2, <2>3, <2>4, <2>5, <2>6 DEF App
<1>3. ASSUME NEW w \in Worker, Thread(w) PROVE QueueOK' /\ PipeOK'
  BY <1>3 DEF Thread, ThreadExit, ThreadTake, ThreadFind, ThreadMiss, ThreadDone, queue, dma
<1>4. CASE Firmware
  BY <1>4 DEF Firmware, FrameWritten, CallbackFind, CallbackCheck, CallbackSave, Recycle, queue, dma
<1>5. CASE UNCHANGED vars
  BY <1>5 DEF vars, queue, dma
<1> QED BY <1>2, <1>3, <1>4, <1>5 DEF Next

\* Only buffers travel through the mailbox and the threads' hands.
LEMMA FramesStep ==
  ASSUME FramesOK, PipeOK, PlacesOK, [Next]_vars
  PROVE  FramesOK'
<1> USE DEF FramesOK
<1>1. ASSUME UNCHANGED <<mailbox, hand>> PROVE FramesOK'
  BY <1>1
<1>2. CASE App
  <2>1. UNCHANGED <<mailbox, hand>>
    BY <1>2 DEF App, QBuf, DQBuf, StreamOn, Spawn, SensorStart, SetStarted, SensorStop, QueueReset,
      StopThread, JoinThread, Release, ClearStarted, Cancel, threads
  <2> QED BY <2>1, <1>1
<1>3. ASSUME NEW w \in Worker, Thread(w) PROVE FramesOK'
  BY <1>3 DEF Thread, ThreadExit, ThreadTake, ThreadFind, ThreadMiss, ThreadDone
<1>4. CASE Firmware
  BY <1>4 DEF Firmware, FrameWritten, CallbackFind, CallbackCheck, CallbackSave, threads, PipeOK, PlacesOK
<1>5. CASE UNCHANGED vars
  BY <1>5 DEF vars, threads
<1> QED BY <1>2, <1>3, <1>4, <1>5 DEF Next

\* Flags stay truth values.
LEMMA FlagsStep ==
  ASSUME FlagsOK, [Next]_vars
  PROVE  FlagsOK'
<1> USE DEF FlagsOK, queue, dma
<1>1. CASE App
  <2>1. CASE Cancel
    BY <2>1 DEF Cancel
  <2>2. CASE StreamOn \/ \E b \in Buffer : QBuf(b)
    BY <2>2 DEF StreamOn, QBuf, Give, Keep
  <2>3. CASE (\E b \in Buffer : DQBuf(b)) \/ (\E w \in Worker : Spawn(w)) \/ SensorStart \/ SetStarted
             \/ SensorStop \/ QueueReset \/ StopThread \/ JoinThread \/ Release \/ ClearStarted
    BY <2>3 DEF DQBuf, Spawn, SensorStart, SetStarted, SensorStop, QueueReset,
      StopThread, JoinThread, Release, ClearStarted
  <2> QED BY <1>1, <2>1, <2>2, <2>3 DEF App
<1>2. ASSUME NEW w \in Worker, Thread(w) PROVE FlagsOK'
  BY <1>2 DEF Thread, ThreadExit, ThreadTake, ThreadFind, ThreadMiss, ThreadDone
<1>3. CASE Firmware
  BY <1>3 DEF Firmware, FrameWritten, CallbackFind, CallbackCheck, CallbackSave
<1>4. CASE UNCHANGED vars
  BY <1>4 DEF vars
<1> QED BY <1>1, <1>2, <1>3, <1>4 DEF Next

\* The type invariant is preserved.
LEMMA TypeStep ==
  ASSUME TypeOK, [Next]_vars
  PROVE  TypeOK'
<1>1. PlacesOK /\ QueueOK /\ PipeOK /\ FramesOK /\ FlagsOK
  BY DEF TypeOK, PlacesOK, QueueOK, PipeOK, FramesOK, FlagsOK
<1>2. (PlacesOK /\ QueueOK /\ PipeOK /\ FramesOK /\ FlagsOK)'
  BY <1>1, PlacesStep, QueueAndPipeStep, FramesStep, FlagsStep
<1> QED BY <1>2 DEF TypeOK, PlacesOK, QueueOK, PipeOK, FramesOK, FlagsOK
-----------------------------------------------------------------------------

\* kthread_stream keeps naming the one thread there is.
LEMMA ThreadKnownStep ==
  ASSUME OneThread, PlacesOK, ThreadKnown, [Next]_vars
  PROVE  ThreadKnown'
<1> USE StreamAssumption DEF PlacesOK, OneThread, ThreadKnown, threads, Goto
<1>1. CASE App
  <2>1. ASSUME UNCHANGED <<at, kthread>>,
               app' \notin {"spawn", "joined", "release"},
               app' \in {"unflag", "cancel"} => app \in {"release", "unflag"}
        PROVE  ThreadKnown'
    BY <2>1
  <2>2. CASE StreamOn
    BY <2>2 DEF StreamOn, Alive
  <2>3. ASSUME NEW w \in Worker, Spawn(w) PROVE ThreadKnown'
    BY <2>3 DEF Spawn
  <2>4. CASE StopThread
    BY <2>4 DEF StopThread
  <2>5. CASE JoinThread
    BY <2>5 DEF JoinThread
  <2>6. CASE (\E b \in Buffer : QBuf(b) \/ DQBuf(b)) \/ SensorStart \/ SetStarted \/ SensorStop
             \/ QueueReset \/ Release \/ ClearStarted \/ Cancel
    BY <2>6, <2>1 DEF QBuf, DQBuf, SensorStart, SetStarted, SensorStop, QueueReset, Release,
      ClearStarted, Cancel
  <2> QED BY <1>1, <2>2, <2>3, <2>4, <2>5, <2>6 DEF App
<1>2. ASSUME NEW w \in Worker, Thread(w) PROVE ThreadKnown'
  <2>1. kthread = w /\ UNCHANGED <<app, kthread>>
    BY <1>2 DEF Thread, ThreadExit, ThreadTake, ThreadFind, ThreadMiss, ThreadDone, ThreadGoto
  <2>2. at' \in [Worker -> {"wait", "search", "done", "exited"}]
    <3>1. PICK place \in {"wait", "search", "done", "exited"} : at' = [at EXCEPT ![w] = place]
      BY <1>2 DEF Thread, ThreadExit, ThreadTake, ThreadFind, ThreadMiss, ThreadDone, ThreadGoto
    <3> QED BY <3>1
  <2> QED BY <2>1, <2>2
<1>3. CASE Firmware
  BY <1>3 DEF Firmware, FrameWritten, CallbackFind, CallbackCheck, CallbackSave
<1>4. CASE UNCHANGED vars
  BY <1>4 DEF vars
<1> QED BY <1>1, <1>2, <1>3, <1>4 DEF Next

\* The purge of a STREAMOFF lasts until its end: no frame is written and no
\* buffer given in the meantime.
LEMMA TakenBackStep ==
  ASSUME OneThread, PlacesOK, PipeOK, ThreadKnown, TakenBack, [Next]_vars
  PROVE  TakenBack'
<1> USE DEF PlacesOK, PipeOK, TakenBack, Purged, Released, queue, dma
<1>1. CASE App
  <2>1. CASE (\E b \in Buffer : QBuf(b)) \/ StreamOn
    BY <2>1 DEF QBuf, StreamOn, Goto
  <2>2. CASE (\E b \in Buffer : DQBuf(b)) \/ (\E w \in Worker : Spawn(w)) \/ SensorStart \/ SetStarted
             \/ SensorStop \/ QueueReset \/ StopThread
    BY <2>2 DEF DQBuf, Spawn, SensorStart, SetStarted, SensorStop, QueueReset, StopThread, Goto
  <2>3. CASE JoinThread \/ Release \/ ClearStarted \/ Cancel
    BY <2>3 DEF JoinThread, Release, ClearStarted, Cancel, Goto
  <2> QED BY <1>1, <2>1, <2>2, <2>3 DEF App
<1>2. ASSUME NEW w \in Worker, Thread(w) PROVE TakenBack'
  BY <1>2 DEF Thread, ThreadExit, ThreadTake, ThreadFind, ThreadMiss, ThreadDone
<1>3. CASE Firmware
  BY <1>3 DEF Firmware, FrameWritten, CallbackFind, CallbackCheck, CallbackSave, Recycle
<1>4. CASE UNCHANGED vars
  BY <1>4 DEF vars
<1> QED BY <1>1, <1>2, <1>3, <1>4 DEF Next

\* A buffer taken off the list is given again only after it has been returned.
LEMMA OffListStep ==
  ASSUME OneThread, TypeOK, ThreadKnown, TakenBack, OffList, Owned, [Next]_vars
  PROVE  OffList'
<1> USE StreamAssumption DEF OffList, Handling, OneThread
<1>1. at \in [Worker -> {"none", "wait", "search", "done", "exited"}] /\ hand \in [Worker -> Buffer \cup {Null}]
  BY DEF TypeOK
<1>2. ASSUME UNCHANGED <<at, hand>>, list' \subseteq list PROVE OffList'
  BY <1>2
<1>3. CASE App
  <2>1. CASE (\E b \in Buffer : QBuf(b)) \/ StreamOn
    <3>1. PICK bs \in SUBSET Buffer : Given(bs)
      BY <2>1, GivingCalls DEF TypeOK, QueueOK, PipeOK
    <3>2. UNCHANGED <<at, hand>>
      BY <2>1 DEF QBuf, StreamOn, threads
    <3>3. \A w \in Worker : at[w] = "done" => hand[w] \notin bs
      BY <3>1 DEF Given, Owned
    <3> QED BY <3>1, <3>2, <3>3 DEF Given
  <2>2. CASE (\E b \in Buffer : DQBuf(b)) \/ SensorStart \/ SetStarted \/ SensorStop \/ QueueReset \/ StopThread
             \/ Release \/ ClearStarted \/ Cancel
    <3>1. UNCHANGED <<at, hand>> /\ list' \subseteq list
      BY <2>2 DEF DQBuf, SensorStart, SetStarted, SensorStop, QueueReset, StopThread, Release,
        ClearStarted, Cancel, threads, queue
    <3> QED BY <3>1, <1>2
  <2>3. ASSUME NEW w \in Worker, Spawn(w) PROVE OffList'
    BY <2>3, <1>1 DEF Spawn, queue
  <2>4. CASE JoinThread
    <3>1. kthread \in Worker
      BY <2>4 DEF JoinThread, TypeOK, ThreadKnown, Goto
    <3> QED BY <2>4, <3>1, <1>1 DEF JoinThread, queue
  <2> QED BY <1>3, <2>1, <2>2, <2>3, <2>4 DEF App
<1>4. ASSUME NEW w \in Worker, Thread(w) PROVE OffList'
  <2>1. mailbox \in Buffer \cup {Null}
    BY DEF TypeOK
  <2> QED BY <1>4, <1>1, <2>1 DEF Thread, ThreadExit, ThreadTake, ThreadFind, ThreadMiss, ThreadDone, ThreadGoto, queue
<1>5. CASE Firmware
  BY <1>5, <1>2 DEF Firmware, FrameWritten, CallbackFind, CallbackCheck, CallbackSave, threads, queue
<1>6. CASE UNCHANGED vars
  BY <1>6, <1>2 DEF vars, threads, queue
<1> QED BY <1>3, <1>4, <1>5, <1>6 DEF Next

\* Every call and every step keeps account of the active buffers.
LEMMA OwnedStep ==
  ASSUME OneThread, TypeOK, ThreadKnown, TakenBack, OffList, Owned, [Next]_vars
  PROVE  Owned'
<1> USE StreamAssumption DEF Owned, OneThread
<1>1. /\ at \in [Worker -> {"none", "wait", "search", "done", "exited"}] /\ hand \in [Worker -> Buffer \cup {Null}]
      /\ vb \in [Buffer -> {"dequeued", "queued", "active", "done", "error"}] /\ list \subseteq Buffer
  BY DEF TypeOK
<1>2. ASSUME UNCHANGED <<at, hand, vb, list>> PROVE Owned'
  BY <1>2
<1>3. CASE App
  <2>1. CASE (\E b \in Buffer : QBuf(b)) \/ StreamOn
    <3>1. PICK bs \in SUBSET Buffer : Given(bs)
      BY <2>1, GivingCalls DEF TypeOK, QueueOK, PipeOK
    <3>2. UNCHANGED <<at, hand>>
      BY <2>1 DEF QBuf, StreamOn, threads
    <3> QED BY <3>1, <3>2 DEF Given
  <2>2. ASSUME NEW b \in Buffer, DQBuf(b) PROVE Owned'
    <3>1. \A c \in Buffer : vb'[c] = "active" <=> vb[c] = "active"
      BY <2>2, <1>1 DEF DQBuf
    <3> QED BY <2>2, <3>1 DEF DQBuf, threads
  <2>3. CASE SensorStart \/ SetStarted \/ SensorStop \/ QueueReset \/ StopThread \/ ClearStarted
    <3>1. UNCHANGED <<at, hand, vb, list>>
      BY <2>3 DEF SensorStart, SetStarted, SensorStop, QueueReset, StopThread, ClearStarted, threads, queue
    <3> QED BY <3>1, <1>2
  <2>4. ASSUME NEW w \in Worker, Spawn(w) PROVE Owned'
    BY <2>4, <1>1 DEF Spawn, queue
  <2>5. CASE JoinThread
    <3>1. kthread \in Worker
      BY <2>5 DEF JoinThread, TypeOK, ThreadKnown, Goto
    <3> QED BY <2>5, <3>1, <1>1 DEF JoinThread, queue
  <2>6. CASE Release \/ Cancel
    <3>1. \A w \in Worker : at[w] = "none"
      BY <2>6, <1>1 DEF Release, Cancel, ThreadKnown, Goto
    <3>2. CASE Release
      <4>1. \A b \in Buffer : vb'[b] = "active" <=> b \notin list /\ vb[b] = "active"
        BY <3>2 DEF Release
      <4> QED BY <3>1, <3>2, <4>1 DEF Release, threads
    <3>3. CASE Cancel
      BY <3>1, <3>3 DEF Cancel, threads, TakenBack, Released, Goto
    <3> QED BY <2>6, <3>2, <3>3
  <2> QED BY <1>3, <2>1, <2>2, <2>3, <2>4, <2>5, <2>6 DEF App
<1>4. ASSUME NEW w \in Worker, Thread(w) PROVE Owned'
  <2>1. CASE ThreadExit(w) \/ ThreadTake(w) \/ ThreadMiss(w)
    <3>1. \A v \in Worker : at[v] # "done" /\ at'[v] # "done"
      BY <2>1, <1>1 DEF ThreadExit, ThreadTake, ThreadMiss, ThreadGoto
    <3> QED BY <2>1, <3>1 DEF ThreadExit, ThreadTake, ThreadMiss, queue
  <2>2. CASE ThreadFind(w)
    BY <2>2, <1>1 DEF ThreadFind, ThreadGoto
  <2>3. CASE ThreadDone(w)
    <3>1. hand[w] \in Buffer /\ hand[w] \notin list
      BY <2>3 DEF ThreadDone, ThreadGoto, OffList, Handling
    <3> QED BY <2>3, <3>1, <1>1 DEF ThreadDone, ThreadGoto
  <2> QED BY <1>4, <2>1, <2>2, <2>3 DEF Thread
<1>5. CASE Firmware
  <2>1. UNCHANGED <<at, hand, vb, list>>
    BY <1>5 DEF Firmware, FrameWritten, CallbackFind, CallbackCheck, CallbackSave, threads, queue
  <2> QED BY <2>1, <1>2
<1>6. CASE UNCHANGED vars
  BY <1>6, <1>2 DEF vars, threads, queue
<1> QED BY <1>3, <1>4, <1>5, <1>6 DEF Next

\* Of the two frames that could be of one buffer, one is always over before
\* the other begins.
LEMMA FramesApartStep ==
  ASSUME OneThread, IInv, [Next]_vars
  PROVE  FramesApart'
<1> USE StreamAssumption DEF FramesApart, OneThread, Handling, Released
<1>1. /\ at \in [Worker -> {"none", "wait", "search", "done", "exited"}] /\ hand \in [Worker -> Buffer \cup {Null}]
      /\ vb \in [Buffer -> {"dequeued", "queued", "active", "done", "error"}] /\ list \subseteq Buffer
      /\ slot \in [Slot -> Buffer \cup {Null}] /\ status \in [Slot -> {"purge", "empty", "ready"}]
      /\ mailbox \in Buffer \cup {Null} /\ frame \in Slot /\ leftOver \in BOOLEAN
      /\ kthread \in Worker \cup {Null}
  BY DEF IInv, TypeOK
<1>2. FramesApart /\ \A w \in Handling : hand[w] \in Buffer
  BY DEF IInv, OffList
<1>3. ASSUME UNCHANGED <<list, vb, slot, mailbox, hand, leftOver>>,
             \A s \in Slot : status'[s] # "purge" => status[s] # "purge",
             \A w \in Worker : at'[w] \in {"search", "done"} => at[w] \in {"search", "done"},
             app' \notin Released => app \notin Released
      PROVE  FramesApart'
  BY <1>1, <1>2, <1>3
<1>4. CASE App
  <2>1. CASE (\E b \in Buffer : QBuf(b)) \/ StreamOn
    <3>1. PICK bs \in SUBSET Buffer : Given(bs)
      BY <2>1, GivingCalls DEF IInv, TypeOK, QueueOK, PipeOK
    <3>2. UNCHANGED <<at, hand, mailbox, leftOver>> /\ app = "idle"
      BY <2>1 DEF QBuf, StreamOn, threads, Goto
    <3> SUFFICES ASSUME ~leftOver PROVE FramesApart'
      BY <3>2
    <3>3. \A b \in list : vb[b] = "active"
      BY <1>1 DEF IInv, Owned
    <3>4. \A b \in bs : vb[b] # "active" /\ vb'[b] = "active" /\ b \notin list
      BY <3>1, <3>3 DEF Given
    <3>5. \A b \in Buffer : vb[b] = "active" => vb'[b] = "active"
      BY <3>1 DEF Given
    <3>6. \A t \in Slot : status'[t] # "purge" =>
            \/ status[t] # "purge" /\ slot'[t] = slot[t] /\ slot[t] \in list
            \/ status[t] = "purge" /\ slot'[t] \in bs
      BY <3>1, <1>2 DEF Given
    <3>7. mailbox # Null => mailbox \in Buffer /\ vb[mailbox] = "active"
      BY <1>1, <1>2, <3>2
    <3>8. \A w \in Handling : hand[w] \in Buffer /\ vb[hand[w]] = "active"
      BY <1>2
    <3>9. \A t \in Slot : status'[t] # "purge" => slot'[t] \in list'
      BY <3>6, <3>1 DEF Given
    <3>10. \A t, u \in Slot : status'[t] # "purge" /\ status'[u] # "purge" /\ slot'[t] = slot'[u] => t = u
      <4> SUFFICES ASSUME NEW t \in Slot, NEW u \in Slot,
                          status'[t] # "purge", status'[u] # "purge", slot'[t] = slot'[u]
                   PROVE  t = u
        OBVIOUS
      <4>1. CASE status[t] = "purge" /\ status[u] = "purge"
        BY <4>1, <3>1 DEF Given
      <4>2. CASE status[t] # "purge" /\ status[u] # "purge"
        BY <4>2, <3>6, <1>2
      <4>3. CASE status[t] = "purge" <=> status[u] # "purge"
        BY <4>3, <3>6, <3>4
      <4> QED BY <4>1, <4>2, <4>3
    <3>11. \A t \in Slot : status'[t] # "purge" => slot'[t] # mailbox
      BY <3>6, <3>4, <3>7, <1>1, <1>2
    <3>12. \A w \in Handling : \A t \in Slot : status'[t] # "purge" => slot'[t] # hand[w]
      BY <3>6, <3>4, <3>8, <1>2
    <3> QED BY <3>2, <3>5, <3>7, <3>8, <3>9, <3>10, <3>11, <3>12, <1>2
  <2>2. ASSUME NEW b \in Buffer, DQBuf(b) PROVE FramesApart'
    <3>1. \A c \in Buffer : vb'[c] = "active" <=> vb[c] = "active"
      BY <2>2, <1>1 DEF DQBuf
    <3> QED BY <2>2, <3>1, <1>1, <1>2 DEF DQBuf, threads, dma
  <2>3. ASSUME NEW w \in Worker, Spawn(w) PROVE FramesApart'
    BY <2>3, <1>1, <1>3 DEF Spawn, queue, dma, Goto
  <2>4. CASE SensorStart \/ SetStarted \/ SensorStop \/ StopThread \/ QueueReset
    BY <2>4, <1>3 DEF SensorStart, SetStarted, SensorStop, StopThread, QueueReset, threads, queue, dma, Goto
  <2>5. CASE JoinThread
    <3>1. kthread \in Worker
      BY <2>5, <1>1 DEF JoinThread, IInv, ThreadKnown, Goto
    <3> QED BY <2>5, <3>1, <1>1, <1>3 DEF JoinThread, queue, dma, Goto
  <2>6. CASE Release \/ ClearStarted
    <3>1. app' \in Released /\ UNCHANGED <<slot, status, mailbox, hand, at, leftOver>>
      BY <2>6 DEF Release, ClearStarted, Goto, dma, threads
    <3>2. Handling = {} /\ Handling' = {}
      BY <2>6, <3>1, <1>1 DEF Release, ClearStarted, Goto, IInv, ThreadKnown
    <3>3. \A s \in Slot : status[s] = "purge"
      BY <2>6 DEF Release, ClearStarted, Goto, IInv, TakenBack, Purged
    <3> QED BY <3>1, <3>2, <3>3
  <2>7. CASE Cancel
    <3>1. UNCHANGED <<slot, status, mailbox, hand, at>> /\ (~leftOver' => mailbox = Null)
      BY <2>7 DEF Cancel, dma, threads
    <3>2. Handling = {} /\ Handling' = {}
      BY <2>7, <3>1, <1>1 DEF Cancel, Goto, IInv, ThreadKnown
    <3>3. \A s \in Slot : status[s] = "purge"
      BY <2>7 DEF Cancel, Goto, IInv, TakenBack, Purged
    <3> QED BY <3>1, <3>2, <3>3
  <2> QED BY <1>4, <2>1, <2>2, <2>3, <2>4, <2>5, <2>6, <2>7 DEF App
<1>5. ASSUME NEW w \in Worker, Thread(w) PROVE FramesApart'
  <2>1. CASE ThreadExit(w) \/ ThreadMiss(w)
    <3>1. \A v \in Worker : at'[v] \notin {"search", "done"}
      BY <2>1, <1>1 DEF ThreadExit, ThreadMiss, ThreadGoto
    <3> QED BY <2>1, <3>1, <1>2 DEF ThreadExit, ThreadMiss, queue, dma
  <2>2. CASE ThreadTake(w)
    <3>1. app \notin Released
      BY <2>2 DEF ThreadTake, ThreadGoto, IInv, ThreadKnown
    <3>2. \A v \in Worker : hand'[v] = mailbox
      BY <2>2, <1>1 DEF ThreadTake
    <3> QED BY <2>2, <3>1, <3>2, <1>1, <1>2 DEF ThreadTake, queue, dma
  <2>3. CASE ThreadFind(w)
    <3>1. w \in Handling /\ list' = list \ {hand[w]}
      BY <2>3 DEF ThreadFind, ThreadGoto
    <3>2. \A s \in Slot : ~leftOver /\ status[s] # "purge" => slot[s] \in list'
      BY <3>1, <1>2
    <3>3. Handling' = Handling
      BY <2>3, <1>1 DEF ThreadFind, ThreadGoto
    <3> QED BY <2>3, <3>2, <3>3, <1>2 DEF ThreadFind, dma
  <2>4. CASE ThreadDone(w)
    <3>1. w \in Handling
      BY <2>4 DEF ThreadDone, ThreadGoto
    <3>2. \A v \in Worker : at'[v] \notin {"search", "done"}
      BY <2>4, <1>1 DEF ThreadDone, ThreadGoto
    <3>3. \A b \in Buffer : b # hand[w] => vb'[b] = vb[b]
      BY <2>4, <1>1 DEF ThreadDone
    <3> QED BY <2>4, <3>1, <3>2, <3>3, <1>1, <1>2 DEF ThreadDone, dma
  <2> QED BY <1>5, <2>1, <2>2, <2>3, <2>4 DEF Thread
<1>6. CASE Firmware
  <2>1. CASE (\E s \in Slot : FrameWritten(s) \/ CallbackFind(s)) \/ CallbackCheck
    <3>1. \A s \in Slot : status'[s] # "purge" => status[s] # "purge"
      BY <2>1, <1>1 DEF FrameWritten, CallbackFind, CallbackCheck, Recycle, dma
    <3> QED BY <2>1, <3>1, <1>3 DEF FrameWritten, CallbackFind, CallbackCheck, threads, queue, dma
  <2>2. CASE CallbackSave
    <3>1. CASE mailbox # Null
      <4>1. \A s \in Slot : status'[s] # "purge" => status[s] # "purge"
        BY <2>2, <3>1, <1>1 DEF CallbackSave, Recycle
      <4> QED BY <2>2, <3>1, <4>1, <1>3 DEF CallbackSave, threads, queue, dma
    <3>2. CASE mailbox = Null
      <4>1. mailbox' = slot[frame] /\ UNCHANGED <<app, slot, vb, list, at, hand, leftOver>>
        BY <2>2, <3>2 DEF CallbackSave, threads, queue
      <4>2. \A s \in Slot : status'[s] # "purge" => status[s] # "purge" /\ s # frame
        BY <2>2, <3>2, <1>1 DEF CallbackSave
      <4> SUFFICES ASSUME ~leftOver PROVE FramesApart'
        BY <4>1
      <4>3. CallbackApart /\ TakenBack /\ ThreadKnown /\ fw = "save"
        BY <2>2 DEF IInv, CallbackSave
      <4>4. app \notin Purged => status[frame] = "ready"
        BY <4>3 DEF CallbackApart
      <4>5. app \notin Released => /\ slot[frame] \in Buffer /\ vb[slot[frame]] = "active"
                                   /\ \A v \in Handling : hand[v] # slot[frame]
        BY <4>3 DEF CallbackApart
      <4>6. \A s \in Slot : status'[s] # "purge" => slot[s] # mailbox'
        <5>1. CASE app \in Purged
          BY <5>1, <4>2, <4>3 DEF TakenBack
        <5>2. CASE app \notin Purged
          BY <5>2, <4>1, <4>2, <4>4, <1>1, <1>2
        <5> QED BY <5>1, <5>2
      <4>7. \A v \in Handling : hand[v] # mailbox'
        BY <4>1, <4>3, <4>5 DEF ThreadKnown
      <4>8. mailbox' # Null /\ app \notin Released => vb[mailbox'] = "active"
        BY <4>1, <4>5
      <4> QED BY <4>1, <4>2, <4>6, <4>7, <4>8, <1>2
    <3> QED BY <3>1, <3>2
  <2> QED BY <1>6, <2>1, <2>2 DEF Firmware
<1>7. CASE UNCHANGED vars
  BY <1>7, <1>3 DEF vars, threads, queue, dma
<1> QED BY <1>4, <1>5, <1>6, <1>7 DEF Next

\* The slot under the callback keeps its frame until the callback is over or
\* the pipe has been purged.
LEMMA CallbackApartStep ==
  ASSUME OneThread, IInv, [Next]_vars
  PROVE  CallbackApart'
<1> USE StreamAssumption DEF CallbackApart, OneThread, Handling, Released, Purged
<1>1. /\ at \in [Worker -> {"none", "wait", "search", "done", "exited"}] /\ hand \in [Worker -> Buffer \cup {Null}]
      /\ vb \in [Buffer -> {"dequeued", "queued", "active", "done", "error"}] /\ list \subseteq Buffer
      /\ slot \in [Slot -> Buffer \cup {Null}] /\ status \in [Slot -> {"purge", "empty", "ready"}]
      /\ mailbox \in Buffer \cup {Null} /\ frame \in Slot /\ leftOver \in BOOLEAN
      /\ kthread \in Worker \cup {Null} /\ fw \in {"idle", "found", "save"}
  BY DEF IInv, TypeOK
<1>2. CallbackApart /\ FramesApart
  BY DEF IInv
<1>3. ASSUME UNCHANGED <<slot, mailbox, hand, leftOver, fw, frame>>,
             app' \notin Purged => app \notin Purged /\ status'[frame] = status[frame],
             app' \notin Released =>
               /\ app \notin Released
               /\ \A b \in Buffer : vb[b] = "active" => vb'[b] = "active"
               /\ \A w \in Worker : at'[w] \in {"search", "done"} => at[w] \in {"search", "done"}
      PROVE  CallbackApart'
  BY <1>1, <1>2, <1>3
<1>4. CASE App
  <2>1. CASE (\E b \in Buffer : QBuf(b)) \/ StreamOn
    <3>1. PICK bs \in SUBSET Buffer : Given(bs)
      BY <2>1, GivingCalls DEF IInv, TypeOK, QueueOK, PipeOK
    <3>2. UNCHANGED <<at, hand, mailbox, leftOver, fw, frame>> /\ app = "idle"
      BY <2>1 DEF QBuf, StreamOn, threads, callback, Goto
    <3>3. \A b \in Buffer : vb[b] = "active" => vb'[b] = "active"
      BY <3>1 DEF Given
    <3> SUFFICES ASSUME ~leftOver, fw # "idle" PROVE CallbackApart'
      BY <3>2
    <3>4. status[frame] = "ready"
      BY <1>2, <3>2
    <3>5. status'[frame] = "ready" /\ slot'[frame] = slot[frame]
      BY <3>1, <3>4, <1>1 DEF Given
    <3> QED BY <3>2, <3>3, <3>5, <1>1, <1>2
  <2>2. ASSUME NEW b \in Buffer, DQBuf(b) PROVE CallbackApart'
    <3>1. \A c \in Buffer : vb[c] = "active" => vb'[c] = "active"
      BY <2>2, <1>1 DEF DQBuf
    <3> QED BY <2>2, <3>1, <1>3 DEF DQBuf, threads, dma, callback
  <2>3. ASSUME NEW w \in Worker, Spawn(w) PROVE CallbackApart'
    BY <2>3, <1>1, <1>3 DEF Spawn, queue, dma, callback, Goto
  <2>4. CASE SensorStart \/ SetStarted \/ SensorStop \/ StopThread \/ QueueReset
    BY <2>4, <1>3 DEF SensorStart, SetStarted, SensorStop, StopThread, QueueReset, threads, queue, dma, callback, Goto
  <2>5. CASE JoinThread
    <3>1. kthread \in Worker
      BY <2>5, <1>1 DEF JoinThread, IInv, ThreadKnown, Goto
    <3> QED BY <2>5, <3>1, <1>1, <1>3 DEF JoinThread, queue, dma, callback, Goto
  <2>6. CASE Release \/ ClearStarted
    BY <2>6, <1>3 DEF Release, ClearStarted, Goto, dma, threads, callback
  <2>7. CASE Cancel
    BY <2>7 DEF Cancel, callback
  <2> QED BY <1>4, <2>1, <2>2, <2>3, <2>4, <2>5, <2>6, <2>7 DEF App
<1>5. ASSUME NEW w \in Worker, Thread(w) PROVE CallbackApart'
  <2>1. app \notin Released /\ app' = app
    BY <1>5 DEF Thread, ThreadExit, ThreadTake, ThreadFind, ThreadMiss, ThreadDone, ThreadGoto, IInv, ThreadKnown
  <2>2. CASE ThreadExit(w) \/ ThreadMiss(w)
    <3>1. \A v \in Worker : at'[v] \notin {"search", "done"}
      BY <2>2, <1>1 DEF ThreadExit, ThreadMiss, ThreadGoto
    <3> QED BY <2>2, <3>1, <2>1, <1>2 DEF ThreadExit, ThreadMiss, queue, dma, callback
  <2>3. CASE ThreadTake(w)
    <3>1. \A v \in Worker : hand'[v] = mailbox
      BY <2>3, <1>1 DEF ThreadTake
    <3>2. mailbox' = Null
      BY <2>3 DEF ThreadTake
    <3> QED BY <2>3, <3>1, <3>2, <2>1, <1>2 DEF ThreadTake, queue, dma, callback
  <2>4. CASE ThreadFind(w)
    BY <2>4, <2>1, <1>1, <1>3 DEF ThreadFind, ThreadGoto, dma, callback
  <2>5. CASE ThreadDone(w)
    <3>1. w \in Handling
      BY <2>5 DEF ThreadDone, ThreadGoto
    <3>2. \A v \in Worker : at'[v] \notin {"search", "done"}
      BY <2>5, <1>1 DEF ThreadDone, ThreadGoto
    <3>3. \A b \in Buffer : b # hand[w] => vb'[b] = vb[b]
      BY <2>5, <1>1 DEF ThreadDone
    <3> QED BY <2>5, <3>1, <3>2, <3>3, <2>1, <1>1, <1>2 DEF ThreadDone, dma, callback
  <2> QED BY <1>5, <2>2, <2>3, <2>4, <2>5 DEF Thread
<1>6. CASE Firmware
  <2>1. ASSUME NEW s \in Slot, FrameWritten(s) PROVE CallbackApart'
    <3>1. app \notin Purged
      BY <2>1 DEF FrameWritten, IInv, TakenBack
    <3>2. status[frame] = "ready" => status'[frame] = "ready"
      BY <2>1, <1>1 DEF FrameWritten
    <3> QED BY <2>1, <3>1, <3>2, <1>2 DEF FrameWritten, queue, callback, threads
  <2>2. ASSUME NEW s \in Slot, CallbackFind(s) PROVE CallbackApart'
    <3>1. app \notin Purged /\ UNCHANGED <<app, vb, slot, status, mailbox, hand, at, leftOver>>
      BY <2>2 DEF CallbackFind, IInv, TakenBack, queue, dma, threads
    <3>2. \A b \in list : vb[b] = "active"
      BY <1>1 DEF IInv, Owned
    <3>3. ~leftOver => /\ slot[s] \in list /\ slot[s] # mailbox
                       /\ \A w \in Handling : hand[w] # slot[s]
      BY <2>2, <1>2 DEF CallbackFind, FramesApart
    <3> QED BY <2>2, <3>1, <3>2, <3>3, <1>1 DEF CallbackFind
  <2>3. CASE CallbackCheck
    BY <2>3, <1>2 DEF CallbackCheck, queue, threads
  <2>4. CASE CallbackSave
    BY <2>4 DEF CallbackSave
  <2> QED BY <1>6, <2>1, <2>2, <2>3, <2>4 DEF Firmware
<1>7. CASE UNCHANGED vars
  BY <1>7, <1>3 DEF vars, threads, queue, dma, callback
<1> QED BY <1>4, <1>5, <1>6, <1>7 DEF Next
-----------------------------------------------------------------------------
\* A new stream has nothing queued, nothing in flight and no thread.
LEMMA InitIInv ==
  ASSUME Init
  PROVE  IInv
<1> USE StreamAssumption DEF Init
<1>1. TypeOK
  BY DEF TypeOK
<1>2. ThreadKnown /\ OffList /\ TakenBack
  BY DEF ThreadKnown, OffList, Handling, TakenBack, Purged, Released
<1>3. Owned
  BY DEF Owned
<1>4. FramesApart /\ CallbackApart
  BY DEF FramesApart, CallbackApart, Handling
<1> QED BY <1>1, <1>2, <1>3, <1>4 DEF IInv

\* With one copy thread at a time IInv is inductive: for any number of buffers,
\* slots and frames every buffer of a session has one owner.
THEOREM StreamInvariant == ASSUME OneThread PROVE Spec => []IInv
<1>1. Init => IInv
  BY InitIInv
<1>2. IInv /\ [Next]_vars => IInv'
  <2> SUFFICES ASSUME IInv, [Next]_vars PROVE IInv'
    OBVIOUS
  <2>1. TypeOK /\ ThreadKnown /\ OffList /\ TakenBack /\ Owned
    BY DEF IInv
  <2>2. PlacesOK /\ PipeOK
    BY <2>1 DEF TypeOK, PlacesOK, PipeOK
  <2>3. TypeOK' /\ ThreadKnown' /\ TakenBack'
    BY <2>1, <2>2, TypeStep, ThreadKnownStep, TakenBackStep
  <2>4. OffList' /\ Owned'
    BY <2>1, OffListStep, OwnedStep
  <2>5. FramesApart' /\ CallbackApart'
    BY FramesApartStep, CallbackApartStep
  <2> QED BY <2>3, <2>4, <2>5 DEF IInv
<1> QED BY <1>1, <1>2, PTL DEF Spec

\* Every variable keeps its type.
THEOREM TypeCorrect == ASSUME OneThread PROVE Spec => []TypeOK
<1>1. IInv => TypeOK
  BY DEF IInv
<1> QED BY <1>1, StreamInvariant, PTL

\* No buffer is lost between vb2 and the driver: vb2's active buffers are those
\* on stream_buffer_list and the one the copy thread is about to return, and
\* isp_v4l2_streamoff has returned them all before it calls vb2_streamoff,
\* because the copy thread is gone and the list empty by then.
THEOREM BuffersOwned == ASSUME OneThread PROVE Spec => []NoBufferLost
<1>1. IInv => ActiveIsOwned
  BY OwnedIsActiveIsOwned DEF IInv
<1>2. IInv => ReturnedOnStop
  <2> SUFFICES ASSUME IInv, app = "cancel" PROVE In("active") = {}
    BY DEF ReturnedOnStop
  <2>1. \A w \in Worker : at[w] = "none"
    BY StreamAssumption DEF IInv, ThreadKnown
  <2>2. list = {}
    BY DEF IInv, TakenBack, Released
  <2> QED BY <2>1, <2>2 DEF IInv, Owned, In
<1>3. IInv => NoBufferLost
  BY <1>1, <1>2 DEF NoBufferLost
<1> QED BY StreamInvariant, <1>3, PTL

\* Until a session leaves a frame behind, a buffer handed to the application is
\* in no slot of the DMA pipe.
THEOREM LockedInSession == ASSUME OneThread PROVE Spec => []LockedUnlessLeftOver
<1>1. IInv => LockedUnlessLeftOver
  BY DEF IInv, LockedUnlessLeftOver, FramesApart, Handling, InPipe
<1> QED BY <1>1, StreamInvariant, PTL
=============================================================================
