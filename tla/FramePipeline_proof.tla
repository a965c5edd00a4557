------------------------- MODULE FramePipeline_proof --------------------------
(* Proofs about the running stream and its DMA pipe, for any number of slots   *)
(* and buffers, any rates and controls, and however late the firmware is.      *)
EXTENDS FramePipeline, FiniteSetTheorems, WellFoundedInduction, TLAPS

-----------------------------------------------------------------------------
(* The searches of a pipe.                                                     *)

\* Any set of natural numbers that is not empty has a least element.
LEMMA LeastNatural ==
  ASSUME NEW T \in SUBSET Nat, T # {}
  PROVE  Min(T) \in T
<1> DEFINE R == {ss \in Nat \X Nat : ss[1] < ss[2]}
<1>1. IsWellFoundedOn(R, Nat)
  BY NatLessThanWellFounded DEF OpToRel
<1>2. PICK x \in T : \A y \in T : ~(<<y, x>> \in R)
  <2> HIDE DEF R
  <2> QED BY <1>1, WFMin
<1>3. \A y \in T : ~(y < x)
  BY <1>2
<1>4. \E z \in T : \A y \in T : z <= y
  <2>1. \A y \in T : x \in Nat /\ y \in Nat
    OBVIOUS
  <2> QED BY <1>3, <2>1
<1> QED BY <1>4 DEF Min

\* Going around the queue from one slot passes every slot.
LEMMA Around ==
  ASSUME NEW from \in Slot
  PROVE  /\ \A i \in Slot : (from + i) % MaxFrames \in Slot
         /\ \A s \in Slot : \E i \in Slot : s = (from + i) % MaxFrames
<1>1. \A x \in 0..2 * MaxFrames - 2 :
        x % MaxFrames = IF x < MaxFrames THEN x ELSE x - MaxFrames
  BY PipeAssumption
<1>2. ASSUME NEW s \in Slot
      PROVE  \E i \in Slot : s = (from + i) % MaxFrames
  <2> DEFINE i == IF s >= from THEN s - from ELSE s - from + MaxFrames
  <2>1. i \in Slot /\ from + i \in 0..2 * MaxFrames - 2
    BY PipeAssumption DEF Slot
  <2>2. s = (from + i) % MaxFrames
    BY <1>1, <2>1, PipeAssumption DEF Slot
  <2> QED BY <2>1, <2>2
<1> QED BY <1>1, <1>2, PipeAssumption DEF Slot

\* A search finds a slot with the status asked for, if there is one.
LEMMA FirstFound ==
  ASSUME NEW p \in Pipe, NEW from \in Slot, NEW st
  PROVE  /\ FirstFrom(p, from, st) # Null =>
              FirstFrom(p, from, st) \in Slot /\ p.status[FirstFrom(p, from, st)] = st
         /\ FirstFrom(p, from, st) = Null => \A s \in Slot : p.status[s] # st
<1> DEFINE D == Distances(p, from, st)
<1>1. D \in SUBSET Nat /\ D \subseteq Slot
  BY PipeAssumption DEF Distances, Slot
<1>2. CASE D = {}
  <2>1. FirstFrom(p, from, st) = Null
    BY <1>2 DEF FirstFrom
  <2>2. ASSUME NEW s \in Slot, p.status[s] = st PROVE FALSE
    <3>1. PICK i \in Slot : s = (from + i) % MaxFrames
      BY Around
    <3> QED BY <1>2, <2>2, <3>1 DEF Distances
  <2> QED BY <2>1, <2>2
<1>3. CASE D # {}
  <2>1. Min(D) \in D
    BY <1>1, <1>3, LeastNatural
  <2>2. (from + Min(D)) % MaxFrames \in Slot /\ p.status[(from + Min(D)) % MaxFrames] = st
    BY <2>1, <1>1, Around DEF Distances
  <2> QED BY <1>3, <2>2, PipeAssumption DEF FirstFrom
<1> QED BY <1>2, <1>3
-----------------------------------------------------------------------------
(* What every operation keeps of a pipe.                                       *)

Apart(p) ==
  /\ p.last # Null => p.last \notin {p.in0, p.in1, p.back}
  /\ p.in0 # Null => p.in0 \notin {p.in1, p.back}
  /\ p.in1 # Null => p.in1 # p.back

\* Every slot in use has a buffer of its own.
Filled(p) ==
  /\ \A s \in Slot : p.status[s] # "purge" => p.buf[s] \in Buffer
  /\ \A s, t \in Slot : /\ p.status[s] # "purge" /\ p.status[t] # "purge"
                        /\ p.buf[s] = p.buf[t]
                        => s = t

Busy(p) == \A s \in Held(p) : p.status[s] = "busy"

\* Nothing is in a pipe before the first buffer arms it.
Unarmed(p) == ~p.enabled => p.rdi = 0 /\ \A s \in Slot : p.status[s] = "purge"

PipeInv(p) == p \in Pipe /\ Filled(p) /\ Busy(p) /\ Apart(p) /\ Unarmed(p)

\* HeldDistinct says the same of the pointers.
LEMMA ApartPointers ==
  ASSUME NEW p \in Pipe
  PROVE  Apart(p) <=> \A f, g \in {"last", "in0", "in1", "back"} :
                        p[f] = p[g] /\ p[f] # Null => f = g
BY DEF Apart, Pipe

\* What is live and what is in the pipe, field by field.
LEMMA SameInPipe ==
  ASSUME NEW p, NEW q, q.buf = p.buf,
         \A s \in Slot : q.status[s] # "purge" <=> p.status[s] # "purge"
  PROVE  InPipe(q) = InPipe(p)
BY DEF InPipe, Live

\* An unarmed pipe holds nothing.
LEMMA UnarmedHeld ==
  ASSUME NEW p, PipeInv(p), ~p.enabled
  PROVE  p.last = Null /\ p.in0 = Null /\ p.in1 = Null /\ p.back = Null
BY DEF PipeInv, Pipe, Busy, Held, Unarmed

\* dma_writer_reset and dma_writer_init: the empty pipe.
LEMMA InitialInv == PipeInv(InitialPipe) /\ InPipe(InitialPipe) = {}
<1>1. InitialPipe \in Pipe
  BY PipeAssumption DEF InitialPipe, Pipe, Slot, Status
<1> QED BY <1>1 DEF PipeInv, InitialPipe, Filled, Busy, Held, Apart, Unarmed, InPipe, Live

\* dma_writer_set_pipe_fps
LEMMA SetRateInv ==
  ASSUME NEW p, PipeInv(p), NEW c \in Nat \ {0}, NEW t \in Nat \ {0}
  PROVE  PipeInv(SetRate(p, c, t)) /\ InPipe(SetRate(p, c, t)) = InPipe(p)
<1> DEFINE q == SetRate(p, c, t)
<1>1. (c + t - 1) \div t \in Nat
  OBVIOUS
<1>2. q = [p EXCEPT !.cFps = c, !.tFps = t, !.interval = (c + t - 1) \div t]
  BY DEF SetRate
<1>3. q \in Pipe /\ q.buf = p.buf /\ q.status = p.status /\ q.rdi = p.rdi
      /\ q.last = p.last /\ q.in0 = p.in0 /\ q.in1 = p.in1 /\ q.back = p.back
      /\ q.enabled = p.enabled
  BY <1>1, <1>2 DEF PipeInv, Pipe
<1> QED BY <1>3 DEF PipeInv, Filled, Busy, Held, Apart, Unarmed, InPipe, Live

\* dma_writer_write_frame_queue, with a slot free for the buffer
LEMMA WriteFrameQueueInv ==
  ASSUME NEW p, PipeInv(p), NEW b \in Buffer, b \notin InPipe(p),
         \E s \in Slot : p.status[s] = "purge"
  PROVE  LET q == WriteFrameQueue(p, b)
         IN  PipeInv(q) /\ InPipe(q) = InPipe(p) \cup {b}
<1> DEFINE free == Distances(p, p.rdi, "purge")
           set_i == Min(free)
           index == (p.rdi + set_i) % MaxFrames
           queued == [p EXCEPT !.buf[index] = b, !.status[index] = "empty"]
<1>1. free # {} /\ free \in SUBSET Nat /\ free \subseteq Slot
  <2>1. PICK s \in Slot : p.status[s] = "purge"
    OBVIOUS
  <2>2. PICK i \in Slot : s = (p.rdi + i) % MaxFrames
    BY Around DEF PipeInv, Pipe
  <2> QED BY <2>1, <2>2, PipeAssumption DEF Distances, Slot
<1>2. set_i \in Slot /\ index \in Slot /\ p.status[index] = "purge"
  <2>1. set_i \in free
    BY <1>1, LeastNatural
  <2> QED BY <1>1, <2>1, Around DEF Distances, PipeInv, Pipe
<1>3. WriteFrameQueue(p, b) = IF p.enabled THEN queued ELSE Arm(queued, set_i)
  BY <1>1 DEF WriteFrameQueue
<1> HIDE DEF index, set_i
<1>4. /\ queued \in Pipe
      /\ queued.buf = [p.buf EXCEPT ![index] = b]
      /\ queued.status = [p.status EXCEPT ![index] = "empty"]
      /\ queued.rdi = p.rdi /\ queued.enabled = p.enabled
      /\ queued.last = p.last /\ queued.in0 = p.in0 /\ queued.in1 = p.in1 /\ queued.back = p.back
  BY <1>2 DEF PipeInv, Pipe, Status
<1>5. \A s \in Slot : p.status[s] # "purge" => p.buf[s] # b
  BY DEF InPipe, Live
<1>6. Filled(queued)
  BY <1>2, <1>4, <1>5 DEF PipeInv, Pipe, Filled
<1>7. InPipe(queued) = InPipe(p) \cup {b}
  <2>1. Live(queued) = Live(p) \cup {index}
    BY <1>2, <1>4 DEF Live, PipeInv, Pipe
  <2>2. index \notin Live(p)
    BY <1>2 DEF Live
  <2> QED BY <1>2, <1>4, <2>1, <2>2 DEF InPipe, Live, PipeInv, Pipe
<1>8. CASE p.enabled
  <2>1. Busy(queued) /\ Apart(queued) /\ Unarmed(queued)
    BY <1>2, <1>4, <1>8 DEF PipeInv, Pipe, Busy, Held, Apart, Unarmed
  <2> QED BY <1>3, <1>4, <1>6, <1>7, <1>8, <2>1 DEF PipeInv
<1>9. CASE ~p.enabled
  <2>1. p.last = Null /\ p.in0 = Null /\ p.in1 = Null /\ p.back = Null
    BY <1>9, UnarmedHeld
  <2>2. set_i = index
    <3>1. p.rdi = 0
      BY <1>9 DEF PipeInv, Unarmed
    <3> QED BY <1>2, <3>1, PipeAssumption DEF index, Slot
  <2> DEFINE q == Arm(queued, index)
  <2>3. /\ q \in Pipe /\ q.buf = queued.buf /\ q.enabled
        /\ q.status = [queued.status EXCEPT ![index] = "busy"]
        /\ q.last = Null /\ q.in0 = Null /\ q.in1 = index /\ q.back = Null
    BY <1>2, <1>4, <2>1 DEF Arm, Pipe, Status
  <2>4. \A s \in Slot : q.status[s] # "purge" <=> queued.status[s] # "purge"
    BY <1>2, <1>4, <2>3 DEF PipeInv, Pipe
  <2> HIDE DEF q, queued
  <2>5. Filled(q)
    BY <1>6, <2>3, <2>4 DEF Filled
  <2>6. InPipe(q) = InPipe(queued)
    BY <2>3, <2>4, SameInPipe
  <2>7. Busy(q) /\ Apart(q) /\ Unarmed(q)
    BY <1>2, <1>4, <2>3, PipeAssumption DEF Busy, Held, Apart, Unarmed, PipeInv, Pipe
  <2> QED BY <1>3, <1>7, <1>9, <2>2, <2>3, <2>5, <2>6, <2>7 DEF PipeInv, q, queued
<1> QED BY <1>8, <1>9

\* After an update the slot just programmed may still be the one taken back.
Updated(p) ==
  /\ p \in Pipe /\ Filled(p) /\ Busy(p) /\ Unarmed(p)
  /\ p.last # Null => p.last \notin {p.in0, p.in1, p.back}
  /\ p.in0 # Null => p.in0 \notin {p.in1, p.back}
  /\ p.back # Null => p.back = p.in1

\* Recycling or delivering the slot written longest ago frees it from the
\* pointers.
LEMMA RetireShift ==
  ASSUME NEW p, PipeInv(p), p.enabled, NEW drop \in BOOLEAN
  PROVE  LET q == Shift(Retire(p, drop))
         IN  /\ q \in Pipe /\ Filled(q) /\ q.enabled /\ InPipe(q) = InPipe(p)
             /\ q.wri = p.wri /\ q.buf = p.buf
             /\ q.last = p.in0 /\ q.in0 = p.in1 /\ q.in1 = Null /\ q.back = p.back
             /\ Busy(q) /\ Apart(q)
<1> DEFINE r == Retire(p, drop)
           q == Shift(r)
<1>1. p \in Pipe /\ (p.last # Null => p.last \in Slot /\ p.status[p.last] = "busy")
  BY DEF PipeInv, Pipe, Busy, Held
<1>2. /\ r \in Pipe /\ r.buf = p.buf /\ r.enabled = p.enabled /\ r.wri = p.wri
      /\ r.in0 = p.in0 /\ r.in1 = p.in1 /\ r.back = p.back
      /\ \A s \in Slot : s # p.last => r.status[s] = p.status[s]
      /\ p.last # Null => r.status[p.last] \in {"empty", "ready"}
  BY <1>1 DEF Retire, Pipe, Status
<1>3. /\ q \in Pipe /\ q.buf = r.buf /\ q.status = r.status /\ q.enabled = r.enabled
      /\ q.wri = r.wri /\ q.last = p.in0 /\ q.in0 = p.in1 /\ q.in1 = Null /\ q.back = p.back
  BY <1>2, PipeAssumption DEF Shift, Pipe
<1> HIDE DEF r, q
<1>4. \A s \in Slot : q.status[s] # "purge" <=> p.status[s] # "purge"
  BY <1>1, <1>2, <1>3, PipeAssumption
<1>5. Filled(q) /\ InPipe(q) = InPipe(p)
  BY <1>2, <1>3, <1>4, SameInPipe DEF PipeInv, Filled
<1>6. Busy(q) /\ Apart(q)
  BY <1>1, <1>2, <1>3 DEF PipeInv, Pipe, Busy, Held, Apart
<1> QED BY <1>2, <1>3, <1>5, <1>6 DEF q, r

\* What programming a slot changes.
LEMMA ProgramEffect ==
  ASSUME NEW p \in Pipe, NEW s \in Slot
  PROVE  LET u == Program(p, s)
         IN  /\ u \in Pipe /\ u.buf = p.buf /\ u.status = [p.status EXCEPT ![s] = "busy"]
             /\ u.enabled = p.enabled
             /\ u.last = p.last /\ u.in0 = p.in0 /\ u.in1 = s /\ u.back = p.back
<1> DEFINE u == Program(p, s)
<1>1. p.buf[s] \in Buffer \cup {Null}
  BY DEF Pipe
<1>2. [p.status EXCEPT ![s] = "busy"] \in [Slot -> Status]
  BY DEF Pipe, Status
<1>3. u = [p EXCEPT !.in1 = s, !.status = [p.status EXCEPT ![s] = "busy"],
                    !.addr = p.buf[s], !.on = TRUE]
  BY DEF Program, Pipe
<1> QED BY <1>1, <1>2, <1>3 DEF Pipe

\* A pipe that differs in its busy slots and pointers only.
LEMMA SameContents ==
  ASSUME NEW p, NEW q, Filled(p), q.buf = p.buf,
         \A s \in Slot : q.status[s] # "purge" <=> p.status[s] # "purge"
  PROVE  Filled(q) /\ InPipe(q) = InPipe(p)
<1>1. InPipe(q) = InPipe(p)
  BY SameInPipe
<1> QED BY <1>1 DEF Filled

\* dma_writer_pipe_update
LEMMA PipeUpdateInv ==
  ASSUME NEW p, PipeInv(p), NEW drop \in BOOLEAN
  PROVE  Updated(PipeUpdate(p, drop)) /\ InPipe(PipeUpdate(p, drop)) = InPipe(p)
<1> DEFINE q == Shift(Retire(p, drop))
           first == FirstFrom(q, q.wri, "empty")
           u == PipeUpdate(p, drop)
<1>1. CASE ~p.enabled
  BY <1>1, UnarmedHeld DEF PipeUpdate, PipeInv, Updated
<1> SUFFICES ASSUME p.enabled PROVE Updated(u) /\ InPipe(u) = InPipe(p)
  BY <1>1
<1>2. /\ q \in Pipe /\ Filled(q) /\ q.enabled /\ InPipe(q) = InPipe(p)
      /\ q.last = p.in0 /\ q.in0 = p.in1 /\ q.in1 = Null /\ q.back = p.back
      /\ Busy(q) /\ Apart(q)
  BY RetireShift
<1>3. CASE p.back # Null
  <2>1. u = Program(q, p.back)
    BY <1>3 DEF PipeUpdate
  <2>2. p.back \in Slot /\ q.status[p.back] = "busy"
    BY <1>2, <1>3 DEF Busy, Held, PipeInv, Pipe
  <2> HIDE DEF q, first
  <2>3. /\ u \in Pipe /\ u.buf = q.buf /\ u.status = [q.status EXCEPT ![p.back] = "busy"]
        /\ u.enabled = q.enabled
        /\ u.last = q.last /\ u.in0 = q.in0 /\ u.in1 = p.back /\ u.back = q.back
    <3> HIDE DEF u
    <3> QED BY <1>2, <2>1, <2>2, ProgramEffect
  <2> HIDE DEF u
  <2>4. u.status = q.status
    BY <1>2, <2>2, <2>3 DEF Pipe
  <2>5. Filled(u) /\ InPipe(u) = InPipe(q)
    BY <1>2, <2>3, <2>4 DEF Filled, InPipe, Live
  <2>6. Busy(u) /\ Unarmed(u)
    BY <1>2, <2>2, <2>3, <2>4 DEF Busy, Held, Pipe, Unarmed
  <2> QED BY <1>2, <1>3, <2>3, <2>5, <2>6 DEF Updated, Apart
<1>4. CASE p.back = Null /\ first = Null
  <2>1. u = [q EXCEPT !.on = FALSE]
    BY <1>4 DEF PipeUpdate
  <2> HIDE DEF q, first
  <2>2. /\ u \in Pipe /\ u.buf = q.buf /\ u.status = q.status /\ u.enabled = q.enabled
        /\ u.last = q.last /\ u.in0 = q.in0 /\ u.in1 = q.in1 /\ u.back = q.back
    BY <1>2, <2>1 DEF Pipe
  <2> HIDE DEF u
  <2>3. Filled(u) /\ InPipe(u) = InPipe(q)
    BY <1>2, <2>2, SameContents
  <2>4. Busy(u) /\ Unarmed(u)
    BY <1>2, <2>2 DEF Busy, Held, Unarmed
  <2> QED BY <1>2, <1>4, <2>2, <2>3, <2>4 DEF Updated, Apart
<1>5. CASE p.back = Null /\ first # Null
  <2> DEFINE t == TakeEmpty(q, first)
  <2>1. u = Program(t, first)
    BY <1>5 DEF PipeUpdate
  <2>2. first \in Slot /\ q.status[first] = "empty"
    BY <1>2, <1>5, FirstFound DEF Pipe
  <2> HIDE DEF q, first
  <2>3. /\ t \in Pipe /\ t.buf = q.buf /\ t.enabled = q.enabled
        /\ t.last = q.last /\ t.in0 = q.in0 /\ t.in1 = q.in1 /\ t.back = q.back
        /\ t.status = [q.status EXCEPT ![q.wri] = IF Stuck(q, q.wri) THEN "empty" ELSE @]
    <3>1. (first + 1) % MaxFrames \in Slot
      BY <2>2, PipeAssumption DEF Slot
    <3> QED BY <1>2, <3>1 DEF TakeEmpty, Pipe, Status
  <2>4. t.status[first] = "empty" /\ \A s \in Held(q) : t.status[s] = "busy"
    BY <1>2, <1>5, <2>2, <2>3, PipeAssumption DEF Stuck, Busy, Held, Pipe
  <2>5. \A s \in Slot : t.status[s] # "purge" <=> q.status[s] # "purge"
    BY <1>2, <2>3 DEF Stuck, Pipe
  <2> HIDE DEF t
  <2>6. /\ u \in Pipe /\ u.buf = q.buf /\ u.status = [t.status EXCEPT ![first] = "busy"]
        /\ u.enabled = q.enabled
        /\ u.last = q.last /\ u.in0 = q.in0 /\ u.in1 = first /\ u.back = q.back
    BY <2>1, <2>2, <2>3, ProgramEffect
  <2> HIDE DEF u
  <2>7. \A s \in Slot : u.status[s] # "purge" <=> q.status[s] # "purge"
    BY <2>2, <2>3, <2>4, <2>5, <2>6 DEF Pipe
  <2>8. Filled(u) /\ InPipe(u) = InPipe(q)
    BY <1>2, <2>6, <2>7, SameContents
  <2>9. first \notin Held(q)
    BY <1>2, <2>2 DEF Busy
  <2>10. Busy(u) /\ Unarmed(u)
    BY <1>2, <2>2, <2>3, <2>4, <2>6 DEF Busy, Held, Pipe, Unarmed
  <2> QED BY <1>2, <1>5, <2>6, <2>8, <2>9, <2>10 DEF Updated, Apart, Held, Pipe
<1> QED BY <1>3, <1>4, <1>5

\* dma_writer_pipe_set_fps, which settles what was taken back
LEMMA PipeSetFpsInv ==
  ASSUME NEW p, Updated(p), NEW frame \in Nat
  PROVE  PipeInv(PipeSetFps(p, frame)) /\ InPipe(PipeSetFps(p, frame)) = InPipe(p)
<1> DEFINE q == PipeSetFps(p, frame)
<1>1. /\ q \in Pipe /\ q.buf = p.buf /\ q.status = p.status /\ q.enabled = p.enabled
      /\ q.rdi = p.rdi /\ q.last = p.last /\ q.in0 = p.in0
      /\ \/ q.in1 = Null /\ q.back = p.in1
         \/ q.in1 = p.in1 /\ q.back = Null
  BY PipeAssumption DEF PipeSetFps, Updated, Pipe
<1> HIDE DEF q
<1>2. Filled(q) /\ InPipe(q) = InPipe(p) /\ Busy(q) /\ Unarmed(q)
  BY <1>1 DEF Updated, Filled, InPipe, Live, Busy, Held, Unarmed
<1>3. Apart(q)
  BY <1>1 DEF Updated, Apart
<1> QED BY <1>1, <1>2, <1>3 DEF PipeInv, q

\* frame_buffer_fr_finished: the buffer handed over, and no other, leaves the
\* pipe.
LEMMA FinishInv ==
  ASSUME NEW p, PipeInv(p), NEW handedOver \in BOOLEAN
  PROVE  LET s == NextReady(p)
             q == Finish(p, handedOver)
         IN  /\ PipeInv(q)
             /\ s # Null => s \in Slot /\ p.buf[s] \in Buffer
             /\ IF s # Null /\ handedOver
                  THEN p.buf[s] \notin InPipe(q) /\ InPipe(p) = InPipe(q) \cup {p.buf[s]}
                  ELSE InPipe(q) = InPipe(p)
<1> DEFINE s == NextReady(p)
           q == Finish(p, handedOver)
<1>1. CASE s = Null
  BY <1>1 DEF Finish
<1>2. CASE s # Null
  <2>1. s \in Slot /\ p.status[s] = "ready" /\ p.buf[s] \in Buffer
    BY <1>2, FirstFound DEF NextReady, PipeInv, Pipe, Filled
  <2> DEFINE st == IF handedOver THEN "purge" ELSE "empty"
  <2>2. q = [p EXCEPT !.rdi = (s + 1) % MaxFrames, !.status[s] = st]
    BY <1>2 DEF Finish
  <2> HIDE DEF s, q
  <2>3. /\ q \in Pipe /\ q.buf = p.buf /\ q.status = [p.status EXCEPT ![s] = st]
        /\ q.enabled = p.enabled
        /\ q.last = p.last /\ q.in0 = p.in0 /\ q.in1 = p.in1 /\ q.back = p.back
    <3>1. (s + 1) % MaxFrames \in Slot
      BY <2>1, PipeAssumption DEF Slot
    <3> QED BY <2>1, <2>2, <3>1 DEF PipeInv, Pipe, Status
  <2>4. Filled(q)
    BY <2>1, <2>3 DEF PipeInv, Pipe, Filled
  <2>5. p.enabled
    BY <2>1 DEF PipeInv, Unarmed
  <2>6. Busy(q) /\ Apart(q) /\ Unarmed(q)
    BY <2>1, <2>3, <2>5 DEF PipeInv, Pipe, Busy, Held, Apart, Unarmed
  <2>7. CASE handedOver
    <3>1. Live(q) = Live(p) \ {s} /\ s \in Live(p)
      BY <2>1, <2>3, <2>7 DEF Live, PipeInv, Pipe
    <3>2. p.buf[s] \notin InPipe(q) /\ InPipe(p) = InPipe(q) \cup {p.buf[s]}
      BY <2>1, <2>3, <3>1 DEF InPipe, Live, PipeInv, Filled
    <3> QED BY <1>2, <2>1, <2>3, <2>4, <2>6, <2>7, <3>2 DEF PipeInv, s, q
  <2>8. CASE ~handedOver
    <3>1. \A x \in Slot : q.status[x] # "purge" <=> p.status[x] # "purge"
      BY <2>1, <2>3, <2>8 DEF PipeInv, Pipe
    <3>2. InPipe(q) = InPipe(p)
      BY <2>3, <3>1, SameInPipe
    <3> QED BY <1>2, <2>1, <2>3, <2>4, <2>6, <2>8, <3>2 DEF PipeInv, s, q
  <2> QED BY <2>7, <2>8
<1> QED BY <1>1, <1>2
-----------------------------------------------------------------------------
(* The stream around the pipe.                                                 *)

\* The buffers the driver has are in the pipe or on their way to the copy
\* thread.
Accounts ==
  /\ mailbox \in Buffer \cup {Null} /\ mailbox \notin InPipe(pipe)
  /\ list = InPipe(pipe) \cup ({mailbox} \ {Null})

\* The type invariant without the pipe and the lists.
OthersOK ==
  /\ current \in {"ping", "pong"} /\ next \in {"ping", "pong"}
  /\ page \in [{"ping", "pong"} -> [addr : Buffer \cup {Null}, on : BOOLEAN]]
  /\ writing \in Buffer \cup {Null} /\ raised \in BOOLEAN
  /\ cfgDone \in BOOLEAN /\ meterDone \in BOOLEAN
  /\ cfgCopy \in {"none", "process", "drop"} /\ meterCopy \in BOOLEAN
  /\ pending \in Seq(Event) /\ fw \in Event \cup {Null}
  /\ streaming \in BOOLEAN /\ late \in BOOLEAN /\ fresh \subseteq Buffer

\* Before the stream starts only buffers are queued.
Quiet ==
  ~streaming => /\ ~raised /\ cfgCopy = "none" /\ ~meterCopy
                /\ pending = <<>> /\ fw = Null /\ pipe.back = Null

IInv == OthersOK /\ PipeInv(pipe) /\ Accounts /\ FlagsBacked /\ Quiet

LEMMA PipeHasBuffers ==
  ASSUME NEW p, PipeInv(p)
  PROVE  InPipe(p) \subseteq Buffer /\ Null \notin InPipe(p)
BY PipeAssumption DEF PipeInv, Filled, InPipe, Live

\* Whenever the application has a buffer there is a slot free for it: each slot
\* in use has a buffer of its own that the driver has, and there are no more
\* buffers than slots.
LEMMA SlotFree ==
  ASSUME PipeInv(pipe), Accounts, NEW b \in Buffer, b \notin list
  PROVE  \E s \in Slot : pipe.status[s] = "purge"
<1> SUFFICES ASSUME \A s \in Slot : pipe.status[s] # "purge" PROVE FALSE
  OBVIOUS
<1> DEFINE f == [s \in Slot |-> pipe.buf[s]]
           T == Buffer \ {b}
<1>1. \A s \in Slot : pipe.buf[s] \in T
  BY DEF Accounts, InPipe, Live, PipeInv, Filled
<1>2. f \in Injection(Slot, T)
  BY <1>1 DEF PipeInv, Filled, Injection, IsInjective
<1>3. IsFiniteSet(T) /\ Cardinality(T) = Cardinality(Buffer) - 1
  BY PipelineAssumption, FS_RemoveElement
<1>4. Cardinality(Slot) <= Cardinality(T)
  <2> HIDE DEF f, T
  <2> QED BY <1>2, <1>3, FS_Injection
<1>5. Cardinality(Slot) = MaxFrames
  BY PipeAssumption, FS_Interval DEF Slot
<1>6. Cardinality(Buffer) \in Nat
  BY PipelineAssumption, FS_CardinalityType
<1> QED BY <1>3, <1>4, <1>5, <1>6, PipelineAssumption, PipeAssumption

\* The initial state.
LEMMA InitIInv == Init => IInv
<1> SUFFICES ASSUME Init PROVE IInv
  OBVIOUS
<1>1. PipeInv(pipe) /\ InPipe(pipe) = {}
  BY InitialInv DEF Init
<1>2. Accounts
  BY <1>1 DEF Accounts, Init
<1>3. page \in [{"ping", "pong"} -> [addr : Buffer \cup {Null}, on : BOOLEAN]]
  BY DEF Init, Shadow, InitialPipe
<1>4. <<>> \in Seq(Event) /\ Quiet
  BY DEF Init, InitialPipe, Quiet
<1>6. OthersOK
  BY <1>3, <1>4 DEF OthersOK, Init
<1>5. FlagsBacked
  BY DEF Init, FlagsBacked
<1> QED BY <1>1, <1>2, <1>4, <1>5, <1>6 DEF IInv

\* The event queue keeps events.
LEMMA PushType ==
  ASSUME pending \in Seq(Event), NEW e \in Event, Push(e)
  PROVE  pending' \in Seq(Event)
BY DEF Push, Queue!Raise

\* What is not the pipe's keeps its type.
LEMMA OthersStep ==
  ASSUME OthersOK, PipeInv(pipe), PipeInv(pipe)', [Next]_vars
  PROVE  OthersOK'
<1> USE DEF OthersOK
<1>1. {NewFrame, DropFrame, FrReady} \cup Control \subseteq Event
  BY DEF Event
<1>2. Shadow(pipe) \in [addr : Buffer \cup {Null}, on : BOOLEAN]
      /\ Shadow(pipe') \in [addr : Buffer \cup {Null}, on : BOOLEAN]
  BY DEF PipeInv, Pipe, Shadow
<1>3. CASE StreamOn
  <2>1. page' \in [{"ping", "pong"} -> [addr : Buffer \cup {Null}, on : BOOLEAN]]
    BY <1>2, <1>3 DEF StreamOn
  <2> QED BY <1>3, <2>1 DEF StreamOn, dma
<1>4. CASE FrameStart
  <2>1. page[next].addr \in Buffer \cup {Null}
    OBVIOUS
  <2>2. writing' \in Buffer \cup {Null} /\ fresh' \subseteq Buffer /\ late' \in BOOLEAN
    BY <1>4, <2>1 DEF FrameStart
  <2> QED BY <1>4, <2>2 DEF FrameStart, dma, stream
<1>5. CASE SkipInterrupt
  BY <1>5 DEF SkipInterrupt, isp, dma, stream
<1>6. ASSUME NEW busy \in Answers, FrameInterrupt(busy) PROVE OthersOK'
  <2>1. busy \in BOOLEAN
    BY DEF Answers
  <2>2. pending' \in Seq(Event) /\ late' \in BOOLEAN /\ meterCopy' \in BOOLEAN
        /\ meterDone' \in BOOLEAN
    BY <1>6, <2>1 DEF FrameInterrupt
  <2>3. next' \in {"ping", "pong"} /\ cfgCopy' \in {"none", "process", "drop"}
        /\ cfgDone' \in BOOLEAN /\ raised' \in BOOLEAN
    BY <1>6, <2>1 DEF FrameInterrupt, Other
  <2> QED BY <1>6, <2>2, <2>3 DEF FrameInterrupt, isp, stream
<1>7. CASE MeteringCopied
  <2>1. pending' \in Seq(Event)
    BY <1>1, <1>7, PushType DEF MeteringCopied
  <2> QED BY <1>7, <2>1 DEF MeteringCopied, isp, stream
<1>8. CASE ConfigCopied
  <2>1. pending' \in Seq(Event)
    BY <1>1, <1>8, PushType DEF ConfigCopied
  <2> QED BY <1>2, <1>8, <2>1 DEF ConfigCopied, stream
<1>9. CASE PopEvent
  BY <1>9 DEF PopEvent, isp, dma, stream
<1>10. CASE HandleNewFrame
  <2>1. pending' \in Seq(Event)
    BY <1>1, <1>10, PushType DEF HandleNewFrame
  <2> QED BY <1>10, <2>1 DEF HandleNewFrame, Dispatched, isp, dma, stream
<1>11. CASE HandleDropFrame
  BY <1>11 DEF HandleDropFrame, Dispatched, isp, dma, stream
<1>12. CASE HandleFrReady
  BY <1>12 DEF HandleFrReady, Dispatched, isp, dma, stream
<1>13. ASSUME NEW e \in Control, HandleControl(e) PROVE OthersOK'
  BY <1>13 DEF HandleControl, Dispatched, isp, dma, stream
<1>14. CASE CopyThread
  BY <1>14 DEF CopyThread, isp, dma
<1>15. ASSUME NEW b \in Buffer, QueueBuffer(b) PROVE OthersOK'
  BY <1>15 DEF QueueBuffer, isp, dma
<1>16. ASSUME NEW e \in Control, SetControl(e) PROVE OthersOK'
  <2>1. pending' \in Seq(Event)
    BY <1>1, <1>16, PushType DEF SetControl
  <2> QED BY <1>16, <2>1 DEF SetControl, isp, dma, stream
<1>17. ASSUME NEW r \in Rates, SetFrameRate(r) PROVE OthersOK'
  BY <1>17 DEF SetFrameRate, isp, dma, stream
<1>18. CASE UNCHANGED vars
  BY <1>18 DEF vars, isp, dma, stream
<1> QED BY <1>3, <1>4, <1>5, <1>6, <1>7, <1>8, <1>9, <1>10, <1>11, <1>12, <1>13, <1>14,
           <1>15, <1>16, <1>17, <1>18 DEF Next, Firmware

\* An update and the rate behind it keep the pipe and what is in it.
LEMMA UpdatePipeInv ==
  ASSUME PipeInv(pipe), NEW drop \in BOOLEAN, UpdatePipe(drop)
  PROVE  PipeInv(pipe') /\ InPipe(pipe') = InPipe(pipe)
<1>1. PICK frame \in FrameCount : pipe' = PipeSetFps(PipeUpdate(pipe, drop), frame)
  BY DEF UpdatePipe
<1>2. frame \in Nat
  BY DEF FrameCount
<1>3. Updated(PipeUpdate(pipe, drop)) /\ InPipe(PipeUpdate(pipe, drop)) = InPipe(pipe)
  BY PipeUpdateInv
<1> QED BY <1>1, <1>2, <1>3, PipeSetFpsInv

\* The update of STREAMON has no rate behind it, and no slot was taken back.
LEMMA StreamOnInv ==
  ASSUME PipeInv(pipe), Quiet, StreamOn
  PROVE  PipeInv(pipe') /\ InPipe(pipe') = InPipe(pipe)
<1>1. pipe' = PipeUpdate(pipe, FALSE) /\ pipe.back = Null
  BY DEF StreamOn, Quiet
<1>2. Updated(pipe') /\ InPipe(pipe') = InPipe(pipe)
  BY <1>1, PipeUpdateInv
<1>3. pipe'.back = Null
  <2>1. CASE ~pipe.enabled
    BY <1>1, <2>1 DEF PipeUpdate
  <2>2. CASE pipe.enabled
    <3> DEFINE q == Shift(Retire(pipe, FALSE))
               first == FirstFrom(q, q.wri, "empty")
    <3>1. q \in Pipe /\ q.back = Null
      BY <1>1, <2>2, RetireShift
    <3>2. CASE first = Null
      BY <1>1, <2>2, <3>1, <3>2 DEF PipeUpdate, Pipe
    <3>3. CASE first # Null
      BY <1>1, <2>2, <3>1, <3>3 DEF PipeUpdate, Program, TakeEmpty, Pipe
    <3> QED BY <3>2, <3>3
  <2> QED BY <2>1, <2>2
<1> QED BY <1>2, <1>3 DEF Updated, PipeInv, Apart

\* Queueing one buffer does not take a slot back.
LEMMA QueueBufferBack ==
  ASSUME NEW p, PipeInv(p), NEW b
  PROVE  WriteFrameQueue(p, b).back = p.back
BY DEF WriteFrameQueue, Arm, PipeInv, Pipe

LEMMA QuietStep ==
  ASSUME OthersOK, PipeInv(pipe), Quiet, [Next]_vars
  PROVE  Quiet'
<1>1. Null \notin Event /\ {NewFrame, DropFrame, FrReady} \cup Control \subseteq Event
  <2>1. Control \subseteq 0..31 /\ Null \notin 0..32
    BY PipelineAssumption DEF DropFrame
  <2>2. \A e \in Event : e \in 0..32
    BY <2>1 DEF Event, NewFrame, DropFrame, FrReady
  <2> QED BY <2>1, <2>2 DEF Event
<1>2. CASE streaming
  <2>1. streaming'
    BY <1>2 DEF Next, Firmware, StreamOn, FrameStart, SkipInterrupt, FrameInterrupt, MeteringCopied,
                ConfigCopied, PopEvent, HandleNewFrame, HandleDropFrame, HandleFrReady, HandleControl,
                CopyThread, QueueBuffer, SetControl, SetFrameRate, vars, stream
  <2> QED BY <2>1 DEF Quiet
<1>3. CASE ~streaming
  <2>1. /\ ~raised /\ cfgCopy = "none" /\ ~meterCopy
        /\ pending = <<>> /\ fw = Null /\ pipe.back = Null
    BY <1>3 DEF Quiet
  <2>2. CASE StreamOn
    BY <2>2 DEF StreamOn, Quiet
  <2>3. ASSUME NEW b \in Buffer, QueueBuffer(b) PROVE Quiet'
    <3>1. pipe'.back = pipe.back
      BY <2>3, QueueBufferBack DEF QueueBuffer
    <3> QED BY <2>1, <2>3, <3>1 DEF QueueBuffer, Quiet, dma
  <2>4. CASE CopyThread
    BY <2>1, <2>4 DEF CopyThread, Quiet, dma
  <2>5. CASE UNCHANGED vars
    BY <2>1, <2>5 DEF vars, Quiet, dma, stream
  <2>6. ~(FrameStart \/ SkipInterrupt \/ \E busy \in Answers : FrameInterrupt(busy))
    BY <1>3, <2>1 DEF FrameStart, SkipInterrupt, FrameInterrupt
  <2>7. ~(MeteringCopied \/ ConfigCopied \/ PopEvent)
    BY <1>3, <2>1 DEF MeteringCopied, ConfigCopied, PopEvent
  <2>8. ~(HandleNewFrame \/ HandleDropFrame \/ HandleFrReady \/ \E e \in Control : HandleControl(e))
    BY <1>1, <2>1 DEF HandleNewFrame, HandleDropFrame, HandleFrReady, HandleControl, Dispatched
  <2>9. ~((\E e \in Control : SetControl(e)) \/ \E r \in Rates : SetFrameRate(r))
    BY <1>3 DEF SetControl, SetFrameRate
  <2> QED BY <2>2, <2>3, <2>4, <2>5, <2>6, <2>7, <2>8, <2>9 DEF Next, Firmware
<1> QED BY <1>2, <1>3

\* The completion flags and the copies behind them.
LEMMA FlagsStep ==
  ASSUME FlagsBacked, OthersOK, [Next]_vars
  PROVE  FlagsBacked'
<1> USE DEF FlagsBacked
<1>1. ASSUME NEW busy \in Answers, FrameInterrupt(busy) PROVE FlagsBacked'
  BY <1>1 DEF FrameInterrupt, Answers
<1>2. CASE MeteringCopied
  BY <1>2 DEF MeteringCopied
<1>3. CASE ConfigCopied
  BY <1>3 DEF ConfigCopied
<1>4. CASE UNCHANGED dma
  BY <1>4 DEF dma
<1>5. [Next]_vars => \/ UNCHANGED dma \/ MeteringCopied \/ ConfigCopied
                     \/ \E busy \in Answers : FrameInterrupt(busy)
  BY DEF Next, Firmware, StreamOn, FrameStart, SkipInterrupt, PopEvent, HandleNewFrame,
         HandleDropFrame, HandleFrReady, HandleControl, CopyThread, QueueBuffer, SetControl,
         SetFrameRate, vars
<1> QED BY <1>1, <1>2, <1>3, <1>4, <1>5

\* The pipe and the buffers the driver has.
LEMMA PipeStep ==
  ASSUME OthersOK, PipeInv(pipe), Accounts, Quiet, [Next]_vars
  PROVE  PipeInv(pipe)' /\ Accounts'
<1> USE DEF Accounts
<1>1. CASE StreamOn
  BY <1>1, StreamOnInv DEF StreamOn
<1>2. ASSUME NEW drop \in BOOLEAN, UpdatePipe(drop), UNCHANGED <<list, mailbox>>
      PROVE  PipeInv(pipe)' /\ Accounts'
  BY <1>2, UpdatePipeInv
<1>3. CASE HandleFrReady
  <2> DEFINE s == NextReady(pipe)
             taken == mailbox = Null
  <2>1. pipe' = Finish(pipe, taken) /\ list' = list
        /\ mailbox' = IF taken /\ s # Null THEN pipe.buf[s] ELSE mailbox
    BY <1>3 DEF HandleFrReady
  <2>2. /\ PipeInv(pipe')
        /\ s # Null => s \in Slot /\ pipe.buf[s] \in Buffer
        /\ IF s # Null /\ taken
             THEN pipe.buf[s] \notin InPipe(pipe') /\ InPipe(pipe) = InPipe(pipe') \cup {pipe.buf[s]}
             ELSE InPipe(pipe') = InPipe(pipe)
    BY <2>1, FinishInv
  <2> HIDE DEF s
  <2>3. CASE s # Null /\ taken
    BY <2>1, <2>2, <2>3, PipeAssumption
  <2>4. CASE ~(s # Null /\ taken)
    BY <2>1, <2>2, <2>4
  <2> QED BY <2>3, <2>4
<1>4. CASE CopyThread
  <2>1. pipe' = pipe /\ mailbox # Null /\ mailbox' = Null /\ list' = list \ {mailbox}
    BY <1>4 DEF CopyThread
  <2> QED BY <2>1, PipeHasBuffers
<1>5. ASSUME NEW b \in Buffer, QueueBuffer(b) PROVE PipeInv(pipe)' /\ Accounts'
  <2>1. b \notin list /\ list' = list \cup {b} /\ mailbox' = mailbox
        /\ pipe' = WriteFrameQueue(pipe, b)
    BY <1>5 DEF QueueBuffer
  <2>2. b \notin InPipe(pipe) /\ (mailbox # Null => mailbox # b)
    BY <2>1
  <2>3. PipeInv(pipe') /\ InPipe(pipe') = InPipe(pipe) \cup {b}
    BY <2>1, <2>2, SlotFree, WriteFrameQueueInv
  <2> QED BY <2>1, <2>2, <2>3, PipeAssumption
<1>6. ASSUME NEW r \in Rates, SetFrameRate(r) PROVE PipeInv(pipe)' /\ Accounts'
  <2>1. r[1] \in Nat \ {0} /\ r[2] \in Nat \ {0}
    BY PipelineAssumption
  <2> QED BY <1>6, <2>1, SetRateInv DEF SetFrameRate, stream
<1>7. CASE UNCHANGED <<pipe, list, mailbox>>
  BY <1>7
<1>8. HandleNewFrame => UpdatePipe(FALSE) /\ UNCHANGED <<list, mailbox>>
  BY DEF HandleNewFrame, stream
<1>9. HandleDropFrame => UpdatePipe(TRUE) /\ UNCHANGED <<list, mailbox>>
  BY DEF HandleDropFrame, stream
<1>10. [Next]_vars =>
         \/ UNCHANGED <<pipe, list, mailbox>> \/ StreamOn \/ HandleNewFrame \/ HandleDropFrame
         \/ HandleFrReady \/ CopyThread \/ (\E b \in Buffer : QueueBuffer(b))
         \/ \E r \in Rates : SetFrameRate(r)
  BY DEF Next, Firmware, FrameStart, SkipInterrupt, FrameInterrupt, MeteringCopied, ConfigCopied,
         PopEvent, HandleControl, SetControl, vars, stream
<1> QED BY <1>1, <1>2, <1>3, <1>4, <1>5, <1>6, <1>7, <1>8, <1>9, <1>10

LEMMA StepIInv == IInv /\ [Next]_vars => IInv'
<1> SUFFICES ASSUME IInv, [Next]_vars PROVE IInv'
  OBVIOUS
<1>1. OthersOK /\ PipeInv(pipe) /\ Accounts /\ FlagsBacked /\ Quiet
  BY DEF IInv
<1>2. PipeInv(pipe)' /\ Accounts'
  BY <1>1, PipeStep
<1>3. OthersOK' /\ FlagsBacked' /\ Quiet'
  BY <1>1, <1>2, OthersStep, FlagsStep, QuietStep
<1> QED BY <1>2, <1>3 DEF IInv
-----------------------------------------------------------------------------
(* The theorems.                                                               *)

\* The running stream keeps its inductive invariant: every slot in use has a
\* buffer of its own, the pointers are apart and busy, what the driver has is in
\* the pipe or in the mailbox, and a flag that is down has a copy behind it.
THEOREM PipelineInvariant == Spec => []IInv
<1>1. Init => IInv
  BY InitIInv
<1>2. IInv /\ [Next]_vars => IInv'
  BY StepIInv
<1> QED BY <1>1, <1>2, PTL DEF Spec

\* Types, for any number of buffers and slots.
THEOREM TypeCorrect == Spec => []TypeOK
<1>1. IInv => TypeOK
  <2> SUFFICES ASSUME IInv PROVE TypeOK
    OBVIOUS
  <2>1. OthersOK /\ pipe \in Pipe /\ mailbox \in Buffer \cup {Null}
    BY DEF IInv, PipeInv, Accounts
  <2>2. list \subseteq Buffer
    BY PipeHasBuffers DEF IInv, Accounts
  <2> QED BY <2>1, <2>2 DEF OthersOK, TypeOK, Pipe
<1> QED BY <1>1, PipelineInvariant, PTL

\* No buffer is lost or doubled between the application, the pipe, its pointers
\* and the copy thread (dma_writer.c:414, dma_writer_func.c:355), for every
\* number of slots and buffers, every rate and however late the firmware is.
THEOREM PipeIsSound == Spec => []PipeSound
<1>1. IInv => PipeSound
  <2> SUFFICES ASSUME IInv PROVE PipeSound
    OBVIOUS
  <2>1. PipeInv(pipe) /\ Accounts
    BY DEF IInv
  <2>2. BuffersAccounted
    BY <2>1 DEF Accounts, PipeInv, Filled, Live, BuffersAccounted
  <2>3. HeldDistinct
    BY <2>1, ApartPointers DEF PipeInv, Busy, HeldDistinct
  <2> QED BY <2>2, <2>3 DEF PipeSound
<1> QED BY <1>1, PipelineInvariant, PTL

\* The interrupt handler never waits for a copy that nobody has started
\* (acamera.c:638-647).
THEOREM FlagsAreBacked == Spec => []FlagsBacked
<1>1. IInv => FlagsBacked
  BY DEF IInv
<1> QED BY <1>1, PipelineInvariant, PTL
-----------------------------------------------------------------------------
(* A stream whose firmware keeps up with the frames: the pages follow the      *)
(* pointers of the pipe, so that the ISP writes to no buffer the application   *)
(* has and what is delivered is whole.                                         *)

\* The buffer a pointer of the pipe names, and the one a page tells the writer.
Frame(s) == IF s = Null THEN Null ELSE pipe.buf[s]

Named(x) == IF page[x].on THEN page[x].addr ELSE Null

\* The software map names the slot programmed last, or none.
MapShows(p) == (p.on <=> p.in1 # Null) /\ (p.in1 # Null => p.addr = p.buf[p.in1])

\* A slot holds a whole frame, or will once the ISP is done with this one.
WholeFrame(s) == s = Null \/ pipe.buf[s] \in fresh

Taken(s) == WholeFrame(s) \/ writing = pipe.buf[s]

\* Between the interrupt and the update of a frame the ISP writes to in0, or to
\* in1 when it was sent to the same page again.
Before ==
  /\ writing \in {Null, Frame(pipe.in0), Frame(pipe.in1)}
  /\ WholeFrame(pipe.last) /\ Taken(pipe.in0)

\* The same once the configuration is copied: in1 is next.
Ahead == Before /\ Named(next) = Frame(pipe.in1)

\* After the update the pointers have moved: in0 is next, last may be written.
Behind ==
  /\ writing \in {Null, Frame(pipe.last), Frame(pipe.in0)}
  /\ Taken(pipe.last) /\ Named(next) = Frame(pipe.in0)

\* Events that update the pipe.
Updates == {NewFrame, DropFrame}

Waiting == \E i \in 1..Len(pending) : pending[i] \in Updates

AtMostOne ==
  \A i, j \in 1..Len(pending) : pending[i] \in Updates /\ pending[j] \in Updates => i = j

\* An interrupt leads to one update at most.
OneUpdate ==
  /\ cfgCopy # "none" \/ meterCopy \/ fw \in Updates => ~Waiting
  /\ cfgCopy # "none" \/ meterCopy => fw \notin Updates
  /\ AtMostOne

\* The pages follow the pointers while the firmware keeps up.
InStep ==
  /\ OneUpdate
  /\ raised => cfgCopy = "none" /\ writing = Named(next)
  /\ cfgCopy # "none" => Before
  /\ cfgCopy = "none" => Ahead \/ Behind
  /\ cfgCopy = "none" /\ (meterCopy \/ fw \in Updates \/ Waiting) => Ahead

\* What is ready or handed over is whole.
ReadyWhole ==
  /\ \A s \in Slot : pipe.status[s] = "ready" => pipe.buf[s] \in fresh
  /\ mailbox # Null => mailbox \in fresh

\* A flag is down exactly while its copy is under way.
FlagsExact == (cfgCopy # "none" <=> ~cfgDone) /\ (meterCopy <=> ~meterDone)

\* Before the stream starts nothing has been written or retired.
Unstarted ==
  /\ ~late /\ writing = Null /\ mailbox = Null /\ next = "ping"
  /\ pipe.last = Null /\ pipe.in0 = Null
  /\ \A s \in Slot : pipe.status[s] # "ready"

\* The inductive invariant of the timing.
TimingInv ==
  /\ MapShows(pipe) /\ FlagsExact
  /\ IF streaming THEN pipe.enabled /\ (~late => InStep /\ ReadyWhole) ELSE Unstarted
-----------------------------------------------------------------------------
(* The operations of the pipe.                                                 *)

\* What an update moves: in1 becomes in0, in0 becomes last, and only the slot
\* that was last may become ready.
Moved(p, q) ==
  /\ q \in Pipe /\ q.buf = p.buf /\ q.enabled
  /\ q.last = p.in0 /\ q.in0 = p.in1 /\ MapShows(q)
  /\ \A s \in Slot : q.status[s] = "ready" => p.status[s] = "ready" \/ s = p.last

\* What programming a slot shows in the software map.
LEMMA ProgramShows ==
  ASSUME NEW p \in Pipe, NEW s \in Slot
  PROVE  MapShows(Program(p, s))
BY PipeAssumption DEF Program, MapShows, Pipe

\* dma_writer_pipe_update
LEMMA PipeUpdateMoves ==
  ASSUME NEW p, PipeInv(p), p.enabled, NEW drop \in BOOLEAN
  PROVE  Moved(p, PipeUpdate(p, drop))
<1> DEFINE r == Retire(p, drop)
           q == Shift(r)
           first == FirstFrom(q, q.wri, "empty")
           u == PipeUpdate(p, drop)
<1>1. /\ q \in Pipe /\ q.enabled /\ q.buf = p.buf
      /\ q.last = p.in0 /\ q.in0 = p.in1 /\ q.in1 = Null /\ q.back = p.back
      /\ Busy(q)
  BY RetireShift
<1>2. \A s \in Slot : q.status[s] = "ready" => p.status[s] = "ready" \/ s = p.last
  BY PipeAssumption DEF Shift, Retire, PipeInv, Pipe
<1>3. CASE p.back # Null
  <2>1. u = Program(q, p.back) /\ p.back \in Slot
    BY <1>3 DEF PipeUpdate, PipeInv, Pipe
  <2> HIDE DEF q, u
  <2>2. u \in Pipe /\ MapShows(u) /\ u.buf = q.buf /\ u.enabled = q.enabled
        /\ u.last = q.last /\ u.in0 = q.in0
        /\ u.status = [q.status EXCEPT ![p.back] = "busy"]
    BY <1>1, <2>1, ProgramEffect, ProgramShows
  <2>3. \A s \in Slot : u.status[s] = "ready" => q.status[s] = "ready"
    BY <1>1, <2>1, <2>2 DEF Pipe
  <2> QED BY <1>1, <1>2, <2>2, <2>3 DEF Moved, u
<1>4. CASE p.back = Null /\ first = Null
  <2>1. u = [q EXCEPT !.on = FALSE]
    BY <1>4 DEF PipeUpdate
  <2> HIDE DEF q, first
  <2>2. /\ u \in Pipe /\ u.buf = q.buf /\ u.status = q.status /\ u.enabled = q.enabled
        /\ u.last = q.last /\ u.in0 = q.in0 /\ u.in1 = Null /\ ~u.on
    BY <1>1, <2>1 DEF Pipe
  <2> HIDE DEF u
  <2> QED BY <1>1, <1>2, <2>2 DEF Moved, MapShows, u
<1>5. CASE p.back = Null /\ first # Null
  <2> DEFINE t == TakeEmpty(q, first)
  <2>1. u = Program(t, first)
    BY <1>5 DEF PipeUpdate
  <2>2. first \in Slot
    BY <1>1, <1>5, FirstFound DEF Pipe
  <2> HIDE DEF q, first
  <2>3. /\ t \in Pipe /\ t.buf = q.buf /\ t.enabled = q.enabled
        /\ t.last = q.last /\ t.in0 = q.in0
        /\ t.status = [q.status EXCEPT ![q.wri] = IF Stuck(q, q.wri) THEN "empty" ELSE @]
    <3>1. (first + 1) % MaxFrames \in Slot
      BY <2>2, PipeAssumption DEF Slot
    <3> QED BY <1>1, <3>1 DEF TakeEmpty, Pipe, Status
  <2> HIDE DEF t, u
  <2>4. u \in Pipe /\ MapShows(u) /\ u.buf = t.buf /\ u.enabled = t.enabled
        /\ u.last = t.last /\ u.in0 = t.in0
        /\ u.status = [t.status EXCEPT ![first] = "busy"]
    BY <2>1, <2>2, <2>3, ProgramEffect, ProgramShows
  <2>5. \A s \in Slot : u.status[s] = "ready" => q.status[s] = "ready"
    BY <1>1, <2>2, <2>3, <2>4 DEF Pipe
  <2> QED BY <1>1, <1>2, <2>3, <2>4, <2>5 DEF Moved, u
<1> QED BY <1>3, <1>4, <1>5

\* dma_writer_pipe_set_fps: the slot taken back is shown no more.
LEMMA PipeSetFpsMoves ==
  ASSUME NEW p, NEW q, Moved(p, q), NEW frame
  PROVE  Moved(p, PipeSetFps(q, frame))
<1> DEFINE u == PipeSetFps(q, frame)
<1>1. /\ u \in Pipe /\ u.buf = q.buf /\ u.status = q.status /\ u.enabled = q.enabled
      /\ u.last = q.last /\ u.in0 = q.in0
      /\ \/ u.in1 = Null /\ ~u.on
         \/ u.in1 = q.in1 /\ u.on = q.on /\ u.addr = q.addr
  BY PipeAssumption DEF PipeSetFps, Moved, Pipe
<1> HIDE DEF u
<1> QED BY <1>1 DEF Moved, MapShows, u

\* dma_writer_write_frame_queue on an armed pipe: nothing but the slot that was
\* free changes.
LEMMA WriteFrameQueueKeeps ==
  ASSUME NEW p, PipeInv(p), MapShows(p), p.enabled, NEW b \in Buffer
  PROVE  LET q == WriteFrameQueue(p, b)
         IN  /\ q.enabled /\ MapShows(q)
             /\ q.last = p.last /\ q.in0 = p.in0 /\ q.in1 = p.in1
             /\ \A s \in Slot : p.status[s] # "purge" => q.buf[s] = p.buf[s]
             /\ \A s \in Slot : q.status[s] = "ready" => p.status[s] = "ready"
<1> DEFINE free == Distances(p, p.rdi, "purge")
           index == (p.rdi + Min(free)) % MaxFrames
           q == WriteFrameQueue(p, b)
<1>1. CASE free = {}
  BY <1>1 DEF WriteFrameQueue
<1>2. CASE free # {}
  <2>1. index \in Slot /\ p.status[index] = "purge"
    <3>1. free \in SUBSET Nat /\ free \subseteq Slot
      BY PipeAssumption DEF Distances, Slot
    <3>2. Min(free) \in free
      BY <1>2, <3>1, LeastNatural
    <3> QED BY <3>1, <3>2, Around DEF Distances, PipeInv, Pipe
  <2>2. q = [p EXCEPT !.buf[index] = b, !.status[index] = "empty"]
    BY <1>2 DEF WriteFrameQueue
  <2> HIDE DEF index, q, free
  <2>3. /\ q.buf = [p.buf EXCEPT ![index] = b]
        /\ q.status = [p.status EXCEPT ![index] = "empty"]
        /\ q.enabled = p.enabled /\ q.on = p.on /\ q.addr = p.addr
        /\ q.last = p.last /\ q.in0 = p.in0 /\ q.in1 = p.in1
    BY <2>1, <2>2 DEF PipeInv, Pipe
  <2>4. p.in1 # Null => p.in1 \in Slot /\ p.status[p.in1] = "busy"
    BY DEF PipeInv, Pipe, Busy, Held
  <2>5. MapShows(q)
    BY <2>1, <2>3, <2>4 DEF MapShows, PipeInv, Pipe
  <2> QED BY <2>1, <2>3, <2>5 DEF PipeInv, Pipe, q
<1> QED BY <1>1, <1>2

\* The first buffer arms the pipe: it is shown, and in1 only.
LEMMA WriteFrameQueueArms ==
  ASSUME NEW p, PipeInv(p), ~p.enabled, NEW b \in Buffer
  PROVE  LET q == WriteFrameQueue(p, b)
         IN  /\ MapShows(q) /\ q.last = Null /\ q.in0 = Null
             /\ \A s \in Slot : q.status[s] # "ready"
<1> DEFINE free == Distances(p, p.rdi, "purge")
           index == (p.rdi + Min(free)) % MaxFrames
           queued == [p EXCEPT !.buf[index] = b, !.status[index] = "empty"]
           q == WriteFrameQueue(p, b)
<1>1. p.rdi = 0 /\ \A s \in Slot : p.status[s] = "purge"
  BY DEF PipeInv, Unarmed
<1>2. 0 \in Slot /\ free # {} /\ free \in SUBSET Nat /\ free \subseteq Slot
  <2>1. 0 \in Slot
    BY PipeAssumption DEF Slot
  <2>2. p.status[(p.rdi + 0) % MaxFrames] = "purge"
    BY <1>1, <2>1, Around
  <2>3. 0 \in free
    BY <2>1, <2>2 DEF Distances
  <2> QED BY <2>1, <2>3, PipeAssumption DEF Distances, Slot
<1>3. Min(free) \in Slot
  BY <1>2, LeastNatural
<1>4. index \in Slot
  BY <1>2, <1>3, <1>1, Around
<1>5. q = Arm(queued, Min(free))
  BY <1>2 DEF WriteFrameQueue
<1>6. p.last = Null /\ p.in0 = Null
  BY UnarmedHeld
<1> HIDE DEF free, index, q
<1>7. /\ queued \in Pipe /\ queued.last = Null /\ queued.in0 = Null
      /\ \A s \in Slot : queued.status[s] # "ready"
  BY <1>1, <1>4, <1>6 DEF PipeInv, Pipe, Status
<1> HIDE DEF queued
<1>8. /\ q.last = Null /\ q.in0 = Null /\ q.in1 = Min(free) /\ q.on
      /\ q.addr = queued.buf[Min(free)] /\ q.buf = queued.buf
      /\ q.status = [queued.status EXCEPT ![Min(free)] = "busy"]
  BY <1>3, <1>5, <1>7 DEF Arm, Pipe
<1> QED BY <1>3, <1>7, <1>8, PipeAssumption DEF MapShows, Pipe, q

\* frame_buffer_fr_finished: a ready buffer leaves, no pointer moves.
LEMMA FinishKeeps ==
  ASSUME NEW p, PipeInv(p), MapShows(p), NEW handedOver \in BOOLEAN
  PROVE  LET s == NextReady(p)
             q == Finish(p, handedOver)
         IN  /\ q.enabled = p.enabled /\ MapShows(q) /\ q.buf = p.buf
             /\ q.last = p.last /\ q.in0 = p.in0 /\ q.in1 = p.in1
             /\ s # Null => s \in Slot /\ p.status[s] = "ready"
             /\ \A t \in Slot : q.status[t] = "ready" => p.status[t] = "ready"
<1> DEFINE s == NextReady(p)
           q == Finish(p, handedOver)
<1>1. CASE s = Null
  BY <1>1 DEF Finish
<1>2. CASE s # Null
  <2>1. s \in Slot /\ p.status[s] = "ready"
    BY <1>2, FirstFound DEF NextReady, PipeInv, Pipe
  <2> DEFINE st == IF handedOver THEN "purge" ELSE "empty"
  <2>2. q = [p EXCEPT !.rdi = (s + 1) % MaxFrames, !.status[s] = st]
    BY <1>2 DEF Finish
  <2> HIDE DEF s, q
  <2>3. /\ q.buf = p.buf /\ q.status = [p.status EXCEPT ![s] = st]
        /\ q.enabled = p.enabled /\ q.on = p.on /\ q.addr = p.addr
        /\ q.last = p.last /\ q.in0 = p.in0 /\ q.in1 = p.in1
    BY <2>2 DEF PipeInv, Pipe
  <2>4. MapShows(q)
    BY <2>3 DEF MapShows
  <2> QED BY <2>1, <2>3, <2>4 DEF PipeInv, Pipe, s, q
<1> QED BY <1>1, <1>2

\* dma_writer_set_pipe_fps: numbers only.
LEMMA SetRateKeeps ==
  ASSUME NEW p, PipeInv(p), MapShows(p), NEW c, NEW t
  PROVE  LET q == SetRate(p, c, t)
         IN  /\ q.enabled = p.enabled /\ MapShows(q) /\ q.buf = p.buf /\ q.status = p.status
             /\ q.last = p.last /\ q.in0 = p.in0 /\ q.in1 = p.in1
BY DEF SetRate, MapShows, PipeInv, Pipe
-----------------------------------------------------------------------------
(* The event queue.                                                            *)

LEMMA Numbers ==
  /\ NewFrame \in Event /\ DropFrame \in Event /\ FrReady \in Event
  /\ Control \subseteq Event
  /\ FrReady \notin Updates /\ Control \cap Updates = {}
  /\ Null \notin Event
<1>1. Control \subseteq 0..31 \ {25, 15} /\ Null \notin 0..32
  BY PipelineAssumption DEF NewFrame, FrReady, DropFrame
<1>2. \A e \in Control : e \in 0..31 /\ e # 25 /\ e # 15 /\ e # 32
  BY <1>1
<1>3. Control \cap Updates = {} /\ FrReady \notin Updates
  BY <1>2 DEF Updates, NewFrame, DropFrame, FrReady
<1>4. \A e \in Event : e \in 0..32
  BY <1>2 DEF Event, NewFrame, DropFrame, FrReady
<1> QED BY <1>1, <1>3, <1>4 DEF Event

\* An event that updates nothing leaves the updates as they wait.
LEMMA PushOther ==
  ASSUME pending \in Seq(Event), NEW e \in Event, e \notin Updates, Push(e), AtMostOne
  PROVE  (Waiting' <=> Waiting) /\ AtMostOne'
<1>1. CASE pending' = pending
  BY <1>1 DEF Waiting, AtMostOne
<1>2. CASE pending' = Append(pending, e)
  <2>1. /\ Len(pending') = Len(pending) + 1 /\ Len(pending) \in Nat
        /\ pending'[Len(pending) + 1] = e
        /\ \A i \in 1..Len(pending) : pending'[i] = pending[i]
    BY <1>2
  <2> QED BY <2>1 DEF Waiting, AtMostOne
<1> QED BY <1>1, <1>2 DEF Push, Queue!Raise

\* The update of a frame is the only one that waits.
LEMMA PushUpdate ==
  ASSUME pending \in Seq(Event), NEW e \in Event, Push(e), ~Waiting
  PROVE  AtMostOne'
<1>1. CASE pending' = pending
  BY <1>1 DEF Waiting, AtMostOne
<1>2. CASE pending' = Append(pending, e)
  <2>1. /\ Len(pending') = Len(pending) + 1 /\ Len(pending) \in Nat
        /\ \A i \in 1..Len(pending) : pending'[i] = pending[i]
    BY <1>2
  <2> QED BY <2>1 DEF Waiting, AtMostOne
<1> QED BY <1>1, <1>2 DEF Push, Queue!Raise

\* An event that is popped waits no more.
LEMMA PopOne ==
  ASSUME pending \in Seq(Event), pending # <<>>, AtMostOne,
         fw' = Head(pending), pending' = Tail(pending)
  PROVE  /\ AtMostOne' /\ (Waiting' => Waiting)
         /\ fw' \in Updates => Waiting /\ ~Waiting'
<1>1. /\ Len(pending) \in Nat \ {0} /\ Len(pending') = Len(pending) - 1
      /\ fw' = pending[1]
      /\ \A i \in 1..Len(pending') : pending'[i] = pending[i + 1]
  OBVIOUS
<1> QED BY <1>1 DEF AtMostOne, Waiting
-----------------------------------------------------------------------------
(* The steps.                                                                  *)

\* Steps that move neither the pointers nor the pages, and let no update come.
LEMMA InStepKept ==
  ASSUME PipeInv(pipe), InStep, OneUpdate',
         UNCHANGED <<writing, page, next, cfgCopy>>,
         raised' => raised, meterCopy' => meterCopy,
         fw' \in Updates \/ Waiting' => fw \in Updates \/ Waiting,
         pipe'.last = pipe.last, pipe'.in0 = pipe.in0, pipe'.in1 = pipe.in1,
         \A s \in Slot : pipe.status[s] # "purge" => pipe'.buf[s] = pipe.buf[s],
         \A s \in Slot : pipe.status[s] # "purge" /\ pipe.buf[s] \in fresh => pipe.buf[s] \in fresh'
  PROVE  InStep'
<1>1. \A s \in {pipe.last, pipe.in0, pipe.in1} \ {Null} : s \in Slot /\ pipe.status[s] = "busy"
  BY DEF PipeInv, Pipe, Busy, Held
<1>2. Named(next)' = Named(next)
  BY DEF Named
<1>3. /\ Frame(pipe.last)' = Frame(pipe.last) /\ Frame(pipe.in0)' = Frame(pipe.in0)
      /\ Frame(pipe.in1)' = Frame(pipe.in1)
      /\ WholeFrame(pipe.last) => WholeFrame(pipe.last)'
      /\ Taken(pipe.last) => Taken(pipe.last)'
      /\ Taken(pipe.in0) => Taken(pipe.in0)'
  BY <1>1 DEF Frame, WholeFrame, Taken
<1>4. (Before => Before') /\ (Ahead => Ahead') /\ (Behind => Behind')
  BY <1>2, <1>3 DEF Before, Ahead, Behind
<1> QED BY <1>2, <1>4 DEF InStep

\* The bookkeeping of flags and copies.
LEMMA FlagsExactStep ==
  ASSUME FlagsExact, OthersOK, [Next]_vars
  PROVE  FlagsExact'
<1> USE DEF FlagsExact
<1>1. ASSUME NEW busy \in Answers, FrameInterrupt(busy) PROVE FlagsExact'
  <2>1. busy \in BOOLEAN
    BY DEF Answers
  <2> QED BY <1>1, <2>1 DEF FrameInterrupt
<1>2. CASE MeteringCopied
  BY <1>2 DEF MeteringCopied
<1>3. CASE ConfigCopied
  BY <1>3 DEF ConfigCopied
<1>4. CASE UNCHANGED dma
  BY <1>4 DEF dma
<1>5. [Next]_vars => \/ UNCHANGED dma \/ MeteringCopied \/ ConfigCopied
                     \/ \E busy \in Answers : FrameInterrupt(busy)
  BY DEF Next, Firmware, StreamOn, FrameStart, SkipInterrupt, PopEvent, HandleNewFrame,
         HandleDropFrame, HandleFrReady, HandleControl, CopyThread, QueueBuffer, SetControl,
         SetFrameRate, vars
<1> QED BY <1>1, <1>2, <1>3, <1>4, <1>5

\* The ISP starts a frame: what it has written is whole now.
LEMMA FrameStartStep ==
  ASSUME OthersOK, PipeInv(pipe), InStep, ReadyWhole, FrameStart, cfgCopy = "none"
  PROVE  InStep' /\ ReadyWhole'
<1>1. /\ writing' = Named(next) /\ fresh' = fresh \cup ({writing} \ {Null}) /\ raised'
      /\ UNCHANGED <<page, next, dma, pending, fw, pipe, mailbox>>
  BY DEF FrameStart, Named, stream
<1>2. /\ Named(next)' = Named(next) /\ (OneUpdate => OneUpdate')
      /\ Frame(pipe.last)' = Frame(pipe.last) /\ Frame(pipe.in0)' = Frame(pipe.in0)
      /\ Frame(pipe.in1)' = Frame(pipe.in1)
  BY <1>1 DEF Named, Frame, OneUpdate, AtMostOne, Waiting, dma
<1>3. \A s \in {pipe.last, pipe.in0, pipe.in1} \ {Null} : pipe.buf[s] # Null
  BY PipeAssumption DEF PipeInv, Pipe, Busy, Held, Filled
<1>4. /\ WholeFrame(pipe.last) => WholeFrame(pipe.last)'
      /\ Taken(pipe.last) => WholeFrame(pipe.last)'
      /\ Taken(pipe.in0) => WholeFrame(pipe.in0)'
  BY <1>1, <1>3 DEF Taken, WholeFrame
<1>5. Ahead => Ahead'
  BY <1>1, <1>2, <1>4 DEF Ahead, Before, Taken
<1>6. Behind => Behind'
  BY <1>1, <1>2, <1>4 DEF Behind, Taken
<1>7. (Waiting' <=> Waiting) /\ fw' = fw /\ meterCopy' = meterCopy /\ cfgCopy' = cfgCopy
  BY <1>1 DEF Waiting, dma
<1>8. ReadyWhole'
  BY <1>1 DEF ReadyWhole
<1> QED BY <1>1, <1>2, <1>5, <1>6, <1>7, <1>8 DEF InStep

\* Before the next update in0 is written or whole, last is whole: a slot that
\* retires next is not the one the ISP has gone on to.
LEMMA FrameInterruptStep ==
  ASSUME PipeInv(pipe), FlagsExact, InStep, ReadyWhole, NEW busy, FrameInterrupt(busy),
         fw \notin Updates
  PROVE  InStep' /\ ReadyWhole'
<1>1. /\ raised /\ ~raised' /\ cfgCopy = "none" /\ cfgCopy' # "none" /\ pending' = <<>>
      /\ UNCHANGED <<page, writing, fw, pipe, mailbox, fresh>>
  BY DEF FrameInterrupt, FlagsExact, isp, stream
<1>2. OneUpdate' /\ ~Waiting'
  BY <1>1 DEF OneUpdate, AtMostOne, Waiting
<1>3. Before
  <2>1. CASE Ahead
    BY <2>1 DEF Ahead
  <2>2. CASE Behind
    <3>1. writing = Frame(pipe.in0) /\ Taken(pipe.last)
      BY <1>1, <2>2 DEF InStep, Behind
    <3>2. WholeFrame(pipe.last)
      <4> SUFFICES ASSUME pipe.last # Null, writing = pipe.buf[pipe.last] PROVE FALSE
        BY <3>1 DEF Taken, WholeFrame
      <4>1. pipe.last \in Slot /\ pipe.status[pipe.last] = "busy" /\ pipe.buf[pipe.last] # Null
        BY PipeAssumption DEF PipeInv, Pipe, Busy, Held, Filled
      <4>2. pipe.in0 # Null /\ pipe.buf[pipe.in0] = pipe.buf[pipe.last]
        BY <3>1, <4>1 DEF Frame
      <4>3. pipe.in0 \in Slot /\ pipe.status[pipe.in0] = "busy"
        BY <4>2 DEF PipeInv, Pipe, Busy, Held
      <4> QED BY <4>1, <4>2, <4>3 DEF PipeInv, Filled, Apart
    <3>3. Taken(pipe.in0)
      BY <3>1 DEF Taken, WholeFrame, Frame
    <3> QED BY <3>1, <3>2, <3>3 DEF Before
  <2> QED BY <1>1, <2>1, <2>2 DEF InStep
<1>4. Before'
  BY <1>1, <1>3 DEF Before, Frame, Taken, WholeFrame
<1>5. ReadyWhole'
  BY <1>1 DEF ReadyWhole
<1> QED BY <1>1, <1>2, <1>4, <1>5 DEF InStep

\* The configuration is copied: the page to use next shows in1.
LEMMA ConfigCopiedStep ==
  ASSUME OthersOK, PipeInv(pipe), MapShows(pipe), FlagsExact, InStep, ReadyWhole, ConfigCopied
  PROVE  InStep' /\ ReadyWhole'
<1>1. /\ cfgCopy # "none" /\ cfgCopy' = "none" /\ page' = [page EXCEPT ![next] = Shadow(pipe)]
      /\ UNCHANGED <<writing, next, raised, meterCopy, fw, pipe, mailbox, fresh>>
  BY DEF ConfigCopied, stream
<1>2. Before /\ ~raised /\ ~Waiting /\ fw \notin Updates /\ AtMostOne
  BY <1>1 DEF InStep, OneUpdate
<1>3. Named(next)' = Frame(pipe.in1)
  BY <1>1 DEF Named, Shadow, Frame, MapShows, OthersOK
<1>4. Ahead'
  BY <1>1, <1>2, <1>3 DEF Ahead, Before, Frame, Taken, WholeFrame
<1>5. OneUpdate'
  <2>1. CASE meterDone
    <3>1. \E e \in Event : Push(e)
      BY <2>1, Numbers DEF ConfigCopied
    <3>2. AtMostOne'
      BY <1>2, <3>1, PushUpdate DEF OthersOK
    <3> QED BY <1>1, <1>2, <2>1, <3>2 DEF OneUpdate, FlagsExact
  <2>2. CASE ~meterDone
    <3>1. pending' = pending
      BY <2>2 DEF ConfigCopied
    <3> QED BY <1>1, <1>2, <3>1 DEF OneUpdate, Waiting, AtMostOne
  <2> QED BY <2>1, <2>2
<1>6. ReadyWhole'
  BY <1>1 DEF ReadyWhole
<1> QED BY <1>1, <1>2, <1>4, <1>5, <1>6 DEF InStep

\* The statistics are copied: if that comes last, the update is due.
LEMMA MeteringCopiedStep ==
  ASSUME OthersOK, PipeInv(pipe), FlagsExact, InStep, ReadyWhole, MeteringCopied
  PROVE  InStep' /\ ReadyWhole'
<1>1. /\ meterCopy /\ ~meterCopy'
      /\ UNCHANGED <<page, writing, next, raised, cfgCopy, fw, pipe, mailbox, fresh>>
  BY DEF MeteringCopied, isp, stream
<1>2. ~Waiting /\ fw \notin Updates /\ AtMostOne
  BY <1>1 DEF InStep, OneUpdate
<1>3. (Before => Before') /\ (Ahead => Ahead') /\ Named(next)' = Named(next)
  BY <1>1 DEF Ahead, Before, Frame, Taken, WholeFrame, Named
<1>4. ReadyWhole'
  BY <1>1 DEF ReadyWhole
<1>5. CASE cfgDone
  <2>1. Push(NewFrame) /\ cfgCopy = "none"
    BY <1>5 DEF MeteringCopied, FlagsExact
  <2>2. AtMostOne'
    BY <1>2, <2>1, PushUpdate, Numbers DEF OthersOK
  <2>3. Ahead
    BY <1>1, <2>1 DEF InStep
  <2> QED BY <1>1, <1>2, <1>3, <1>4, <2>1, <2>2, <2>3 DEF InStep, OneUpdate
<1>6. CASE ~cfgDone
  <2>1. pending' = pending /\ cfgCopy # "none"
    BY <1>6 DEF MeteringCopied, FlagsExact
  <2>2. OneUpdate'
    BY <1>1, <1>2, <2>1 DEF OneUpdate, Waiting, AtMostOne
  <2> QED BY <1>1, <1>3, <1>4, <2>1, <2>2 DEF InStep
<1> QED BY <1>5, <1>6

\* The update of a frame: the pointers catch up with the pages.
LEMMA UpdateStep ==
  ASSUME OthersOK, PipeInv(pipe), InStep, ReadyWhole,
         fw \in Updates, fw' = Null, Moved(pipe, pipe'),
         UNCHANGED <<page, writing, next, raised, cfgCopy, meterCopy, mailbox, fresh>>,
         AtMostOne', ~Waiting'
  PROVE  InStep' /\ ReadyWhole'
<1>1. cfgCopy = "none" /\ ~meterCopy /\ Ahead
  BY DEF InStep, OneUpdate
<1>2. pipe'.buf = pipe.buf /\ pipe'.last = pipe.in0 /\ pipe'.in0 = pipe.in1
  BY DEF Moved
<1>3. Behind' /\ Named(next)' = Named(next)
  BY <1>1, <1>2 DEF Ahead, Before, Behind, Frame, Taken, WholeFrame, Named
<1>4. Null \notin Updates
  BY Numbers DEF Updates
<1>5. OneUpdate'
  BY <1>1, <1>4 DEF OneUpdate
<1>6. WholeFrame(pipe.last)
  BY <1>1 DEF Ahead, Before
<1>7. ReadyWhole'
  BY <1>2, <1>6, PipeAssumption DEF Moved, ReadyWhole, WholeFrame
<1> QED BY <1>1, <1>3, <1>4, <1>5, <1>7 DEF InStep

\* STREAMON: the pipe's update on the way from PING to PONG is that of a frame.
LEMMA StreamOnStep ==
  ASSUME OthersOK, PipeInv(pipe), Accounts, Quiet, MapShows(pipe), Unstarted, StreamOn
  PROVE  MapShows(pipe') /\ pipe'.enabled /\ InStep' /\ ReadyWhole'
<1>1. /\ ~raised /\ cfgCopy = "none" /\ ~meterCopy /\ pending = <<>> /\ fw = Null
      /\ writing = Null /\ mailbox = Null /\ next = "ping"
      /\ pipe.last = Null /\ pipe.in0 = Null /\ \A s \in Slot : pipe.status[s] # "ready"
  BY DEF StreamOn, Quiet, Unstarted
<1>2. /\ page'["ping"] = Shadow(pipe) /\ pipe' = PipeUpdate(pipe, FALSE)
      /\ UNCHANGED <<writing, next, raised, cfgCopy, meterCopy, pending, fw, mailbox>>
  BY DEF StreamOn, dma
<1>3. pipe.enabled
  <2>1. list # {}
    BY PipelineAssumption, FS_EmptySet DEF StreamOn
  <2>2. PICK s \in Slot : pipe.status[s] # "purge"
    BY <1>1, <2>1 DEF Accounts, InPipe, Live
  <2> QED BY <2>2 DEF PipeInv, Unarmed
<1>4. Moved(pipe, pipe')
  BY <1>2, <1>3, PipeUpdateMoves
<1>5. Named(next)' = Frame(pipe.in1)
  BY <1>1, <1>2 DEF Named, Shadow, Frame, MapShows
<1>6. Behind'
  BY <1>1, <1>2, <1>4, <1>5 DEF Moved, Behind, Frame, Taken, WholeFrame
<1>7. OneUpdate' /\ ~Waiting' /\ fw' \notin Updates
  BY <1>1, <1>2, Numbers DEF OneUpdate, AtMostOne, Waiting, Updates
<1>8. ReadyWhole'
  BY <1>1, <1>2, <1>4, PipeAssumption DEF Moved, ReadyWhole
<1> QED BY <1>1, <1>2, <1>4, <1>6, <1>7, <1>8 DEF Moved, InStep

\* Before the stream starts buffers are queued, and the first of them is shown.
LEMMA UnstartedStep ==
  ASSUME OthersOK, PipeInv(pipe), Quiet, MapShows(pipe), Unstarted, ~streaming,
         [Next]_vars, ~StreamOn
  PROVE  MapShows(pipe') /\ Unstarted' /\ ~streaming'
<1>1. /\ ~raised /\ cfgCopy = "none" /\ ~meterCopy /\ pending = <<>> /\ fw = Null
      /\ mailbox = Null
  BY DEF Quiet, Unstarted
<1>2. ASSUME NEW b \in Buffer, QueueBuffer(b) PROVE MapShows(pipe') /\ Unstarted' /\ ~streaming'
  <2>1. /\ pipe' = WriteFrameQueue(pipe, b)
        /\ UNCHANGED <<writing, mailbox, next, streaming, late>>
    BY <1>2 DEF QueueBuffer, isp
  <2>2. MapShows(pipe') /\ pipe'.last = Null /\ pipe'.in0 = Null
        /\ \A s \in Slot : pipe'.status[s] # "ready"
    BY <2>1, WriteFrameQueueKeeps, WriteFrameQueueArms DEF Unstarted
  <2> QED BY <2>1, <2>2 DEF Unstarted
<1>3. CASE UNCHANGED vars
  BY <1>3 DEF vars, isp, dma, stream, Unstarted
<1>4. Null \notin Event /\ {NewFrame, DropFrame, FrReady} \cup Control \subseteq Event
  BY Numbers
<1>5. ~(FrameStart \/ SkipInterrupt \/ \E busy \in Answers : FrameInterrupt(busy))
  BY <1>1 DEF FrameStart, SkipInterrupt, FrameInterrupt
<1>6. ~(MeteringCopied \/ ConfigCopied \/ PopEvent \/ CopyThread)
  BY <1>1 DEF MeteringCopied, ConfigCopied, PopEvent, CopyThread
<1>7. ~(HandleNewFrame \/ HandleDropFrame \/ HandleFrReady \/ \E e \in Control : HandleControl(e))
  BY <1>1, <1>4 DEF HandleNewFrame, HandleDropFrame, HandleFrReady, HandleControl, Dispatched
<1>8. ~((\E e \in Control : SetControl(e)) \/ \E r \in Rates : SetFrameRate(r))
  BY DEF SetControl, SetFrameRate
<1> QED BY <1>2, <1>3, <1>5, <1>6, <1>7, <1>8 DEF Next, Firmware

\* The steps that leave pages and pointers alone.
LEMMA StillStep ==
  ASSUME OthersOK, PipeInv(pipe), Accounts, MapShows(pipe), pipe.enabled, InStep, ReadyWhole,
         \/ SkipInterrupt \/ PopEvent \/ HandleFrReady \/ CopyThread \/ UNCHANGED vars
         \/ (\E e \in Control : HandleControl(e) \/ SetControl(e))
         \/ (\E b \in Buffer : QueueBuffer(b)) \/ (\E r \in Rates : SetFrameRate(r))
  PROVE  InStep' /\ ReadyWhole'
<1> USE DEF isp, dma, stream
<1>1. OneUpdate
  BY DEF InStep
<1>2. CASE SkipInterrupt
  <2>1. OneUpdate' /\ (fw' \in Updates \/ Waiting' => fw \in Updates \/ Waiting)
    BY <1>1, <1>2 DEF SkipInterrupt, OneUpdate, AtMostOne, Waiting
  <2> QED BY <1>2, <2>1, InStepKept DEF SkipInterrupt, ReadyWhole
<1>3. CASE PopEvent
  <2>1. OneUpdate' /\ (fw' \in Updates \/ Waiting' => fw \in Updates \/ Waiting)
    BY <1>1, <1>3, PopOne DEF PopEvent, OneUpdate, OthersOK
  <2> QED BY <1>3, <2>1, InStepKept DEF PopEvent, ReadyWhole
<1>4. CASE HandleFrReady
  <2> DEFINE s == NextReady(pipe)
             taken == mailbox = Null
  <2>1. /\ pipe' = Finish(pipe, taken) /\ fw' = Null
        /\ mailbox' = IF taken /\ s # Null THEN pipe.buf[s] ELSE mailbox
        /\ UNCHANGED <<writing, page, next, raised, cfgCopy, meterCopy, pending, fresh>>
    BY <1>4 DEF HandleFrReady, Dispatched
  <2>2. /\ pipe'.buf = pipe.buf
        /\ pipe'.last = pipe.last /\ pipe'.in0 = pipe.in0 /\ pipe'.in1 = pipe.in1
        /\ s # Null => s \in Slot /\ pipe.status[s] = "ready"
        /\ \A t \in Slot : pipe'.status[t] = "ready" => pipe.status[t] = "ready"
    BY <2>1, FinishKeeps
  <2> HIDE DEF s
  <2>3. Null \notin Updates
    BY Numbers DEF Updates
  <2>4. OneUpdate' /\ (fw' \in Updates \/ Waiting' => fw \in Updates \/ Waiting)
    BY <1>1, <2>1, <2>3 DEF OneUpdate, AtMostOne, Waiting
  <2>5. InStep'
    BY <2>1, <2>2, <2>4, InStepKept
  <2>6. ReadyWhole'
    BY <2>1, <2>2 DEF ReadyWhole
  <2> QED BY <2>5, <2>6
<1>5. CASE CopyThread
  <2>1. OneUpdate' /\ (fw' \in Updates \/ Waiting' => fw \in Updates \/ Waiting)
    BY <1>1, <1>5 DEF CopyThread, OneUpdate, AtMostOne, Waiting
  <2> QED BY <1>5, <2>1, InStepKept DEF CopyThread, ReadyWhole
<1>6. CASE UNCHANGED vars
  <2>1. OneUpdate' /\ (fw' \in Updates \/ Waiting' => fw \in Updates \/ Waiting)
    BY <1>1, <1>6 DEF vars, OneUpdate, AtMostOne, Waiting
  <2> QED BY <1>6, <2>1, InStepKept DEF vars, ReadyWhole
<1>7. ASSUME NEW e \in Control, HandleControl(e) PROVE InStep' /\ ReadyWhole'
  <2>1. fw' = Null /\ Null \notin Updates
    BY <1>7, Numbers DEF HandleControl, Dispatched, Updates
  <2>2. OneUpdate' /\ (fw' \in Updates \/ Waiting' => fw \in Updates \/ Waiting)
    BY <1>1, <1>7, <2>1 DEF HandleControl, OneUpdate, AtMostOne, Waiting
  <2> QED BY <1>7, <2>2, InStepKept DEF HandleControl, ReadyWhole
<1>8. ASSUME NEW e \in Control, SetControl(e) PROVE InStep' /\ ReadyWhole'
  <2>1. (Waiting' <=> Waiting) /\ AtMostOne'
    BY <1>1, <1>8, Numbers, PushOther DEF SetControl, OneUpdate, OthersOK
  <2>2. OneUpdate' /\ (fw' \in Updates \/ Waiting' => fw \in Updates \/ Waiting)
    BY <1>1, <1>8, <2>1 DEF SetControl, OneUpdate
  <2> QED BY <1>8, <2>2, InStepKept DEF SetControl, ReadyWhole
<1>9. ASSUME NEW b \in Buffer, QueueBuffer(b) PROVE InStep' /\ ReadyWhole'
  <2>1. /\ b \notin list /\ pipe' = WriteFrameQueue(pipe, b) /\ fresh' = fresh \ {b}
        /\ UNCHANGED <<writing, page, next, raised, cfgCopy, meterCopy, pending, fw, mailbox>>
    BY <1>9 DEF QueueBuffer
  <2>2. /\ pipe'.last = pipe.last /\ pipe'.in0 = pipe.in0 /\ pipe'.in1 = pipe.in1
        /\ \A s \in Slot : pipe.status[s] # "purge" => pipe'.buf[s] = pipe.buf[s]
        /\ \A s \in Slot : pipe'.status[s] = "ready" => pipe.status[s] = "ready"
    BY <2>1, WriteFrameQueueKeeps
  <2>3. /\ \A s \in Slot : pipe.status[s] # "purge" => pipe.buf[s] # b
        /\ mailbox # Null => mailbox # b
    BY <2>1 DEF Accounts, InPipe, Live
  <2>4. OneUpdate' /\ (fw' \in Updates \/ Waiting' => fw \in Updates \/ Waiting)
    BY <1>1, <2>1 DEF OneUpdate, AtMostOne, Waiting
  <2>5. InStep'
    BY <2>1, <2>2, <2>3, <2>4, InStepKept
  <2>6. ReadyWhole'
    BY <2>1, <2>2, <2>3 DEF ReadyWhole
  <2> QED BY <2>5, <2>6
<1>10. ASSUME NEW r \in Rates, SetFrameRate(r) PROVE InStep' /\ ReadyWhole'
  <2>1. /\ pipe'.buf = pipe.buf /\ pipe'.status = pipe.status
        /\ pipe'.last = pipe.last /\ pipe'.in0 = pipe.in0 /\ pipe'.in1 = pipe.in1
    BY <1>10, SetRateKeeps DEF SetFrameRate
  <2>2. OneUpdate' /\ (fw' \in Updates \/ Waiting' => fw \in Updates \/ Waiting)
    BY <1>1, <1>10 DEF SetFrameRate, OneUpdate, AtMostOne, Waiting
  <2> QED BY <1>10, <2>1, <2>2, InStepKept DEF SetFrameRate, ReadyWhole
<1> QED BY <1>2, <1>3, <1>4, <1>5, <1>6, <1>7, <1>8, <1>9, <1>10

\* The software map and the arming of the pipe, however late the firmware is.
LEMMA MapStep ==
  ASSUME PipeInv(pipe), MapShows(pipe), pipe.enabled, streaming, [Next]_vars
  PROVE  MapShows(pipe') /\ pipe'.enabled /\ streaming'
<1> DEFINE G == MapShows(pipe') /\ pipe'.enabled
<1>1. streaming'
  BY DEF Next, Firmware, StreamOn, FrameStart, SkipInterrupt, FrameInterrupt, MeteringCopied,
         ConfigCopied, PopEvent, HandleNewFrame, HandleDropFrame, HandleFrReady, HandleControl,
         CopyThread, QueueBuffer, SetControl, SetFrameRate, vars, stream
<1>2. ASSUME NEW drop \in BOOLEAN, UpdatePipe(drop) PROVE G
  BY <1>2, PipeUpdateMoves, PipeSetFpsMoves DEF UpdatePipe, Moved
<1>3. CASE HandleFrReady
  BY <1>1, <1>3, FinishKeeps DEF HandleFrReady
<1>4. ASSUME NEW b \in Buffer, QueueBuffer(b) PROVE G
  BY <1>4, WriteFrameQueueKeeps DEF QueueBuffer
<1>5. ASSUME NEW r \in Rates, SetFrameRate(r) PROVE G
  <2>1. pipe' = SetRate(pipe, r[1], r[2])
    BY <1>5 DEF SetFrameRate
  <2>2. pipe'.enabled = pipe.enabled /\ MapShows(pipe')
    BY <2>1, SetRateKeeps
  <2> QED BY <2>2
<1>6. ASSUME pipe' = pipe PROVE G
  BY <1>6
<1>7. [Next]_vars =>
        \/ UNCHANGED pipe \/ UpdatePipe(FALSE) \/ UpdatePipe(TRUE) \/ HandleFrReady
        \/ (\E b \in Buffer : QueueBuffer(b)) \/ \E r \in Rates : SetFrameRate(r)
  BY DEF Next, Firmware, StreamOn, FrameStart, SkipInterrupt, FrameInterrupt, MeteringCopied,
         ConfigCopied, PopEvent, HandleNewFrame, HandleDropFrame, HandleControl,
         CopyThread, SetControl, vars
<1> QED BY <1>1, <1>2, <1>3, <1>4, <1>5, <1>6, <1>7

\* new_frame and drop_frame being dispatched
LEMMA HandleUpdateStep ==
  ASSUME OthersOK, PipeInv(pipe), MapShows(pipe), pipe.enabled, InStep, ReadyWhole,
         HandleNewFrame \/ HandleDropFrame
  PROVE  InStep' /\ ReadyWhole'
<1>1. fw \in Updates /\ fw' = Null
      /\ UNCHANGED <<page, writing, next, raised, cfgCopy, meterCopy, mailbox, fresh>>
  BY DEF HandleNewFrame, HandleDropFrame, Dispatched, Updates, isp, dma, stream
<1>2. Moved(pipe, pipe')
  <2>1. ASSUME NEW drop \in BOOLEAN, UpdatePipe(drop) PROVE Moved(pipe, pipe')
    BY <2>1, PipeUpdateMoves, PipeSetFpsMoves DEF UpdatePipe
  <2> QED BY <2>1 DEF HandleNewFrame, HandleDropFrame
<1>3. AtMostOne /\ ~Waiting
  BY <1>1 DEF InStep, OneUpdate
<1>4. AtMostOne' /\ ~Waiting'
  <2>1. CASE HandleNewFrame
    BY <1>3, <2>1, Numbers, PushOther DEF HandleNewFrame, OthersOK
  <2>2. CASE HandleDropFrame
    BY <1>3, <2>2 DEF HandleDropFrame, AtMostOne, Waiting
  <2> QED BY <2>1, <2>2
<1> QED BY <1>1, <1>2, <1>4, UpdateStep

\* While the firmware keeps up the pages stay in step with the pointers.
LEMMA InStepStep ==
  ASSUME OthersOK, PipeInv(pipe), Accounts, MapShows(pipe), FlagsExact, pipe.enabled,
         InStep, ReadyWhole, streaming, [Next]_vars, ~late'
  PROVE  InStep' /\ ReadyWhole'
<1>1. CASE FrameStart
  <2>1. cfgCopy = "none"
    BY <1>1 DEF FrameStart
  <2> QED BY <1>1, <2>1, FrameStartStep
<1>2. ASSUME NEW busy \in Answers, FrameInterrupt(busy) PROVE InStep' /\ ReadyWhole'
  <2>1. fw \notin Updates
    BY <1>2 DEF FrameInterrupt, Updates
  <2> QED BY <1>2, <2>1, FrameInterruptStep
<1>3. CASE ConfigCopied
  BY <1>3, ConfigCopiedStep
<1>4. CASE MeteringCopied
  BY <1>4, MeteringCopiedStep
<1>5. CASE HandleNewFrame \/ HandleDropFrame
  BY <1>5, HandleUpdateStep
<1>6. ~StreamOn
  BY DEF StreamOn
<1>7. CASE \/ SkipInterrupt \/ PopEvent \/ HandleFrReady \/ CopyThread \/ UNCHANGED vars
           \/ (\E e \in Control : HandleControl(e) \/ SetControl(e))
           \/ (\E b \in Buffer : QueueBuffer(b)) \/ (\E r \in Rates : SetFrameRate(r))
  BY <1>7, StillStep
<1> QED BY <1>1, <1>2, <1>3, <1>4, <1>5, <1>6, <1>7 DEF Next, Firmware

\* Nothing makes up for a frame that was late.
LEMMA LateStays == [Next]_vars /\ late => late'
BY DEF Next, Firmware, StreamOn, FrameStart, SkipInterrupt, FrameInterrupt, MeteringCopied,
       ConfigCopied, PopEvent, HandleNewFrame, HandleDropFrame, HandleFrReady, HandleControl,
       CopyThread, QueueBuffer, SetControl, SetFrameRate, vars

LEMMA StepTiming == IInv /\ TimingInv /\ [Next]_vars => TimingInv'
<1> SUFFICES ASSUME IInv, TimingInv, [Next]_vars PROVE TimingInv'
  OBVIOUS
<1>1. OthersOK /\ PipeInv(pipe) /\ Accounts /\ Quiet /\ MapShows(pipe) /\ FlagsExact
  BY DEF IInv, TimingInv
<1>2. FlagsExact'
  BY <1>1, FlagsExactStep
<1>3. CASE streaming
  <2>1. pipe.enabled /\ (~late => InStep /\ ReadyWhole)
    BY <1>3 DEF TimingInv
  <2>2. MapShows(pipe') /\ pipe'.enabled /\ streaming'
    BY <1>1, <1>3, <2>1, MapStep
  <2>3. ~late' => InStep' /\ ReadyWhole'
    BY <1>1, <1>3, <2>1, LateStays, InStepStep
  <2> QED BY <1>2, <2>2, <2>3 DEF TimingInv
<1>4. CASE ~streaming /\ StreamOn
  <2>1. Unstarted /\ streaming'
    BY <1>4 DEF TimingInv, StreamOn
  <2> QED BY <1>1, <1>2, <1>4, <2>1, StreamOnStep DEF TimingInv
<1>5. CASE ~streaming /\ ~StreamOn
  <2>1. Unstarted
    BY <1>5 DEF TimingInv
  <2> QED BY <1>1, <1>2, <1>5, <2>1, UnstartedStep DEF TimingInv
<1> QED BY <1>3, <1>4, <1>5

LEMMA InitTiming == Init => TimingInv
<1> SUFFICES ASSUME Init PROVE TimingInv
  OBVIOUS
<1>1. MapShows(pipe) /\ pipe.last = Null /\ pipe.in0 = Null /\ \A s \in Slot : pipe.status[s] # "ready"
  BY DEF Init, InitialPipe, MapShows
<1> QED BY <1>1 DEF Init, TimingInv, FlagsExact, Unstarted
-----------------------------------------------------------------------------
(* The theorems.                                                               *)

\* While no frame is overrun the page to use next and the buffer being written
\* are those of in0 and in1, or of last and in0, as the update of the frame is
\* to come or done.
THEOREM PagesInStep == Spec => []TimingInv
<1>1. Init => TimingInv
  BY InitTiming
<1>2. IInv /\ TimingInv /\ [Next]_vars => TimingInv'
  BY StepTiming
<1> QED BY <1>1, <1>2, PipelineInvariant, PTL DEF Spec

\* The ISP writes to no buffer the application has (dma_writer.c:414): every
\* buffer being written is one a pointer still holds.
THEOREM UserBuffersSafe == Spec => []UserBufferUntouched
<1>1. IInv /\ TimingInv => UserBufferUntouched
  <2> SUFFICES ASSUME IInv, TimingInv, ~late, writing # Null PROVE writing \in list
    BY DEF UserBufferUntouched
  <2>1. PipeInv(pipe) /\ Accounts
    BY DEF IInv
  <2>2. streaming /\ InStep
    BY DEF TimingInv, Unstarted
  <2>3. writing \in {Frame(pipe.last), Frame(pipe.in0), Frame(pipe.in1)}
    BY <2>2 DEF InStep, Ahead, Before, Behind
  <2>4. PICK s \in {pipe.last, pipe.in0, pipe.in1} : s # Null /\ writing = pipe.buf[s]
    BY <2>3 DEF Frame
  <2>5. s \in Slot /\ pipe.status[s] = "busy"
    BY <2>1, <2>4 DEF PipeInv, Pipe, Busy, Held
  <2> QED BY <2>1, <2>4, <2>5 DEF Accounts, InPipe, Live
<1> QED BY <1>1, PipelineInvariant, PagesInStep, PTL

\* What the application gets is a whole frame taken since it queued the buffer
\* (frame_buffer_fr_finished).
THEOREM DeliveredFramesFresh == Spec => []DeliveredIsFresh
<1>1. TimingInv => DeliveredIsFresh
  BY DEF TimingInv, Unstarted, ReadyWhole, DeliveredIsFresh
<1> QED BY <1>1, PagesInStep, PTL
=============================================================================
