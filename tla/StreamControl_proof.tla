------------------------- MODULE StreamControl_proof --------------------------
(* Proofs about starting and stopping the stream under an interrupt handler    *)
(* that may recover from an error at any step, for every limit of retries.     *)
EXTENDS StreamControl, TLAPS

Starting == {"clear", "unmask", "arm", "configure", "safe_start", "started"}

\* Pixels arrive only between the start of the sensor and its stop.
SensorWithin == sensor => thread \in {"on", "drain", "silence", "cut"}

\* A rearm that begins in quiet stays undisturbed until the sensor is on: an
\* error of an earlier session is masked until its bit has been cleared.
QuietStart ==
  cleanStart /\ thread \in Starting =>
    /\ irq = "idle" /\ ~gaveUp
    /\ masked \/ "error" \notin latched
    /\ thread # "clear" => "error" \notin latched

\* From its own stop of the port to its restart the error routine is alone with
\* the port; from its mask on it is alone with the mask.
RoutineAlone ==
  cleanStart =>
    /\ irq \in {"stop", "poll", "fsm_reset", "decide"} => masked
    /\ irq \in {"poll", "fsm_reset", "decide", "restart"} => request = "stop"

\* Every restart of the session has been paid for with a count of errCount.
RestartsPaid ==
  cleanStart =>
    /\ irq = "idle" => restarts <= errCount
    /\ irq = "count" => restarts <= errCount /\ local = errCount + 1
    /\ irq \notin {"idle", "count"} => restarts < errCount /\ local = errCount
    /\ irq = "restart" => local <= MaxRetry

\* Once given up, nothing is left that would run again.
GivenUpIdle == gaveUp /\ cleanStart => irq = "idle"

\* An operation of the thread no error routine has disturbed.
Undisturbed ==
  undisturbed /\ thread \in Starting \cup {"on", "drain", "silence", "cut"} =>
    /\ irq = "idle"
    /\ thread \in Starting \cup {"on"} => errCount = 0
    /\ thread \in {"arm", "configure", "safe_start", "started", "on"} => ~masked
    /\ thread \in {"configure", "safe_start", "started", "on"} => request = "start"
    /\ thread \in {"drain", "silence", "cut"} => request = "stop"
    /\ thread \in {"silence", "cut"} /\ drained => Drained
    /\ thread = "cut" => masked


\* The type invariant in the parts that are proved one by one.
PlacesOK == thread \in ThreadAt /\ irq \in IrqAt
CountsOK == errCount \in 0..MaxCount /\ local \in 0..MaxCount /\ restarts \in Nat
RoutineOK == clean \in BOOLEAN /\ drained \in BOOLEAN
HardwareOK ==
  /\ masked \in BOOLEAN /\ latched \subseteq {"frame", "error"}
  /\ request \in {"start", "stop"} /\ status \in {"start", "stop"}
  /\ pipe \in {"idle", "busy", "wedged"} /\ sensor \in BOOLEAN
WriterOK == shadowOn \in BOOLEAN /\ hwOn \in BOOLEAN /\ enabled \in BOOLEAN /\ fwWork \in BOOLEAN
HistoryOK == cleanStart \in BOOLEAN /\ undisturbed \in BOOLEAN /\ gaveUp \in BOOLEAN

IInv ==
  /\ TypeOK
  /\ SensorWithin /\ QuietStart /\ RoutineAlone
  /\ RestartsPaid /\ RestartBudget
  /\ GivenUpStaysDown /\ GivenUpIdle
  /\ Undisturbed /\ RestartOverIdle
-----------------------------------------------------------------------------
\* Every place is one of the listed ones.
LEMMA PlacesStep ==
  ASSUME PlacesOK, [Next]_vars
  PROVE  PlacesOK'
<1> USE DEF PlacesOK, ThreadAt, IrqAt, routine
<1>1. CASE Thread
  BY <1>1 DEF Thread, RearmCount, RearmClear, RearmUnmask, RearmArm, Configure, SafeStart,
    SensorOn, QuiesceStop, QuiescePoll, QuiesceMask, SensorOff, SafeStop, QueueReset, Goto
<1>2. CASE QueueBuffer \/ FwUpdate
  BY <1>2 DEF QueueBuffer, FwUpdate
<1>3. CASE Irq
  BY <1>3 DEF Irq, FrameInterrupt, ErrorInterrupt, ErrorCount, ErrorWriteOff, ErrorMask,
    ErrorStop, ErrorPoll, ErrorReset, ErrorGiveUp, ErrorUnmask, ErrorRestart, Step
<1>4. CASE Hardware
  BY <1>4 DEF Hardware, PortFollows, FrameStart, FrameEnd, FrameBreaks, Collision, Only
<1>5. CASE UNCHANGED vars
  BY <1>5 DEF vars
<1> QED BY <1>1, <1>2, <1>3, <1>4, <1>5 DEF Next

\* The counters stay in range.
LEMMA CountsStep ==
  ASSUME CountsOK, [Next]_vars
  PROVE  CountsOK'
<1> USE ControlAssumption DEF CountsOK, routine, history
<1>1. CASE Thread
  BY <1>1 DEF Thread, RearmCount, RearmClear, RearmUnmask, RearmArm, Configure, SafeStart,
    SensorOn, QuiesceStop, QuiescePoll, QuiesceMask, SensorOff, SafeStop, QueueReset, Goto
<1>2. CASE QueueBuffer \/ FwUpdate
  BY <1>2 DEF QueueBuffer, FwUpdate
<1>3. CASE Irq
  BY <1>3 DEF Irq, FrameInterrupt, ErrorInterrupt, ErrorCount, ErrorWriteOff, ErrorMask,
    ErrorStop, ErrorPoll, ErrorReset, ErrorGiveUp, ErrorUnmask, ErrorRestart, Step
<1>4. CASE Hardware
  BY <1>4 DEF Hardware, PortFollows, FrameStart, FrameEnd, FrameBreaks, Collision, Only
<1>5. CASE UNCHANGED vars
  BY <1>5 DEF vars
<1> QED BY <1>1, <1>2, <1>3, <1>4, <1>5 DEF Next

\* What the polling loops remember is a truth value.
LEMMA RoutineTypeStep ==
  ASSUME RoutineOK, [Next]_vars
  PROVE  RoutineOK'
<1> USE DEF RoutineOK, routine
<1>1. CASE Thread
  BY <1>1 DEF Thread, RearmCount, RearmClear, RearmUnmask, RearmArm, Configure, SafeStart,
    SensorOn, QuiesceStop, QuiescePoll, QuiesceMask, SensorOff, SafeStop, QueueReset, Goto,
    Drained
<1>2. CASE QueueBuffer \/ FwUpdate
  BY <1>2 DEF QueueBuffer, FwUpdate
<1>3. CASE Irq
  BY <1>3 DEF Irq, FrameInterrupt, ErrorInterrupt, ErrorCount, ErrorWriteOff, ErrorMask,
    ErrorStop, ErrorPoll, ErrorReset, ErrorGiveUp, ErrorUnmask, ErrorRestart, Step, Drained
<1>4. CASE Hardware
  BY <1>4 DEF Hardware, PortFollows, FrameStart, FrameEnd, FrameBreaks, Collision, Only, Drained
<1>5. CASE UNCHANGED vars
  BY <1>5 DEF vars
<1> QED BY <1>1, <1>2, <1>3, <1>4, <1>5 DEF Next

\* The hardware's registers keep to their values.
LEMMA HardwareStep ==
  ASSUME HardwareOK, [Next]_vars
  PROVE  HardwareOK'
<1> USE DEF HardwareOK, hw
<1>1. CASE Thread
  BY <1>1 DEF Thread, RearmCount, RearmClear, RearmUnmask, RearmArm, Configure, SafeStart,
    SensorOn, QuiesceStop, QuiescePoll, QuiesceMask, SensorOff, SafeStop, QueueReset, Goto
<1>2. CASE QueueBuffer \/ FwUpdate
  BY <1>2 DEF QueueBuffer, FwUpdate
<1>3. CASE Irq
  BY <1>3 DEF Irq, FrameInterrupt, ErrorInterrupt, ErrorCount, ErrorWriteOff, ErrorMask,
    ErrorStop, ErrorPoll, ErrorReset, ErrorGiveUp, ErrorUnmask, ErrorRestart, Step
<1>4. CASE Hardware
  BY <1>4 DEF Hardware, PortFollows, FrameStart, FrameEnd, FrameBreaks, Collision, Only
<1>5. CASE UNCHANGED vars
  BY <1>5 DEF vars
<1> QED BY <1>1, <1>2, <1>3, <1>4, <1>5 DEF Next

\* So do the writer's bits.
LEMMA WriterStep ==
  ASSUME WriterOK, [Next]_vars
  PROVE  WriterOK'
<1> USE DEF WriterOK, writer
<1>1. CASE Thread
  BY <1>1 DEF Thread, RearmCount, RearmClear, RearmUnmask, RearmArm, Configure, SafeStart,
    SensorOn, QuiesceStop, QuiescePoll, QuiesceMask, SensorOff, SafeStop, QueueReset, Goto
<1>2. CASE QueueBuffer \/ FwUpdate
  BY <1>2 DEF QueueBuffer, FwUpdate
<1>3. CASE Irq
  BY <1>3 DEF Irq, FrameInterrupt, ErrorInterrupt, ErrorCount, ErrorWriteOff, ErrorMask,
    ErrorStop, ErrorPoll, ErrorReset, ErrorGiveUp, ErrorUnmask, ErrorRestart, Step
<1>4. CASE Hardware
  BY <1>4 DEF Hardware, PortFollows, FrameStart, FrameEnd, FrameBreaks, Collision, Only
<1>5. CASE UNCHANGED vars
  BY <1>5 DEF vars
<1> QED BY <1>1, <1>2, <1>3, <1>4, <1>5 DEF Next

\* The history is made of truth values.
LEMMA HistoryStep ==
  ASSUME HistoryOK, [Next]_vars
  PROVE  HistoryOK'
<1> USE DEF HistoryOK, history
<1>1. CASE Thread
  BY <1>1 DEF Thread, RearmCount, RearmClear, RearmUnmask, RearmArm, Configure, SafeStart,
    SensorOn, QuiesceStop, QuiescePoll, QuiesceMask, SensorOff, SafeStop, QueueReset, Goto, Quiet
<1>2. CASE QueueBuffer \/ FwUpdate
  BY <1>2 DEF QueueBuffer, FwUpdate
<1>3. CASE Irq
  BY <1>3 DEF Irq, FrameInterrupt, ErrorInterrupt, ErrorCount, ErrorWriteOff, ErrorMask,
    ErrorStop, ErrorPoll, ErrorReset, ErrorGiveUp, ErrorUnmask, ErrorRestart, Step, Quiet
<1>4. CASE Hardware
  BY <1>4 DEF Hardware, PortFollows, FrameStart, FrameEnd, FrameBreaks, Collision, Only, Quiet
<1>5. CASE UNCHANGED vars
  BY <1>5 DEF vars
<1> QED BY <1>1, <1>2, <1>3, <1>4, <1>5 DEF Next

\* The counters' part is needed by itself.
LEMMA CountsHold == TypeOK => CountsOK
  BY DEF TypeOK, CountsOK

\* All of it.
LEMMA TypeStep ==
  ASSUME TypeOK, [Next]_vars
  PROVE  TypeOK'
<1>1. PlacesOK /\ CountsOK /\ RoutineOK /\ HardwareOK /\ WriterOK /\ HistoryOK
  BY DEF TypeOK, PlacesOK, CountsOK, RoutineOK, HardwareOK, WriterOK, HistoryOK
<1>2. (PlacesOK /\ CountsOK /\ RoutineOK)'
  BY <1>1, PlacesStep, CountsStep, RoutineTypeStep
<1>3. (HardwareOK /\ WriterOK /\ HistoryOK)'
  BY <1>1, HardwareStep, WriterStep, HistoryStep
<1> QED BY <1>2, <1>3 DEF TypeOK, PlacesOK, CountsOK, RoutineOK, HardwareOK, WriterOK, HistoryOK

\* Only SensorOn starts the sensor, and SensorOff stops it.
LEMMA SensorStep ==
  ASSUME SensorWithin, [Next]_vars
  PROVE  SensorWithin'
<1> USE DEF SensorWithin, hw
<1>1. CASE Thread
  BY <1>1 DEF Thread, RearmCount, RearmClear, RearmUnmask, RearmArm, Configure, SafeStart,
    SensorOn, QuiesceStop, QuiescePoll, QuiesceMask, SensorOff, SafeStop, QueueReset, Goto
<1>2. CASE QueueBuffer \/ FwUpdate
  BY <1>2 DEF QueueBuffer, FwUpdate
<1>3. CASE Irq
  BY <1>3 DEF Irq, FrameInterrupt, ErrorInterrupt, ErrorCount, ErrorWriteOff, ErrorMask,
    ErrorStop, ErrorPoll, ErrorReset, ErrorGiveUp, ErrorUnmask, ErrorRestart, Step
<1>4. CASE Hardware
  BY <1>4 DEF Hardware, PortFollows, FrameStart, FrameEnd, FrameBreaks, Collision, Only
<1>5. CASE UNCHANGED vars
  BY <1>5 DEF vars
<1> QED BY <1>1, <1>2, <1>3, <1>4, <1>5 DEF Next

\* While the thread starts a stream no pixel arrives to raise an error.
LEMMA QuietStep ==
  ASSUME SensorWithin, QuietStart, [Next]_vars
  PROVE  QuietStart'
<1> USE DEF QuietStart, SensorWithin, Starting, hw, history, routine
<1>1. CASE Thread
  <2>1. CASE RearmCount
    BY <2>1 DEF RearmCount, Goto, Quiet
  <2>2. CASE RearmClear \/ RearmUnmask \/ RearmArm \/ Configure \/ SafeStart \/ SensorOn
    BY <2>2 DEF RearmClear, RearmUnmask, RearmArm, Configure, SafeStart, SensorOn, Goto
  <2>3. CASE QuiesceStop \/ QuiescePoll \/ QuiesceMask \/ SensorOff \/ SafeStop \/ QueueReset
    BY <2>3 DEF QuiesceStop, QuiescePoll, QuiesceMask, SensorOff, SafeStop, QueueReset, Goto
  <2> QED BY <1>1, <2>1, <2>2, <2>3 DEF Thread
<1>2. CASE QueueBuffer \/ FwUpdate
  BY <1>2 DEF QueueBuffer, FwUpdate
<1>3. CASE Irq
  BY <1>3 DEF Irq, FrameInterrupt, ErrorInterrupt, ErrorCount, ErrorWriteOff, ErrorMask,
    ErrorStop, ErrorPoll, ErrorReset, ErrorGiveUp, ErrorUnmask, ErrorRestart, Step, Quiet
<1>4. CASE Hardware
  BY <1>4 DEF Hardware, PortFollows, FrameStart, FrameEnd, FrameBreaks, Collision, Only, Quiet
<1>5. CASE UNCHANGED vars
  BY <1>5 DEF vars
<1> QED BY <1>1, <1>2, <1>3, <1>4, <1>5 DEF Next

\* The thread writes the port and the mask of a session while no routine runs,
\* or stops them.
LEMMA RoutineStep ==
  ASSUME QuietStart, RoutineAlone, [Next]_vars
  PROVE  RoutineAlone'
<1> USE DEF RoutineAlone, QuietStart, Starting, hw, history, routine
<1>1. CASE Thread
  BY <1>1 DEF Thread, RearmCount, RearmClear, RearmUnmask, RearmArm, Configure, SafeStart,
    SensorOn, QuiesceStop, QuiescePoll, QuiesceMask, SensorOff, SafeStop, QueueReset, Goto, Quiet
<1>2. CASE QueueBuffer \/ FwUpdate
  BY <1>2 DEF QueueBuffer, FwUpdate
<1>3. CASE Irq
  BY <1>3 DEF Irq, FrameInterrupt, ErrorInterrupt, ErrorCount, ErrorWriteOff, ErrorMask,
    ErrorStop, ErrorPoll, ErrorReset, ErrorGiveUp, ErrorUnmask, ErrorRestart, Step, Quiet
<1>4. CASE Hardware
  BY <1>4 DEF Hardware, PortFollows, FrameStart, FrameEnd, FrameBreaks, Collision, Only, Quiet
<1>5. CASE UNCHANGED vars
  BY <1>5 DEF vars
<1> QED BY <1>1, <1>2, <1>3, <1>4, <1>5 DEF Next

\* A routine counts before it restarts, and the count is reset only in quiet.
LEMMA PaidStep ==
  ASSUME CountsOK, RestartsPaid, [Next]_vars
  PROVE  RestartsPaid'
<1> USE DEF CountsOK, RestartsPaid
<1>1. CASE RearmCount
  <2>1. cleanStart' => irq' = "idle"
    BY <1>1 DEF RearmCount, Quiet, routine
  <2>2. restarts' = 0 /\ errCount' = 0
    BY <1>1 DEF RearmCount
  <2> QED BY <2>1, <2>2
<1>2. CASE ErrorInterrupt
  BY <1>2 DEF ErrorInterrupt, Step
<1>3. CASE ErrorCount
  BY <1>3 DEF ErrorCount, Step, history
<1>4. CASE ErrorWriteOff \/ ErrorMask \/ ErrorStop \/ ErrorPoll \/ ErrorReset
  BY <1>4 DEF ErrorWriteOff, ErrorMask, ErrorStop, ErrorPoll, ErrorReset, Step, history
<1>5. CASE ErrorUnmask
  BY <1>5, ControlAssumption DEF ErrorUnmask, Step, history
<1>6. CASE ErrorGiveUp \/ ErrorRestart
  <2>1. irq \in {"decide", "restart"} /\ irq' = "idle" /\ UNCHANGED <<cleanStart, errCount>>
    BY <1>6 DEF ErrorGiveUp, ErrorRestart, Step
  <2>2. restarts' \in {restarts, restarts + 1}
    BY <1>6 DEF ErrorGiveUp, ErrorRestart
  <2> QED BY <2>1, <2>2
<1>7. ASSUME UNCHANGED <<irq, errCount, local, cleanStart, restarts>> PROVE RestartsPaid'
  BY <1>7
<1>8. CASE Thread /\ ~RearmCount
  BY <1>7, <1>8 DEF Thread, RearmClear, RearmUnmask, RearmArm, Configure, SafeStart, SensorOn,
    QuiesceStop, QuiescePoll, QuiesceMask, SensorOff, SafeStop, QueueReset, routine, history
<1>9. CASE FrameInterrupt \/ QueueBuffer \/ FwUpdate
  BY <1>7, <1>9 DEF FrameInterrupt, QueueBuffer, FwUpdate, routine, history
<1>10. CASE Hardware \/ UNCHANGED vars
  BY <1>7, <1>10 DEF Hardware, PortFollows, FrameStart, FrameEnd, FrameBreaks, Collision, Only,
    vars, routine, history
<1> QED BY <1>1, <1>2, <1>3, <1>4, <1>5, <1>6, <1>8, <1>9, <1>10 DEF Next, Irq

\* A restart that has been paid for leaves the budget kept.
LEMMA BudgetStep ==
  ASSUME CountsOK, RestartsPaid, RestartBudget, [Next]_vars
  PROVE  RestartBudget'
<1>1. CASE RearmCount
  BY <1>1, ControlAssumption DEF RearmCount, RestartBudget
<1>2. CASE ErrorRestart
  <2>1. cleanStart => restarts < local /\ local <= MaxRetry
    BY <1>2 DEF ErrorRestart, Step, RestartsPaid
  <2> QED BY <1>2, <2>1, ControlAssumption DEF ErrorRestart, CountsOK, RestartBudget
<1>3. ASSUME UNCHANGED <<cleanStart, restarts>> PROVE RestartBudget'
  BY <1>3 DEF RestartBudget
<1>4. CASE Thread /\ ~RearmCount
  BY <1>3, <1>4 DEF Thread, RearmClear, RearmUnmask, RearmArm, Configure, SafeStart, SensorOn,
    QuiesceStop, QuiescePoll, QuiesceMask, SensorOff, SafeStop, QueueReset, history
<1>5. CASE Irq /\ ~ErrorRestart
  BY <1>3, <1>5 DEF Irq, FrameInterrupt, ErrorInterrupt, ErrorCount, ErrorWriteOff, ErrorMask,
    ErrorStop, ErrorPoll, ErrorReset, ErrorGiveUp, ErrorUnmask, history
<1>6. CASE QueueBuffer \/ FwUpdate \/ Hardware \/ UNCHANGED vars
  BY <1>3, <1>6 DEF QueueBuffer, FwUpdate, Hardware, PortFollows, FrameStart, FrameEnd, FrameBreaks,
    Collision, Only, vars, history
<1> QED BY <1>1, <1>2, <1>4, <1>5, <1>6 DEF Next

\* Giving up happens masked and stopped, and nothing undoes either.
LEMMA GivenUpStep ==
  ASSUME QuietStart, RoutineAlone, GivenUpStaysDown, GivenUpIdle, [Next]_vars
  PROVE  GivenUpStaysDown' /\ GivenUpIdle'
<1> USE DEF GivenUpStaysDown, GivenUpIdle, RoutineAlone, QuietStart, Starting, hw, history, routine
<1>1. CASE Thread
  BY <1>1 DEF Thread, RearmCount, RearmClear, RearmUnmask, RearmArm, Configure, SafeStart,
    SensorOn, QuiesceStop, QuiescePoll, QuiesceMask, SensorOff, SafeStop, QueueReset, Goto, Quiet
<1>2. CASE QueueBuffer \/ FwUpdate
  BY <1>2 DEF QueueBuffer, FwUpdate
<1>3. CASE Irq
  BY <1>3 DEF Irq, FrameInterrupt, ErrorInterrupt, ErrorCount, ErrorWriteOff, ErrorMask,
    ErrorStop, ErrorPoll, ErrorReset, ErrorGiveUp, ErrorUnmask, ErrorRestart, Step, Quiet
<1>4. CASE Hardware
  BY <1>4 DEF Hardware, PortFollows, FrameStart, FrameEnd, FrameBreaks, Collision, Only, Quiet
<1>5. CASE UNCHANGED vars
  BY <1>5 DEF vars
<1> QED BY <1>1, <1>2, <1>3, <1>4, <1>5 DEF Next

\* What the thread has written stays as long as no routine runs.
LEMMA UndisturbedStep ==
  ASSUME SensorWithin, Undisturbed, [Next]_vars
  PROVE  Undisturbed'
<1> USE DEF Undisturbed, SensorWithin, Starting, Drained, Busy, hw, history, routine
<1>1. CASE Thread
  BY <1>1 DEF Thread, RearmCount, RearmClear, RearmUnmask, RearmArm, Configure, SafeStart,
    SensorOn, QuiesceStop, QuiescePoll, QuiesceMask, SensorOff, SafeStop, QueueReset, Goto, Quiet
<1>2. CASE QueueBuffer \/ FwUpdate
  BY <1>2 DEF QueueBuffer, FwUpdate
<1>3. CASE Irq
  BY <1>3 DEF Irq, FrameInterrupt, ErrorInterrupt, ErrorCount, ErrorWriteOff, ErrorMask,
    ErrorStop, ErrorPoll, ErrorReset, ErrorGiveUp, ErrorUnmask, ErrorRestart, Step, Quiet
<1>4. CASE Hardware
  BY <1>4 DEF Hardware, PortFollows, FrameStart, FrameEnd, FrameBreaks, Collision, Only, Quiet
<1>5. CASE UNCHANGED vars
  BY <1>5 DEF vars
<1> QED BY <1>1, <1>2, <1>3, <1>4, <1>5 DEF Next

\* Nothing starts a frame between a clean poll and the restart.
LEMMA RestartStep ==
  ASSUME QuietStart, RoutineAlone, RestartOverIdle, [Next]_vars
  PROVE  RestartOverIdle'
<1> USE DEF RestartOverIdle, RoutineAlone, QuietStart, Starting, Drained, Busy, hw, history, routine
<1>1. CASE Thread
  BY <1>1 DEF Thread, RearmCount, RearmClear, RearmUnmask, RearmArm, Configure, SafeStart,
    SensorOn, QuiesceStop, QuiescePoll, QuiesceMask, SensorOff, SafeStop, QueueReset, Goto, Quiet
<1>2. CASE QueueBuffer \/ FwUpdate
  BY <1>2 DEF QueueBuffer, FwUpdate
<1>3. CASE Irq
  BY <1>3 DEF Irq, FrameInterrupt, ErrorInterrupt, ErrorCount, ErrorWriteOff, ErrorMask,
    ErrorStop, ErrorPoll, ErrorReset, ErrorGiveUp, ErrorUnmask, ErrorRestart, Step, Quiet
<1>4. CASE Hardware
  BY <1>4 DEF Hardware, PortFollows, FrameStart, FrameEnd, FrameBreaks, Collision, Only, Quiet
<1>5. CASE UNCHANGED vars
  BY <1>5 DEF vars
<1> QED BY <1>1, <1>2, <1>3, <1>4, <1>5 DEF Next

-----------------------------------------------------------------------------
\* The inductive invariant of stream start, stop and recovery.
THEOREM ControlInvariant == Spec => []IInv
<1>1. Init => IInv
  <2> SUFFICES ASSUME Init PROVE IInv
    OBVIOUS
  <2>1. TypeOK
    <3>1. PlacesOK /\ RoutineOK
      BY DEF Init, PlacesOK, RoutineOK, ThreadAt, IrqAt
    <3>2. CountsOK
      BY ControlAssumption DEF Init, CountsOK
    <3>3. HardwareOK /\ WriterOK /\ HistoryOK
      BY DEF Init, HardwareOK, WriterOK, HistoryOK
    <3> QED BY <3>1, <3>2, <3>3 DEF TypeOK, PlacesOK, CountsOK, RoutineOK, HardwareOK, WriterOK, HistoryOK
  <2>2. SensorWithin /\ QuietStart /\ RoutineAlone
    BY DEF Init, SensorWithin, QuietStart, RoutineAlone, Starting
  <2>3. RestartsPaid /\ RestartBudget
    BY ControlAssumption DEF Init, RestartsPaid, RestartBudget
  <2>4. GivenUpStaysDown /\ GivenUpIdle /\ Undisturbed /\ RestartOverIdle
    BY DEF Init, GivenUpStaysDown, GivenUpIdle, Undisturbed, Starting, RestartOverIdle
  <2> QED BY <2>1, <2>2, <2>3, <2>4 DEF IInv
<1>2. IInv /\ [Next]_vars => IInv'
  BY CountsHold, TypeStep, SensorStep, QuietStep, RoutineStep, PaidStep, BudgetStep, GivenUpStep, UndisturbedStep,
    RestartStep DEF IInv
<1> QED BY <1>1, <1>2, PTL DEF Spec

\* Types of the thread's, the routine's and the hardware's state.
THEOREM TypeCorrect == Spec => []TypeOK
<1>1. IInv => TypeOK
  BY DEF IInv
<1> QED BY <1>1, ControlInvariant, PTL

\* acamera_fw_stream_quiesce: when it has drained the ISP and no error routine
\* came in between, the sensor is cut over an idle, stopped and masked ISP.
THEOREM TeardownOrdered == Spec => []UndisturbedTeardown
<1>1. IInv => UndisturbedTeardown
  BY DEF IInv, TypeOK, Undisturbed, Starting, UndisturbedTeardown, Drained
<1> QED BY <1>1, ControlInvariant, PTL

\* acamera_fw_error_routine restarts the ISP over an idle pipeline only, and at
\* most ACAMERA_FW_ERROR_MAX_RETRY times in a session.
THEOREM RestartsBounded == Spec => []RestartsJustified
<1>1. IInv => RestartsJustified
  BY DEF IInv, RestartsJustified
<1> QED BY <1>1, ControlInvariant, PTL

\* Once acamera_fw_error_routine has given up the ISP stays masked and stopped
\* until the next STREAMON.
THEOREM GivenUpFinal == Spec => []GivenUpStaysDown
<1>1. IInv => GivenUpStaysDown
  BY DEF IInv
<1> QED BY <1>1, ControlInvariant, PTL

\* acamera_fw_stream_rearm: a stream that has been started in quiet is unmasked,
\* armed and has its whole budget.
THEOREM StartArms == Spec => []StartedIsArmed
<1>1. IInv => StartedIsArmed
  BY DEF IInv, Undisturbed, Starting, StartedIsArmed
<1> QED BY <1>1, ControlInvariant, PTL

=============================================================================
