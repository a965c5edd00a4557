---------------------------- MODULE Sensor_proof ----------------------------
(* The imx415 driver's memory stays coherent, its power balanced and the sensor *)
(* programmed as the controls say, for every geometry, every value asked for   *)
(* and any number of lost writes.                                              *)
EXTENDS Sensor, TLAPS

\* The inductive invariant of the driver and its bridge.
Inv == TypeOK /\ RangesCoherent /\ PowerBalanced

\* What a change of the exposure leaves alone.
SameFrame(r, d) ==
  /\ r.height = d.height /\ r.vblank = d.vblank /\ r.vmax = d.vmax
  /\ r.vblankMax = d.vblankMax /\ r.streaming = d.streaming
-----------------------------------------------------------------------------
(* What the framework's and the driver's functions return.                     *)

\* A clamped value lies in its range.
LEMMA ClampRange ==
  ASSUME NEW v \in Int, NEW lo \in Int, NEW hi \in Int, lo <= hi
  PROVE  Clamp(v, lo, hi) \in lo..hi
BY DEF Clamp

\* s_ctrl of EXPOSURE changes that control only, and keeps it in its range.
LEMMA ExposureSet ==
  ASSUME NEW d \in DriverType, NEW v \in ExposureMin..(d.vmax - Shr0Min)
  PROVE  LET r == SetExposure(d, v).drv
         IN  /\ r \in DriverType
             /\ SameFrame(r, d) /\ r.exposureMax = d.exposureMax
             /\ r.exposure \in ExposureMin..(d.vmax - Shr0Min)
<1>1. d.vmax \in Int /\ ExposureMin \in Int /\ Shr0Min \in Int /\ v \in Int
  BY SensorAssumption DEF DriverType
<1>2. Clamp(v, ExposureMin, d.vmax - Shr0Min) = v
  BY <1>1 DEF Clamp
<1>3. SetExposure(d, v).drv = [d EXCEPT !.exposure = v]
  BY <1>2 DEF SetExposure, Result
<1> QED BY <1>1, <1>3 DEF DriverType, SameFrame

\* The range of EXPOSURE follows vmax and the value follows the range.
LEMMA ExposureRange ==
  ASSUME NEW d \in DriverType, ExposureMin + Shr0Min <= d.vmax
  PROVE  LET r == UpdateExposureRange(d).drv
         IN  /\ r \in DriverType
             /\ SameFrame(r, d)
             /\ r.exposureMax = d.vmax - Shr0Min
             /\ r.exposure \in ExposureMin..r.exposureMax
<1> DEFINE max == d.vmax - Shr0Min
           val == Clamp(d.exposure, ExposureMin, max)
           in == [d EXCEPT !.exposureMax = max]
<1>1. val \in ExposureMin..max
  <2>1. /\ d.exposure \in Int /\ max \in Int /\ ExposureMin \in Int
        /\ ExposureMin <= max
    BY SensorAssumption DEF DriverType
  <2> QED BY <2>1, ClampRange
<1>2. /\ in \in DriverType /\ SameFrame(in, d) /\ in.exposure = d.exposure
      /\ in.exposureMax = max
  BY SensorAssumption DEF DriverType, SameFrame
<1>3. CASE val = d.exposure
  <2>1. UpdateExposureRange(d).drv = in
    BY <1>3 DEF UpdateExposureRange, Result
  <2> QED BY <2>1, <1>1, <1>2, <1>3 DEF DriverType
<1>4. CASE val # d.exposure
  <2>1. UpdateExposureRange(d).drv = SetExposure(in, val).drv
    BY <1>4 DEF UpdateExposureRange, Result
  <2>2. val \in ExposureMin..(in.vmax - Shr0Min)
    BY <1>1, <1>2 DEF SameFrame
  <2>3. LET r == SetExposure(in, val).drv
        IN  /\ r \in DriverType
            /\ SameFrame(r, in) /\ r.exposureMax = in.exposureMax
            /\ r.exposure \in ExposureMin..(in.vmax - Shr0Min)
    BY <1>2, <2>2, ExposureSet
  <2> QED BY <2>1, <2>3, <1>2 DEF SameFrame
<1> QED BY <1>3, <1>4

\* s_ctrl of VBLANK leaves a coherent driver, whatever it was before: vmax is
\* taken from the new value, not from the control.
LEMMA VblankSet ==
  ASSUME NEW d \in DriverType, NEW v \in VblankMin..d.vblankMax,
         d.vblankMax = VmaxMax - d.height
  PROVE  LET r == SetVblank(d, v).drv
         IN  /\ r \in DriverType /\ Coherent(r)
             /\ r.height = d.height /\ r.streaming = d.streaming /\ r.vblank = v
<1> DEFINE in == [d EXCEPT !.vmax = d.height + v]
           u == UpdateExposureRange(in).drv
<1>1. in \in DriverType /\ ExposureMin + Shr0Min <= in.vmax
  BY SensorAssumption DEF DriverType
<1>2. SetVblank(d, v).drv = [u EXCEPT !.vblank = v]
  BY DEF SetVblank, Result
<1>3. /\ u \in DriverType
      /\ SameFrame(u, in)
      /\ u.exposureMax = in.vmax - Shr0Min
      /\ u.exposure \in ExposureMin..u.exposureMax
  BY <1>1, ExposureRange
<1> HIDE DEF u
<1>4. LET r == [u EXCEPT !.vblank = v]
      IN  /\ r \in DriverType /\ Coherent(r)
          /\ r.height = d.height /\ r.streaming = d.streaming /\ r.vblank = v
  BY <1>1, <1>3, SensorAssumption DEF DriverType, Coherent, SameFrame
<1> QED BY <1>2, <1>4

\* A new window leaves a coherent driver: a blanking that does not fit any more
\* is clamped, and both ranges follow.
LEMMA GeometryUpdated ==
  ASSUME NEW d \in DriverType, Coherent(d), NEW h \in Height
  PROVE  LET r == UpdateGeometry(d, h).drv
         IN  r \in DriverType /\ Coherent(r) /\ r.streaming = d.streaming
<1> DEFINE in == [d EXCEPT !.height = h, !.vblankMax = VmaxMax - h]
           val == Clamp(d.vblank, VblankMin, VmaxMax - h)
           m == IF val = d.vblank THEN in ELSE SetVblank(in, val).drv
           last == [m EXCEPT !.vmax = h + m.vblank]
           u == UpdateExposureRange(last).drv
<1>1. in \in DriverType /\ val \in VblankMin..in.vblankMax /\ h \in Int
      /\ in.vblankMax = VmaxMax - in.height /\ in.height = h
      /\ in.streaming = d.streaming /\ in.vblank = d.vblank
  <2>1. h \in Int /\ d.vblank \in Int /\ VblankMin \in Int /\ VmaxMax \in Int
        /\ VblankMin <= VmaxMax - h
    BY SensorAssumption DEF DriverType
  <2> DEFINE top == VmaxMax - h
  <2>2. val \in VblankMin..top
    <3>1. top \in Int /\ VblankMin <= top
      BY <2>1
    <3> HIDE DEF top
    <3>2. Clamp(d.vblank, VblankMin, top) \in VblankMin..top
      BY <2>1, <3>1, ClampRange
    <3> QED BY <3>2 DEF top
  <2>3. in \in DriverType
    <3>1. top \in Int
      BY <2>1
    <3> HIDE DEF top
    <3>2. [d EXCEPT !.height = h, !.vblankMax = top] \in DriverType
      BY <3>1 DEF DriverType
    <3> QED BY <3>2 DEF top
  <2> QED BY <2>1, <2>2, <2>3 DEF DriverType
<1>2. /\ m \in DriverType /\ m.height = h /\ m.streaming = d.streaming
      /\ m.vblankMax = VmaxMax - h /\ m.vblank \in VblankMin..m.vblankMax
  <2>1. CASE val = d.vblank
    BY <2>1, <1>1
  <2>2. CASE val # d.vblank
    <3>1. m = SetVblank(in, val).drv
      BY <2>2
    <3>2. LET r == SetVblank(in, val).drv
          IN  /\ r \in DriverType /\ Coherent(r)
              /\ r.height = in.height /\ r.streaming = in.streaming /\ r.vblank = val
      BY <1>1, VblankSet
    <3> QED BY <1>1, <3>1, <3>2 DEF Coherent
  <2> QED BY <2>1, <2>2
<1> HIDE DEF m, in, val
<1>3. last \in DriverType /\ ExposureMin + Shr0Min <= last.vmax
  BY <1>2, SensorAssumption DEF DriverType
<1>4. UpdateGeometry(d, h).drv = u
  BY DEF UpdateGeometry, Result, m, in, val
<1>5. /\ u \in DriverType
      /\ SameFrame(u, last)
      /\ u.exposureMax = last.vmax - Shr0Min
      /\ u.exposure \in ExposureMin..u.exposureMax
  BY <1>3, ExposureRange
<1> HIDE DEF u
<1> QED BY <1>2, <1>3, <1>4, <1>5, SensorAssumption DEF DriverType, Coherent, SameFrame

\* Programming the window and applying every control changes no value of a
\* coherent driver.
LEMMA SetupKeeps ==
  ASSUME NEW d \in DriverType, Coherent(d)
  PROVE  LET s == Setup(d)
             c == HandlerSetup([s.drv EXCEPT !.streaming = TRUE])
         IN  c.drv \in DriverType /\ Coherent(c.drv) /\ c.drv.streaming = TRUE
<1> DEFINE in == [Setup(d).drv EXCEPT !.streaming = TRUE]
           v == SetVblank(in, in.vblank).drv
<1>1. in \in DriverType /\ Coherent(in) /\ in.streaming = TRUE
  BY SensorAssumption DEF Setup, Result, DriverType, Coherent
<1>2. v \in DriverType /\ Coherent(v) /\ v.streaming = TRUE
  <2>1. in.vblank \in VblankMin..in.vblankMax /\ in.vblankMax = VmaxMax - in.height
    BY <1>1 DEF Coherent
  <2> QED BY <1>1, <2>1, VblankSet
<1>3. HandlerSetup(in).drv = SetExposure(v, v.exposure).drv
  BY DEF HandlerSetup, Result
<1> HIDE DEF in, v
<1>4. v.exposure \in ExposureMin..(v.vmax - Shr0Min)
  BY <1>2 DEF Coherent
<1>5. LET r == SetExposure(v, v.exposure).drv
      IN  /\ r \in DriverType /\ SameFrame(r, v) /\ r.exposureMax = v.exposureMax
          /\ r.exposure \in ExposureMin..(v.vmax - Shr0Min)
  BY <1>2, <1>4, ExposureSet
<1>6. LET r == SetExposure(v, v.exposure).drv
      IN  r \in DriverType /\ Coherent(r) /\ r.streaming = TRUE
  BY <1>2, <1>5 DEF Coherent, SameFrame
<1> QED BY <1>3, <1>6 DEF in
-----------------------------------------------------------------------------
(* The invariant.                                                              *)

\* Entering the driver with a coherent result keeps the types of the sensor.
LEMMA EnterKeeps ==
  ASSUME TypeOK, NEW r, r.drv \in DriverType, Enter(r)
  PROVE  /\ drv' = r.drv /\ DOMAIN reg' = Register /\ suspect' \subseteq Register
         /\ unpaired' \in BOOLEAN /\ losses' <= MaxLost
BY DEF TypeOK, Enter, Write

\* A sensor that gets power has a value in each of its registers.
LEMMA ResetDomain == DOMAIN ResetValue = Register
BY DEF ResetValue

\* The bridge marks its stream.
LEMMA BridgeMarked ==
  ASSUME NEW b \in [streaming : BOOLEAN, max : Int], NEW s \in BOOLEAN
  PROVE  /\ [b EXCEPT !.streaming = s] \in [streaming : BOOLEAN, max : Int]
         /\ [b EXCEPT !.streaming = s].streaming = s
OBVIOUS

\* The system starts coherent, stopped and unused.
LEMMA Starting == Init => Inv
<1> SUFFICES ASSUME Init PROVE Inv
  OBVIOUS
<1>1. Full \in Height /\ Full \in Nat /\ VblankMin \in Nat /\ Shr0Min \in Nat
      /\ VmaxMax \in Nat /\ ExposureMin \in Nat /\ MaxLost \in Nat
      /\ ExposureMin + Shr0Min <= Full + VblankMin /\ Full + VblankMin <= VmaxMax
  BY SensorAssumption
<1>2. drv \in DriverType /\ Coherent(drv)
  BY <1>1 DEF Init, DriverType, Coherent
<1>3. TypeOK
  <2>1. DOMAIN reg = Register
    BY ResetDomain DEF Init
  <2>2. bridge \in [streaming : BOOLEAN, max : Int]
    BY <1>1 DEF Init
  <2>3. /\ suspect \subseteq Register /\ usage \in Nat /\ losses <= MaxLost
        /\ caller \in {"idle", "mode"}
    BY <1>1 DEF Init
  <2>4. /\ powered \in BOOLEAN /\ fsmStreaming \in BOOLEAN /\ receiver \in BOOLEAN
        /\ recropped \in BOOLEAN /\ unpaired \in BOOLEAN
    BY DEF Init
  <2> QED BY <1>2, <2>1, <2>2, <2>3, <2>4 DEF TypeOK
<1>4. PowerBalanced
  BY DEF Init, PowerBalanced
<1> QED BY <1>2, <1>3, <1>4 DEF Inv, RangesCoherent

\* A change of one control by one of its three paths.
LEMMA ExposureControl ==
  ASSUME Inv, NEW v \in Int,
         ControlTo(v, ExposureMin, drv.exposureMax, drv.exposure, SetExposure)
  PROVE  Inv'
<1> DEFINE val == Clamp(v, ExposureMin, drv.exposureMax)
           r == SetExposure(drv, val)
<1>1. val \in ExposureMin..(drv.vmax - Shr0Min)
  <2>1. drv.exposureMax \in Int /\ ExposureMin \in Int /\ ExposureMin <= drv.exposureMax
        /\ drv.exposureMax = drv.vmax - Shr0Min
    BY SensorAssumption DEF Inv, TypeOK, RangesCoherent, Coherent, DriverType
  <2> QED BY <2>1, ClampRange
<1>2. drv \in DriverType
  BY DEF Inv, TypeOK
<1> HIDE DEF val
<1>3. LET q == SetExposure(drv, val).drv
      IN  /\ q \in DriverType
          /\ SameFrame(q, drv) /\ q.exposureMax = drv.exposureMax
          /\ q.exposure \in ExposureMin..(drv.vmax - Shr0Min)
  BY <1>1, <1>2, ExposureSet
<1>4. Enter(r) /\ UNCHANGED <<power, caller, fsmStreaming, bridge, receiver, recropped>>
  BY DEF ControlTo, val
<1> HIDE DEF r
<1>5. /\ drv' = r.drv /\ DOMAIN reg' = Register /\ suspect' \subseteq Register
      /\ unpaired' \in BOOLEAN /\ losses' <= MaxLost
  BY <1>3, <1>4, EnterKeeps DEF Inv, r
<1>6. drv' \in DriverType /\ Coherent(drv)' /\ drv'.streaming = drv.streaming
  BY <1>3, <1>5 DEF r, Inv, RangesCoherent, Coherent, SameFrame
<1> QED BY <1>4, <1>5, <1>6 DEF Inv, TypeOK, RangesCoherent, PowerBalanced, power

\* Nor does a blanking set from the sensor's node break anything.
LEMMA VblankControl ==
  ASSUME Inv, NEW v \in Int, NodeVblank(v)
  PROVE  Inv'
<1> DEFINE val == Clamp(v, VblankMin, drv.vblankMax)
           r == SetVblank(drv, val)
<1>1. val \in VblankMin..drv.vblankMax /\ drv.vblankMax = VmaxMax - drv.height
  <2>1. drv.vblankMax \in Int /\ VblankMin \in Int /\ VblankMin <= drv.vblankMax
        /\ drv.vblankMax = VmaxMax - drv.height
    BY SensorAssumption DEF Inv, TypeOK, RangesCoherent, Coherent, DriverType
  <2> QED BY <2>1, ClampRange
<1>2. drv \in DriverType
  BY DEF Inv, TypeOK
<1> HIDE DEF val
<1>3. LET q == SetVblank(drv, val).drv
      IN  q \in DriverType /\ Coherent(q)
          /\ q.height = drv.height /\ q.streaming = drv.streaming /\ q.vblank = val
  BY <1>1, <1>2, VblankSet
<1>4. Enter(r) /\ UNCHANGED <<power, caller, fsmStreaming, bridge, receiver, recropped>>
  BY DEF NodeVblank, ControlTo, val
<1> HIDE DEF r
<1>5. /\ drv' = r.drv /\ DOMAIN reg' = Register /\ suspect' \subseteq Register
      /\ unpaired' \in BOOLEAN /\ losses' <= MaxLost
  BY <1>3, <1>4, EnterKeeps DEF Inv, r
<1>6. drv' \in DriverType /\ Coherent(drv)' /\ drv'.streaming = drv.streaming
  BY <1>3, <1>5 DEF r, Coherent
<1> QED BY <1>4, <1>5, <1>6 DEF Inv, TypeOK, RangesCoherent, PowerBalanced, power

\* A window set, by the bridge or from the node.
LEMMA WindowSet ==
  ASSUME Inv, NEW h \in Height, Enter(UpdateGeometry(drv, h))
  PROVE  /\ drv' \in DriverType /\ Coherent(drv)' /\ drv'.streaming = drv.streaming
         /\ DOMAIN reg' = Register /\ suspect' \subseteq Register
         /\ unpaired' \in BOOLEAN /\ losses' <= MaxLost
<1> DEFINE r == UpdateGeometry(drv, h)
<1>1. r.drv \in DriverType /\ Coherent(r.drv) /\ r.drv.streaming = drv.streaming
  BY GeometryUpdated DEF Inv, TypeOK, RangesCoherent
<1>2. Enter(r)
  OBVIOUS
<1> HIDE DEF r
<1>3. /\ drv' = r.drv /\ DOMAIN reg' = Register /\ suspect' \subseteq Register
      /\ unpaired' \in BOOLEAN /\ losses' <= MaxLost
  BY <1>1, <1>2, EnterKeeps DEF Inv
<1> QED BY <1>1, <1>3 DEF Coherent

\* Every step keeps the invariant.
LEMMA Stepping == Inv /\ [Next]_vars => Inv'
<1> SUFFICES ASSUME Inv, [Next]_vars PROVE Inv'
  OBVIOUS
<1> USE DEF power
<1>1. CASE SetMode
  <2>1. Full \in Height
    BY SensorAssumption
  <2>2. /\ drv' \in DriverType /\ Coherent(drv)' /\ drv'.streaming = drv.streaming
        /\ DOMAIN reg' = Register /\ suspect' \subseteq Register
        /\ unpaired' \in BOOLEAN /\ losses' <= MaxLost
    BY <1>1, <2>1, WindowSet DEF SetMode
  <2>3. recropped' \in BOOLEAN
    BY <1>1 DEF SetMode, Inv, TypeOK
  <2> QED BY <1>1, <2>2, <2>3 DEF SetMode, Inv, TypeOK, RangesCoherent, PowerBalanced
<1>2. CASE ModeDone
  BY <1>2 DEF ModeDone, Inv, TypeOK, RangesCoherent, PowerBalanced, Coherent, hardware,
              DriverType
<1>3. CASE Start
  <2>1. CASE bridge.streaming
    BY <1>3, <2>1 DEF Start, Inv, TypeOK, RangesCoherent, PowerBalanced, Coherent, hardware
  <2>2. CASE ~bridge.streaming /\ SensorOn
    <3> DEFINE s == Setup(drv)
               c == HandlerSetup([s.drv EXCEPT !.streaming = TRUE])
               r == Result(c.drv, s.writes \o c.writes \o StreamOn)
    <3>1. c.drv \in DriverType /\ Coherent(c.drv) /\ c.drv.streaming = TRUE
      BY SetupKeeps DEF Inv, TypeOK, RangesCoherent
    <3>2. Enter(r) /\ usage' = usage + 1 /\ powered' = TRUE
          /\ bridge' = [bridge EXCEPT !.streaming = TRUE]
      BY <2>2 DEF SensorOn
    <3>3. r.drv = c.drv
      BY DEF Result
    <3> HIDE DEF r, c
    <3>4. /\ drv' = r.drv /\ DOMAIN reg' = Register /\ suspect' \subseteq Register
          /\ unpaired' \in BOOLEAN /\ losses' <= MaxLost
      BY <3>1, <3>2, <3>3, EnterKeeps DEF Inv
    <3>5. drv' \in DriverType /\ Coherent(drv)' /\ drv'.streaming = TRUE
      BY <3>1, <3>3, <3>4 DEF Coherent
    <3>6. usage = 0
      BY <2>2 DEF Inv, PowerBalanced, TypeOK
    <3>7. fsmStreaming' = TRUE /\ UNCHANGED <<caller, receiver, recropped>>
      BY <1>3 DEF Start
    <3>8. /\ bridge' \in [streaming : BOOLEAN, max : Int] /\ bridge'.streaming = TRUE
          /\ usage' = 1
      <4>1. bridge \in [streaming : BOOLEAN, max : Int]
        BY DEF Inv, TypeOK
      <4>2. bridge' = [bridge EXCEPT !.streaming = TRUE] /\ TRUE \in BOOLEAN
        BY <3>2
      <4>3. /\ [bridge EXCEPT !.streaming = TRUE] \in [streaming : BOOLEAN, max : Int]
            /\ [bridge EXCEPT !.streaming = TRUE].streaming = TRUE
        BY <4>1, <4>2, BridgeMarked, Zenon
      <4>4. usage' = 1
        BY <3>2, <3>6
      <4> QED BY <4>2, <4>3, <4>4, Zenon
    <3>9. TypeOK'
      BY <3>2, <3>4, <3>5, <3>7, <3>8 DEF Inv, TypeOK
    <3>10. PowerBalanced'
      BY <3>2, <3>5, <3>7, <3>8 DEF PowerBalanced
    <3> QED BY <3>5, <3>9, <3>10 DEF Inv, RangesCoherent
  <2>3. CASE ~bridge.streaming /\ SensorRefuses
    BY <1>3, <2>3 DEF Start, SensorRefuses, Inv, TypeOK, RangesCoherent, PowerBalanced,
                      Coherent, hardware
  <2> QED BY <1>3, <2>1, <2>2, <2>3 DEF Start
<1>4. CASE Stop
  <2>1. CASE bridge.streaming
    <3> DEFINE r == Result([drv EXCEPT !.streaming = FALSE], StreamOff)
    <3>1. Enter(r) /\ usage' = usage - 1 /\ receiver' = FALSE /\ recropped' = FALSE
          /\ bridge' = [bridge EXCEPT !.streaming = FALSE]
      BY <1>4, <2>1 DEF Stop, SensorOff
    <3>2. r.drv \in DriverType /\ Coherent(r.drv) /\ r.drv.streaming = FALSE
      BY DEF Result, Inv, TypeOK, RangesCoherent, Coherent, DriverType
    <3> HIDE DEF r
    <3>3. /\ drv' = r.drv /\ DOMAIN reg' = Register /\ suspect' \subseteq Register
          /\ unpaired' \in BOOLEAN /\ losses' <= MaxLost
      BY <3>1, <3>2, EnterKeeps DEF Inv
    <3>4. drv' \in DriverType /\ Coherent(drv)' /\ drv'.streaming = FALSE
      BY <3>2, <3>3 DEF Coherent
    <3>5. usage = 1
      BY <2>1 DEF Inv, PowerBalanced
    <3>6. fsmStreaming' = FALSE /\ UNCHANGED <<caller, powered>>
      BY <1>4 DEF Stop
    <3>7. /\ bridge' \in [streaming : BOOLEAN, max : Int] /\ bridge'.streaming = FALSE
          /\ usage' = 0
      <4>1. bridge \in [streaming : BOOLEAN, max : Int]
        BY DEF Inv, TypeOK
      <4>2. bridge' = [bridge EXCEPT !.streaming = FALSE] /\ FALSE \in BOOLEAN
        BY <3>1
      <4>3. /\ [bridge EXCEPT !.streaming = FALSE] \in [streaming : BOOLEAN, max : Int]
            /\ [bridge EXCEPT !.streaming = FALSE].streaming = FALSE
        BY <4>1, <4>2, BridgeMarked, Zenon
      <4>4. usage' = 0
        BY <3>1, <3>5
      <4> QED BY <4>2, <4>3, <4>4, Zenon
    <3>8. TypeOK'
      <4>1. powered \in BOOLEAN /\ caller \in {"idle", "mode"}
        BY DEF Inv, TypeOK
      <4>2. /\ powered' \in BOOLEAN /\ caller' \in {"idle", "mode"}
            /\ fsmStreaming' \in BOOLEAN /\ receiver' \in BOOLEAN
            /\ recropped' \in BOOLEAN
        <5>1. /\ receiver' = FALSE /\ recropped' = FALSE /\ fsmStreaming' = FALSE
              /\ powered' = powered /\ caller' = caller
          BY <3>1, <3>6
        <5> QED BY <4>1, <5>1
      <4>3. /\ drv' \in DriverType /\ bridge' \in [streaming : BOOLEAN, max : Int]
            /\ DOMAIN reg' = Register /\ suspect' \subseteq Register
            /\ unpaired' \in BOOLEAN /\ losses' <= MaxLost /\ usage' \in Nat
        BY <3>3, <3>4, <3>7
      <4> QED BY <4>2, <4>3 DEF TypeOK
    <3>9. PowerBalanced'
      BY <3>4, <3>7 DEF PowerBalanced
    <3> QED BY <3>4, <3>8, <3>9 DEF Inv, RangesCoherent
  <2>2. CASE ~bridge.streaming
    BY <1>4, <2>2 DEF Stop, Inv, TypeOK, RangesCoherent, PowerBalanced, Coherent, hardware
  <2> QED BY <2>1, <2>2
<1>5. CASE Cmos
  <2>1. PICK v \in Exposure : SensorUpdate(v)
    BY <1>5 DEF Cmos
  <2>2. Clamp(v, ExposureMin, bridge.max) \in Int
    BY SensorAssumption DEF Clamp, Inv, TypeOK
  <2> QED BY <2>1, <2>2, ExposureControl DEF SensorUpdate
<1>6. CASE Node
  <2>1. CASE \E v \in Exposure : NodeExposure(v)
    BY <2>1, ExposureControl, SensorAssumption DEF NodeExposure
  <2>2. CASE \E v \in Vblank : NodeVblank(v)
    BY <2>2, VblankControl, SensorAssumption
  <2>3. CASE \E h \in Height : NodeCrop(h)
    <3>1. PICK h \in Height : NodeCrop(h)
      BY <2>3
    <3>2. /\ drv' \in DriverType /\ Coherent(drv)' /\ drv'.streaming = drv.streaming
          /\ DOMAIN reg' = Register /\ suspect' \subseteq Register
          /\ unpaired' \in BOOLEAN /\ losses' <= MaxLost
      BY <3>1, WindowSet DEF NodeCrop
    <3>3. recropped' \in BOOLEAN
      BY <3>1 DEF NodeCrop, Inv, TypeOK
    <3> QED BY <3>1, <3>2, <3>3 DEF NodeCrop, Inv, TypeOK, RangesCoherent, PowerBalanced
  <2> QED BY <1>6, <2>1, <2>2, <2>3 DEF Node
<1>7. CASE Autosuspend
  <2>1. DOMAIN reg' = Register /\ suspect' = {}
    BY <1>7, ResetDomain DEF Autosuspend
  <2>2. /\ powered' = FALSE /\ usage = 0
        /\ UNCHANGED <<drv, losses, usage, caller, fsmStreaming, bridge, receiver,
                       recropped, unpaired>>
    BY <1>7 DEF Autosuspend
  <2>3. ~drv.streaming
    BY <2>2 DEF Inv, PowerBalanced
  <2>4. TypeOK'
    <3>1. suspect' \subseteq Register /\ powered' \in BOOLEAN
      BY <2>1, <2>2
    <3> QED BY <2>1, <2>2, <3>1 DEF Inv, TypeOK
  <2>5. RangesCoherent'
    BY <2>2 DEF Inv, RangesCoherent, Coherent
  <2>6. PowerBalanced'
    BY <2>2, <2>3 DEF Inv, PowerBalanced
  <2> QED BY <2>4, <2>5, <2>6 DEF Inv
<1>8. CASE UNCHANGED vars
  BY <1>8 DEF vars, hardware, Inv, TypeOK, RangesCoherent, PowerBalanced, Coherent
<1> QED BY <1>1, <1>2, <1>3, <1>4, <1>5, <1>6, <1>7, <1>8 DEF Next, Caller
-----------------------------------------------------------------------------
(* The theorems.                                                               *)

\* The invariant holds in every behaviour of the driver and its bridge.
THEOREM SensorInvariant == Spec => []Inv
BY Starting, Stepping, PTL DEF Spec

\* Types of the driver's, the bridge's and the power's state.
THEOREM TypeCorrect == Spec => []TypeOK
<1>1. Inv => TypeOK
  BY DEF Inv
<1> QED BY SensorInvariant, <1>1, PTL

\* The cached VMAX, the blanking and the exposure agree between any two calls,
\* for every array, margin and window, although the controls re-enter each other.
THEOREM ControlsCoherent == Spec => []RangesCoherent
<1>1. Inv => RangesCoherent
  BY DEF Inv
<1> QED BY SensorInvariant, <1>1, PTL

\* The sensor holds its power exactly while it streams, through every start that
\* failed and every stop of a stream that never was.
THEOREM PowerHeld == Spec => []PowerBalanced
<1>1. Inv => PowerBalanced
  BY DEF Inv
<1> QED BY SensorInvariant, <1>1, PTL
-----------------------------------------------------------------------------
(* What reaches the registers: each call is a sequence of writes, and of those *)
(* to one register the last decides.                                           *)

\* What a register can be told, and what a call writes.
Values == Int \cup {"all", "crop", "operating", "standby", "start", "stop"}
Writes == Seq([reg : Register, val : Values])

\* The last write of w to register x is v; w does not touch x.
Ends(w, x, v) ==
  \E i \in 1..Len(w) : /\ w[i].reg = x /\ w[i].val = v
                       /\ \A j \in 1..Len(w) : w[j].reg = x => j <= i
Spares(w, x) == \A i \in 1..Len(w) : w[i].reg # x

\* One write.
LEMMA OneWrite ==
  ASSUME NEW x \in Register, NEW v \in Values
  PROVE  /\ W(x, v) \in Writes /\ Ends(W(x, v), x, v)
         /\ \A y : y # x => Spares(W(x, v), y)
<1>1. W(x, v) = <<[reg |-> x, val |-> v]>>
  BY DEF W
<1>2. /\ W(x, v) \in Writes /\ Len(W(x, v)) = 1
      /\ W(x, v)[1].reg = x /\ W(x, v)[1].val = v
  BY <1>1 DEF Writes
<1> QED BY <1>2 DEF Ends, Spares

\* No write.
LEMMA NoWrite == <<>> \in Writes /\ \A x : Spares(<<>>, x)
BY DEF Writes, Spares

\* Writes one after the other.
LEMMA WritesJoin ==
  ASSUME NEW u \in Writes, NEW w \in Writes, NEW x
  PROVE  /\ u \o w \in Writes
         /\ Spares(u, x) /\ Spares(w, x) => Spares(u \o w, x)
         /\ \A v : Ends(w, x, v) => Ends(u \o w, x, v)
         /\ \A v : Ends(u, x, v) /\ Spares(w, x) => Ends(u \o w, x, v)
<1> DEFINE s == u \o w
<1>1. /\ s \in Writes /\ Len(s) = Len(u) + Len(w)
      /\ Len(u) \in Nat /\ Len(w) \in Nat
      /\ \A i \in 1..Len(u) : s[i] = u[i]
      /\ \A i \in 1..Len(w) : s[Len(u) + i] = w[i]
      /\ \A i \in Len(u) + 1 .. Len(s) : s[i] = w[i - Len(u)]
  BY DEF Writes
<1> HIDE DEF s
<1>2. ASSUME Spares(u, x), Spares(w, x) PROVE Spares(s, x)
  <2> SUFFICES ASSUME NEW i \in 1..Len(s) PROVE s[i].reg # x
    BY DEF Spares
  <2>1. CASE i <= Len(u)
    BY <2>1, <1>1, <1>2 DEF Spares
  <2>2. CASE i > Len(u)
    <3>1. i - Len(u) \in 1..Len(w)
      BY <2>2, <1>1
    <3> QED BY <3>1, <2>2, <1>1, <1>2 DEF Spares
  <2> QED BY <2>1, <2>2, <1>1
<1>3. ASSUME NEW v, Ends(w, x, v) PROVE Ends(s, x, v)
  <2> PICK i \in 1..Len(w) : /\ w[i].reg = x /\ w[i].val = v
                             /\ \A j \in 1..Len(w) : w[j].reg = x => j <= i
    BY <1>3 DEF Ends
  <2>1. Len(u) + i \in 1..Len(s) /\ s[Len(u) + i] = w[i]
    BY <1>1
  <2>2. ASSUME NEW j \in 1..Len(s), s[j].reg = x PROVE j <= Len(u) + i
    <3>1. CASE j <= Len(u)
      BY <3>1, <1>1
    <3>2. CASE j > Len(u)
      <4>1. j - Len(u) \in 1..Len(w) /\ s[j] = w[j - Len(u)]
        BY <3>2, <1>1
      <4>2. j - Len(u) <= i
        BY <4>1, <2>2
      <4> QED BY <4>2, <1>1
    <3> QED BY <3>1, <3>2, <1>1
  <2> QED BY <2>1, <2>2 DEF Ends
<1>4. ASSUME NEW v, Ends(u, x, v), Spares(w, x) PROVE Ends(s, x, v)
  <2> PICK i \in 1..Len(u) : /\ u[i].reg = x /\ u[i].val = v
                             /\ \A j \in 1..Len(u) : u[j].reg = x => j <= i
    BY <1>4 DEF Ends
  <2>1. i \in 1..Len(s) /\ s[i] = u[i]
    BY <1>1
  <2>2. ASSUME NEW j \in 1..Len(s), s[j].reg = x PROVE j <= i
    <3>1. CASE j <= Len(u)
      BY <3>1, <1>1, <2>2
    <3>2. CASE j > Len(u)
      <4>1. j - Len(u) \in 1..Len(w) /\ s[j] = w[j - Len(u)]
        BY <3>2, <1>1
      <4> QED BY <4>1, <2>2, <1>4 DEF Spares
    <3> QED BY <3>1, <3>2, <1>1
  <2> QED BY <2>1, <2>2 DEF Ends
<1> QED BY <1>1, <1>2, <1>3, <1>4 DEF s

\* What writes leave in a register, if the last one to it is not lost.
LEMMA Reaching ==
  ASSUME NEW r, r.writes \in Writes, Enter(r), NEW x \in Register
  PROVE  /\ \A v : Ends(r.writes, x, v) /\ x \notin suspect' => reg'[x] = v
         /\ Spares(r.writes, x) => reg'[x] = reg[x] /\ (x \in suspect' <=> x \in suspect)
<1> DEFINE w == r.writes
<1>0. w \in Writes
  OBVIOUS
<1> PICK lost \in SUBSET (1..Len(w)) :
    /\ reg' = [y \in Register |-> IF Hits(w, y) \ lost = {} THEN reg[y]
                                  ELSE w[Newest(Hits(w, y) \ lost)].val]
    /\ suspect' = {y \in Register : IF Hits(w, y) = {} THEN y \in suspect
                                    ELSE Newest(Hits(w, y)) \in lost}
  BY DEF Enter, Write
<1> HIDE DEF w
<1>1. ASSUME NEW v, Ends(w, x, v), x \notin suspect' PROVE reg'[x] = v
  <2> PICK i \in 1..Len(w) : /\ w[i].reg = x /\ w[i].val = v
                             /\ \A j \in 1..Len(w) : w[j].reg = x => j <= i
    BY <1>1 DEF Ends
  <2>0. Len(w) \in Nat
    BY <1>0 DEF Writes
  <2>1. i \in Hits(w, x) /\ \A j \in Hits(w, x) : j <= i
    BY DEF Hits
  <2>2. \A k \in Hits(w, x) : (\A j \in Hits(w, x) : j <= k) => k = i
    BY <2>0, <2>1 DEF Hits
  <2>3. Newest(Hits(w, x)) = i
    BY <2>1, <2>2 DEF Newest
  <2>4. i \notin lost
    BY <1>1, <2>1, <2>3
  <2>5. i \in Hits(w, x) \ lost /\ \A j \in Hits(w, x) \ lost : j <= i
    BY <2>1, <2>4
  <2>6. \A k \in Hits(w, x) \ lost : (\A j \in Hits(w, x) \ lost : j <= k) => k = i
    BY <2>0, <2>5 DEF Hits
  <2>7. Newest(Hits(w, x) \ lost) = i
    BY <2>5, <2>6 DEF Newest
  <2> QED BY <2>5, <2>7
<1>2. ASSUME Spares(w, x) PROVE reg'[x] = reg[x] /\ (x \in suspect' <=> x \in suspect)
  <2>1. Hits(w, x) = {}
    BY <1>2 DEF Hits, Spares
  <2> QED BY <2>1
<1> QED BY <1>1, <1>2 DEF w
-----------------------------------------------------------------------------
(* What each call writes.                                                      *)

\* The driver's fields and the margins are integers.
LEMMA Numbers ==
  ASSUME NEW d \in DriverType
  PROVE  /\ d.height \in Int /\ d.vblank \in Int /\ d.vmax \in Int /\ d.exposure \in Int
         /\ VblankMin \in Int /\ VmaxMax \in Int /\ ExposureMin \in Int
         /\ Shr0Min \in Int /\ Full \in Int
<1>1. d.height \in Height /\ d.vblank \in Int /\ d.vmax \in Int /\ d.exposure \in Int
  BY DEF DriverType
<1>2. \A h \in Height : h \in Nat
  BY SensorAssumption
<1>3. /\ VblankMin \in Int /\ VmaxMax \in Int /\ ExposureMin \in Int
      /\ Shr0Min \in Int /\ Full \in Int
  BY SensorAssumption
<1> QED BY <1>1, <1>2, <1>3
\* While the sensor streams, an exposure set is an SHR0 that fits.
LEMMA ExposureWrites ==
  ASSUME NEW d \in DriverType, d.streaming, NEW v \in ExposureMin..(d.vmax - Shr0Min)
  PROVE  LET r == SetExposure(d, v)
         IN  /\ r.writes \in Writes
             /\ Ends(r.writes, "SHR0", d.vmax - r.drv.exposure)
             /\ \A x : x # "SHR0" => Spares(r.writes, x)
<1>1. d.vmax \in Int /\ ExposureMin \in Int /\ Shr0Min \in Int /\ v \in Int
  BY SensorAssumption DEF DriverType
<1>2. Clamp(v, ExposureMin, d.vmax - Shr0Min) = v
  BY <1>1 DEF Clamp
<1>3. /\ SetExposure(d, v).writes = W("SHR0", d.vmax - v)
      /\ SetExposure(d, v).drv.exposure = v
  BY <1>2 DEF SetExposure, Result, DriverType
<1>4. "SHR0" \in Register /\ d.vmax - v \in Values
  BY <1>1 DEF Register, Values
<1> QED BY <1>3, <1>4, OneWrite

\* A new range either moves the exposure, and SHR0 with it, or writes nothing.
LEMMA RangeWrites ==
  ASSUME NEW d \in DriverType, d.streaming, ExposureMin + Shr0Min <= d.vmax
  PROVE  LET r == UpdateExposureRange(d)
         IN  /\ r.writes \in Writes
             /\ \A x : x # "SHR0" => Spares(r.writes, x)
             /\ \/ Ends(r.writes, "SHR0", d.vmax - r.drv.exposure)
                \/ Spares(r.writes, "SHR0") /\ r.drv.exposure = d.exposure
<1> DEFINE max == d.vmax - Shr0Min
           val == Clamp(d.exposure, ExposureMin, max)
           in == [d EXCEPT !.exposureMax = max]
<1>1. val \in ExposureMin..max
  <2>1. /\ d.exposure \in Int /\ max \in Int /\ ExposureMin \in Int
        /\ ExposureMin <= max
    BY SensorAssumption DEF DriverType
  <2> QED BY <2>1, ClampRange
<1>2. /\ in \in DriverType /\ in.vmax = d.vmax /\ in.exposure = d.exposure
      /\ in.streaming
  BY SensorAssumption DEF DriverType
<1>3. CASE val = d.exposure
  <2>1. UpdateExposureRange(d).drv = in /\ UpdateExposureRange(d).writes = <<>>
    BY <1>3 DEF UpdateExposureRange, Result
  <2> QED BY <2>1, <1>2, NoWrite
<1>4. CASE val # d.exposure
  <2>1. UpdateExposureRange(d) = SetExposure(in, val)
    BY <1>4 DEF UpdateExposureRange
  <2>2. val \in ExposureMin..(in.vmax - Shr0Min)
    BY <1>1, <1>2
  <2>3. LET r == SetExposure(in, val)
        IN  /\ r.writes \in Writes
            /\ Ends(r.writes, "SHR0", in.vmax - r.drv.exposure)
            /\ \A x : x # "SHR0" => Spares(r.writes, x)
    BY <1>2, <2>2, ExposureWrites
  <2> QED BY <2>1, <2>3, <1>2
<1> QED BY <1>3, <1>4

\* A blanking set writes VMAX, and SHR0 when the exposure has to move.
LEMMA VblankWrites ==
  ASSUME NEW d \in DriverType, d.streaming, NEW v \in VblankMin..d.vblankMax,
         d.vblankMax = VmaxMax - d.height
  PROVE  LET r == SetVblank(d, v)
         IN  /\ r.writes \in Writes
             /\ Ends(r.writes, "VMAX", r.drv.vmax)
             /\ \A x : x \notin {"VMAX", "SHR0"} => Spares(r.writes, x)
             /\ \/ Ends(r.writes, "SHR0", r.drv.vmax - r.drv.exposure)
                \/ Spares(r.writes, "SHR0")
<1> DEFINE in == [d EXCEPT !.vmax = d.height + v]
           u == UpdateExposureRange(in)
           top == W("VMAX", d.height + v)
<1>1. /\ in \in DriverType /\ ExposureMin + Shr0Min <= in.vmax /\ in.streaming
      /\ in.vmax = d.height + v /\ d.height + v \in Int
  BY SensorAssumption DEF DriverType
<1>2. /\ SetVblank(d, v).writes = top \o u.writes
      /\ SetVblank(d, v).drv = [u.drv EXCEPT !.vblank = v]
  BY DEF SetVblank, Result
<1>3. /\ u.writes \in Writes
      /\ \A x : x # "SHR0" => Spares(u.writes, x)
      /\ \/ Ends(u.writes, "SHR0", in.vmax - u.drv.exposure)
         \/ Spares(u.writes, "SHR0")
  BY <1>1, RangeWrites
<1>4. u.drv \in DriverType /\ u.drv.vmax = in.vmax
  BY <1>1, ExposureRange DEF SameFrame
<1>5. /\ SetVblank(d, v).drv.vmax = in.vmax
      /\ SetVblank(d, v).drv.exposure = u.drv.exposure
  BY <1>2, <1>4 DEF DriverType
<1>6. /\ top \in Writes /\ Ends(top, "VMAX", in.vmax)
      /\ \A x : x # "VMAX" => Spares(top, x)
  <2>1. "VMAX" \in Register /\ d.height + v \in Values
    BY <1>1 DEF Register, Values
  <2> QED BY <1>1, <2>1, OneWrite
<1> HIDE DEF in, u, top
<1>7. \A x : /\ top \o u.writes \in Writes
             /\ Spares(top, x) /\ Spares(u.writes, x) => Spares(top \o u.writes, x)
             /\ \A y : Ends(u.writes, x, y) => Ends(top \o u.writes, x, y)
             /\ \A y : Ends(top, x, y) /\ Spares(u.writes, x) => Ends(top \o u.writes, x, y)
  BY <1>3, <1>6, WritesJoin
<1> QED BY <1>2, <1>3, <1>5, <1>6, <1>7, Z3

\* A coherent driver's window set to what it is writes nothing and changes nothing.
LEMMA SameWindow ==
  ASSUME NEW d \in DriverType, Coherent(d)
  PROVE  UpdateGeometry(d, d.height) = Result(d, <<>>)
<1> DEFINE in == [d EXCEPT !.height = d.height, !.vblankMax = VmaxMax - d.height]
<1>0. /\ d.height \in Int /\ d.vblank \in Int /\ d.vmax \in Int /\ d.exposure \in Int
      /\ VblankMin \in Int /\ VmaxMax \in Int /\ ExposureMin \in Int /\ Shr0Min \in Int
  BY Numbers
<1>1. in = d
  <2>1. d.vblankMax = VmaxMax - d.height
    BY DEF Coherent
  <2>2. /\ [d EXCEPT !.height = d.height] = d
        /\ [d EXCEPT !.vblankMax = d.vblankMax] = d
    BY DEF DriverType
  <2>3. in = [[d EXCEPT !.height = d.height] EXCEPT !.vblankMax = d.vblankMax]
    BY <2>1
  <2> QED BY <2>2, <2>3, Zenon
<1>2. Clamp(d.vblank, VblankMin, VmaxMax - d.height) = d.vblank
  BY <1>0 DEF Clamp, Coherent
<1>3. Clamp(d.exposure, ExposureMin, d.vmax - Shr0Min) = d.exposure
  BY <1>0 DEF Clamp, Coherent
<1>4. [d EXCEPT !.vmax = d.height + d.vblank] = d /\ [d EXCEPT !.exposureMax = d.vmax - Shr0Min] = d
  <2>1. d.vmax = d.height + d.vblank /\ d.exposureMax = d.vmax - Shr0Min
    BY DEF Coherent
  <2>2. [d EXCEPT !.vmax = d.vmax] = d /\ [d EXCEPT !.exposureMax = d.exposureMax] = d
    BY DEF DriverType
  <2> QED BY <2>1, <2>2
<1>5. UpdateExposureRange(d) = Result(d, <<>>)
  BY <1>3, <1>4 DEF UpdateExposureRange
<1>6. <<>> \o <<>> = <<>>
  OBVIOUS
<1>7. Result(d, <<>>).drv = d /\ Result(d, <<>>).writes = <<>>
  BY DEF Result
<1>8. UpdateGeometry(d, d.height) =
        LET r == UpdateExposureRange([d EXCEPT !.vmax = d.height + d.vblank])
        IN  Result(r.drv, <<>> \o r.writes)
  BY <1>1, <1>2, <1>7 DEF UpdateGeometry
<1> QED BY <1>4, <1>5, <1>6, <1>7, <1>8

\* The tables and the window, whatever the tables say of it.
LEMMA WindowWrites ==
  ASSUME NEW d \in DriverType
  PROVE  LET w == Setup(d).writes
         IN  /\ w \in Writes
             /\ IF d.height = Full THEN Ends(w, "WINMODE", "all")
                ELSE Ends(w, "WINMODE", "crop") /\ Ends(w, "VWIDTH", d.height)
<1> DEFINE all == W("WINMODE", "all")
           table == W("VMAX", Full + VblankMin)
           width == W("VWIDTH", d.height)
           crop == W("WINMODE", "crop")
           last == W("VMAX", d.height + d.vblank)
           window == IF d.height = Full THEN all ELSE width \o crop
<1>1. /\ Full + VblankMin \in Values /\ d.height \in Values
      /\ d.height + d.vblank \in Values /\ {"all", "crop"} \subseteq Values
      /\ {"WINMODE", "VWIDTH", "VMAX"} \subseteq Register
  <2>1. /\ Full \in Int /\ VblankMin \in Int /\ d.height \in Int /\ d.vblank \in Int
    BY Numbers
  <2> QED BY <2>1 DEF Values, Register
<1>2. /\ all \in Writes /\ Ends(all, "WINMODE", "all")
      /\ table \in Writes /\ last \in Writes
      /\ Spares(last, "WINMODE") /\ Spares(last, "VWIDTH")
  BY <1>1, OneWrite
<1>3. /\ width \in Writes /\ Ends(width, "VWIDTH", d.height)
      /\ crop \in Writes /\ Ends(crop, "WINMODE", "crop") /\ Spares(crop, "VWIDTH")
  BY <1>1, OneWrite
<1>4. Setup(d).writes = ((all \o table) \o window) \o last
  BY DEF Setup, Result
<1> HIDE DEF all, table, width, crop, last
<1>5. /\ width \o crop \in Writes /\ Ends(width \o crop, "WINMODE", "crop")
      /\ Ends(width \o crop, "VWIDTH", d.height)
  BY <1>3, WritesJoin
<1>6. /\ window \in Writes
      /\ IF d.height = Full THEN Ends(window, "WINMODE", "all")
         ELSE Ends(window, "WINMODE", "crop") /\ Ends(window, "VWIDTH", d.height)
  BY <1>2, <1>5
<1> HIDE DEF window
<1>7. all \o table \in Writes
  BY <1>2, WritesJoin
<1> DEFINE begin == all \o table
           most == begin \o window
<1> HIDE DEF begin
<1>8. /\ most \in Writes
      /\ \A x, v : Ends(window, x, v) => Ends(most, x, v)
  BY <1>6, <1>7, WritesJoin DEF begin
<1> HIDE DEF most
<1>9. /\ most \o last \in Writes
      /\ \A x, v : Ends(most, x, v) /\ Spares(last, x) => Ends(most \o last, x, v)
  BY <1>2, <1>8, WritesJoin
<1> QED BY <1>2, <1>4, <1>6, <1>8, <1>9 DEF begin, most

\* A start writes the window, VMAX and SHR0, each as the controls have it.
LEMMA StartWrites ==
  ASSUME NEW d \in DriverType, Coherent(d)
  PROVE  LET s == Setup(d)
             c == HandlerSetup([s.drv EXCEPT !.streaming = TRUE])
             w == s.writes \o c.writes \o StreamOn
         IN  /\ w \in Writes
             /\ Ends(w, "VMAX", c.drv.vmax)
             /\ Ends(w, "SHR0", c.drv.vmax - c.drv.exposure)
             /\ c.drv.height = d.height
             /\ IF d.height = Full THEN Ends(w, "WINMODE", "all")
                ELSE Ends(w, "WINMODE", "crop") /\ Ends(w, "VWIDTH", d.height)
<1> DEFINE in == [Setup(d).drv EXCEPT !.streaming = TRUE]
           v == SetVblank(in, in.vblank)
           e == SetExposure(v.drv, v.drv.exposure)
           s == Setup(d).writes
           h == v.writes \o e.writes
<1>1. in \in DriverType /\ Coherent(in) /\ in.streaming /\ in.height = d.height
  BY SensorAssumption DEF Setup, Result, DriverType, Coherent
<1> HIDE DEF in
<1>2. in.vblank \in VblankMin..in.vblankMax /\ in.vblankMax = VmaxMax - in.height
  BY <1>1 DEF Coherent
<1>3. /\ v.drv \in DriverType /\ Coherent(v.drv) /\ v.drv.height = in.height
      /\ v.drv.streaming = in.streaming
  BY <1>1, <1>2, VblankSet
<1>4. /\ v.writes \in Writes /\ Ends(v.writes, "VMAX", v.drv.vmax)
      /\ \A x : x \notin {"VMAX", "SHR0"} => Spares(v.writes, x)
  BY <1>1, <1>2, VblankWrites
<1> HIDE DEF v
<1>5. v.drv.exposure \in ExposureMin..(v.drv.vmax - Shr0Min)
  BY <1>3 DEF Coherent
<1>6. /\ e.writes \in Writes /\ Ends(e.writes, "SHR0", v.drv.vmax - e.drv.exposure)
      /\ \A x : x # "SHR0" => Spares(e.writes, x)
  BY <1>1, <1>3, <1>5, ExposureWrites
<1>7. e.drv.vmax = v.drv.vmax /\ e.drv.height = d.height
  BY <1>1, <1>3, <1>5, ExposureSet DEF SameFrame
<1>8. HandlerSetup(in) = Result(e.drv, h)
  BY DEF HandlerSetup, v
<1> HIDE DEF e
<1>9. /\ h \in Writes
      /\ Ends(h, "VMAX", e.drv.vmax) /\ Ends(h, "SHR0", e.drv.vmax - e.drv.exposure)
      /\ Spares(h, "WINMODE") /\ Spares(h, "VWIDTH")
  BY <1>4, <1>6, <1>7, WritesJoin
<1>10. /\ s \in Writes
       /\ IF d.height = Full THEN Ends(s, "WINMODE", "all")
          ELSE Ends(s, "WINMODE", "crop") /\ Ends(s, "VWIDTH", d.height)
  BY WindowWrites
<1> HIDE DEF h, s
<1>11. /\ s \o h \in Writes
       /\ Ends(s \o h, "VMAX", e.drv.vmax)
       /\ Ends(s \o h, "SHR0", e.drv.vmax - e.drv.exposure)
       /\ IF d.height = Full THEN Ends(s \o h, "WINMODE", "all")
          ELSE Ends(s \o h, "WINMODE", "crop") /\ Ends(s \o h, "VWIDTH", d.height)
  BY <1>9, <1>10, WritesJoin
<1>12. /\ StreamOn \in Writes
       /\ \A x \in {"WINMODE", "VWIDTH", "VMAX", "SHR0"} : Spares(StreamOn, x)
  <2>1. /\ {"operating", "start"} \subseteq Values /\ {"MODE", "XMSTA"} \subseteq Register
    BY DEF Values, Register
  <2>2. /\ W("MODE", "operating") \in Writes /\ W("XMSTA", "start") \in Writes
        /\ \A x \in {"WINMODE", "VWIDTH", "VMAX", "SHR0"} :
             Spares(W("MODE", "operating"), x) /\ Spares(W("XMSTA", "start"), x)
    BY <2>1, OneWrite
  <2> QED BY <2>2, WritesJoin DEF StreamOn
<1> DEFINE m == s \o h
<1> HIDE DEF m
<1>13. /\ m \o StreamOn \in Writes
       /\ Ends(m \o StreamOn, "VMAX", e.drv.vmax)
       /\ Ends(m \o StreamOn, "SHR0", e.drv.vmax - e.drv.exposure)
       /\ IF d.height = Full THEN Ends(m \o StreamOn, "WINMODE", "all")
          ELSE /\ Ends(m \o StreamOn, "WINMODE", "crop")
               /\ Ends(m \o StreamOn, "VWIDTH", d.height)
  BY <1>11, <1>12, WritesJoin DEF m
<1>14. HandlerSetup(in).drv = e.drv /\ HandlerSetup(in).writes = h
  BY <1>8 DEF Result
<1> QED BY <1>7, <1>13, <1>14 DEF m, in, s
-----------------------------------------------------------------------------
(* The sensor stays programmed as the controls say.                            *)

\* What ProgrammedAsAsked says of a streaming driver, sending or not.
Programmed ==
  drv.streaming /\ ~recropped =>
    /\ suspect \cap {"WINMODE", "VWIDTH"} = {} => Lines = drv.height
    /\ "VMAX" \notin suspect => reg["VMAX"] = drv.vmax
    /\ "SHR0" \notin suspect /\ ~unpaired => reg["SHR0"] = drv.vmax - drv.exposure

\* A call that leaves the window alone, writes VMAX when it changes it, and SHR0
\* when the exposure moves, keeps the sensor programmed.
LEMMA ControlKeeps ==
  ASSUME Programmed, NEW r, r.writes \in Writes, Enter(r),
         drv.streaming, r.drv.height = drv.height, UNCHANGED recropped,
         Spares(r.writes, "WINMODE"), Spares(r.writes, "VWIDTH"),
         \/ Ends(r.writes, "VMAX", r.drv.vmax)
         \/ Spares(r.writes, "VMAX") /\ r.drv.vmax = drv.vmax,
         \/ Ends(r.writes, "SHR0", r.drv.vmax - r.drv.exposure)
         \/ Spares(r.writes, "SHR0") /\ Ends(r.writes, "VMAX", r.drv.vmax)
         \/ /\ Spares(r.writes, "SHR0") /\ Spares(r.writes, "VMAX")
            /\ r.drv.vmax = drv.vmax /\ r.drv.exposure = drv.exposure
  PROVE  Programmed'
<1> SUFFICES ASSUME ~recropped
             PROVE  /\ suspect' \cap {"WINMODE", "VWIDTH"} = {} => Lines' = r.drv.height
                    /\ "VMAX" \notin suspect' => reg'["VMAX"] = r.drv.vmax
                    /\ "SHR0" \notin suspect' /\ ~unpaired'
                         => reg'["SHR0"] = r.drv.vmax - r.drv.exposure
  BY DEF Programmed, Enter
<1>1. \A x \in {"WINMODE", "VWIDTH", "VMAX", "SHR0"} :
        /\ \A v : Ends(r.writes, x, v) /\ x \notin suspect' => reg'[x] = v
        /\ Spares(r.writes, x) => reg'[x] = reg[x] /\ (x \in suspect' <=> x \in suspect)
  BY Reaching DEF Register
<1>2. /\ suspect \cap {"WINMODE", "VWIDTH"} = {} => Lines = drv.height
      /\ "VMAX" \notin suspect => reg["VMAX"] = drv.vmax
      /\ "SHR0" \notin suspect /\ ~unpaired => reg["SHR0"] = drv.vmax - drv.exposure
  BY DEF Programmed
<1>3. suspect' \cap {"WINMODE", "VWIDTH"} = {} => Lines' = r.drv.height
  <2>1. Lines' = Lines
    BY <1>1 DEF Lines
  <2>2. /\ "WINMODE" \in suspect' <=> "WINMODE" \in suspect
        /\ "VWIDTH" \in suspect' <=> "VWIDTH" \in suspect
    BY <1>1
  <2> QED BY <2>1, <2>2, <1>2
<1>4. "VMAX" \notin suspect' => reg'["VMAX"] = r.drv.vmax
  BY <1>1, <1>2
<1>5. ASSUME "SHR0" \notin suspect', ~unpaired'
      PROVE  reg'["SHR0"] = r.drv.vmax - r.drv.exposure
  <2>1. CASE Ends(r.writes, "SHR0", r.drv.vmax - r.drv.exposure)
    BY <2>1, <1>1, <1>5
  <2>2. CASE Spares(r.writes, "SHR0") /\ Ends(r.writes, "VMAX", r.drv.vmax)
    <3>1. Hits(r.writes, "SHR0") = {}
      BY <2>2 DEF Hits, Spares
    <3>2. Hits(r.writes, "VMAX") # {}
      BY <2>2 DEF Hits, Ends
    <3> QED BY <3>1, <3>2, <1>5 DEF Enter
  <2>3. CASE /\ Spares(r.writes, "SHR0") /\ Spares(r.writes, "VMAX")
             /\ r.drv.vmax = drv.vmax /\ r.drv.exposure = drv.exposure
    <3>1. Hits(r.writes, "SHR0") = {}
      BY <2>3 DEF Hits, Spares
    <3>2. ~unpaired
      BY <3>1, <1>5 DEF Enter
    <3> QED BY <2>3, <3>2, <1>1, <1>2, <1>5
  <2> QED BY <2>1, <2>2, <2>3
<1> QED BY <1>3, <1>4, <1>5

\* A change of the exposure.
LEMMA ExposureProgrammed ==
  ASSUME Inv, Programmed, NEW v \in Int,
         ControlTo(v, ExposureMin, drv.exposureMax, drv.exposure, SetExposure)
  PROVE  Programmed'
<1> DEFINE val == Clamp(v, ExposureMin, drv.exposureMax)
           r == SetExposure(drv, val)
<1>1. val \in ExposureMin..(drv.vmax - Shr0Min)
  <2>1. drv.exposureMax \in Int /\ ExposureMin \in Int /\ ExposureMin <= drv.exposureMax
        /\ drv.exposureMax = drv.vmax - Shr0Min
    BY SensorAssumption DEF Inv, TypeOK, RangesCoherent, Coherent, DriverType
  <2> QED BY <2>1, ClampRange
<1>2. drv \in DriverType
  BY DEF Inv, TypeOK
<1>3. Enter(r) /\ UNCHANGED recropped
  BY DEF ControlTo
<1> HIDE DEF val
<1>4. r.drv.height = drv.height /\ r.drv.vmax = drv.vmax /\ r.drv.streaming = drv.streaming
  BY <1>1, <1>2, ExposureSet DEF SameFrame
<1>5. CASE drv.streaming
  <2>1. /\ r.writes \in Writes /\ Ends(r.writes, "SHR0", drv.vmax - r.drv.exposure)
        /\ \A x : x # "SHR0" => Spares(r.writes, x)
    BY <1>1, <1>2, <1>5, ExposureWrites
  <2> HIDE DEF r
  <2> QED BY <1>3, <1>4, <1>5, <2>1, ControlKeeps
<1>6. CASE ~drv.streaming
  BY <1>3, <1>4, <1>6 DEF Enter, Programmed
<1> QED BY <1>5, <1>6

\* A change of the blanking.
LEMMA VblankProgrammed ==
  ASSUME Inv, Programmed, NEW v \in Int, NodeVblank(v)
  PROVE  Programmed'
<1> DEFINE val == Clamp(v, VblankMin, drv.vblankMax)
           r == SetVblank(drv, val)
<1>1. val \in VblankMin..drv.vblankMax /\ drv.vblankMax = VmaxMax - drv.height
  <2>1. drv.vblankMax \in Int /\ VblankMin \in Int /\ VblankMin <= drv.vblankMax
        /\ drv.vblankMax = VmaxMax - drv.height
    BY SensorAssumption DEF Inv, TypeOK, RangesCoherent, Coherent, DriverType
  <2> QED BY <2>1, ClampRange
<1>2. drv \in DriverType
  BY DEF Inv, TypeOK
<1>3. Enter(r) /\ UNCHANGED recropped
  BY DEF NodeVblank, ControlTo
<1> HIDE DEF val
<1>4. r.drv.height = drv.height /\ r.drv.streaming = drv.streaming
  BY <1>1, <1>2, VblankSet
<1>5. CASE drv.streaming
  <2>1. /\ r.writes \in Writes /\ Ends(r.writes, "VMAX", r.drv.vmax)
        /\ \A x : x \notin {"VMAX", "SHR0"} => Spares(r.writes, x)
        /\ \/ Ends(r.writes, "SHR0", r.drv.vmax - r.drv.exposure)
           \/ Spares(r.writes, "SHR0")
    BY <1>1, <1>2, <1>5, VblankWrites
  <2> HIDE DEF r
  <2> QED BY <1>3, <1>4, <1>5, <2>1, ControlKeeps
<1>6. CASE ~drv.streaming
  BY <1>3, <1>4, <1>6 DEF Enter, Programmed
<1> QED BY <1>5, <1>6

\* A window set: it is the one that streams already, or the stream is recropped.
LEMMA WindowProgrammed ==
  ASSUME Inv, Programmed, NEW h \in Height, Enter(UpdateGeometry(drv, h)),
         recropped' = (recropped \/ (drv.streaming /\ drv.height # h))
  PROVE  Programmed'
<1>1. drv'.streaming = drv.streaming
  BY WindowSet
<1>2. CASE drv.streaming /\ ~recropped /\ drv.height = h
  <2>1. drv \in DriverType /\ Coherent(drv)
    BY DEF Inv, TypeOK, RangesCoherent
  <2>2. UpdateGeometry(drv, h) = Result(drv, <<>>)
    BY <2>1, <1>2, SameWindow
  <2> DEFINE r == Result(drv, <<>>)
  <2>3. Enter(r)
    BY <2>2
  <2>4. r.drv = drv /\ r.writes = <<>>
    BY DEF Result
  <2>5. r.writes \in Writes /\ \A x : Spares(r.writes, x)
    BY <2>4, NoWrite
  <2> HIDE DEF r
  <2>6. recropped' = recropped
    BY <1>2, <2>1 DEF Inv, TypeOK
  <2> QED BY <1>2, <2>3, <2>4, <2>5, <2>6, ControlKeeps
<1>3. CASE ~(drv.streaming /\ ~recropped /\ drv.height = h)
  BY <1>1, <1>3 DEF Programmed
<1> QED BY <1>2, <1>3

\* A start programs everything, whatever the sensor held before.
LEMMA StartProgrammed ==
  ASSUME Inv, SensorOn, UNCHANGED recropped
  PROVE  Programmed'
<1> DEFINE s == Setup(drv)
           c == HandlerSetup([s.drv EXCEPT !.streaming = TRUE])
           w == s.writes \o c.writes \o StreamOn
           r == Result(c.drv, w)
<1>1. drv \in DriverType /\ Coherent(drv)
  BY DEF Inv, TypeOK, RangesCoherent
<1>2. /\ w \in Writes
      /\ Ends(w, "VMAX", c.drv.vmax)
      /\ Ends(w, "SHR0", c.drv.vmax - c.drv.exposure)
      /\ c.drv.height = drv.height
      /\ IF drv.height = Full THEN Ends(w, "WINMODE", "all")
         ELSE Ends(w, "WINMODE", "crop") /\ Ends(w, "VWIDTH", drv.height)
  BY <1>1, StartWrites
<1>3. Enter(r)
  BY DEF SensorOn
<1> HIDE DEF c, w
<1>4. r.drv = c.drv /\ r.writes = w
  BY DEF Result
<1> HIDE DEF r
<1>5. \A x \in {"WINMODE", "VWIDTH", "VMAX", "SHR0"} : \A v :
        Ends(w, x, v) /\ x \notin suspect' => reg'[x] = v
  BY <1>2, <1>3, <1>4, Reaching, Z3 DEF Register
<1>6. drv' = c.drv
  BY <1>3, <1>4 DEF Enter
<1>7. suspect' \cap {"WINMODE", "VWIDTH"} = {} => Lines' = c.drv.height
  <2>1. CASE drv.height = Full
    BY <2>1, <1>2, <1>5 DEF Lines
  <2>2. CASE drv.height # Full
    BY <2>2, <1>2, <1>5 DEF Lines
  <2> QED BY <2>1, <2>2
<1> QED BY <1>2, <1>5, <1>6, <1>7 DEF Programmed

\* Every step keeps a streaming sensor programmed.
LEMMA ProgrammedSteps == Inv /\ Programmed /\ [Next]_vars => Programmed'
<1> SUFFICES ASSUME Inv, Programmed, [Next]_vars PROVE Programmed'
  OBVIOUS
<1> DEFINE Same == /\ drv' = drv /\ reg' = reg /\ suspect' = suspect
                   /\ recropped' = recropped /\ unpaired' = unpaired
<1>1. Same => Programmed'
  BY DEF Programmed, Lines
<1>2. CASE SetMode
  <2>1. Full \in Height
    BY SensorAssumption
  <2> QED BY <1>2, <2>1, WindowProgrammed DEF SetMode
<1>3. CASE ModeDone
  BY <1>1, <1>3 DEF ModeDone, hardware
<1>4. CASE Start
  <2>1. CASE bridge.streaming
    BY <1>1, <1>4, <2>1 DEF Start, hardware
  <2>2. CASE ~bridge.streaming
    BY <1>1, <1>4, <2>2, StartProgrammed DEF Start, SensorRefuses, hardware
  <2> QED BY <2>1, <2>2
<1>5. CASE Stop
  <2>1. CASE bridge.streaming
    <3>1. drv' = Result([drv EXCEPT !.streaming = FALSE], StreamOff).drv
      BY <1>5, <2>1 DEF Stop, SensorOff, Enter
    <3>2. drv'.streaming = FALSE
      BY <3>1 DEF Result, Inv, TypeOK, DriverType
    <3> QED BY <3>2 DEF Programmed
  <2>2. CASE ~bridge.streaming
    BY <1>1, <1>5, <2>2 DEF Stop, hardware
  <2> QED BY <2>1, <2>2
<1>6. CASE Cmos
  <2>1. PICK v \in Exposure : SensorUpdate(v)
    BY <1>6 DEF Cmos
  <2>2. Clamp(v, ExposureMin, bridge.max) \in Int
    BY SensorAssumption DEF Clamp, Inv, TypeOK
  <2> QED BY <2>1, <2>2, ExposureProgrammed DEF SensorUpdate
<1>7. CASE Node
  <2>1. CASE \E v \in Exposure : NodeExposure(v)
    BY <2>1, ExposureProgrammed, SensorAssumption DEF NodeExposure
  <2>2. CASE \E v \in Vblank : NodeVblank(v)
    BY <2>2, VblankProgrammed, SensorAssumption
  <2>3. CASE \E h \in Height : NodeCrop(h)
    BY <2>3, WindowProgrammed DEF NodeCrop
  <2> QED BY <1>7, <2>1, <2>2, <2>3 DEF Node
<1>8. CASE Autosuspend
  <2>1. ~drv.streaming /\ drv' = drv
    BY <1>8 DEF Autosuspend, Inv, PowerBalanced
  <2> QED BY <2>1 DEF Programmed
<1>9. CASE UNCHANGED vars
  BY <1>1, <1>9 DEF vars, hardware
<1> QED BY <1>2, <1>3, <1>4, <1>5, <1>6, <1>7, <1>8, <1>9 DEF Next, Caller

\* While the sensor sends, the window, VMAX and SHR0 it was given are the ones
\* of the controls, for every array, margin, value and order of the calls and any
\* writes lost, but for the registers whose own last write was lost, a window
\* changed under the stream, and an SHR0 not written since VMAX was.
THEOREM Programming == Spec => []ProgrammedAsAsked
<1>1. Init => Programmed
  BY DEF Init, Programmed
<1>2. Programmed => ProgrammedAsAsked
  BY DEF Programmed, ProgrammedAsAsked
<1> QED BY <1>1, <1>2, SensorInvariant, ProgrammedSteps, PTL DEF Spec
=============================================================================
