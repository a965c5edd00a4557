------------------------------- MODULE Sensor -------------------------------
(* The imx415 driver and the ISP's bridge to it.                               *)
(*                                                                             *)
(*   caller   S_FMT, the preset control, STREAMON and STREAMOFF of the ISP's   *)
(*            video node, serialised by the device mutex, as far as they reach *)
(*            the sensor: sensor_streaming, fw_intf_stream_set_resolution, the *)
(*            sensor machine, V4L2_drv.c;                                      *)
(*   cmos     the firmware thread: an integration time is allocated and        *)
(*            written to the sensor;                                           *)
(*   node     the application on /dev/v4l-subdevX, at any time;                *)
(*   pm       the autosuspend work of runtime power management.                *)
(*                                                                             *)
(* The driver's control lock and state lock are one mutex: each of its entry   *)
(* points is one step.  Its state is a record, and an entry point a function   *)
(* from it to the new record and the register writes, in order.  A write may   *)
(* get lost on the bus; imx415_write then returns 0 all the same.              *)
(*                                                                             *)
(* The window is its height; widths, offsets, gains, flips and test patterns   *)
(* carry no control.  Probe and removal are left out.                          *)
EXTENDS Integers, Sequences, FiniteSets

CONSTANTS Full,          \* IMX415_PIXEL_ARRAY_HEIGHT
          Height,        \* the window heights the callers ask for
          VblankMin,     \* IMX415_PIXEL_ARRAY_VBLANK
          VmaxMax,       \* IMX415_VMAX_MAX
          Shr0Min,       \* IMX415_SHR0_MIN
          ExposureMin,   \* IMX415_EXPOSURE_MIN
          Exposure,      \* the integration times asked for
          Vblank,        \* the blankings asked for
          MaxLost        \* register writes that get lost

ASSUME SensorAssumption ==
  /\ VblankMin \in Nat /\ Shr0Min \in Nat /\ ExposureMin \in Nat /\ VmaxMax \in Nat
  /\ Full \in Height /\ Height \subseteq Nat
  /\ \A h \in Height : /\ ExposureMin + Shr0Min <= h + VblankMin
                       /\ h + VblankMin <= VmaxMax
  /\ Exposure \subseteq Int /\ Vblank \subseteq Int
  /\ MaxLost \in Nat

VARIABLES
  drv,                   \* struct imx415 with its controls and active format
  reg,                   \* the registers of the sensor
  usage, powered,        \* runtime power management
  caller,                \* where the caller is in sensor_set_mode
  fsmStreaming,          \* is_streaming of the sensor machine
  bridge,                \* sensor_context_t
  receiver,              \* the CSI-2 host and the adapter are set up
  \* History and bounds, for the properties and the size of the model only.
  recropped,             \* the window has changed while streaming
  unpaired,              \* VMAX has been written, SHR0 not since
  suspect,               \* registers whose last write was lost
  losses

hardware == <<reg, suspect, losses>>
power == <<usage, powered>>
vars == <<drv, hardware, power, caller, fsmStreaming, bridge, receiver,
          recropped, unpaired>>

Register == {"WINMODE", "VWIDTH", "VMAX", "SHR0", "MODE", "XMSTA"}
Clamp(v, lo, hi) == IF v < lo THEN lo ELSE IF v > hi THEN hi ELSE v
W(r, v) == <<[reg |-> r, val |-> v]>>
Result(d, w) == [drv |-> d, writes |-> w]
-----------------------------------------------------------------------------
(* The driver's controls.  v4l2_ctrl_s_ctrl and __v4l2_ctrl_modify_range clamp *)
(* a value into its range and call s_ctrl only when that changes it.           *)

\* s_ctrl of EXPOSURE.
SetExposure(d, v) ==
  IF ~d.streaming THEN Result([d EXCEPT !.exposure = v], <<>>)
  ELSE LET val == Clamp(v, ExposureMin, d.vmax - Shr0Min)
       IN  Result([d EXCEPT !.exposure = val], W("SHR0", d.vmax - val))

UpdateExposureRange(d) ==
  LET max == d.vmax - Shr0Min
      val == Clamp(d.exposure, ExposureMin, max)
      in == [d EXCEPT !.exposureMax = max]
  IN  IF val = d.exposure THEN Result(in, <<>>) ELSE SetExposure(in, val)

\* A mutant of SetVblank.
SetVblankStale(d, v) ==
  LET r == UpdateExposureRange([d EXCEPT !.vmax = d.height + d.vblank])
  IN  Result([r.drv EXCEPT !.vblank = v, !.vmax = d.height + v],
             (IF d.streaming THEN W("VMAX", d.height + v) ELSE <<>>) \o r.writes)
\* s_ctrl of VBLANK: cur.val is replaced after it has returned.
SetVblank(d, v) ==
  LET vmax == d.height + v
      r == UpdateExposureRange([d EXCEPT !.vmax = vmax])
  IN  Result([r.drv EXCEPT !.vblank = v],
             (IF d.streaming THEN W("VMAX", vmax) ELSE <<>>) \o r.writes)

\* imx415_update_geometry_ctrls, the format being h already.
UpdateGeometry(d, h) ==
  LET in == [d EXCEPT !.height = h, !.vblankMax = VmaxMax - h]
      val == Clamp(d.vblank, VblankMin, VmaxMax - h)
      moved == IF val = d.vblank THEN Result(in, <<>>) ELSE SetVblank(in, val)
      r == UpdateExposureRange([moved.drv EXCEPT !.vmax = h + moved.drv.vblank])
  IN  Result(r.drv, moved.writes \o r.writes)

\* A mutant of Setup.
SetupNoWindow(d) ==
  Result([d EXCEPT !.vmax = d.height + d.vblank],
         W("WINMODE", "all") \o W("VMAX", d.height + d.vblank))
\* imx415_setup: the tables, then the window.  The tables state the whole array.
Setup(d) ==
  LET vmax == d.height + d.vblank
      window == IF d.height = Full THEN W("WINMODE", "all")
                ELSE W("VWIDTH", d.height) \o W("WINMODE", "crop")
  IN  Result([d EXCEPT !.vmax = vmax],
             W("WINMODE", "all") \o W("VMAX", Full + VblankMin) \o window \o W("VMAX", vmax))

\* __v4l2_ctrl_handler_setup: s_ctrl of every control, in the order they were made.
HandlerSetup(d) ==
  LET v == SetVblank(d, d.vblank)
      e == SetExposure(v.drv, v.drv.exposure)
  IN  Result(e.drv, v.writes \o e.writes)

StreamOn == W("MODE", "operating") \o W("XMSTA", "start")
StreamOff == W("XMSTA", "stop") \o W("MODE", "standby")
-----------------------------------------------------------------------------
(* The sensor.                                                                 *)

ResetValue == [r \in Register |->
  CASE r = "WINMODE" -> "all" [] r = "MODE" -> "standby" [] r = "XMSTA" -> "stop"
    [] r = "VMAX" -> Full + VblankMin [] r = "VWIDTH" -> Full [] OTHER -> Shr0Min]

Hits(w, r) == {i \in 1..Len(w) : w[i].reg = r}
Newest(s) == CHOOSE i \in s : \A j \in s : j <= i

\* The writes w reach the sensor, but for those that get lost.
Write(w) ==
  \E lost \in SUBSET (1..Len(w)) :
    /\ losses + Cardinality(lost) <= MaxLost
    /\ losses' = losses + Cardinality(lost)
    /\ reg' = [r \in Register |-> IF Hits(w, r) \ lost = {} THEN reg[r]
                                  ELSE w[Newest(Hits(w, r) \ lost)].val]
    /\ suspect' = {r \in Register : IF Hits(w, r) = {} THEN r \in suspect
                                    ELSE Newest(Hits(w, r)) \in lost}

\* An entry point of the driver with this result.
Enter(r) ==
  /\ drv' = r.drv
  /\ Write(r.writes)
  /\ unpaired' = IF Hits(r.writes, "SHR0") # {} THEN FALSE
                 ELSE unpaired \/ Hits(r.writes, "VMAX") # {}

Sending == powered /\ reg["MODE"] = "operating" /\ reg["XMSTA"] = "start"
Lines == IF reg["WINMODE"] = "all" THEN Full ELSE reg["VWIDTH"]
-----------------------------------------------------------------------------
(* The caller.                                                                 *)

\* sensor_set_mode: set_fmt under the lock; the range of EXPOSURE is read, and
\* the receiver brought up, after it.  The bridge knows one size.
SetMode ==
  /\ caller = "idle"
  /\ Enter(UpdateGeometry(drv, Full))
  /\ recropped' = (recropped \/ (drv.streaming /\ drv.height # Full))
  /\ caller' = "mode"
  /\ UNCHANGED <<power, fsmStreaming, bridge, receiver>>
ModeDone ==
  /\ caller = "mode"
  /\ bridge' = [bridge EXCEPT !.max = drv.exposureMax]
  /\ receiver' = TRUE
  /\ caller' = "idle"
  /\ UNCHANGED <<drv, hardware, power, fsmStreaming, recropped, unpaired>>

\* imx415_s_stream(1): everything is written again.
SensorOn ==
  LET s == Setup(drv)
      c == HandlerSetup([s.drv EXCEPT !.streaming = TRUE])
  IN  /\ Enter(Result(c.drv, s.writes \o c.writes \o StreamOn))
      /\ usage' = usage + 1 /\ powered' = TRUE
      /\ bridge' = [bridge EXCEPT !.streaming = TRUE]
\* A mutant of SensorRefuses.
SensorRefusesHeld ==
  /\ ~powered
  /\ usage' = usage + 1
  /\ UNCHANGED <<drv, hardware, powered, bridge, unpaired>>
\* pm_runtime_resume_and_get fails, and lets go again.
SensorRefuses ==
  /\ ~powered
  /\ UNCHANGED <<drv, hardware, power, bridge, unpaired>>

\* A mutant of SensorOff.
SensorOffNever ==
  /\ bridge' = [bridge EXCEPT !.streaming = FALSE]
  /\ receiver' = FALSE
  /\ UNCHANGED <<drv, hardware, usage, unpaired, recropped>>
\* imx415_s_stream(0), then the receiver is shut down.
SensorOff ==
  /\ Enter(Result([drv EXCEPT !.streaming = FALSE], StreamOff))
  /\ usage' = usage - 1
  /\ bridge' = [bridge EXCEPT !.streaming = FALSE]
  /\ receiver' = FALSE /\ recropped' = FALSE

\* STREAMON, as far as the sensor: the machine counts itself streaming whatever
\* start_streaming did.
Start ==
  /\ caller = "idle" /\ ~fsmStreaming
  /\ fsmStreaming' = TRUE
  /\ IF bridge.streaming THEN UNCHANGED <<drv, hardware, power, bridge, unpaired>>
     ELSE SensorOn \/ SensorRefuses
  /\ UNCHANGED <<caller, receiver, recropped>>

\* STREAMOFF: whether the bridge has started the sensor decides.
Stop ==
  /\ caller = "idle" /\ fsmStreaming
  /\ fsmStreaming' = FALSE
  /\ IF bridge.streaming THEN SensorOff
     ELSE UNCHANGED <<drv, hardware, usage, bridge, receiver, recropped, unpaired>>
  /\ UNCHANGED <<caller, powered>>
-----------------------------------------------------------------------------
(* The firmware thread, the application on the sensor's node, the power.       *)

\* A control is set: no change, no s_ctrl.
ControlTo(v, lo, hi, now, Op(_, _)) ==
  LET val == Clamp(v, lo, hi)
  IN  /\ val # now
      /\ Enter(Op(drv, val))
      /\ UNCHANGED <<power, caller, fsmStreaming, bridge, receiver, recropped>>

\* sensor_alloc_integration_time, with the range read at the last set_mode, then
\* sensor_update.
SensorUpdate(v) ==
  ControlTo(Clamp(v, ExposureMin, bridge.max), ExposureMin, drv.exposureMax,
            drv.exposure, SetExposure)
NodeExposure(v) == ControlTo(v, ExposureMin, drv.exposureMax, drv.exposure, SetExposure)
NodeVblank(v) == ControlTo(v, VblankMin, drv.vblankMax, drv.vblank, SetVblank)

\* set_fmt or set_selection of the active state: nothing refuses it while streaming.
NodeCrop(h) ==
  /\ Enter(UpdateGeometry(drv, h))
  /\ recropped' = (recropped \/ (drv.streaming /\ drv.height # h))
  /\ UNCHANGED <<power, caller, fsmStreaming, bridge, receiver>>

Autosuspend ==
  /\ powered /\ usage = 0
  /\ powered' = FALSE
  /\ reg' = ResetValue /\ suspect' = {}
  /\ UNCHANGED <<drv, losses, usage, caller, fsmStreaming, bridge, receiver,
                 recropped, unpaired>>
-----------------------------------------------------------------------------
\* Probe has identified the sensor, the firmware has set its mode.
Init ==
  /\ drv = [height |-> Full, vblank |-> VblankMin, vmax |-> Full + VblankMin,
            exposure |-> Full + VblankMin - Shr0Min,
            exposureMax |-> Full + VblankMin - Shr0Min,
            vblankMax |-> VmaxMax - Full, streaming |-> FALSE]
  /\ reg = ResetValue /\ powered = TRUE /\ usage = 0
  /\ caller = "idle" /\ fsmStreaming = FALSE /\ receiver = TRUE
  /\ bridge = [streaming |-> FALSE, max |-> Full + VblankMin - Shr0Min]
  /\ recropped = FALSE /\ unpaired = FALSE /\ suspect = {}
  /\ losses = 0

Caller == SetMode \/ ModeDone \/ Start \/ Stop
Cmos == \E v \in Exposure : SensorUpdate(v)
Node == \/ \E v \in Exposure : NodeExposure(v)
        \/ \E v \in Vblank : NodeVblank(v)
        \/ \E h \in Height : NodeCrop(h)
Next == Caller \/ Cmos \/ Node \/ Autosuspend

Spec == Init /\ [][Next]_vars
\* The work of the power management core runs once its delay has passed.
FairSpec == Spec /\ WF_vars(Autosuspend)
-----------------------------------------------------------------------------
DriverType ==
  [height : Height, vblank : Int, vmax : Int, exposure : Int, exposureMax : Int,
   vblankMax : Int, streaming : BOOLEAN]

\* Types, with the bounds of the history.
TypeOK ==
  /\ drv \in DriverType
  /\ DOMAIN reg = Register /\ suspect \subseteq Register
  /\ usage \in Nat /\ powered \in BOOLEAN
  /\ caller \in {"idle", "mode"}
  /\ fsmStreaming \in BOOLEAN /\ receiver \in BOOLEAN
  /\ bridge \in [streaming : BOOLEAN, max : Int]
  /\ recropped \in BOOLEAN /\ unpaired \in BOOLEAN
  /\ losses <= MaxLost

\* Between two calls of the driver, whatever re-entered s_ctrl inside them, the
\* cached VMAX is the window plus the blanking, both controls lie in ranges that
\* fit it, and an exposure leaves SHR0 at least its minimum.
Coherent(d) ==
  /\ d.vmax = d.height + d.vblank
  /\ d.vblank \in VblankMin..d.vblankMax /\ d.vblankMax = VmaxMax - d.height
  /\ d.exposureMax = d.vmax - Shr0Min
  /\ d.exposure \in ExposureMin..d.exposureMax
RangesCoherent == Coherent(drv)

\* While the sensor sends, what it was told is what the controls say: the
\* window, VMAX, and the exposure as the distance of SHR0 to VMAX.  The three
\* excuses are a lost write of that register, a window changed under a running
\* stream, and a VMAX written without an SHR0 after it.
ProgrammedAsAsked ==
  Sending /\ drv.streaming /\ ~recropped =>
    /\ suspect \cap {"WINMODE", "VWIDTH"} = {} => Lines = drv.height
    /\ "VMAX" \notin suspect => reg["VMAX"] = drv.vmax
    /\ "SHR0" \notin suspect /\ ~unpaired => reg["SHR0"] = drv.vmax - drv.exposure

\* The driver holds the power exactly while it streams, the bridge never lets
\* go of a streaming sensor, and a start that failed leaves nothing behind.
PowerBalanced ==
  /\ usage = IF drv.streaming THEN 1 ELSE 0
  /\ drv.streaming => powered
  /\ bridge.streaming = drv.streaming
  /\ drv.streaming => fsmStreaming

\* A sensor that is not started again loses its power.
Suspends == ~drv.streaming ~> (~powered \/ drv.streaming)

\* Pixels flow only into a receiver that has been brought up.
ReceiverUp == Sending => receiver
=============================================================================
