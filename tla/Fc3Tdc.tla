------------------------------- MODULE Fc3Tdc -------------------------------
(***************************************************************************)
(* Phase measurements of a FemtoClock3 W (linux/drivers/misc/rsmu_fc3.c):  *)
(* how the driver is bound with or without a firmware image, how it        *)
(* switches the time to digital converter between one shot and continuous  *)
(* measurement, and how it fetches measurements from the device's FIFO.    *)
(*                                                                         *)
(* The ioctls hold the mutex of the device from beginning to end, so one   *)
(* request is under way at a time; the device measures meanwhile, once for *)
(* every start in one shot mode and again and again in continuous mode.    *)
(* Measurements are numbered in the order in which they are made.  What a  *)
(* measurement is converted with, TIME_REF and TDC_APLL, is not kept but   *)
(* for whether TIME_REF was set, which tells that binding got that far.    *)
(***************************************************************************)
EXTENDS Naturals, Sequences

CONSTANTS
  FifoDepth,        \* measurements the FIFO holds
  ClearsOnDisable,  \* does disabling the TDC empty the FIFO
  MaxMade,          \* bound on measurements made
  MaxFailures,      \* bound on failed bus transfers
  MaxBinds          \* bound on binding the driver

ASSUME TdcAssumption ==
  /\ FifoDepth \in Nat \ {0}
  /\ ClearsOnDisable \in BOOLEAN
  /\ {MaxMade, MaxFailures, MaxBinds} \subseteq Nat

(* enum tdc_meas_mode; a freshly allocated driver has CONTINUOUS, which is 0 *)
CONTINUOUS == "CONTINUOUS"
ONE_SHOT   == "ONE_SHOT"
Invalid    == "MEAS_MODE_INVALID"
Modes      == {CONTINUOUS, ONE_SHOT}

VARIABLES
  step,      \* the transfer the driver makes next, "idle" between requests
  want,      \* the mode the request, or binding, asks for
  binding,   \* is the driver being bound
  firmware,  \* the image that was loaded: "complete", "without" the clock
             \* frequencies, or "none"
  timeRef,   \* is TIME_REF other than 0
  measMode,  \* MEAS_MODE, the cached mode
  hwMode,    \* TIME_CLOCK_MEAS_CNFG
  running,   \* is continuous measurement enabled
  started,   \* has a one shot measurement been started that is not made yet
  fifo,      \* measurements that wait to be read
  made,      \* number of measurements made
  askedAt,   \* value of made when the request was made
  result,    \* the measurement returned, 0 for none
  late,      \* has a request timed out
  failures,  \* failed bus transfers
  binds      \* how often the driver was bound

driverVars  == <<measMode, timeRef>>
deviceVars  == <<hwMode, running, started, fifo, made>>
requestVars == <<want, binding, firmware, askedAt, result, late, binds>>
tdcVars == <<step, driverVars, deviceVars, requestVars, failures>>

TdcTypeOK ==
  /\ step \in {"idle", "disable", "configure", "enable", "time_ref", "tdc_apll",
               "overrun", "start", "wait", "read"}
  /\ want \in Modes
  /\ firmware \in {"complete", "without", "none"}
  /\ {binding, timeRef, running, started, late} \subseteq BOOLEAN
  /\ measMode \in Modes \cup {Invalid}
  /\ hwMode \in Modes
  /\ fifo \in Seq(1 .. MaxMade) /\ Len(fifo) <= FifoDepth
  /\ {made, askedAt, result} \subseteq 0 .. MaxMade
  /\ failures \in 0 .. MaxFailures
  /\ binds \in 0 .. MaxBinds

(* Before the driver is bound the device may be in any mode an earlier     *)
(* driver left it in.                                                      *)
TdcInit ==
  /\ step = "idle" /\ binding = TRUE
  /\ want = ONE_SHOT
  /\ firmware = "none"
  /\ timeRef = FALSE
  /\ measMode = CONTINUOUS
  /\ hwMode \in Modes
  /\ running \in {FALSE, hwMode = CONTINUOUS}
  /\ started = FALSE
  /\ fifo = <<>>
  /\ made = 0 /\ askedAt = 0 /\ result = 0
  /\ late = FALSE
  /\ failures = 0 /\ binds = 0

(* A transfer fails: the request returns its error, binding goes on        *)
(* without what was to follow.                                             *)
Fault == failures < MaxFailures /\ failures' = failures + 1

Fails(at) ==
  /\ step = at
  /\ Fault
  /\ step' = "idle" /\ binding' = FALSE
  /\ UNCHANGED <<driverVars, deviceVars, want, firmware, askedAt, result, late, binds>>

-----------------------------------------------------------------------------
(* Binding: rsmu_fc3_init with a driver structure of zeros.                *)

Bind ==
  /\ step = "idle" /\ binds < MaxBinds
  /\ binds' = binds + 1
  /\ timeRef' = FALSE
  /\ want' = ONE_SHOT
  /\ result' = 0
  /\ \/ firmware' = "none" /\ measMode' = CONTINUOUS
        /\ binding' = FALSE /\ step' = "idle"
     \/ firmware' \in {"complete", "without"} /\ measMode' = Invalid
        /\ binding' = TRUE /\ step' = "disable"
  /\ UNCHANGED <<deviceVars, askedAt, late, failures>>

ReadTimeRef ==
  /\ step = "time_ref"
  /\ timeRef' = (firmware = "complete")
  /\ step' = "tdc_apll"
  /\ UNCHANGED <<measMode, deviceVars, requestVars, failures>>

(* TDC_APLL is 0 when the image names no frequency or the feedback divider *)
(* that is read is 0.                                                      *)
ReadTdcApll ==
  /\ step = "tdc_apll"
  /\ step' = "idle" /\ binding' = FALSE
  /\ UNCHANGED <<driverVars, deviceVars, want, firmware, askedAt, result, late, binds, failures>>

-----------------------------------------------------------------------------
(* set_tdc_meas_mode: the TDC is disabled, its mode changed, and enabled   *)
(* again for continuous measurement; the mode is cached before that.       *)

(* What follows once the mode is set.                                      *)
NextStep ==
  IF binding THEN "time_ref" ELSE IF want = ONE_SHOT THEN "start" ELSE "wait"

rsmu_fc3_get_tdc_meas(m) ==
  /\ step = "idle" /\ binds > 0
  /\ want' = m
  /\ askedAt' = made
  /\ result' = 0
  /\ step' = IF measMode # m THEN "disable"
           ELSE IF m = CONTINUOUS THEN "overrun" ELSE "start"
  /\ UNCHANGED <<driverVars, deviceVars, binding, firmware, late, binds, failures>>

MutantDisable ==
  /\ step = "disable"
  /\ step' = "configure"
  /\ UNCHANGED <<driverVars, deviceVars, requestVars, failures>>
Disable ==
  /\ step = "disable"
  /\ running' = FALSE /\ started' = FALSE
  /\ fifo' = IF ClearsOnDisable THEN <<>> ELSE fifo
  /\ step' = "configure"
  /\ UNCHANGED <<hwMode, made, driverVars, requestVars, failures>>

MutantCached == IF want = CONTINUOUS THEN measMode ELSE want
Cached == want

Configure ==
  /\ step = "configure"
  /\ hwMode' = want
  /\ measMode' = Cached
  /\ step' = IF want = ONE_SHOT THEN NextStep ELSE "enable"
  /\ UNCHANGED <<running, started, fifo, made, timeRef, requestVars, failures>>

Enable ==
  /\ step = "enable"
  /\ running' = TRUE
  /\ step' = NextStep
  /\ UNCHANGED <<hwMode, started, fifo, made, driverVars, requestVars, failures>>

-----------------------------------------------------------------------------
(* Fetching a measurement. *)

(* A continuous measurement starts over when the FIFO has filled up.       *)
CheckOverrun ==
  /\ step = "overrun"
  /\ IF Len(fifo) = FifoDepth THEN measMode' = Invalid /\ step' = "disable"
     ELSE measMode' = measMode /\ step' = "wait"
  /\ UNCHANGED <<timeRef, deviceVars, requestVars, failures>>

StartMeasurement ==
  /\ step = "start"
  /\ started' = TRUE
  /\ step' = "wait"
  /\ UNCHANGED <<hwMode, running, fifo, made, driverVars, requestVars, failures>>

FifoFilled ==
  /\ step = "wait" /\ fifo # <<>>
  /\ step' = "read"
  /\ UNCHANGED <<driverVars, deviceVars, requestVars, failures>>

(* Five seconds are over. *)
MutantTimeout == FALSE
Timeout ==
  /\ step = "wait" /\ fifo = <<>>
  /\ late' = TRUE
  /\ step' = "idle"
  /\ UNCHANGED <<driverVars, deviceVars, want, binding, firmware, askedAt, result, binds,
                 failures>>

(* A status that could not be read is whatever val held, and read_poll     *)
(* looks at nothing else: it polls on, or takes the FIFO for filled.       *)
StatusFails ==
  /\ step = "wait"
  /\ Fault
  /\ step' \in {"wait", "read"}
  /\ UNCHANGED <<driverVars, deviceVars, requestVars>>

(* The oldest measurement is converted; an empty FIFO yields garbage,      *)
(* which is no measurement.                                                *)
ReadMeasurement ==
  /\ step = "read"
  /\ result' = IF fifo = <<>> THEN 0 ELSE Head(fifo)
  /\ fifo' = IF fifo = <<>> THEN fifo ELSE Tail(fifo)
  /\ step' = "idle"
  /\ UNCHANGED <<hwMode, running, started, made, driverVars, want, binding,
                 firmware, askedAt, late, binds, failures>>

(* The request for the oldest measurement may reach the device and fail.   *)
ReadMeasurementFails ==
  /\ step = "read"
  /\ Fault
  /\ fifo' \in {fifo, IF fifo = <<>> THEN fifo ELSE Tail(fifo)}
  /\ step' = "idle"
  /\ UNCHANGED <<hwMode, running, started, made, driverVars, requestVars>>

-----------------------------------------------------------------------------
(* The device measures; a measurement that finds the FIFO full is lost.    *)
Measure ==
  /\ made < MaxMade
  /\ running \/ started
  /\ made' = made + 1
  /\ fifo' = IF Len(fifo) < FifoDepth THEN Append(fifo, made') ELSE fifo
  /\ started' = FALSE
  /\ UNCHANGED <<step, hwMode, running, driverVars, requestVars, failures>>

DriverStep ==
  \/ ReadTimeRef \/ ReadTdcApll
  \/ Disable \/ Configure \/ Enable
  \/ CheckOverrun \/ StartMeasurement \/ FifoFilled \/ Timeout \/ ReadMeasurement
  \/ \E at \in {"disable", "configure", "enable", "time_ref", "tdc_apll", "overrun", "start"} :
       Fails(at)
  \/ StatusFails \/ ReadMeasurementFails

TdcNext ==
  \/ Bind \/ (\E m \in Modes : rsmu_fc3_get_tdc_meas(m)) \/ DriverStep
  \/ Measure

TdcSpec == TdcInit /\ [][TdcNext]_tdcVars

(* A request that has the mutex goes on; the device need not measure.      *)
Fairness == WF_tdcVars(DriverStep)

-----------------------------------------------------------------------------
(* The cached mode is the mode of the device once a firmware was loaded    *)
(* and the first mode switch succeeded, wherever later switches failed and *)
(* however often the FIFO overran.                                         *)
ModeIsKnown ==
  step = "idle" /\ timeRef => measMode \in {hwMode, Invalid}

(* A one shot request returns a measurement made after it was asked for,   *)
(* if disabling the TDC empties the FIFO and nothing timed out or failed.  *)
OneShotIsFresh ==
  ClearsOnDisable /\ ~late /\ failures = 0 /\ step = "idle" /\ want = ONE_SHOT /\ result # 0
    => result > askedAt

(* Every request returns: the mutex of the whole device is not kept by a   *)
(* measurement that never comes.                                           *)
RequestsReturn == step # "idle" ~> step = "idle"
=============================================================================
