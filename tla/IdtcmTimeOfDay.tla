--------------------------- MODULE IdtcmTimeOfDay ---------------------------
(***************************************************************************)
(* Setting the time of day of the ClockMatrix PTP hardware clocks          *)
(* (linux/drivers/ptp/ptp_clockmatrix.c) in both forms the driver has:     *)
(*                                                                         *)
(*  - deprecated, for old firmware: the clock is read, the time to set is  *)
(*    computed by the driver and written to a register whose write the     *)
(*    device has been armed for, and the outputs are synchronised;         *)
(*  - through the SCSR registers: the time, or the difference, is written  *)
(*    to a buffer, a command selects how it is used, and the driver polls  *)
(*    until the device has used it.                                        *)
(*                                                                         *)
(* An operation holds the mutex of the device from beginning to end, so    *)
(* one is under way at a time; time passes meanwhile.  A clock is its      *)
(* offset from that time.  A periodic output is enabled by one bit; then 0 *)
(* is added to the clock, through SCSR, which aligns the output with it.   *)
(*                                                                         *)
(* Outputs are driven by PLLs, Q8 and Q11 by one of two; a clock has the   *)
(* outputs that its output_mask names, and synchronises their PLLs.        *)
(***************************************************************************)
EXTENDS Integers

CONSTANTS
  Clocks,     \* the PTP clocks of the device
  OutputMask, \* per clock: the outputs in its output_mask
  Muxes,      \* settings of the multiplexers of Q8 and Q11
  PerOutputs, \* outputs that are enabled and disabled
  Forms,      \* values of deprecated a device may be found with
  Times,      \* times that are set
  Deltas,     \* corrections that are too large for a pull-in
  MaxNow,     \* bound on time
  MaxOps,     \* bound on operations
  MaxErrors   \* bound on failed bus transfers

ASSUME TimeOfDayAssumption ==
  /\ OutputMask \in [Clocks -> SUBSET (0 .. 11)]
  /\ Muxes \subseteq [out8 : BOOLEAN, out11 : BOOLEAN]
  /\ PerOutputs \subseteq 0 .. 11
  /\ Forms \subseteq BOOLEAN
  /\ Times \subseteq Nat
  /\ Deltas \subseteq Int
  /\ MaxNow \in Nat /\ MaxOps \in Nat /\ MaxErrors \in Nat

Plls == 0 .. 7

VARIABLES
  deprecated,  \* which of the two forms the firmware asks for
  mux,         \* are Q8 and Q11 driven by the PLL of Q9 and of Q10
  pc,          \* the step the operation is at, "idle" between operations
  op,          \* its kind, its clock and the time or difference
  ts,          \* the time it is to set
  overhead,    \* calculate_overhead_flag
  start,       \* start_time
  unsynced,    \* PLLs the operation has still to synchronise
  failed,      \* has the operation failed
  before,      \* offset of its clock and time when the operation began
  now,         \* time
  offset,      \* per clock: its offset
  armed,       \* per clock: the device waits for a write of HW_DPLL_TOD_OVR__0
  buffer,      \* per clock: TOD_WRITE
  command,     \* per clock: TOD_WRITE_CMD, "none" when the device has used TOD_WRITE
  inReset,     \* PLLs whose master sync is in reset
  enabled,     \* periodic outputs that are enabled
  synced,      \* PLLs the operation has synchronised
  late,        \* has an operation timed out
  ops,         \* operations so far
  errs         \* failed bus transfers so far

driverVars == <<ts, overhead, start, unsynced>>
todVars    == <<offset, armed, buffer, command>>
syncVars   == <<inReset, synced>>
deviceVars == <<todVars, syncVars, enabled>>
callVars   == <<deprecated, mux, op, before, ops>>
vars == <<pc, failed, driverVars, deviceVars, callVars, now, late, errs>>

Ops ==
  [kind : {"settime"}, clock : Clocks, arg : Times] \cup
  [kind : {"adjtime"}, clock : Clocks, arg : Deltas] \cup
  [kind : {"gettime"}, clock : Clocks, arg : {0}] \cup
  [kind : {"enable", "disable"}, clock : Clocks, arg : {0}, out : PerOutputs]

Perout(o) == o.kind \in {"enable", "disable"}

TypeOK ==
  /\ deprecated \in BOOLEAN /\ mux \in Muxes /\ overhead \in BOOLEAN
  /\ failed \in BOOLEAN /\ late \in BOOLEAN
  /\ pc \in {"idle", "overhead", "read", "configure", "arm", "write", "sync",
             "output", "buffer", "command", "poll", "done"}
  /\ op \in Ops
  /\ ts \in Int
  /\ start \in 0 .. now
  /\ unsynced \in SUBSET Plls
  /\ before \in [offset : Int, now : 0 .. now]
  /\ now \in 0 .. MaxNow
  /\ offset \in [Clocks -> Int]
  /\ armed \in [Clocks -> BOOLEAN]
  /\ buffer \in [Clocks -> Nat]
  /\ command \in [Clocks -> {"none", "absolute", "plus", "minus"}]
  /\ inReset \subseteq Plls /\ synced \subseteq Plls
  /\ enabled \subseteq PerOutputs
  /\ ops \in 0 .. MaxOps
  /\ errs \in 0 .. MaxErrors

Init ==
  /\ deprecated \in Forms /\ mux \in Muxes
  /\ pc = "idle" /\ failed = FALSE
  /\ op \in Ops /\ op.kind = "gettime"
  /\ ts = 0
  /\ overhead = FALSE
  /\ start = 0
  /\ unsynced = {}
  /\ before = [offset |-> 0, now |-> 0]
  /\ now = 0
  /\ offset = [c \in Clocks |-> 0]
  /\ armed = [c \in Clocks |-> FALSE]
  /\ buffer = [c \in Clocks |-> 0]
  /\ command = [c \in Clocks |-> "none"]
  /\ inReset = {} /\ synced = {}
  /\ enabled = {}
  /\ late = FALSE /\ ops = 0 /\ errs = 0

At(step) == pc = step /\ UNCHANGED <<callVars, now>>
Goto(step) == pc' = step /\ UNCHANGED <<failed, late, errs>>

(* A transfer fails and the operation with it. *)
Fail ==
  /\ errs < MaxErrors /\ errs' = errs + 1
  /\ pc' = "done" /\ failed' = TRUE
  /\ UNCHANGED late

-----------------------------------------------------------------------------
(* An operation begins and ends. *)

Begin(o) ==
  /\ pc = "idle" /\ ops < MaxOps
  /\ ops' = ops + 1
  /\ op' = o
  /\ before' = [offset |-> offset[o.clock], now |-> now]
  /\ failed' = FALSE
  /\ ts' = o.arg
  /\ synced' = {}
  /\ overhead' = (overhead \/ (o.kind = "adjtime" /\ deprecated))
  /\ pc' = CASE o.kind = "gettime" -> "read"
             [] Perout(o) -> "output"
             [] ~deprecated /\ o.kind \in {"settime", "adjtime"} -> "buffer"
             [] deprecated /\ o.kind = "adjtime" -> "overhead"
             [] deprecated /\ o.kind = "settime" -> "configure"
  /\ UNCHANGED <<deprecated, mux, start, unsynced, todVars, inReset, enabled, now, late, errs>>

Return ==
  /\ At("done")
  /\ Goto("idle")
  /\ UNCHANGED <<driverVars, deviceVars>>

-----------------------------------------------------------------------------
(* The deprecated form. *)

(* The device takes over what is written to HW_DPLL_TOD_OVR__0 when it has *)
(* been armed.                                                             *)
WriteOvr(value) ==
  /\ offset' = [offset EXCEPT ![op.clock] = IF armed[op.clock] THEN value - now ELSE @]
  /\ armed' = [armed EXCEPT ![op.clock] = FALSE]
  /\ UNCHANGED <<buffer, command, syncVars, enabled>>

(* The time a write takes is measured by writing zeros. *)
MeasureOverhead ==
  /\ At("overhead")
  /\ WriteOvr(0)
  /\ Goto("read")
  /\ UNCHANGED driverVars

MeasureOverheadFails ==
  /\ At("overhead")
  /\ WriteOvr(0) \/ UNCHANGED deviceVars
  /\ Fail
  /\ UNCHANGED driverVars

(* start_time is taken when the time is read, if the flag is up.           *)
StartTime == start' = IF overhead THEN now ELSE start

ReadTime ==
  /\ At("read")
  /\ StartTime
  /\ ts' = offset[op.clock] + now + op.arg
  /\ Goto(IF op.kind = "gettime" THEN "done" ELSE "configure")
  /\ UNCHANGED <<overhead, unsynced, deviceVars>>

ReadTimeFails ==
  /\ At("read")
  /\ StartTime \/ UNCHANGED start
  /\ Fail
  /\ UNCHANGED <<ts, overhead, unsynced, deviceVars>>

(* The trigger is selected, with the device disarmed, and then armed; the  *)
(* result of arming is overwritten by the one of the write that follows.   *)
SetArmed(value) ==
  /\ armed' = [armed EXCEPT ![op.clock] = value]
  /\ UNCHANGED <<driverVars, offset, buffer, command, syncVars, enabled>>

Configure == At("configure") /\ SetArmed(FALSE) /\ Goto("arm")

Arm == At("arm") /\ SetArmed(TRUE) /\ Goto("write")

ConfigureFails == At("configure") /\ Fail /\ UNCHANGED <<driverVars, deviceVars>>

ArmFails ==
  /\ At("arm")
  /\ errs < MaxErrors /\ errs' = errs + 1
  /\ pc' = "write"
  /\ UNCHANGED <<failed, late, driverVars, deviceVars>>

(* With the flag up the time since the clock was read is added.            *)
MutantElapsed == 0
Elapsed == IF overhead THEN now - start ELSE 0

(* The outputs a PLL synchronises, as the bits of output_mask are shifted  *)
(* out.                                                                    *)
MutantOutputsOf(p) ==
  CASE p < 4 -> {2 * p, 2 * p + 1}
    [] p = 4 -> {8}
    [] p = 5 -> {9}
    [] p = 6 -> IF mux.out11 THEN {10, 11} ELSE {10}
    [] p = 7 -> IF mux.out11 THEN {} ELSE {11}
OutputsOf(p) ==
  CASE p < 4 -> {2 * p, 2 * p + 1}
    [] p = 4 -> IF mux.out8 THEN {} ELSE {8}
    [] p = 5 -> IF mux.out8 THEN {8, 9} ELSE {9}
    [] p = 6 -> IF mux.out11 THEN {10, 11} ELSE {10}
    [] p = 7 -> IF mux.out11 THEN {} ELSE {11}

PllsOf(c) == {p \in Plls : OutputsOf(p) \cap OutputMask[c] # {}}

WriteTime ==
  /\ At("write")
  /\ WriteOvr(ts + Elapsed)
  /\ overhead' = FALSE
  /\ unsynced' = PllsOf(op.clock)
  /\ Goto("sync")
  /\ UNCHANGED <<ts, start>>

WriteTimeFails ==
  /\ At("write")
  /\ overhead' = FALSE
  /\ Fail
  /\ UNCHANGED <<ts, start, unsynced, deviceVars>>

(* The PLLs are synchronised in their order, each by a reset.              *)
NextPll(p) == p \in unsynced /\ \A q \in unsynced : p <= q

Synced(p) == synced' = synced \cup {p}

SyncPll(p) ==
  /\ At("sync") /\ NextPll(p)
  /\ inReset' = inReset \ {p} /\ Synced(p)
  /\ unsynced' = unsynced \ {p}
  /\ Goto("sync")
  /\ UNCHANGED <<ts, overhead, start, todVars, enabled>>

SyncPllFails(p) ==
  /\ At("sync") /\ NextPll(p)
  /\ inReset' \in {inReset \cup {p}, inReset, inReset \ {p}}
  /\ Fail
  /\ UNCHANGED <<driverVars, todVars, synced, enabled>>

(* How Q8 and Q11 are driven cannot be read. *)
MuxReadFails ==
  /\ At("sync") /\ unsynced = PllsOf(op.clock)
  /\ Fail
  /\ UNCHANGED <<driverVars, deviceVars>>

SyncDone ==
  /\ At("sync") /\ unsynced = {}
  /\ Goto("done")
  /\ UNCHANGED <<driverVars, deviceVars>>

-----------------------------------------------------------------------------
(* Through the SCSR registers; an output is enabled or disabled, and then  *)
(* nothing is added to the clock, with either firmware.                    *)

OutputSet ==
  enabled' = IF op.kind = "enable" THEN enabled \cup {op.out} ELSE enabled \ {op.out}

EnableOutput ==
  /\ At("output")
  /\ OutputSet
  /\ Goto("buffer")
  /\ UNCHANGED <<driverVars, todVars, syncVars>>

EnableOutputFails ==
  /\ At("output")
  /\ OutputSet \/ UNCHANGED enabled
  /\ Fail
  /\ UNCHANGED <<driverVars, todVars, syncVars>>

Type ==
  IF op.kind = "settime" THEN "absolute" ELSE IF op.arg >= 0 THEN "plus" ELSE "minus"

(* TOD_WRITE holds no sign. *)
Magnitude == IF ts < 0 THEN -ts ELSE ts

WriteBuffer ==
  /\ At("buffer")
  /\ buffer' = [buffer EXCEPT ![op.clock] = Magnitude]
  /\ Goto("command")
  /\ UNCHANGED <<driverVars, offset, armed, command, syncVars, enabled>>

WriteCommand ==
  /\ At("command")
  /\ command' = [command EXCEPT ![op.clock] = Type]
  /\ Goto("poll")
  /\ UNCHANGED <<driverVars, offset, armed, buffer, syncVars, enabled>>

WasUsed == command[op.clock] = "none"

Poll ==
  /\ At("poll") /\ WasUsed
  /\ Goto("done")
  /\ UNCHANGED <<driverVars, deviceVars>>

(* Twenty polls have found the command still there. *)
PollTimeout ==
  /\ At("poll") /\ ~WasUsed
  /\ pc' = "done" /\ failed' = TRUE /\ late' = TRUE
  /\ UNCHANGED <<errs, driverVars, deviceVars>>

ScsrFails ==
  /\ \E step \in {"buffer", "command", "poll"} : At(step)
  /\ Fail
  /\ UNCHANGED <<driverVars, deviceVars>>

-----------------------------------------------------------------------------
(* The device and time. *)

UseBuffer(c) ==
  /\ command[c] # "none"
  /\ command' = [command EXCEPT ![c] = "none"]
  /\ offset' = [offset EXCEPT ![c] =
       CASE command[c] = "absolute" -> buffer[c] - now
         [] command[c] = "plus"     -> @ + buffer[c]
         [] command[c] = "minus"    -> @ - buffer[c]]
  /\ UNCHANGED <<pc, failed, driverVars, armed, buffer, syncVars, enabled, callVars, now,
                 late, errs>>

Tick ==
  /\ now < MaxNow
  /\ now' = now + 1
  /\ UNCHANGED <<pc, failed, driverVars, deviceVars, callVars, late, errs>>

DeprecatedStep ==
  \/ MeasureOverhead \/ MeasureOverheadFails
  \/ Configure \/ ConfigureFails \/ Arm \/ ArmFails
  \/ WriteTime \/ WriteTimeFails
  \/ (\E p \in Plls : SyncPll(p) \/ SyncPllFails(p)) \/ MuxReadFails \/ SyncDone

Next ==
  \/ (\E o \in Ops : Begin(o)) \/ Return
  \/ ReadTime \/ ReadTimeFails
  \/ DeprecatedStep
  \/ EnableOutput \/ EnableOutputFails
  \/ WriteBuffer \/ WriteCommand \/ Poll \/ PollTimeout \/ ScsrFails
  \/ \E c \in Clocks : UseBuffer(c)
  \/ Tick

Spec == Init /\ [][Next]_vars

-----------------------------------------------------------------------------
Succeeded(kind) == pc = "done" /\ ~failed /\ op.kind = kind

(* A settime that succeeds has set the clock: it showed the time asked for *)
(* at some moment of the call.  An adjtime that succeeds has moved the     *)
(* clock by exactly delta, however long the driver took between reading    *)
(* the clock and writing it.  Enabling or disabling an output has done     *)
(* that and not moved the clock.  All as long as nothing ever failed: what *)
(* a failed operation leaves behind spoils later ones that succeed.        *)
SetAsAsked ==
  errs = 0 /\ ~late =>
    /\ Succeeded("settime") => op.arg - offset[op.clock] \in before.now .. now
    /\ Succeeded("adjtime") => offset[op.clock] = before.offset + op.arg
    /\ Succeeded("enable") => offset[op.clock] = before.offset /\ op.out \in enabled
    /\ Succeeded("disable") => offset[op.clock] = before.offset /\ op.out \notin enabled

(* The PLL that drives an output.                                          *)
Driver(o) ==
  CASE o \in 0 .. 7 -> o \div 2
    [] o = 8        -> IF mux.out8 THEN 5 ELSE 4
    [] o = 9        -> 5
    [] o = 10       -> 6
    [] o = 11       -> IF mux.out11 THEN 6 ELSE 7

(* After every success in the deprecated form all outputs of the clock     *)
(* have been synchronised and run again, also those an earlier failure, of *)
(* any clock, had left in reset.                                           *)
SuccessRestoresOutputs ==
  deprecated /\ (Succeeded("settime") \/ Succeeded("adjtime")) =>
    \A o \in OutputMask[op.clock] : Driver(o) \in synced \ inReset
=============================================================================
