--------------------------- MODULE SabreTimeOfDay ---------------------------
(***************************************************************************)
(* Setting the time of day of the 82P33 PTP hardware clocks                *)
(* (linux/drivers/ptp/ptp_idt82p33.c).  The time to set is written to      *)
(* TOD_CNFG; the write trigger decides when the clock takes it over: on    *)
(* the write of the most significant byte, for settime, or on the clock's  *)
(* next full second, for adjtime, which so neither loses nor gains the     *)
(* time its transfers take.  An adjtime by a fraction of a second is       *)
(* followed, one second later, by a work that moves the clock by nothing   *)
(* in the same way and so aligns its outputs.  When the triggered adjtime  *)
(* fails the clock is read, and the time it should show is set at once.    *)
(*                                                                         *)
(* An operation holds the mutex of the device from beginning to end, so    *)
(* one is under way at a time; time, counted in ticks, passes meanwhile.   *)
(* A clock is its offset from that time.                                   *)
(***************************************************************************)
EXTENDS Integers

CONSTANTS
  Clocks,     \* the PTP clocks of the device
  Times,      \* times that are set
  Deltas,     \* corrections that are too large for a pull-in
  Second,     \* ticks in NSEC_PER_SEC
  Guard,      \* ticks before a full second that are too close to it
  Immediate,  \* IMMEDIATE_SNAP_THRESHOLD_NS in ticks
  Torn,       \* what TOD_CNFG holds when only some of its bytes were written
  Never,      \* due time of a work that is not queued
  MaxNow,     \* bound on time
  MaxOps,     \* bound on operations
  MaxFailures  \* bound on failed bus transfers

ASSUME SabreTimeAssumption ==
  /\ Times \subseteq Nat /\ Deltas \subseteq Int
  /\ Second \in Nat /\ Guard \in Nat /\ 0 < Guard /\ 2 * Guard < Second
  /\ Immediate \in Nat /\ Torn \in Int
  /\ MaxNow \in Nat /\ MaxOps \in Nat /\ MaxFailures \in Nat
  /\ Never \notin Int

VARIABLES
  stage,     \* the step the operation is at, "idle" between operations
  op,        \* its kind, its clock and the time or difference
  ts,        \* the time it writes
  failed,    \* has it failed
  overhead,  \* calculate_overhead_flag, of the whole device
  start,     \* start_time
  readAt,    \* when the clock was read, or the delay after that was over
  workDue,   \* per clock: when adjtime_work expires
  enabled,   \* per clock: "no", "measured" or "yes" with idt82p33_enable_tod
  now,       \* time
  offset,    \* per clock: its offset
  cnfg,      \* per clock: TOD_CNFG
  trigger,   \* per clock: write trigger, "none" once the device has used it
  began,     \* when the operation began
  intended,  \* per clock: the offset the operations so far ask for
  crossed,   \* per clock: has an operation failed on it, or has it been read
             \* for a correction when it was not where the others put it
  spoilt,    \* has an adjtime failed since a time was last set
  owing,     \* per clock: has it been moved by a fraction of a second, and
             \* its outputs not been aligned or its time set since
  ops,       \* operations so far
  failures   \* failed bus transfers so far

driverVars  == <<ts, overhead, start, readAt, workDue, enabled>>
deviceVars  == <<offset, cnfg, trigger, owing>>
historyVars == <<began, intended, crossed, spoilt>>
todVars == <<stage, op, failed, driverVars, now, deviceVars, historyVars, ops, failures>>

TodRequests ==
  [kind : {"settime"}, clock : Clocks, arg : Times] \cup
  [kind : {"adjtime"}, clock : Clocks, arg : Deltas] \cup
  [kind : {"gettime"}, clock : Clocks, arg : {0}]

Ops == TodRequests \cup [kind : {"enable", "workaround"}, clock : Clocks, arg : {0}]

TodTypeOK ==
  /\ stage \in {"idle", "arm_msb", "write", "measure", "sync", "read", "delay", "cnfg",
             "arm_pps", "read_now", "done"}
  /\ op \in Ops
  /\ ts \in Int
  /\ failed \in BOOLEAN /\ overhead \in BOOLEAN
  /\ {start, readAt, began, now} \subseteq 0 .. MaxNow
  /\ workDue \in [Clocks -> Nat \cup {Never}]
  /\ enabled \in [Clocks -> {"no", "measured", "yes"}]
  /\ {offset, cnfg, intended} \subseteq [Clocks -> Int]
  /\ trigger \in [Clocks -> {"none", "msb", "pps"}]
  /\ {crossed, owing} \subseteq [Clocks -> BOOLEAN]
  /\ spoilt \in BOOLEAN
  /\ ops \in 0 .. MaxOps
  /\ failures \in 0 .. MaxFailures

(* After the resets of idt82p33_probe. *)
TodInit ==
  /\ stage = "idle" /\ failed = FALSE
  /\ op \in Ops /\ op.kind = "enable"
  /\ ts = 0 /\ overhead = FALSE
  /\ start = 0 /\ readAt = 0 /\ began = 0 /\ now = 0
  /\ spoilt = FALSE
  /\ workDue = [c \in Clocks |-> Never]
  /\ enabled = [c \in Clocks |-> "no"]
  /\ offset = [c \in Clocks |-> 0]
  /\ cnfg = [c \in Clocks |-> 0]
  /\ trigger = [c \in Clocks |-> "none"]
  /\ intended = [c \in Clocks |-> 0]
  /\ crossed = [c \in Clocks |-> TRUE]
  /\ owing = [c \in Clocks |-> FALSE]
  /\ ops = 0 /\ failures = 0

clock == op.clock
Value(c) == now + offset[c]

In(step) == stage = step /\ UNCHANGED <<op, now, began, intended, spoilt, ops>>
At(step) == In(step) /\ UNCHANGED crossed
Goto(step) == stage' = step /\ UNCHANGED <<failed, failures>>

(* A transfer fails and the operation with it. *)
Fail ==
  /\ failures < MaxFailures /\ failures' = failures + 1
  /\ stage' = "done" /\ failed' = TRUE

-----------------------------------------------------------------------------
(* An operation begins and ends. *)

Record(o) ==
  /\ op' = o
  /\ began' = now
  /\ failed' = FALSE
  /\ ts' = o.arg
  /\ UNCHANGED <<overhead, start, readAt, enabled, now, deviceVars, intended, spoilt, failures>>

(* The probe enables one clock after the other, and stops at a failure.    *)
idt82p33_enable_tod(c) ==
  /\ stage = "idle" /\ ~failed /\ enabled[c] = "no"
  /\ Record([kind |-> "enable", clock |-> c, arg |-> 0])
  /\ stage' = "arm_msb"
  /\ UNCHANGED <<workDue, crossed, ops>>

Begin(o) ==
  /\ stage = "idle" /\ ops < MaxOps
  /\ \A c \in Clocks : enabled[c] = "yes"
  /\ Record(o)
  /\ ops' = ops + 1
  /\ stage' = IF o.kind = "settime" THEN "arm_msb" ELSE "read"
  /\ UNCHANGED <<workDue, crossed>>

(* adjtime_work has expired and gets the mutex. *)
idt82p33_adjtime_workaround(c) ==
  /\ stage = "idle" /\ workDue[c] # Never /\ workDue[c] <= now
  /\ Record([kind |-> "workaround", clock |-> c, arg |-> 0])
  /\ workDue' = [workDue EXCEPT ![c] = Never]
  /\ stage' = "read"
  /\ UNCHANGED <<crossed, ops>>

Sets == op.kind \in {"enable", "settime"}

(* The history: a time that was set counts from then on, a correction      *)
(* adds up; a failure leaves nothing to count on until a time is set.      *)
Crossed ==
  IF op.kind = "gettime" THEN crossed[clock]
  ELSE failed \/ (IF Sets THEN spoilt ELSE crossed[clock])

Intended ==
  IF Crossed THEN 0
  ELSE IF Sets THEN offset[clock] ELSE intended[clock] + op.arg

Complete ==
  /\ stage = "done" /\ stage' = "idle"
  /\ intended' = [intended EXCEPT ![clock] = Intended]
  /\ crossed' = [crossed EXCEPT ![clock] = Crossed]
  /\ spoilt' = IF failed THEN spoilt \/ op.kind = "adjtime" ELSE spoilt /\ ~Sets
  /\ began' = 0 /\ ts' = 0 /\ readAt' = 0
  /\ UNCHANGED <<op, failed, overhead, start, workDue, enabled, now, deviceVars, ops, failures>>

-----------------------------------------------------------------------------
(* _idt82p33_settime *)

Take(c, value) ==
  /\ offset' = [offset EXCEPT ![c] = value - now]
  /\ trigger' = [trigger EXCEPT ![c] = "none"]

ArmMsb ==
  /\ At("arm_msb")
  /\ trigger' = [trigger EXCEPT ![clock] = "msb"]
  /\ Goto("write")
  /\ UNCHANGED <<driverVars, offset, cnfg, owing>>

ArmMsbFails ==
  /\ At("arm_msb")
  /\ trigger' = trigger \/ trigger' = [trigger EXCEPT ![clock] = "msb"]
  /\ Fail
  /\ UNCHANGED <<driverVars, offset, cnfg, owing>>

(* With the flag up the time since the clock was read is added.            *)
Elapsed == IF overhead THEN now - start ELSE 0

(* The most significant byte is the last. *)
Written(value) ==
  /\ cnfg' = [cnfg EXCEPT ![clock] = value]
  /\ IF trigger[clock] = "msb" THEN Take(clock, value) ELSE UNCHANGED <<offset, trigger>>

(* The write fails before any byte, between two, or after all of them.     *)
PartlyWritten(value) ==
  \/ cnfg' \in {cnfg, [cnfg EXCEPT ![clock] = Torn]} /\ UNCHANGED <<offset, trigger>>
  \/ Written(value)

MutantWrite ==
  /\ At("write")
  /\ Written(ts + Elapsed)
  /\ owing' = [owing EXCEPT ![clock] = FALSE]
  /\ Goto(IF op.kind # "enable" THEN "done"
          ELSE IF enabled[clock] = "no" THEN "measure" ELSE "sync")
  /\ UNCHANGED <<ts, overhead, start, readAt, workDue, enabled>>
Write ==
  /\ At("write")
  /\ Written(ts + Elapsed)
  /\ overhead' = FALSE
  /\ owing' = [owing EXCEPT ![clock] = FALSE]
  /\ Goto(IF op.kind # "enable" THEN "done"
          ELSE IF enabled[clock] = "no" THEN "measure" ELSE "sync")
  /\ UNCHANGED <<ts, start, readAt, workDue, enabled>>

WriteFails ==
  /\ At("write")
  /\ PartlyWritten(ts + Elapsed)
  /\ overhead' = FALSE
  /\ Fail
  /\ UNCHANGED <<ts, start, readAt, workDue, enabled, owing>>

(* The transfers that are timed to measure the overhead write 0 to the     *)
(* trigger and garbage to the low bytes of TOD_CNFG.                       *)
Measure ==
  /\ At("measure")
  /\ enabled' = [enabled EXCEPT ![clock] = "measured"]
  /\ trigger' = [trigger EXCEPT ![clock] = "none"]
  /\ cnfg' = [cnfg EXCEPT ![clock] = Torn]
  /\ Goto("arm_msb")
  /\ UNCHANGED <<ts, overhead, start, readAt, workDue, offset, owing>>

MeasureFails == At("measure") /\ Fail /\ UNCHANGED <<driverVars, deviceVars>>

(* idt82p33_sync_tod *)
Sync ==
  /\ At("sync")
  /\ enabled' = [enabled EXCEPT ![clock] = "yes"]
  /\ Goto("done")
  /\ UNCHANGED <<ts, overhead, start, readAt, workDue, deviceVars>>

SyncFails == At("sync") /\ Fail /\ UNCHANGED <<driverVars, deviceVars>>

-----------------------------------------------------------------------------
(* _idt82p33_gettime, as a part of each of its callers. *)

(* start_time is taken when the time is read, if the flag is up.           *)
StartTime == start' = IF overhead THEN now ELSE start

Gettime ==
  /\ At("read") /\ op.kind = "gettime"
  /\ StartTime
  /\ Goto("done")
  /\ UNCHANGED <<ts, overhead, readAt, workDue, enabled, deviceVars>>

GettimeFails ==
  /\ At("read") /\ op.kind = "gettime"
  /\ StartTime \/ UNCHANGED start
  /\ Fail
  /\ UNCHANGED <<ts, overhead, readAt, workDue, enabled, deviceVars>>

-----------------------------------------------------------------------------
(* _idt82p33_adjtime_internal_triggered *)

(* Written at a full second, the time has to be that of the next one; of   *)
(* the one after it when the next is so close that it might be missed.     *)
TooClose == Value(clock) % Second >= Second - Guard
NextSecond(skip) == (Value(clock) \div Second + (IF skip THEN 2 ELSE 1)) * Second

(* The history: the clock is read for a correction while another one waits *)
(* for its full second, and is lost; or, falling back, when the triggered  *)
(* adjtime that seemed to fail has taken effect, and corrects it twice.    *)
Crosses == crossed' = [crossed EXCEPT ![clock] = @ \/ offset[clock] # intended[clock]]

ReadTime ==
  /\ In("read") /\ op.kind # "gettime"
  /\ Crosses
  /\ StartTime
  /\ readAt' = now
  /\ ts' = NextSecond(TooClose) + op.arg
  /\ Goto(IF TooClose THEN "delay" ELSE "cnfg")
  /\ UNCHANGED <<overhead, workDue, enabled, deviceVars>>

(* mdelay takes longer than the next full second is away. *)
MutantDelayOver ==
  /\ At("delay")
  /\ readAt' = now
  /\ Goto("cnfg")
  /\ UNCHANGED <<ts, overhead, start, workDue, enabled, deviceVars>>
DelayOver ==
  /\ At("delay") /\ now - readAt >= Guard
  /\ readAt' = now
  /\ Goto("cnfg")
  /\ UNCHANGED <<ts, overhead, start, workDue, enabled, deviceVars>>

(* All bytes in one transfer, which a trigger that waits for the most      *)
(* significant one takes for a settime.                                    *)
MutantSchedule == workDue
Schedule ==
  IF op.arg % Second # 0 /\ workDue[clock] = Never
    THEN [workDue EXCEPT ![clock] = now + Second] ELSE workDue

WriteCnfg ==
  /\ At("cnfg")
  /\ Written(ts)
  /\ workDue' = Schedule
  /\ Goto("arm_pps")
  /\ UNCHANGED <<ts, overhead, start, readAt, enabled, owing>>

ArmPps ==
  /\ At("arm_pps")
  /\ trigger' = [trigger EXCEPT ![clock] = "pps"]
  /\ Goto("done")
  /\ UNCHANGED <<driverVars, offset, cnfg, owing>>

(* A correction forward falls back to _idt82p33_adjtime_immediate, which   *)
(* raises the flag and reads the clock.                                    *)
FallsBack == op.kind = "adjtime" /\ op.arg > Immediate

TriggeredFails ==
  /\ \/ At("read") /\ op.kind # "gettime" /\ UNCHANGED <<cnfg, offset, trigger>>
        /\ (StartTime \/ UNCHANGED start)
     \/ At("cnfg") /\ PartlyWritten(ts) /\ UNCHANGED start
     \/ At("arm_pps") /\ trigger' \in {trigger, [trigger EXCEPT ![clock] = "pps"]}
        /\ UNCHANGED <<start, cnfg, offset>>
  /\ IF FallsBack
       THEN /\ failures < MaxFailures /\ failures' = failures + 1
            /\ stage' = "read_now" /\ overhead' = TRUE
            /\ UNCHANGED failed
       ELSE Fail /\ UNCHANGED overhead
  /\ UNCHANGED <<ts, readAt, workDue, enabled, owing>>

ReadNow ==
  /\ In("read_now")
  /\ Crosses
  /\ StartTime
  /\ ts' = Value(clock) + op.arg
  /\ Goto("arm_msb")
  /\ UNCHANGED <<overhead, readAt, workDue, enabled, deviceVars>>

ReadNowFails ==
  /\ At("read_now")
  /\ StartTime \/ UNCHANGED start
  /\ Fail
  /\ UNCHANGED <<ts, overhead, readAt, workDue, enabled, deviceVars>>

-----------------------------------------------------------------------------
(* The device and time. *)

(* The driver counts on two things.  From reading the clock, or the delay  *)
(* after that, to arming the trigger less time passes than the guard; and  *)
(* the time that the bytes of a settime take is known.  That the probe     *)
(* takes no time is a simplification.                                      *)
InTime ==
  CASE stage \in {"cnfg", "arm_pps"} -> now - readAt < Guard
    [] stage = "delay" -> now - readAt < Guard
    [] stage = "write" \/ (stage # "idle" /\ op.kind = "enable") -> FALSE
    [] OTHER -> TRUE

(* At its full second a clock takes over TOD_CNFG, if armed for that.      *)
FullSecond(c) == trigger[c] = "pps" /\ (now + 1 + offset[c]) % Second = 0

Tick ==
  /\ now < MaxNow /\ InTime
  /\ now' = now + 1
  /\ offset' = [c \in Clocks |-> IF FullSecond(c) THEN cnfg[c] - now' ELSE offset[c]]
  /\ trigger' = [c \in Clocks |-> IF FullSecond(c) THEN "none" ELSE trigger[c]]
  /\ owing' = [c \in Clocks |-> IF FullSecond(c) THEN cnfg[c] % Second # 0 ELSE owing[c]]
  /\ UNCHANGED <<stage, op, failed, driverVars, cnfg, historyVars, ops, failures>>

SettimeStep == ArmMsb \/ ArmMsbFails \/ Write \/ WriteFails

TodNext ==
  \/ \E c \in Clocks : idt82p33_enable_tod(c) \/ idt82p33_adjtime_workaround(c)
  \/ \E o \in TodRequests : Begin(o)
  \/ Complete
  \/ SettimeStep
  \/ Measure \/ MeasureFails \/ Sync \/ SyncFails
  \/ Gettime \/ GettimeFails
  \/ ReadTime \/ DelayOver \/ WriteCnfg \/ ArmPps \/ TriggeredFails
  \/ ReadNow \/ ReadNowFails
  \/ Tick

TodSpec == TodInit /\ [][TodNext]_todVars

-----------------------------------------------------------------------------
Settled(c) == stage = "idle" /\ trigger[c] = "none" /\ ~crossed[c]

(* Once no correction waits for its full second a clock is where the       *)
(* operations have put it: the adjtimes have moved it by exactly the sum   *)
(* of their deltas, each at its full second or by the immediate write, and *)
(* the work that aligns the outputs has not moved it, also when the next   *)
(* adjtime begins before that work has run or taken effect.  Operations on *)
(* the other clock, which share the flag and its time, do not disturb      *)
(* this.  It is not so, until a time is set, in three cases: an operation  *)
(* has failed on this clock; an adjtime, or the alignment work, has read   *)
(* it while a correction waited for its full second, which is lost though  *)
(* its adjtime returned 0; or an adjtime has fallen back when its          *)
(* triggered write, which reported an error, took effect, and counts       *)
(* twice.                                                                  *)
ClockAsIntended == \A c \in Clocks : Settled(c) => offset[c] = intended[c]

(* A settime that succeeds sets the clock, whatever settime failed before  *)
(* and whatever correction it overtakes, or one that had to fall back to   *)
(* the immediate write: the clock showed the time asked for at some moment *)
(* of the call.  Only an adjtime that failed, of any clock, leaves a flag  *)
(* up that adds to the time.                                               *)
SettimeSets ==
  stage = "done" /\ ~failed /\ Sets /\ ~spoilt => op.arg - offset[clock] \in began .. now

(* A clock that was moved by a fraction of a second at a full second gets  *)
(* its outputs aligned: the work is queued, however soon it was queued     *)
(* before the correction took effect, also when it was queued for an       *)
(* earlier correction; unless a transfer failed, or a correction was lost  *)
(* or counted twice as above.                                              *)
AlignmentFollows ==
  \A c \in Clocks :
    Settled(c) /\ failures = 0 /\ owing[c] => workDue[c] # Never
=============================================================================
