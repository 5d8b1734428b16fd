------------------------ MODULE IdtcmTimeOfDay_proofs ------------------------
(***************************************************************************)
(* Proofs about IdtcmTimeOfDay: its state keeps its type, a settime or     *)
(* adjtime of the deprecated form that succeeds leaves all outputs of the  *)
(* clock running, for any clocks, PLLs, times and failures, and without    *)
(* failures every operation that succeeds has done what it was asked for.  *)
(***************************************************************************)
EXTENDS IdtcmTimeOfDay, TLAPS

LEMMA ArgsTyped == Times \subseteq Int /\ Deltas \subseteq Int
BY TimeOfDayAssumption DEF TimeOfDayAssumption

LEMMA OpsTyped ==
  ASSUME NEW o \in Ops
  PROVE  o.clock \in Clocks /\ o.arg \in Int
<1>1. CASE o \in [kind : {"settime"}, clock : Clocks, arg : Times]
  BY <1>1, ArgsTyped
<1>2. CASE o \in [kind : {"adjtime"}, clock : Clocks, arg : Deltas]
  BY <1>2, ArgsTyped
<1>3. CASE o \in [kind : {"gettime"}, clock : Clocks, arg : {0}]
  BY <1>3
<1>4. CASE o \in [kind : {"enable", "disable"}, clock : Clocks, arg : {0}, out : PerOutputs]
  BY <1>4
<1> QED
  BY <1>1, <1>2, <1>3, <1>4 DEF Ops

LEMMA OutputTyped ==
  ASSUME NEW o \in Ops, o.kind \in {"enable", "disable"}
  PROVE  o.out \in PerOutputs
BY DEF Ops

(* Where an operation goes when it begins.                                 *)
LEMMA BeginStep ==
  ASSUME NEW o \in Ops, deprecated \in BOOLEAN, Begin(o)
  PROVE  /\ pc' \in {"read", "output", "buffer", "overhead", "configure"}
         /\ deprecated /\ ~Perout(o) => pc' \notin {"output", "buffer"}
<1>1. o.kind \in {"settime", "adjtime", "gettime", "enable", "disable"}
  BY DEF Ops
<1> QED BY <1>1 DEF Begin, Perout

LEMMA TypeInit == Init => TypeOK
<1> SUFFICES ASSUME Init PROVE TypeOK
  OBVIOUS
<1>1. before \in [offset : Int, now : 0 .. now] /\ start \in 0 .. now
  BY DEF Init
<1>2. now \in 0 .. MaxNow /\ ops \in 0 .. MaxOps /\ errs \in 0 .. MaxErrors
  BY TimeOfDayAssumption DEF Init, TimeOfDayAssumption
<1>3. deprecated \in BOOLEAN /\ mux \in Muxes
  BY TimeOfDayAssumption DEF Init, TimeOfDayAssumption
<1> QED
  BY <1>1, <1>2, <1>3 DEF Init, TypeOK

LEMMA FaultCounts ==
  ASSUME errs \in 0 .. MaxErrors, errs < MaxErrors, errs' = errs + 1
  PROVE  errs' \in 0 .. MaxErrors
BY TimeOfDayAssumption DEF TimeOfDayAssumption

-----------------------------------------------------------------------------
LEMMA TypeStep == TypeOK /\ [Next]_vars => TypeOK'
<1> SUFFICES ASSUME TypeOK, [Next]_vars PROVE TypeOK'
  OBVIOUS
<1> USE TimeOfDayAssumption DEF TypeOK, TimeOfDayAssumption
<1>op. op.clock \in Clocks /\ op.arg \in Int
  BY OpsTyped
<1>1. ASSUME NEW o \in Ops, Begin(o) PROVE TypeOK'
  <2>1. o.clock \in Clocks /\ o.arg \in Int
    BY OpsTyped
  <2>2. before' \in [offset : Int, now : 0 .. now']
    BY <1>1, <2>1 DEF Begin
  <2>3. ops' \in 0 .. MaxOps /\ overhead' \in BOOLEAN /\ ts' \in Int /\ synced' = {}
    BY <1>1, <2>1 DEF Begin
  <2>4. pc' \in {"read", "output", "buffer", "overhead", "configure"}
    BY <1>1, BeginStep
  <2> QED
    BY <1>1, <2>2, <2>3, <2>4 DEF Begin, todVars
<1>2. CASE Return
  BY <1>2 DEF Return, At, Goto, driverVars, deviceVars, todVars, syncVars, callVars
<1>3. CASE ReadTime
  BY <1>3, <1>op DEF ReadTime, StartTime, At, Goto, deviceVars, todVars, syncVars, callVars
<1>4. CASE ReadTimeFails
  BY <1>4 DEF ReadTimeFails, StartTime, At, Fail, deviceVars, todVars, syncVars, callVars
<1>5. CASE MeasureOverhead
  BY <1>5, <1>op DEF MeasureOverhead, WriteOvr, At, Goto, driverVars, callVars, syncVars
<1>6. CASE MeasureOverheadFails
  <2>1. offset' \in [Clocks -> Int] /\ armed' \in [Clocks -> BOOLEAN]
    <3>1. CASE WriteOvr(0)
      BY <3>1, <1>op DEF WriteOvr
    <3>2. CASE UNCHANGED deviceVars
      BY <3>2 DEF deviceVars, todVars, syncVars
    <3> QED
      BY <1>6, <3>1, <3>2 DEF MeasureOverheadFails
  <2>2. UNCHANGED <<buffer, command, inReset, synced, enabled>>
    BY <1>6 DEF MeasureOverheadFails, WriteOvr, deviceVars, todVars, syncVars
  <2> QED
    BY <1>6, <2>1, <2>2, FaultCounts DEF MeasureOverheadFails, At, Fail, driverVars, callVars
<1>7. CASE Configure \/ Arm
  BY <1>7, <1>op DEF Configure, Arm, SetArmed, At, Goto, driverVars, callVars, syncVars
<1>8. CASE ConfigureFails \/ ArmFails
  BY <1>8, FaultCounts DEF ConfigureFails, ArmFails, At, Fail, driverVars, deviceVars, todVars, syncVars, callVars
<1>9. CASE WriteTime
  <2>1. ts + Elapsed \in Int
    BY DEF Elapsed
  <2>2. offset' \in [Clocks -> Int] /\ armed' \in [Clocks -> BOOLEAN]
    BY <1>9, <1>op, <2>1 DEF WriteTime, WriteOvr
  <2>3. UNCHANGED <<buffer, command, inReset, synced, enabled>>
    BY <1>9 DEF WriteTime, WriteOvr, syncVars
  <2>4. unsynced' \in SUBSET Plls
    BY <1>9 DEF WriteTime, PllsOf
  <2> QED
    BY <1>9, <2>2, <2>3, <2>4 DEF WriteTime, At, Goto, callVars
<1>10. CASE WriteTimeFails
  BY <1>10, FaultCounts DEF WriteTimeFails, At, Fail, deviceVars, todVars, syncVars, callVars
<1>11. ASSUME NEW p \in Plls, SyncPll(p) PROVE TypeOK'
  BY <1>11, <1>op DEF SyncPll, Synced, At, Goto, callVars, todVars
<1>12. ASSUME NEW p \in Plls, SyncPllFails(p) PROVE TypeOK'
  <2>1. inReset' \subseteq Plls
    BY <1>12 DEF SyncPllFails
  <2> QED
    BY <1>12, <2>1, FaultCounts DEF SyncPllFails, At, Fail, driverVars, callVars, todVars
<1>13. CASE SyncDone \/ MuxReadFails
  BY <1>13, FaultCounts DEF SyncDone, MuxReadFails, At, Goto, Fail, driverVars, deviceVars,
                            todVars, syncVars, callVars
<1>14. CASE WriteBuffer
  <2>1. Magnitude \in Nat
    BY DEF Magnitude
  <2> QED
    BY <1>14, <1>op, <2>1 DEF WriteBuffer, At, Goto, driverVars, callVars, syncVars
<1>15. CASE WriteCommand
  BY <1>15, <1>op DEF WriteCommand, Type, At, Goto, driverVars, callVars, syncVars
<1>16. CASE Poll \/ PollTimeout
  BY <1>16 DEF Poll, PollTimeout, At, Goto, driverVars, deviceVars, todVars, syncVars, callVars
<1>17. CASE ScsrFails
  BY <1>17 DEF ScsrFails, At, Fail, driverVars, deviceVars, todVars, syncVars, callVars
<1>18. ASSUME NEW c \in Clocks, UseBuffer(c) PROVE TypeOK'
  <2>1. offset' \in [Clocks -> Int]
    BY <1>18 DEF UseBuffer
  <2> QED
    BY <1>18, <2>1 DEF UseBuffer, driverVars, callVars, syncVars
<1>19. CASE Tick
  BY <1>19 DEF Tick, driverVars, deviceVars, todVars, syncVars, callVars
<1>20. CASE EnableOutput \/ EnableOutputFails
  <2>1. op.kind \in {"enable", "disable"} => op.out \in PerOutputs
    BY OutputTyped
  <2> QED
    BY <1>20, <2>1, FaultCounts DEF EnableOutput, EnableOutputFails, OutputSet, At, Goto, Fail,
       driverVars, callVars, todVars, syncVars
<1>21. CASE UNCHANGED vars
  BY <1>21 DEF vars, driverVars, deviceVars, todVars, syncVars, callVars
<1> QED
  BY <1>1, <1>2, <1>3, <1>4, <1>5, <1>6, <1>7, <1>8, <1>9, <1>10, <1>11, <1>12, <1>13, <1>14,
     <1>15, <1>16, <1>17, <1>18, <1>19, <1>20, <1>21
     DEF Next, DeprecatedStep

(* The state of driver and device keeps its type.                          *)
THEOREM TimeOfDayTypes == Spec => []TypeOK
<1>1. QED
  BY TypeInit, TypeStep, PTL DEF Spec

-----------------------------------------------------------------------------
(* The PLL that drives an output of a clock is among those that are        *)
(* synchronised for the clock.                                             *)
LEMMA DriverIsSynced ==
  ASSUME mux \in [out8 : BOOLEAN, out11 : BOOLEAN], NEW c, OutputMask[c] \subseteq 0 .. 11,
         NEW o \in OutputMask[c]
  PROVE  Driver(o) \in PllsOf(c)
<1>1. ASSUME NEW p \in Plls, o \in OutputsOf(p) PROVE p \in PllsOf(c)
  BY <1>1 DEF PllsOf
<1>2. CASE o \in 0 .. 7
  <2>1. o \div 2 \in 0 .. 3 /\ o \in {2 * (o \div 2), 2 * (o \div 2) + 1}
    BY <1>2
  <2>2. o \div 2 \in Plls /\ o \in OutputsOf(o \div 2)
    BY <2>1 DEF OutputsOf, Plls
  <2> QED BY <1>1, <1>2, <2>2 DEF Driver
<1>3. CASE o = 8
  BY <1>1, <1>3 DEF Driver, OutputsOf, Plls
<1>4. CASE o = 9
  BY <1>1, <1>4 DEF Driver, OutputsOf, Plls
<1>5. CASE o = 10
  BY <1>1, <1>5 DEF Driver, OutputsOf, Plls
<1>6. CASE o = 11
  BY <1>1, <1>6 DEF Driver, OutputsOf, Plls
<1> QED BY <1>2, <1>3, <1>4, <1>5, <1>6

(* What makes a success restore the outputs: every write of the time       *)
(* starts over with all PLLs of the clock, and those it is done with have  *)
(* been synchronised and run, whatever earlier operations left in reset.   *)
(* Only the deprecated form gets there, and there settime and adjtime      *)
(* never use the other.                                                    *)
Restoring ==
  /\ pc = "sync" => PllsOf(op.clock) \ unsynced \subseteq synced \ inReset
  /\ deprecated /\ ~Perout(op) => pc \notin {"output", "buffer", "command", "poll"}
  /\ SuccessRestoresOutputs

LEMMA RestoringInit == Init => Restoring
BY DEF Init, Restoring, SuccessRestoresOutputs, Succeeded

LEMMA RestoringStep == TypeOK /\ Restoring /\ [Next]_vars => Restoring'
<1> SUFFICES ASSUME TypeOK, Restoring, [Next]_vars PROVE Restoring'
  OBVIOUS
<1> USE DEF Restoring, SuccessRestoresOutputs, Succeeded
<1>op. /\ op.clock \in Clocks /\ deprecated \in BOOLEAN
       /\ mux \in [out8 : BOOLEAN, out11 : BOOLEAN]
       /\ OutputMask[op.clock] \subseteq 0 .. 11
  BY OpsTyped, TimeOfDayAssumption DEF TypeOK, TimeOfDayAssumption
<1>1. ASSUME NEW o \in Ops, Begin(o) PROVE Restoring'
  <2>1. op' = o /\ deprecated' = deprecated
    BY <1>1 DEF Begin
  <2>2. /\ pc' \notin {"sync", "command", "poll", "done"}
        /\ deprecated /\ ~Perout(o) => pc' \notin {"output", "buffer"}
    BY <1>1, <1>op, BeginStep
  <2> QED BY <2>1, <2>2 DEF Perout
<1>2. CASE Return
  BY <1>2 DEF Return, Goto, At, callVars, Perout
<1>3. CASE ReadTime
  BY <1>3 DEF ReadTime, Goto, At, callVars, Perout
<1>4. CASE \/ ReadTimeFails \/ MeasureOverheadFails \/ ConfigureFails \/ WriteTimeFails
           \/ MuxReadFails \/ EnableOutputFails \/ ScsrFails
  BY <1>4 DEF ReadTimeFails, MeasureOverheadFails, ConfigureFails, WriteTimeFails, MuxReadFails,
              EnableOutputFails, ScsrFails, Fail, At, callVars, Perout
<1>5. CASE MeasureOverhead \/ Configure \/ Arm \/ ArmFails
  BY <1>5 DEF MeasureOverhead, Configure, Arm, ArmFails, Goto, At, callVars, Perout
<1>6. CASE WriteTime
  <2>1. unsynced' = PllsOf(op.clock) /\ UNCHANGED <<op, mux, deprecated>> /\ pc' = "sync"
    BY <1>6 DEF WriteTime, Goto, At, callVars
  <2>2. PllsOf(op.clock)' = unsynced'
    BY <2>1 DEF PllsOf, OutputsOf
  <2> QED BY <2>1, <2>2
<1>7. ASSUME NEW p \in Plls, SyncPll(p) PROVE Restoring'
  <2>1. /\ unsynced' = unsynced \ {p} /\ synced' = synced \cup {p} /\ inReset' = inReset \ {p}
        /\ UNCHANGED <<op, mux, deprecated>> /\ pc = "sync" /\ pc' = "sync"
    BY <1>7 DEF SyncPll, Synced, Goto, At, callVars
  <2>2. PllsOf(op.clock)' = PllsOf(op.clock)
    BY <2>1 DEF PllsOf, OutputsOf
  <2> QED BY <2>1, <2>2
<1>8. ASSUME NEW p \in Plls, SyncPllFails(p) PROVE Restoring'
  BY <1>8 DEF SyncPllFails, Fail, At, callVars, Perout
<1>9. CASE SyncDone
  <2>1. /\ unsynced = {} /\ UNCHANGED <<op, mux, deprecated, synced, inReset>>
        /\ pc = "sync" /\ pc' = "done"
    BY <1>9 DEF SyncDone, Goto, At, deviceVars, syncVars, callVars
  <2>2. \A o \in OutputMask[op.clock] : Driver(o) \in synced \ inReset
    BY <1>op, <2>1, DriverIsSynced
  <2>3. \A o \in OutputMask[op.clock] : Driver(o)' = Driver(o)
    BY <2>1 DEF Driver
  <2> QED BY <2>1, <2>2, <2>3
<1>10. CASE WriteBuffer \/ WriteCommand \/ EnableOutput
  BY <1>10 DEF WriteBuffer, WriteCommand, EnableOutput, Goto, At, callVars, Perout
<1>11. CASE Poll \/ PollTimeout
  BY <1>11 DEF Poll, PollTimeout, Goto, At, callVars, Perout
<1>12. ASSUME UNCHANGED <<pc, failed, unsynced, syncVars, callVars>> PROVE Restoring'
  <2>1. UNCHANGED <<pc, failed, unsynced, synced, inReset, op, mux, deprecated>>
    BY <1>12 DEF syncVars, callVars
  <2>2. PllsOf(op.clock)' = PllsOf(op.clock) /\ \A o : Driver(o)' = Driver(o)
    BY <2>1 DEF PllsOf, OutputsOf, Driver
  <2> QED BY <2>1, <2>2 DEF Perout
<1>13. ASSUME NEW c \in Clocks, UseBuffer(c) PROVE Restoring'
  BY <1>12, <1>13 DEF UseBuffer, driverVars
<1>14. CASE Tick \/ UNCHANGED vars
  BY <1>12, <1>14 DEF Tick, vars, driverVars, deviceVars
<1> QED
  BY <1>1, <1>2, <1>3, <1>4, <1>5, <1>6, <1>7, <1>8, <1>9, <1>10, <1>11, <1>13, <1>14
     DEF Next, DeprecatedStep

(* Every success in the deprecated form leaves the outputs of the clock    *)
(* synchronised and running, whatever failed before.                       *)
THEOREM OutputsRestored == Spec => []SuccessRestoresOutputs
<1>1. Spec => []Restoring
  BY RestoringInit, RestoringStep, TimeOfDayTypes, PTL DEF Spec
<1>2. Restoring => SuccessRestoresOutputs
  BY DEF Restoring
<1> QED
  BY <1>1, <1>2, PTL

-----------------------------------------------------------------------------
(* What an operation asks for, as SetAsAsked has it.                       *)
Done ==
  /\ op.kind = "settime" => op.arg - offset[op.clock] \in before.now .. now
  /\ op.kind = "adjtime" => offset[op.clock] = before.offset + op.arg
  /\ Perout(op) => offset[op.clock] = before.offset
  /\ op.kind = "enable" => op.out \in enabled
  /\ op.kind = "disable" => op.out \notin enabled

OutputDone ==
  /\ op.kind = "enable" => op.out \in enabled
  /\ op.kind = "disable" => op.out \notin enabled

Untouched == offset[op.clock] = before.offset

(* The flag is up from the beginning of an adjtime to its write.           *)
Correcting ==
  op.kind = "adjtime" /\ deprecated /\ pc \in {"overhead", "read", "configure", "arm", "write"}

(* The time that is going to be written, and TOD_WRITE and its command.    *)
TimePrepared ==
  /\ op.kind \in {"settime", "adjtime"}
  /\ op.kind = "settime" => ts = op.arg
  /\ op.kind = "adjtime" => deprecated /\ ts = before.offset + start + op.arg

BufferPrepared == buffer[op.clock] = IF op.arg < 0 THEN -op.arg ELSE op.arg

(* As long as nothing fails the device waits for nothing but what the      *)
(* operation under way has told it to wait for, the flag is that of the    *)
(* adjtime under way, the clock is untouched until the time is prepared,   *)
(* and then is what was asked for.                                         *)
Asking ==
  errs = 0 /\ ~late =>
    /\ ~failed
    /\ \A c \in Clocks : armed[c] => c = op.clock /\ pc = "write"
    /\ \A c \in Clocks : command[c] # "none" => c = op.clock /\ pc = "poll"
    /\ overhead <=> Correcting
    /\ pc \in {"overhead", "read", "configure", "arm", "write", "output", "buffer", "command"}
         => Untouched
    /\ pc = "overhead" => op.kind = "adjtime" /\ deprecated
    /\ pc = "read" => op.kind = "gettime" \/ (op.kind = "adjtime" /\ deprecated)
    /\ pc \in {"configure", "arm", "write"} => TimePrepared
    /\ pc = "write" => armed[op.clock]
    /\ pc = "output" => Perout(op)
    /\ pc \in {"output", "buffer"} => ts = op.arg
    /\ pc \in {"buffer", "command", "poll"} => op.kind # "gettime" /\ OutputDone
    /\ pc = "command" => BufferPrepared
    /\ pc = "poll" =>
         IF command[op.clock] = "none" THEN Done
         ELSE BufferPrepared /\ command[op.clock] = Type /\ Untouched
    /\ pc = "sync" => op.kind \in {"settime", "adjtime"}
    /\ pc \in {"sync", "done"} => Done

LEMMA AskingInit == Init => Asking
BY DEF Init, Asking, Correcting

(* A step that fails or times out ends what Asking speaks of.              *)
LEMMA FailureEnds ==
  ASSUME TypeOK, Fail \/ ArmFails \/ PollTimeout
  PROVE  errs' # 0 \/ late'
BY DEF TypeOK, Fail, ArmFails, PollTimeout

LEMMA SettimeArg ==
  ASSUME NEW o \in Ops, o.kind = "settime"
  PROVE  o.arg \in Nat
BY TimeOfDayAssumption DEF TimeOfDayAssumption, Ops

LEMMA PeroutArg ==
  ASSUME NEW o \in Ops, Perout(o)
  PROVE  o.arg = 0
BY DEF Ops, Perout

LEMMA KindTyped ==
  ASSUME NEW o \in Ops
  PROVE  o.kind \in {"settime", "adjtime", "gettime", "enable", "disable"}
BY DEF Ops

LEMMA WrittenTime ==
  ASSUME WriteTime
  PROVE  /\ offset' = [offset EXCEPT ![op.clock] =
                         IF armed[op.clock] THEN (ts + Elapsed) - now ELSE @]
         /\ armed' = [armed EXCEPT ![op.clock] = FALSE]
         /\ UNCHANGED command
<1>1. WriteOvr(ts + Elapsed)
  BY DEF WriteTime
<1> QED BY <1>1 DEF WriteOvr

LEMMA AskingStep == TypeOK /\ Asking /\ [Next]_vars => Asking'
<1> SUFFICES ASSUME TypeOK, Asking, [Next]_vars, errs' = 0, ~late' PROVE Asking'
  BY DEF Asking
<1>op. /\ op \in Ops /\ op.clock \in Clocks /\ op.arg \in Int
       /\ op.kind \in {"settime", "adjtime", "gettime", "enable", "disable"}
       /\ op.kind = "settime" => op.arg \in Nat
       /\ Perout(op) => op.arg = 0
  BY OpsTyped, KindTyped, SettimeArg, PeroutArg DEF TypeOK
<1>ty. /\ errs \in Nat /\ now \in Nat /\ start \in 0 .. now /\ before.now \in 0 .. now
       /\ before.offset \in Int /\ ts \in Int
       /\ offset \in [Clocks -> Int] /\ armed \in [Clocks -> BOOLEAN]
       /\ buffer \in [Clocks -> Nat]
       /\ command \in [Clocks -> {"none", "absolute", "plus", "minus"}]
       /\ {deprecated, overhead, failed, late} \subseteq BOOLEAN
  BY DEF TypeOK
<1> USE DEF Asking, Correcting, Perout
<1>1. ASSUME NEW o \in Ops, Begin(o) PROVE Asking'
  <2>1. /\ op' = o /\ o.clock \in Clocks /\ o.arg \in Int
        /\ o.kind \in {"settime", "adjtime", "gettime", "enable", "disable"}
    BY <1>1, OpsTyped, KindTyped DEF Begin
  <2>2. /\ pc = "idle" /\ errs = 0 /\ ~late /\ ~failed' /\ ts' = o.arg
        /\ before'.offset = offset'[o.clock]
        /\ overhead' = (overhead \/ (o.kind = "adjtime" /\ deprecated'))
        /\ UNCHANGED <<deprecated, offset, armed, command>>
    BY <1>1 DEF Begin, todVars
  <2>3. /\ o.kind = "gettime" => pc' = "read"
        /\ o.kind \in {"enable", "disable"} => pc' = "output"
        /\ ~deprecated /\ o.kind \in {"settime", "adjtime"} => pc' = "buffer"
        /\ deprecated /\ o.kind = "adjtime" => pc' = "overhead"
        /\ deprecated /\ o.kind = "settime" => pc' = "configure"
    BY <1>1, <1>ty, <2>1 DEF Begin
  <2> QED BY <1>ty, <2>1, <2>2, <2>3 DEF TimePrepared, Untouched, OutputDone
<1>2. CASE Return
  BY <1>2, <1>ty DEF Return, Goto, At, callVars, driverVars, deviceVars, todVars
<1>3. CASE ReadTime
  <2>1. /\ pc = "read" /\ errs = 0 /\ ~late /\ ~failed'
        /\ pc' = IF op.kind = "gettime" THEN "done" ELSE "configure"
        /\ ts' = offset[op.clock] + now + op.arg
        /\ start' = IF overhead THEN now ELSE start
        /\ UNCHANGED <<op, deprecated, before, overhead, now, offset, armed, command>>
    BY <1>3 DEF ReadTime, StartTime, Goto, At, callVars, deviceVars, todVars
  <2> QED BY <1>op, <1>ty, <2>1 DEF TimePrepared, Untouched, Done
<1>4. CASE \/ ReadTimeFails \/ MeasureOverheadFails \/ ConfigureFails \/ WriteTimeFails
           \/ MuxReadFails \/ EnableOutputFails \/ ScsrFails \/ ArmFails \/ PollTimeout
  BY <1>4, FailureEnds DEF ReadTimeFails, MeasureOverheadFails, ConfigureFails, WriteTimeFails,
     MuxReadFails, EnableOutputFails, ScsrFails
<1>5. CASE MeasureOverhead
  <2>1. /\ pc = "overhead" /\ pc' = "read" /\ errs = 0 /\ ~late /\ ~failed'
        /\ offset' = [offset EXCEPT ![op.clock] = IF armed[op.clock] THEN 0 - now ELSE @]
        /\ armed' = [armed EXCEPT ![op.clock] = FALSE]
        /\ UNCHANGED <<op, deprecated, before, overhead, command>>
    BY <1>5 DEF MeasureOverhead, WriteOvr, Goto, At, callVars, driverVars
  <2> QED BY <1>op, <1>ty, <2>1 DEF Untouched
<1>6. CASE Configure \/ Arm
  <2>1. /\ errs = 0 /\ ~late /\ ~failed'
        /\ \/ pc = "configure" /\ pc' = "arm" /\ armed' = [armed EXCEPT ![op.clock] = FALSE]
           \/ pc = "arm" /\ pc' = "write" /\ armed' = [armed EXCEPT ![op.clock] = TRUE]
        /\ UNCHANGED <<op, ts, start, deprecated, before, overhead, offset, command>>
    BY <1>6 DEF Configure, Arm, SetArmed, Goto, At, callVars, driverVars
  <2> QED BY <1>op, <1>ty, <2>1 DEF Untouched, TimePrepared
<1>7. CASE WriteTime
  <2>a. /\ pc = "write" /\ pc' = "sync" /\ errs = 0 /\ ~late /\ UNCHANGED failed
        /\ overhead' = FALSE
        /\ UNCHANGED <<op, before, now>>
    BY <1>7 DEF WriteTime, Goto, At, callVars
  <2>b. /\ offset' = [offset EXCEPT ![op.clock] =
                         IF armed[op.clock] THEN (ts + Elapsed) - now ELSE @]
        /\ armed' = [armed EXCEPT ![op.clock] = FALSE]
        /\ UNCHANGED command
    BY <1>7, WrittenTime
  <2>1. ~failed' /\ ~overhead'
    BY <2>a
  <2>2. offset'[op.clock] = (ts + (IF op.kind = "adjtime" THEN now - start ELSE 0)) - now
    BY <1>op, <1>ty, <2>a, <2>b DEF Elapsed, TimePrepared
  <2> QED BY <1>op, <1>ty, <2>a, <2>b, <2>1, <2>2 DEF TimePrepared, Done
<1>8. CASE (\E p \in Plls : SyncPll(p)) \/ SyncDone
  <2>1. /\ pc = "sync" /\ pc' \in {"sync", "done"} /\ errs = 0 /\ ~late /\ ~failed'
        /\ UNCHANGED <<op, before, now, overhead, offset, armed, command, enabled>>
    BY <1>8 DEF SyncPll, SyncDone, Goto, At, callVars, driverVars, deviceVars, todVars
  <2> QED BY <1>op, <1>ty, <2>1 DEF Done
<1>9. CASE \E p \in Plls : SyncPllFails(p)
  BY <1>9, FailureEnds DEF SyncPllFails
<1>10. CASE EnableOutput
  <2>1. /\ pc = "output" /\ pc' = "buffer" /\ errs = 0 /\ ~late /\ ~failed'
        /\ OutputSet
        /\ UNCHANGED <<op, ts, before, overhead, offset, armed, command>>
    BY <1>10 DEF EnableOutput, Goto, At, callVars, driverVars, todVars
  <2> QED BY <1>op, <1>ty, <2>1 DEF OutputSet, OutputDone, Untouched
<1>11. CASE WriteBuffer
  <2>1. /\ pc = "buffer" /\ pc' = "command" /\ errs = 0 /\ ~late /\ ~failed'
        /\ buffer' = [buffer EXCEPT ![op.clock] = IF ts < 0 THEN -ts ELSE ts]
        /\ UNCHANGED <<op, before, overhead, offset, armed, command, enabled>>
    BY <1>11 DEF WriteBuffer, Magnitude, Goto, At, callVars, driverVars
  <2> QED BY <1>op, <1>ty, <2>1 DEF OutputDone, Untouched, BufferPrepared
<1>12. CASE WriteCommand
  <2>1. /\ pc = "command" /\ pc' = "poll" /\ errs = 0 /\ ~late /\ ~failed'
        /\ command' = [command EXCEPT ![op.clock] = Type]
        /\ UNCHANGED <<op, before, overhead, offset, armed, buffer, enabled>>
    BY <1>12 DEF WriteCommand, Goto, At, callVars, driverVars
  <2>2. Type' = Type /\ Type # "none"
    BY <2>1 DEF Type
  <2> QED BY <1>op, <1>ty, <2>1, <2>2 DEF OutputDone, Untouched, BufferPrepared
<1>13. CASE Poll
  <2>1. /\ pc = "poll" /\ pc' = "done" /\ errs = 0 /\ ~late /\ ~failed'
        /\ command[op.clock] = "none"
        /\ UNCHANGED <<op, before, now, overhead, offset, armed, command, enabled>>
    BY <1>13 DEF Poll, WasUsed, Goto, At, callVars, driverVars, deviceVars, todVars
  <2> QED BY <1>op, <1>ty, <2>1 DEF Done
<1>14. ASSUME NEW c \in Clocks, UseBuffer(c) PROVE Asking'
  <2>1. /\ errs = 0 /\ ~late /\ ~failed' /\ command[c] # "none"
        /\ command' = [command EXCEPT ![c] = "none"]
        /\ offset' = [offset EXCEPT ![c] =
             CASE command[c] = "absolute" -> buffer[c] - now
               [] command[c] = "plus"     -> @ + buffer[c]
               [] command[c] = "minus"    -> @ - buffer[c]]
        /\ UNCHANGED <<pc, op, before, now, overhead, deprecated, armed, enabled>>
    BY <1>14 DEF UseBuffer, driverVars, callVars, syncVars
  <2>2. /\ pc = "poll" /\ c = op.clock /\ BufferPrepared /\ Untouched /\ OutputDone
        /\ command[c] = Type /\ op.kind # "gettime"
    BY <2>1
  <2>3. offset'[c] = IF op.kind = "settime" THEN op.arg - now ELSE before.offset + op.arg
    BY <1>op, <1>ty, <2>1, <2>2 DEF Type, BufferPrepared, Untouched
  <2>4. Done'
    BY <1>op, <1>ty, <2>1, <2>2, <2>3 DEF Done, OutputDone
  <2> QED BY <1>op, <1>ty, <2>1, <2>2, <2>4 DEF OutputDone
<1>15. CASE Tick
  <2>1. /\ errs = 0 /\ ~late /\ now' = now + 1
        /\ UNCHANGED <<pc, failed, op, ts, start, before, overhead, deprecated, offset, armed,
                       buffer, command, enabled>>
    BY <1>15 DEF Tick, driverVars, callVars, deviceVars, todVars
  <2>2. Done => Done'
    BY <1>op, <1>ty, <2>1 DEF Done
  <2> QED BY <1>op, <1>ty, <2>1, <2>2
       DEF TimePrepared, Untouched, OutputDone, BufferPrepared, Type
<1>16. CASE UNCHANGED vars
  BY <1>16 DEF vars, driverVars, callVars, deviceVars, todVars, Done, TimePrepared, Untouched,
               OutputDone, BufferPrepared, Type
<1> QED
  BY <1>1, <1>2, <1>3, <1>4, <1>5, <1>6, <1>7, <1>8, <1>9, <1>10, <1>11, <1>12, <1>13, <1>14,
     <1>15, <1>16 DEF Next, DeprecatedStep

(* As long as nothing fails, settime, adjtime and the requests for outputs *)
(* do exactly what they were asked for, in both forms, for any clocks,     *)
(* times and differences and however long each of their steps takes.       *)
THEOREM OperationsDoAsAsked == Spec => []SetAsAsked
<1>1. Spec => []Asking
  BY AskingInit, AskingStep, TimeOfDayTypes, PTL DEF Spec
<1>2. Asking => SetAsAsked
  BY DEF Asking, Done, SetAsAsked, Succeeded, Perout
<1> QED
  BY <1>1, <1>2, PTL
=============================================================================
