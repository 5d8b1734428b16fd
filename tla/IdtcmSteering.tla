--------------------------- MODULE IdtcmSteering ---------------------------
(***************************************************************************)
(* Frequency and phase steering of one ClockMatrix PTP hardware clock      *)
(* (linux/drivers/ptp/ptp_clockmatrix.c): adjfine, adjtime, adjphase, the  *)
(* auxiliary worker that ends a software phase pull-in, and the removal of *)
(* the clock.                                                              *)
(*                                                                         *)
(* Any number of threads call the operations at once: the posix clock      *)
(* layer only excludes calls from removal.  A call tests phase_pull_in     *)
(* BEFORE it takes the driver's mutex, and adjfine remembers the frequency *)
(* AFTER it has released it; everything between is one critical section,   *)
(* whose bus transfers are steps of their own.                             *)
(*                                                                         *)
(* A register of several bytes is sent byte by byte.  When its write fails *)
(* some of the bytes may have arrived: the register may hold the old       *)
(* value, the new one or neither.  A byte whose own transfer fails has not *)
(* been taken.                                                             *)
(***************************************************************************)
EXTENDS Naturals

CONSTANTS
  Callers,    \* threads that call the clock's operations
  Worker,     \* the kthread worker of the PTP clock
  Nobody,     \* owner of a free mutex
  Freqs,      \* scaled_ppm values callers dial
  ZeroFreq,   \* scaled_ppm of 0
  Torn,       \* base of a frequency word that was written in part
  Firmwares,  \* the values of oldFirmware a device may be found with
  Variants,   \* the values of manualRef a device may be found with
  Removable,  \* may the driver be removed while calls are in flight
  MaxErrors   \* bound on failed bus transfers

ASSUME SteeringAssumption ==
  /\ Worker \notin Callers
  /\ Nobody \notin Callers \cup {Worker}
  /\ ZeroFreq \in Freqs
  /\ Torn \notin Freqs
  /\ Firmwares \subseteq BOOLEAN
  /\ Variants \subseteq BOOLEAN
  /\ Removable \in BOOLEAN
  /\ MaxErrors \in Nat

Actors == Callers \cup {Worker}

(* enum ptp_pll_mode, as cached in channel->mode *)
WriteFrequency == "PTP_PLL_MODE_WRITE_FREQUENCY"
WritePhase     == "PTP_PLL_MODE_WRITE_PHASE"
Unsupported    == "PTP_PLL_MODE_UNSUPPORTED"

VARIABLES
  pc,           \* where each actor is in its operation
  oldFirmware,  \* is the firmware older than V487: the clock is registered
                \* with idtcm_caps_deprecated
  manualRef,    \* TRUE: MANUAL_REFERENCE selects the write mode and pull-in is
                \* done in software; FALSE: PLL_MODE selects it and pull-in is
                \* the firmware's; found out when the channel is enabled
  op,           \* the operation: its kind and the frequency it works with
  lock,         \* owner of idtcm->lock
  mode,         \* channel->mode, the cached steering mode
  pullIn,       \* channel->phase_pull_in
  currentFreq,  \* channel->current_freq_scaled_ppm
  due,          \* is the worker's delayed work queued
  alive,        \* is the PTP clock registered
  hwMode,       \* steering mode in the device's registers
  wpTimer,      \* is DPLL_WP_TIMER set for write phase mode (PLL_MODE only)
  dpll,         \* frequency word: the dialed base, and whether a software
                \* pull-in offsets it
  hwPullIn,     \* PULL_IN_CTRL: is a firmware pull-in running
  errs,         \* bus transfers that have failed
  overlapped,   \* history: have two calls been in the driver at once, or has
                \* a pull-in been restarted with the worker in the driver
  unsure,       \* history: did the last write of the frequency word fail
  abandoned,    \* history: did the worker fail since a pull-in was started
  switched      \* history: has the mode been switched since the clock was
                \* enabled, and did the last attempt to switch it succeed

driverVars  == <<oldFirmware, manualRef, mode, pullIn, currentFreq, due, alive>>
deviceVars  == <<hwMode, wpTimer, dpll, hwPullIn>>
historyVars == <<overlapped, unsure, abandoned, switched>>

vars == <<pc, op, lock, errs, driverVars, deviceVars, historyVars>>

Kinds == {"adjfine", "pull_in", "settime", "adjphase", "stop"}
Ops   == [kind : Kinds, freq : Freqs]

TypeOK ==
  /\ pc \in [Actors -> {"idle", "lock", "setup", "mode", "write", "store"}]
  /\ oldFirmware \in BOOLEAN
  /\ manualRef \in BOOLEAN
  /\ op \in [Actors -> Ops]
  /\ lock \in Actors \cup {Nobody}
  /\ mode \in {WriteFrequency, WritePhase, Unsupported}
  /\ pullIn \in BOOLEAN
  /\ currentFreq \in Freqs
  /\ due \in BOOLEAN
  /\ alive \in BOOLEAN
  /\ hwMode \in {WriteFrequency, WritePhase, Unsupported}
  /\ wpTimer \in BOOLEAN
  /\ dpll \in [base : Freqs \cup {Torn}, pull : BOOLEAN]
  /\ hwPullIn \in BOOLEAN
  /\ errs \in 0..MaxErrors
  /\ overlapped \in BOOLEAN
  /\ unsure \in BOOLEAN
  /\ abandoned \in BOOLEAN
  /\ switched \in BOOLEAN

(***************************************************************************)
(* A channel that has just been enabled.  A device found in write phase    *)
(* mode is switched to write frequency mode, and the result of that switch *)
(* is ignored: the channel may start in write phase mode if a transfer     *)
(* failed.  A device found in write frequency mode is left as it is, with  *)
(* whatever timer it has, and an unsupported manual reference is only      *)
(* warned about.                                                           *)
(***************************************************************************)
InitialModes ==
  /\ wpTimer \in BOOLEAN /\ (wpTimer => ~manualRef)
  /\ \/ mode = WriteFrequency /\ switched \in BOOLEAN /\ (switched => ~wpTimer) /\ errs = 0
     \/ mode = WritePhase /\ switched = FALSE /\ errs = 1 /\ MaxErrors >= 1
     \/ mode = Unsupported /\ manualRef /\ switched = FALSE /\ errs = 0

(* What op holds while an actor is outside the driver. *)
NoOp(a) == [kind |-> IF a = Worker THEN "stop" ELSE "settime", freq |-> ZeroFreq]

Init ==
  /\ oldFirmware \in Firmwares
  /\ manualRef \in Variants
  /\ pc = [a \in Actors |-> "idle"]
  /\ op = [a \in Actors |-> NoOp(a)]
  /\ lock = Nobody
  /\ InitialModes
  /\ hwMode = mode
  /\ pullIn = FALSE
  /\ currentFreq = ZeroFreq
  /\ due = FALSE
  /\ alive = TRUE
  /\ dpll = [base |-> ZeroFreq, pull |-> FALSE]
  /\ hwPullIn = FALSE
  /\ overlapped = FALSE
  /\ unsure = FALSE
  /\ abandoned = FALSE

-----------------------------------------------------------------------------
(* The part of each operation before the mutex. *)

Goto(a, label) == pc' = [pc EXCEPT ![a] = label]

Call(c, kind, f) ==
  /\ alive
  /\ pc[c] = "idle"
  /\ Goto(c, "lock")
  /\ op' = [op EXCEPT ![c] = [kind |-> kind, freq |-> f]]
  /\ overlapped' = (overlapped \/ \E d \in Callers : pc[d] # "idle")
  /\ UNCHANGED <<lock, errs, driverVars, deviceVars, unsure, abandoned, switched>>

(* Tested without the mutex; when it holds, adjfine returns 0 and adjtime  *)
(* -EBUSY with nothing changed.                                            *)
PullInBusy == pullIn

idtcm_adjfine(c, f) == ~PullInBusy /\ Call(c, "adjfine", f)

(* A small delta is pulled in, a large one is written to the time of day,  *)
(* which does not concern steering.                                        *)
CorrectTime(c) == \E kind \in {"pull_in", "settime"} : Call(c, kind, ZeroFreq)

idtcm_adjtime(c) == ~oldFirmware /\ ~PullInBusy /\ CorrectTime(c)

(* The adjtime of old firmware does not test phase_pull_in: it may start a *)
(* pull-in while one is under way.                                         *)
idtcm_adjtime_deprecated(c) == oldFirmware /\ CorrectTime(c)

idtcm_adjphase(c) == Call(c, "adjphase", ZeroFreq)

(* The delayed work expires and the worker enters idtcm_work_handler. *)
WorkExpires ==
  /\ due
  /\ pc[Worker] = "idle"
  /\ due' = FALSE
  /\ Goto(Worker, "lock")
  /\ UNCHANGED <<op, lock, errs, oldFirmware, manualRef, mode, pullIn, currentFreq, alive, deviceVars, historyVars>>

-----------------------------------------------------------------------------
(* The critical section. *)

(* Starting and ending a pull-in both work with the remembered frequency,  *)
(* read under the mutex.                                                   *)
FreqOf(a) == IF op[a].kind \in {"pull_in", "stop"} THEN currentFreq ELSE op[a].freq

Acquire(a) ==
  /\ pc[a] = "lock"
  /\ lock = Nobody
  /\ lock' = a
  /\ Goto(a, "setup")
  /\ op' = [op EXCEPT ![a].freq = FreqOf(a)]
  /\ UNCHANGED <<errs, driverVars, deviceVars, historyVars>>

Return(a) ==
  /\ lock' = Nobody
  /\ Goto(a, "idle")
  /\ op' = [op EXCEPT ![a] = NoOp(a)]

(* A transfer fails and the operation returns its error, which the worker  *)
(* ignores.                                                                *)
MutantFailClearsFlag(a) ==
  /\ errs < MaxErrors
  /\ errs' = errs + 1
  /\ abandoned' = (abandoned \/ a = Worker)
  /\ Return(a)
  /\ pullIn' = FALSE
  /\ UNCHANGED <<overlapped, oldFirmware, manualRef, mode, currentFreq, due, alive>>

Fail(a) ==
  /\ errs < MaxErrors
  /\ errs' = errs + 1
  /\ abandoned' = (abandoned \/ a = Worker)
  /\ Return(a)
  /\ UNCHANGED <<overlapped, driverVars>>

ModeFor(a) == IF op[a].kind = "adjphase" THEN WritePhase ELSE WriteFrequency

Steers(a) == op[a].kind # "settime" /\ (op[a].kind = "pull_in" => manualRef)

MutantModeSet(a) == mode = ModeFor(a) \/ mode = WritePhase
ModeSet(a) == mode = ModeFor(a)

(* When the mode must change, its registers are written before the word.   *)
ModeAlreadySet(a) ==
  /\ pc[a] = "setup" /\ Steers(a)
  /\ ModeSet(a)
  /\ Goto(a, "write")
  /\ UNCHANGED <<op, lock, errs, driverVars, deviceVars, historyVars>>

(* The PLL_MODE variant first writes the timers, which the other does not  *)
(* have.                                                                   *)
MutantTimerFor(a) == wpTimer \/ ModeFor(a) = WritePhase
TimerFor(a) == ModeFor(a) = WritePhase

WriteTimers(a) ==
  /\ pc[a] = "setup" /\ Steers(a)
  /\ ~ModeSet(a) /\ ~manualRef
  /\ wpTimer' = TimerFor(a)
  /\ Goto(a, "mode")
  /\ UNCHANGED <<op, lock, errs, driverVars, hwMode, dpll, hwPullIn, historyVars>>

(* channel->mode follows when every transfer of the switch has succeeded.  *)
SwitchMode(a) ==
  /\ pc[a] = "mode" \/ (pc[a] = "setup" /\ Steers(a) /\ ~ModeSet(a) /\ manualRef)
  /\ mode' = ModeFor(a)
  /\ hwMode' = ModeFor(a)
  /\ switched' = TRUE
  /\ Goto(a, "write")
  /\ UNCHANGED <<op, lock, errs, oldFirmware, manualRef, pullIn, currentFreq, due, alive,
                 wpTimer, dpll, hwPullIn, overlapped, unsure, abandoned>>

(* A transfer of the switch fails: a write of the timers, of which the     *)
(* second may have arrived, or the read or write of the mode.              *)
SwitchModeFails(a) ==
  /\ pc[a] \in {"setup", "mode"} /\ Steers(a)
  /\ ~ModeSet(a)
  /\ Fail(a)
  /\ wpTimer' \in {wpTimer, ~manualRef /\ TimerFor(a)}
  /\ switched' = FALSE
  /\ UNCHANGED <<hwMode, dpll, hwPullIn, unsure>>

(* ptp_schedule_worker re-arms the delayed work, pending or not; once the  *)
(* clock is unregistered its worker is gone and nothing runs.              *)
MutantScheduleWorker == due' = (due /\ alive)
ScheduleWorker == due' = alive

WordOf(a) == [base |-> op[a].freq, pull |-> op[a].kind = "pull_in"]
TornWord == [base |-> Torn, pull |-> FALSE]

WriteFrequencyWord(a) == dpll' = WordOf(a) /\ unsure' = FALSE

MutantPullInStopped == UNCHANGED <<pullIn, due, currentFreq>>
PullInStopped == pullIn' = FALSE /\ UNCHANGED <<due, currentFreq>>

(* The frequency or phase word is written, and the operation completes.    *)
AdjfineWrites(a) ==
  /\ pc[a] = "write" /\ op[a].kind = "adjfine"
  /\ WriteFrequencyWord(a)
  /\ lock' = Nobody /\ Goto(a, "store")
  /\ UNCHANGED <<op, errs, driverVars, hwMode, wpTimer, hwPullIn, overlapped, abandoned, switched>>

(* A pull-in started anew while the worker waits for the mutex to end the  *)
(* one before is ended by it at once.                                      *)
PullInStarts(a) ==
  /\ pc[a] = "write" /\ op[a].kind = "pull_in"
  /\ WriteFrequencyWord(a)
  /\ ScheduleWorker
  /\ pullIn' = TRUE
  /\ Return(a)
  /\ overlapped' = (overlapped \/ pc[Worker] # "idle")
  /\ abandoned' = FALSE
  /\ UNCHANGED <<errs, oldFirmware, manualRef, mode, currentFreq, alive, hwMode, wpTimer, hwPullIn, switched>>

PullInStops(a) ==
  /\ pc[a] = "write" /\ op[a].kind = "stop"
  /\ WriteFrequencyWord(a)
  /\ PullInStopped
  /\ Return(a)
  /\ UNCHANGED <<errs, oldFirmware, manualRef, mode, alive, hwMode, wpTimer, hwPullIn, overlapped, abandoned, switched>>

AdjphaseWrites(a) ==
  /\ pc[a] = "write" /\ op[a].kind = "adjphase"
  /\ Return(a)
  /\ UNCHANGED <<errs, driverVars, deviceVars, historyVars>>

(* The six bytes of the frequency word are written in part. *)
WordFails(a) ==
  /\ pc[a] = "write" /\ op[a].kind # "adjphase"
  /\ Fail(a)
  /\ dpll' \in {dpll, WordOf(a), TornWord}
  /\ unsure' = TRUE
  /\ UNCHANGED <<hwMode, wpTimer, hwPullIn, switched>>

AdjphaseFails(a) ==
  /\ pc[a] = "write" /\ op[a].kind = "adjphase"
  /\ Fail(a)
  /\ UNCHANGED <<deviceVars, unsure, switched>>

(* Writing the time of day, or finding nothing worth pulling in. *)
WriteTimeOfDay(a) ==
  /\ pc[a] = "setup"
  /\ op[a].kind = "settime"
  /\ Return(a)
  /\ UNCHANGED <<errs, driverVars, deviceVars, historyVars>>

(* do_phase_pull_in_fw; refused with -EBUSY, in the end PULL_IN_CTRL is    *)
(* set either way.                                                         *)
FirmwarePullIn(a) ==
  /\ pc[a] = "setup" /\ op[a].kind = "pull_in" /\ ~manualRef
  /\ hwPullIn' = TRUE
  /\ Return(a)
  /\ UNCHANGED <<errs, driverVars, hwMode, wpTimer, dpll, historyVars>>

FirmwarePullInFails(a) ==
  /\ pc[a] = "setup" /\ op[a].kind = "pull_in" /\ ~manualRef
  /\ Fail(a)
  /\ UNCHANGED <<deviceVars, unsure, switched>>

(* adjfine remembers the frequency after releasing the mutex. *)
MutantStoreFrequency(c) ==
  /\ pc[c] = "store"
  /\ Goto(c, "idle")
  /\ op' = [op EXCEPT ![c] = NoOp(c)]
  /\ UNCHANGED <<lock, errs, driverVars, deviceVars, historyVars>>
StoreFrequency(c) ==
  /\ pc[c] = "store"
  /\ currentFreq' = op[c].freq
  /\ Goto(c, "idle")
  /\ op' = [op EXCEPT ![c] = NoOp(c)]
  /\ UNCHANGED <<lock, errs, oldFirmware, manualRef, mode, pullIn, due, alive, deviceVars, historyVars>>

-----------------------------------------------------------------------------
(* The device and the life of the clock. *)

FirmwarePullInEnds ==
  /\ hwPullIn
  /\ hwPullIn' = FALSE
  /\ UNCHANGED <<pc, op, lock, errs, driverVars, hwMode, wpTimer, dpll, historyVars>>

(* ptp_clock_unregister cancels the delayed work, waits for a handler that *)
(* runs and destroys the worker; calls already in the driver go on.        *)
ptp_clock_unregister ==
  /\ Removable
  /\ alive
  /\ pc[Worker] = "idle"
  /\ alive' = FALSE
  /\ due' = FALSE
  /\ UNCHANGED <<pc, op, lock, errs, oldFirmware, manualRef, mode, pullIn, currentFreq, deviceVars, historyVars>>

CriticalSection(a) ==
  \/ ModeAlreadySet(a) \/ WriteTimers(a) \/ SwitchMode(a) \/ SwitchModeFails(a)
  \/ AdjfineWrites(a) \/ PullInStarts(a) \/ PullInStops(a) \/ AdjphaseWrites(a)
  \/ WordFails(a) \/ AdjphaseFails(a)
  \/ WriteTimeOfDay(a)
  \/ FirmwarePullIn(a) \/ FirmwarePullInFails(a)

Next ==
  \/ \E c \in Callers :
       \/ \E f \in Freqs : idtcm_adjfine(c, f)
       \/ idtcm_adjtime(c)
       \/ idtcm_adjtime_deprecated(c)
       \/ idtcm_adjphase(c)
       \/ StoreFrequency(c)
  \/ \E a \in Actors : Acquire(a) \/ CriticalSection(a)
  \/ WorkExpires
  \/ FirmwarePullInEnds
  \/ ptp_clock_unregister

Spec == Init /\ [][Next]_vars

(* Threads that are in the driver are scheduled, a mutex is handed over to *)
(* its waiters, a delay expires unless it is set anew; nobody is obliged   *)
(* to call or to remove.                                                   *)
PullInStarted == \E c \in Callers : PullInStarts(c)

Fairness ==
  /\ WF_vars(WorkExpires \/ PullInStarted)
  /\ \A a \in Actors : SF_vars(Acquire(a)) /\ WF_vars(CriticalSection(a))
  /\ \A c \in Callers : WF_vars(StoreFrequency(c))

FairSpec == Spec /\ Fairness

-----------------------------------------------------------------------------
(* Properties that hold for any number of concurrent callers. *)

(* A frequency or phase word is only written while the device is in the    *)
(* mode that uses it: the cached mode that lets _idtcm_adjfine and         *)
(* _idtcm_adjphase skip the mode registers never lies, whichever calls ran *)
(* before and wherever they failed.                                        *)
WordWrittenInItsMode ==
  \A a \in Actors : pc[a] = "write" => hwMode = ModeFor(a)

(* While the DPLL runs at a pull-in frequency phase_pull_in says so: no    *)
(* race between calls and worker, and no failure elsewhere, leaves the     *)
(* clock off its dialed frequency with the flag down.  Only a write of the *)
(* frequency word that itself failed may, until the next that succeeds.    *)
OffFrequencyIsFlagged == dpll.pull /\ ~unsure => pullIn

(* While phase_pull_in is set the worker that clears it is scheduled or    *)
(* running, whatever calls fail.  Only a transfer of the worker itself     *)
(* that failed leaves a pull-in that nobody ends, until the next is        *)
(* started.                                                                *)
PullInHasCanceller ==
  pullIn /\ alive /\ ~abandoned => due \/ pc[Worker] # "idle"

(* In the PLL_MODE variant a word is written with the write phase timer    *)
(* of its mode, though timer and mode are written one after the other and  *)
(* a switch may break off in between: after one that broke off the cached  *)
(* mode may keep a timer of the other mode alive, the next switch that     *)
(* succeeds repairs it.                                                    *)
WordWrittenWithItsTimer ==
  \A a \in Actors :
    pc[a] = "write" /\ switched => wpTimer = (~manualRef /\ ModeFor(a) = WritePhase)

(* Every software pull-in ends: the frequency comes back and the clock     *)
(* accepts adjfine and adjtime again, unless a transfer of the worker      *)
(* failed or the clock was removed.  The adjtime of old firmware may put   *)
(* the end off: there a pull-in ends once no caller asks for another.      *)
AskedAgain == oldFirmware /\ \E c \in Callers : op[c].kind = "pull_in"

PullInEnds == pullIn ~> ~pullIn \/ abandoned \/ ~alive \/ AskedAgain

-----------------------------------------------------------------------------
(* Properties that hold until two calls overlap. *)

(* The remembered frequency is the one in the device, except between the   *)
(* write of adjfine and its store, and after a write that failed: a        *)
(* pull-in that starts from it, and the worker that returns to it, use the *)
(* frequency the user dialed.                                              *)
FrequencyRemembered ==
  ~overlapped /\ ~unsure /\ (\A c \in Callers : pc[c] # "store") => dpll.base = currentFreq

(* A pull-in that phase_pull_in announces is in the DPLL: nothing          *)
(* overwrites its frequency before the worker ends it, but a write that    *)
(* fails.                                                                  *)
PullInUndisturbed == ~overlapped /\ pullIn /\ ~unsure => dpll.pull

(* Steering, with its locks, caches, worker and failures, is a clock that  *)
(* is dialed and pulled in as SteeredClock says, for as long as no two     *)
(* calls have overlapped.  After a write of the word that failed the clock *)
(* runs at a frequency nobody knows, and the next write that succeeds      *)
(* brings it back to the one that was dialed.                              *)
Clock == INSTANCE SteeredClock
  WITH dialed  <- IF unsure THEN currentFreq ELSE dpll.base,
       running <- IF unsure THEN "unknown" ELSE IF dpll.pull THEN "pulled in" ELSE "dialed"
ImplementsClock ==
  Clock!ClockInit /\ [][overlapped \/ Clock!ClockNext]_(Clock!clockVars)
=============================================================================
