---------------------------- MODULE IdtcmExtts ----------------------------
(***************************************************************************)
(* External time stamps of the ClockMatrix                                 *)
(* (linux/drivers/ptp/ptp_clockmatrix.c).  Enabling a time of day (ToD)    *)
(* arms a trigger in the device, which fires on an edge of the reference   *)
(* and latches the time; a delayed work polls the enabled ToDs, reports    *)
(* what has been latched and either arms the trigger again or, when        *)
(* several ToDs are enabled, drops the ToD from the mask.                  *)
(*                                                                         *)
(* Requests and the poll take the driver's mutex; the poll's first test of *)
(* extts_mask and the store of 0 by idtcm_remove do not.                   *)
(***************************************************************************)
EXTENDS Naturals, FiniteSets

CONSTANTS
  MAX_TOD,    \* number of ToDs
  Clocks,     \* the ToDs that are registered as PTP clocks
  Callers,    \* threads in idtcm_enable
  Worker,     \* the thread that runs extts_work
  Nobody,     \* owner of a free mutex
  Removable,  \* may the driver be removed
  MaxErrors   \* bound on failed bus transfers

Tods == 0 .. MAX_TOD - 1

ASSUME ExttsAssumption ==
  /\ MAX_TOD \in Nat
  /\ Clocks \subseteq Tods
  /\ Worker \notin Callers
  /\ Nobody \notin Callers \cup {Worker}
  /\ Removable \in BOOLEAN
  /\ MaxErrors \in Nat

Actors == Callers \cup {Worker}

VARIABLES
  pc,          \* where each actor is
  req,         \* per caller: clock, ToD, on or off, whether the mask was 0
  at,          \* the loop variable of idtcm_extts_check
  lock,        \* owner of idtcm->lock
  mask,        \* idtcm->extts_mask
  singleShot,  \* idtcm->extts_single_shot
  queued,      \* is extts_work queued
  armed,       \* per ToD: trigger field of TOD_READ_SECONDARY_CMD non zero
  latched,     \* per ToD: a time stamp has been latched and not reported
  event,       \* per ToD: was the last event a new time stamp or a stale one
  registered,  \* the clocks that are registered
  removing,    \* progress of idtcm_remove
  errs         \* failed bus transfers so far

vars == <<pc, req, at, lock, mask, singleShot, queued, armed, latched, event,
          registered, removing, errs>>

deviceVars == <<armed, latched, event>>
removeVars == <<registered, removing>>

Requests == [clock : Clocks, tod : Tods, on : BOOLEAN, first : BOOLEAN]

TypeOK ==
  /\ pc \in [Actors -> {"idle", "test", "lock", "arm", "note", "off", "loop", "rearm"}]
  /\ req \in [Callers -> Requests]
  /\ at \in 0 .. MAX_TOD
  /\ lock \in Actors \cup {Nobody}
  /\ mask \subseteq Tods
  /\ singleShot \in BOOLEAN
  /\ queued \in BOOLEAN
  /\ armed \in [Tods -> BOOLEAN]
  /\ latched \in [Tods -> BOOLEAN]
  /\ event \in [Tods -> {"none", "new", "stale"}]
  /\ registered \subseteq Clocks
  /\ removing \in {"no", "unregister", "cancel", "done"}
  /\ errs \in 0 .. MaxErrors

Init ==
  /\ pc = [a \in Actors |-> "idle"]
  /\ req \in [Callers -> [clock : Clocks, tod : Tods, on : {FALSE}, first : {FALSE}]]
  /\ at = 0
  /\ lock = Nobody
  /\ mask = {}
  /\ singleShot = FALSE
  /\ queued = FALSE
  /\ armed = [t \in Tods |-> FALSE]
  /\ latched = [t \in Tods |-> FALSE]
  /\ event = [t \in Tods |-> "none"]
  /\ registered = Clocks
  /\ removing = "no"
  /\ errs = 0

Goto(a, label) == pc' = [pc EXCEPT ![a] = label]
Release(a) == lock' = Nobody /\ Goto(a, "idle")
Fault == errs < MaxErrors /\ errs' = errs + 1

(* A single ToD is polled continuously, several are single shot; so is no  *)
(* ToD at all, 0 not being a power of 2.                                   *)
is_single_shot(m) == Cardinality(m) # 1

(* Arming discards a time stamp that nobody has read.                      *)
Arm(t) ==
  /\ armed' = [armed EXCEPT ![t] = TRUE]
  /\ latched' = [latched EXCEPT ![t] = FALSE]
  /\ UNCHANGED event

-----------------------------------------------------------------------------
(* idtcm_enable and idtcm_extts_enable *)

Call(c, k, t, on) ==
  /\ pc[c] = "idle"
  /\ k \in registered
  /\ Goto(c, "lock")
  /\ req' = [req EXCEPT ![c] = [clock |-> k, tod |-> t, on |-> on, first |-> FALSE]]
  /\ UNCHANGED <<at, lock, mask, singleShot, queued, deviceVars, removeVars, errs>>

Lock(c) ==
  /\ pc[c] = "lock"
  /\ lock = Nobody
  /\ lock' = c
  /\ Goto(c, IF req[c].on THEN "arm" ELSE "off")
  /\ req' = [req EXCEPT ![c].first = (mask = {})]
  /\ UNCHANGED <<at, mask, singleShot, queued, deviceVars, removeVars, errs>>

(* No pin is configured for the clock. *)
MutantNoPin(c) ==
  /\ pc[c] = "arm"
  /\ Goto(c, "note")
  /\ UNCHANGED <<req, at, lock, mask, singleShot, queued, deviceVars, removeVars, errs>>
NoPin(c) ==
  /\ pc[c] = "arm"
  /\ Release(c)
  /\ UNCHANGED <<req, at, mask, singleShot, queued, deviceVars, removeVars, errs>>

ArmForRequest(c) ==
  /\ pc[c] = "arm"
  /\ Arm(req[c].tod)
  /\ Goto(c, "note")
  /\ UNCHANGED <<req, at, lock, mask, singleShot, queued, removeVars, errs>>

ArmForRequestFails(c) ==
  /\ pc[c] = "arm"
  /\ Fault
  /\ Release(c)
  /\ UNCHANGED <<req, at, mask, singleShot, queued, deviceVars, removeVars>>

(* Queueing a work that is being cancelled synchronously does nothing.     *)
Queue == queued' = (removing \notin {"cancel", "done"})

(* The work is only queued when the mask was 0 before, otherwise it is     *)
(* taken to be polling already.                                            *)
MutantQueueIfFirst(c) == IF singleShot' THEN Queue ELSE UNCHANGED queued
QueueIfFirst(c) == IF req[c].first THEN Queue ELSE UNCHANGED queued

NoteEnabled(c) ==
  /\ pc[c] = "note"
  /\ mask' = mask \cup {req[c].tod}
  /\ singleShot' = is_single_shot(mask')
  /\ QueueIfFirst(c)
  /\ Release(c)
  /\ UNCHANGED <<req, at, deviceVars, removeVars, errs>>

Disable(c) ==
  /\ pc[c] = "off"
  /\ mask' = mask \ {req[c].tod}
  /\ singleShot' = is_single_shot(mask')
  /\ queued' = (queued /\ mask' # {})
  /\ Release(c)
  /\ UNCHANGED <<req, at, deviceVars, removeVars, errs>>

-----------------------------------------------------------------------------
(* idtcm_extts_check *)

WorkExpires ==
  /\ queued
  /\ pc[Worker] = "idle"
  /\ queued' = FALSE
  /\ Goto(Worker, "test")
  /\ UNCHANGED <<req, at, lock, mask, singleShot, deviceVars, removeVars, errs>>

(* The test outside the mutex. *)
TestMask ==
  /\ pc[Worker] = "test"
  /\ Goto(Worker, IF mask = {} THEN "idle" ELSE "lock")
  /\ UNCHANGED <<req, at, lock, mask, singleShot, queued, deviceVars, removeVars, errs>>

StartPoll ==
  /\ pc[Worker] = "lock"
  /\ lock = Nobody
  /\ lock' = Worker
  /\ at' = 0
  /\ Goto(Worker, "loop")
  /\ UNCHANGED <<req, mask, singleShot, queued, deviceVars, removeVars, errs>>

MoreTods == at < MAX_TOD

(* Not enabled, or not triggered yet (-EBUSY). *)
SkipTod ==
  /\ pc[Worker] = "loop" /\ MoreTods
  /\ at \in mask => armed[at]
  /\ at' = at + 1
  /\ UNCHANGED <<pc, req, lock, mask, singleShot, queued, deviceVars, removeVars, errs>>

CheckFails ==
  /\ pc[Worker] = "loop" /\ at \in mask
  /\ Fault
  /\ at' = at + 1
  /\ UNCHANGED <<pc, req, lock, mask, singleShot, queued, deviceVars, removeVars>>

MutantAfterReport == Goto(Worker, "loop") /\ at' = at + 1 /\ UNCHANGED mask
AfterReport ==
  \/ singleShot /\ mask' = mask \ {at} /\ Goto(Worker, "loop") /\ at' = at + 1
  \/ ~singleShot /\ Goto(Worker, "rearm") /\ UNCHANGED <<at, mask>>

(* The trigger field is 0: the time is read and posted as an event. *)
Report ==
  /\ pc[Worker] = "loop" /\ at \in mask
  /\ ~armed[at]
  /\ event' = [event EXCEPT ![at] = IF latched[at] THEN "new" ELSE "stale"]
  /\ latched' = [latched EXCEPT ![at] = FALSE]
  /\ AfterReport
  /\ UNCHANGED <<req, lock, singleShot, queued, armed, removeVars, errs>>

ReArm ==
  /\ pc[Worker] = "rearm"
  /\ Arm(at)
  /\ Goto(Worker, "loop")
  /\ at' = at + 1
  /\ UNCHANGED <<req, lock, mask, singleShot, queued, removeVars, errs>>

(* The result of re-arming is not looked at. *)
ReArmFails ==
  /\ pc[Worker] = "rearm"
  /\ Fault
  /\ Goto(Worker, "loop")
  /\ at' = at + 1
  /\ UNCHANGED <<req, lock, mask, singleShot, queued, deviceVars, removeVars>>

MutantPollAgain == IF mask # {} /\ ~singleShot THEN Queue ELSE UNCHANGED queued
PollAgain == IF mask # {} THEN Queue ELSE UNCHANGED queued

EndPoll ==
  /\ pc[Worker] = "loop" /\ at = MAX_TOD
  /\ PollAgain
  /\ Release(Worker)
  /\ UNCHANGED <<req, at, mask, singleShot, deviceVars, removeVars, errs>>

-----------------------------------------------------------------------------
(* idtcm_remove *)

(* A plain store, lost when another thread is between its own load and     *)
(* store of the mask.                                                      *)
RemoveStarts ==
  /\ Removable
  /\ removing = "no"
  /\ removing' = "unregister"
  /\ mask' = {} \/ (lock # Nobody /\ UNCHANGED mask)
  /\ UNCHANGED <<pc, req, at, lock, singleShot, queued, deviceVars, registered, errs>>

(* ptp_clock_unregister_all, in the order of the ToDs; each waits for the  *)
(* calls that are in the clock.                                            *)
UnregisterClock(k) ==
  /\ removing = "unregister"
  /\ k \in registered
  /\ \A j \in registered : k <= j
  /\ \A c \in Callers : pc[c] # "idle" => req[c].clock # k
  /\ registered' = registered \ {k}
  /\ UNCHANGED <<pc, req, at, lock, mask, singleShot, queued, deviceVars, removing, errs>>

(* cancel_delayed_work_sync: no longer queued, then wait for the handler.  *)
CancelWork ==
  /\ removing = "unregister" /\ registered = {}
  /\ removing' = "cancel"
  /\ queued' = FALSE

Cancel ==
  /\ CancelWork
  /\ UNCHANGED <<pc, req, at, lock, mask, singleShot, deviceVars, registered, errs>>

CancelReturns ==
  /\ removing = "cancel"
  /\ pc[Worker] = "idle"
  /\ removing' = "done"
  /\ UNCHANGED <<pc, req, at, lock, mask, singleShot, queued, deviceVars, registered, errs>>

-----------------------------------------------------------------------------
(* The device: an edge of the reference while the trigger is armed. *)
Fire(t) ==
  /\ armed[t]
  /\ armed' = [armed EXCEPT ![t] = FALSE]
  /\ latched' = [latched EXCEPT ![t] = TRUE]
  /\ UNCHANGED <<pc, req, at, lock, mask, singleShot, queued, event, removeVars, errs>>

Request(c) ==
  NoPin(c) \/ ArmForRequest(c) \/ ArmForRequestFails(c) \/ NoteEnabled(c) \/ Disable(c)

PollStep ==
  \/ TestMask \/ SkipTod \/ CheckFails \/ Report \/ ReArm \/ ReArmFails \/ EndPoll

Next ==
  \/ \E c \in Callers :
       \/ \E k \in Clocks, t \in Tods, on \in BOOLEAN : Call(c, k, t, on)
       \/ Lock(c)
       \/ Request(c)
  \/ WorkExpires \/ StartPoll \/ PollStep
  \/ RemoveStarts \/ (\E k \in Clocks : UnregisterClock(k)) \/ Cancel \/ CancelReturns
  \/ \E t \in Tods : Fire(t)

Spec == Init /\ [][Next]_vars

(* Threads in the driver are scheduled, waiters get the mutex, a delay     *)
(* expires; nobody is obliged to call, and no edge has to come.            *)
Fairness ==
  /\ \A c \in Callers : SF_vars(Lock(c)) /\ WF_vars(Request(c))
  /\ WF_vars(WorkExpires) /\ SF_vars(StartPoll) /\ WF_vars(PollStep)

FairSpec == Spec /\ Fairness

-----------------------------------------------------------------------------
(* While a ToD is enabled and the mutex is free, extts_work is queued or   *)
(* its handler is on the way to the mutex: the unlocked test of the mask,  *)
(* the skipped queueing when the mask was not 0 and the cancelling on      *)
(* disable never leave an enabled ToD unpolled.                            *)
EnabledIsPolled ==
  mask # {} /\ lock = Nobody /\ removing = "no" => queued \/ pc[Worker] # "idle"

(* A ToD that is polled has its trigger armed or a time stamp waiting,     *)
(* unless a transfer failed: the poll never mistakes a trigger nobody      *)
(* armed for one that fired, and no enabled ToD is dead.                   *)
PolledIsArmed ==
  lock = Nobody /\ errs = 0 => \A t \in mask : armed[t] \/ latched[t]

(* Each latched time stamp is reported once: no event repeats one that was *)
(* reported before, unless re-arming failed.                               *)
EventsAreNew == errs = 0 => \A t \in Tods : event[t] # "stale"

(* A time stamp latched for an enabled ToD is reported, unless the ToD is  *)
(* disabled or armed again by a request, a transfer fails or the driver is *)
(* removed.                                                                *)
LatchedIsReported ==
  \A t \in Tods :
    t \in mask /\ latched[t] ~> ~latched[t] \/ t \notin mask \/ errs > 0 \/ removing # "no"
=============================================================================
