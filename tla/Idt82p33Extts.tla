--------------------------- MODULE Idt82p33Extts ---------------------------
(***************************************************************************)
(* External time stamps of the 82P33 (linux/drivers/ptp/ptp_idt82p33.c).   *)
(* One register per PLL, TOD_STS, serves both purposes: it latches the     *)
(* time on an edge of the selected reference, or, when the clock is read,  *)
(* on the read of its least significant byte.  Reading the clock therefore *)
(* turns external time stamps off and on again around its read, while it   *)
(* holds the mutex that the polling work waits for.                        *)
(*                                                                         *)
(* Whoever holds the mutex checks and arms the PLLs one after the other;   *)
(* that loop is one step here, since the PLLs do not depend on each other. *)
(* What may come between the transfers that arm one PLL is among the       *)
(* outcomes of the step: an edge of the trigger that is still selected.    *)
(***************************************************************************)
EXTENDS Naturals, FiniteSets

CONSTANTS
  Plls,       \* the PLLs that external time stamps may be enabled for
  Clocks,     \* those that are registered as PTP clocks
  Refs,       \* trigger selections of the references (IN12, IN13, IN14)
  Lsb,        \* HW_TOD_RD_TRIG_SEL_LSB_TOD_STS
  NoTrigger,  \* trigger selection after reset, and a tod_trigger never set
  Callers,    \* threads in the clocks' operations
  Worker,     \* the thread that runs extts_work
  Nobody,     \* owner of a free mutex
  MaxErrors   \* bound on failed bus transfers

ASSUME ExttsAssumption ==
  /\ IsFiniteSet(Plls) /\ Clocks \subseteq Plls
  /\ Refs \cap {Lsb, NoTrigger} = {} /\ Lsb # NoTrigger
  /\ Worker \notin Callers
  /\ Nobody \notin Callers \cup {Worker}
  /\ MaxErrors \in Nat

Actors == Callers \cup {Worker}
Triggers == Refs \cup {Lsb, NoTrigger}

VARIABLES
  pc,          \* where each actor is
  req,         \* per caller: its operation, clock, and the PLL it is about
  newMask,     \* per caller: new_mask of _idt82p33_gettime
  lock,        \* owner of idt82p33->lock
  mask,        \* idt82p33->extts_mask
  singleShot,  \* idt82p33->extts_single_shot
  queued,      \* is extts_work queued
  todTrigger,  \* per PLL: channel->tod_trigger
  discard,     \* per PLL: channel->discard_next_extts
  trigger,     \* per PLL: read trigger selected in the device
  latched,     \* per PLL: the reference whose edge has changed TOD_STS since
               \* extts_tod_sts was remembered, if one has
  event,       \* per PLL: where the time of its last event came from, since
               \* it was enabled last
  shared,      \* history: a read of a clock has armed a PLL with the trigger
               \* of another
  errs         \* failed bus transfers so far

vars == <<pc, req, newMask, lock, mask, singleShot, queued, todTrigger, discard,
          trigger, latched, event, shared, errs>>

maskVars   == <<mask, singleShot, todTrigger>>
deviceVars == <<trigger, latched, event, shared>>

Kinds == {"enable", "disable", "gettime"}
Requests == [kind : Kinds, clock : Clocks, pll : Plls]

TypeOK ==
  /\ pc \in [Actors -> {"idle", "test", "lock", "enable", "disable", "gettime",
                        "wait", "trigger", "read", "restore"}]
  /\ req \in [Callers -> Requests]
  /\ newMask \in [Callers -> SUBSET Plls]
  /\ lock \in Actors \cup {Nobody}
  /\ mask \subseteq Plls
  /\ singleShot \in BOOLEAN
  /\ queued \in BOOLEAN
  /\ todTrigger \in [Plls -> Refs \cup {NoTrigger}]
  /\ discard \in [Plls -> BOOLEAN]
  /\ trigger \in [Plls -> Triggers]
  /\ latched \in [Plls -> Refs \cup {NoTrigger}]
  /\ event \in [Plls -> {"none", "own", "slipped", "other", "read"}]
  /\ shared \in BOOLEAN
  /\ errs \in 0 .. MaxErrors

(* After the probe: it has read every clock while it measured the write    *)
(* overhead, the other PLLs are as the cold reset left them.               *)
Init ==
  /\ pc = [a \in Actors |-> "idle"]
  /\ req \in [Callers -> [kind : {"gettime"}, clock : Clocks, pll : Plls]]
  /\ newMask = [c \in Callers |-> {}]
  /\ lock = Nobody
  /\ mask = {}
  /\ singleShot = FALSE
  /\ queued = FALSE
  /\ todTrigger = [i \in Plls |-> NoTrigger]
  /\ discard = [i \in Plls |-> i \in Clocks]
  /\ trigger = [i \in Plls |-> IF i \in Clocks THEN Lsb ELSE NoTrigger]
  /\ latched = [i \in Plls |-> NoTrigger]
  /\ event = [i \in Plls |-> "none"]
  /\ shared = FALSE
  /\ errs = 0

Goto(a, label) == pc' = [pc EXCEPT ![a] = label]
Return(a) == lock' = Nobody /\ Goto(a, "idle")

(* The transfers to a set of PLLs fail. *)
Fail(plls) ==
  /\ errs + Cardinality(plls) <= MaxErrors
  /\ errs' = errs + Cardinality(plls)
Fault == errs < MaxErrors /\ errs' = errs + 1

is_one_shot(m) == Cardinality(m) # 1

-----------------------------------------------------------------------------
(* The building blocks, on sets of PLLs. *)

(* arm_tod_read_with_trigger: what TOD_STS holds is remembered, then the   *)
(* PLL's trigger is selected.  An edge of the trigger selected before may  *)
(* come in between, and stays latched.  For the PLLs that fail the read    *)
(* may have been made.                                                     *)
Remains(i, failed) ==
  IF i \in failed THEN {latched[i], NoTrigger} ELSE {NoTrigger} \cup ({trigger[i]} \cap Refs)

Armed(plls, failed, sel) ==
  /\ trigger' = [i \in Plls |-> IF i \in plls \ failed THEN sel[i] ELSE trigger[i]]
  /\ latched' \in [Plls -> Refs \cup {NoTrigger}]
  /\ \A i \in Plls : latched'[i] \in IF i \in plls THEN Remains(i, failed) ELSE {latched[i]}

(* idt82p33_get_extts: TOD_STS differs from what was remembered; the read  *)
(* itself changes it when it triggers.                                     *)
Differs(i) == latched[i] # NoTrigger \/ trigger[i] = Lsb

Happened(plls) == {i \in plls : Differs(i) /\ ~discard[i]}

Discards(plls) == discard' = [i \in Plls |-> discard[i] /\ ~(i \in plls /\ Differs(i))]

(* "slipped": the first event after the PLL was enabled is an edge of the  *)
(* reference that was selected before.                                     *)
Source(i) ==
  IF trigger[i] = Lsb THEN "read"
  ELSE IF latched[i] = todTrigger[i] THEN "own"
  ELSE IF latched[i] # trigger[i] /\ event[i] = "none" THEN "slipped"
  ELSE "other"

Posts(plls) ==
  event' = [i \in Plls |-> IF i \in Happened(plls) THEN Source(i) ELSE event[i]]

-----------------------------------------------------------------------------
(* Requests *)

Call(c, r) ==
  /\ pc[c] = "idle"
  /\ Goto(c, "lock")
  /\ req' = [req EXCEPT ![c] = r]
  /\ UNCHANGED <<newMask, lock, maskVars, queued, discard, deviceVars, errs>>

Lock(c) ==
  /\ pc[c] = "lock"
  /\ lock = Nobody
  /\ lock' = c
  /\ Goto(c, req[c].kind)
  /\ newMask' = [newMask EXCEPT ![c] = {}]
  /\ UNCHANGED <<req, maskVars, queued, discard, deviceVars, errs>>

(* Already enabled, no pin for the clock, or a reference without trigger.  *)
EnableReturns(c) ==
  /\ pc[c] = "enable"
  /\ Return(c)
  /\ UNCHANGED <<req, newMask, maskVars, queued, discard, deviceVars, errs>>

MutantRememberTrigger(c, ref) ==
  todTrigger' = [todTrigger EXCEPT ![req[c].pll] = trigger[req[c].pll]]
RememberTrigger(c, ref) ==
  todTrigger' = [todTrigger EXCEPT ![req[c].pll] = ref]

Enable(c, ref) ==
  /\ pc[c] = "enable"
  /\ req[c].pll \notin mask
  /\ Armed({req[c].pll}, {}, [i \in Plls |-> ref])
  /\ event' = [event EXCEPT ![req[c].pll] = "none"]
  /\ mask' = mask \cup {req[c].pll}
  /\ RememberTrigger(c, ref)
  /\ singleShot' = is_one_shot(mask')
  /\ queued' = (queued \/ mask = {})
  /\ Return(c)
  /\ UNCHANGED <<req, newMask, discard, shared, errs>>

(* The read of TOD_STS fails, or the selection of the trigger after it.    *)
EnableFails(c) ==
  /\ pc[c] = "enable"
  /\ req[c].pll \notin mask
  /\ Fault
  /\ UNCHANGED latched \/ latched' = [latched EXCEPT ![req[c].pll] = NoTrigger]
  /\ Return(c)
  /\ UNCHANGED <<req, newMask, maskVars, queued, discard, trigger, event, shared>>

Disable(c) ==
  /\ pc[c] = "disable"
  /\ mask' = mask \ {req[c].pll}
  /\ singleShot' = is_one_shot(mask')
  /\ queued' = (queued /\ mask' # {})
  /\ Return(c)
  /\ UNCHANGED <<req, newMask, todTrigger, discard, deviceVars, errs>>

-----------------------------------------------------------------------------
(* _idt82p33_gettime, of idt82p33_gettime and idt82p33_adjtime *)

(* idt82p33_extts_enable_mask with enable FALSE: the work is cancelled     *)
(* synchronously, then the PLLs are checked a last time.                   *)
CancelPoll(c) ==
  /\ pc[c] = "gettime"
  /\ IF mask = {} THEN Goto(c, "trigger") /\ UNCHANGED queued
                  ELSE Goto(c, "wait") /\ queued' = FALSE
  /\ UNCHANGED <<req, newMask, lock, maskVars, discard, deviceVars, errs>>

MutantPollIsOver == TRUE
PollIsOver == pc[Worker] = "idle"

LastCheck(c) ==
  /\ pc[c] = "wait"
  /\ PollIsOver
  /\ \E failed \in SUBSET mask :
       /\ Fail(failed)
       /\ Posts(mask \ failed)
       /\ Discards(mask \ failed)
       /\ latched' = [i \in Plls |-> IF i \in mask \ failed THEN NoTrigger ELSE latched[i]]
       /\ newMask' = [newMask EXCEPT ![c] =
                        mask \ (IF singleShot THEN Happened(mask \ failed) ELSE {})]
  /\ Goto(c, "trigger")
  /\ UNCHANGED <<req, lock, maskVars, queued, trigger, shared>>

SelectLsb(c) ==
  /\ pc[c] = "trigger"
  /\ trigger' = [trigger EXCEPT ![req[c].clock] = Lsb]
  /\ discard' = [discard EXCEPT ![req[c].clock] = TRUE]
  /\ Goto(c, "read")
  /\ UNCHANGED <<req, newMask, lock, maskVars, queued, latched, event, shared, errs>>

ReadTod(c) ==
  /\ pc[c] = "read"
  /\ IF newMask[c] = {} THEN Return(c) ELSE Goto(c, "restore") /\ UNCHANGED lock
  /\ UNCHANGED <<req, newMask, maskVars, queued, discard, deviceVars, errs>>

(* The selection of the trigger fails, or the read of the time: the early  *)
(* returns skip "Re-enable extts".                                         *)
MutantGettimeFails(c) ==
  /\ pc[c] \in {"trigger", "read"}
  /\ Fault
  /\ Goto(c, "idle")
  /\ UNCHANGED <<req, newMask, lock, maskVars, queued, discard, deviceVars>>
GettimeFails(c) ==
  /\ pc[c] \in {"trigger", "read"}
  /\ Fault
  /\ Return(c)
  /\ UNCHANGED <<req, newMask, maskVars, queued, discard, deviceVars>>

(* idt82p33_extts_enable_mask with enable TRUE: every PLL is armed with    *)
(* the trigger of the clock that was read; the poll is queued whatever     *)
(* failed.                                                                 *)
MutantRestoreNoArm(c) ==
  /\ pc[c] = "restore"
  /\ queued' = TRUE
  /\ Return(c)
  /\ UNCHANGED <<req, newMask, maskVars, discard, deviceVars, errs>>
RestoreArms(c) ==
  LET own == todTrigger[req[c].clock] IN
  /\ \E failed \in SUBSET newMask[c] :
       Fail(failed) /\ Armed(newMask[c], failed, [i \in Plls |-> own])
  /\ shared' = (shared \/ \E i \in newMask[c] : todTrigger[i] # own)
MutantRestoreNoQueue(c) ==
  /\ pc[c] = "restore"
  /\ RestoreArms(c)
  /\ Return(c)
  /\ UNCHANGED <<req, newMask, maskVars, queued, discard, event>>
Restore(c) ==
  /\ pc[c] = "restore"
  /\ RestoreArms(c)
  /\ queued' = TRUE
  /\ Return(c)
  /\ UNCHANGED <<req, newMask, maskVars, discard, event>>

-----------------------------------------------------------------------------
(* idt82p33_extts_check, the handler of extts_work *)

WorkExpires ==
  /\ queued
  /\ pc[Worker] = "idle"
  /\ queued' = FALSE
  /\ Goto(Worker, "test")
  /\ UNCHANGED <<req, newMask, lock, maskVars, discard, deviceVars, errs>>

(* The mask is tested before the mutex is taken. *)
TestMask ==
  /\ pc[Worker] = "test"
  /\ Goto(Worker, IF mask = {} THEN "idle" ELSE "lock")
  /\ UNCHANGED <<req, newMask, lock, maskVars, queued, discard, deviceVars, errs>>

(* A PLL whose edge came leaves the mask, or is armed again when it is the *)
(* only one; extts_single_shot is not computed again, and nobody looks at  *)
(* the error of arming.                                                    *)
Poll ==
  /\ pc[Worker] = "lock"
  /\ lock = Nobody
  /\ \E failed \in SUBSET mask :
     LET checked == mask \ failed
         rearmed == IF singleShot THEN {} ELSE Happened(checked) IN
     \E unarmed \in SUBSET rearmed :
       /\ Fail(failed \cup unarmed)
       /\ Posts(checked)
       /\ Discards(checked)
       /\ trigger' = [i \in Plls |-> IF i \in rearmed \ unarmed THEN todTrigger[i] ELSE trigger[i]]
       /\ latched' \in [Plls -> Refs \cup {NoTrigger}]
       /\ \A i \in Plls : latched'[i] \in IF i \in rearmed \ unarmed THEN Remains(i, {})
                                         ELSE {IF i \in checked THEN NoTrigger ELSE latched[i]}
       /\ mask' = IF singleShot THEN mask \ Happened(checked) ELSE mask
  /\ queued' = (mask' # {} \/ queued)
  /\ Goto(Worker, "idle")
  /\ UNCHANGED <<req, newMask, lock, singleShot, todTrigger, shared>>

-----------------------------------------------------------------------------
(* An edge of the reference that a PLL's trigger selects. *)
Edge(i) ==
  /\ trigger[i] \in Refs
  /\ latched' = [latched EXCEPT ![i] = trigger[i]]
  /\ UNCHANGED <<pc, req, newMask, lock, maskVars, queued, discard, trigger, event, shared, errs>>

Operation(c) ==
  \/ EnableReturns(c) \/ (\E ref \in Refs : Enable(c, ref)) \/ EnableFails(c)
  \/ Disable(c)
  \/ CancelPoll(c) \/ LastCheck(c) \/ SelectLsb(c) \/ ReadTod(c) \/ GettimeFails(c)
  \/ Restore(c)

Next ==
  \/ \E c \in Callers :
       (\E r \in Requests : Call(c, r)) \/ Lock(c) \/ Operation(c)
  \/ WorkExpires \/ TestMask \/ Poll
  \/ \E i \in Plls : Edge(i)

Spec == Init /\ [][Next]_vars

(* Threads in the driver are scheduled, waiters get the mutex, a delay     *)
(* expires; nobody is obliged to call, and no edge has to come.            *)
Fairness ==
  /\ \A c \in Callers : SF_vars(Lock(c)) /\ WF_vars(Operation(c))
  /\ WF_vars(WorkExpires) /\ WF_vars(TestMask) /\ SF_vars(Poll)

FairSpec == Spec /\ Fairness

-----------------------------------------------------------------------------
(* Properties of any number of PLLs. *)

(* Between turning external time stamps off and on again no poll is queued *)
(* or running: nothing but the reader touches TOD_STS, so the time it      *)
(* reads is the one its own read latched.                                  *)
ReaderIsAlone ==
  \A c \in Callers :
    pc[c] \in {"trigger", "read", "restore"} /\ newMask[c] # {} =>
      ~queued /\ pc[Worker] # "lock"

(* The reader of the clock holds the mutex and waits for a poll that waits *)
(* for the mutex.                                                          *)
Stuck == pc[Worker] = "lock" /\ \E c \in Callers : pc[c] = "wait"

(* That is the only way a call may fail to return. *)
CallsReturnUnlessStuck ==
  \A c \in Callers : pc[c] # "idle" ~> pc[c] = "idle" \/ Stuck

(* It lasts, and nobody who is in the driver gets any further: the calls   *)
(* of every clock of the device wait for the mutex from then on.           *)
StuckForEver ==
  [][Stuck => Stuck' /\ \A c \in Callers : pc[c] # "idle" => pc'[c] = pc[c]]_vars

(* What "Disable extts" turned off "Re-enable extts" turns on again: with  *)
(* external time stamps enabled the poll runs again after every read.      *)
PollingResumes ==
  \A c \in Callers : pc[c] = "wait" ~> queued \/ mask = {}

-----------------------------------------------------------------------------
(* Every event is an edge of the reference its PLL was enabled with: the   *)
(* poll and the reader of the clock arm a PLL with its own trigger again,  *)
(* and an edge they meet while they do so is its own.  There are two       *)
(* exceptions.  The first event after the PLL was enabled may be an edge   *)
(* of the reference that was selected before, if that came between the     *)
(* read of TOD_STS and the selection of the new trigger.  And a read of    *)
(* one clock arms all PLLs with that clock's trigger.                      *)
EventsFromOwnReference == ~shared => \A i \in Plls : event[i] # "other"

-----------------------------------------------------------------------------
(* Properties of a device with one PLL: with two of them a read of the     *)
(* clock may leave the poll off.                                           *)

(* While a PLL is enabled and the mutex is free the poll is queued or on   *)
(* its way: no read of the clock leaves it off, unless a transfer failed.  *)
EnabledIsPolledUnlessFailed ==
  errs = 0 /\ mask # {} /\ lock = Nobody => queued \/ pc[Worker] # "idle"

(* The poll takes no reading of the clock for an edge: discarding and      *)
(* remembering keep the two uses of TOD_STS apart, unless a transfer       *)
(* failed.                                                                 *)
NoEventFromReadUnlessFailed == errs = 0 => \A i \in Plls : event[i] # "read"
=============================================================================
