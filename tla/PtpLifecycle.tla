---------------------------- MODULE PtpLifecycle ----------------------------
(***************************************************************************)
(* Binding and unbinding of the two PTP drivers                            *)
(* (linux/drivers/ptp/ptp_clockmatrix.c, ptp_idt82p33.c) against calls of  *)
(* the clocks they register and against the works those calls queue.       *)
(*                                                                         *)
(* Both drivers set up their channels one after the other under the mutex, *)
(* the ClockMatrix driver registering a clock last, the 82P33 driver       *)
(* first; when a channel fails they let go of the mutex and unregister     *)
(* what they had registered.  The memory of the driver is freed when the   *)
(* probe has failed or the removal is over: nothing may be queued, run or  *)
(* call into it from then on.                                              *)
(*                                                                         *)
(* What the calls do to the device is left to the other modules; here they *)
(* queue works, wait for works and hold the mutex.                         *)
(***************************************************************************)
EXTENDS Naturals, FiniteSets

CONSTANTS
  Drivers,  \* which of the drivers are bound: "idtcm", "idt82p33"
  Last,     \* the channels are 0 .. Last
  Callers,  \* threads that call the clocks
  Extts,    \* extts_work
  Core,     \* the thread of the driver core, which probes and removes
  Nobody    \* owner of a free mutex

Channels == 0 .. Last
Works == Channels \cup {Extts}  \* adjtime_work per channel, and extts_work

ASSUME LifecycleAssumption ==
  /\ Drivers \subseteq {"idtcm", "idt82p33"}
  /\ Last \in Nat
  /\ Extts \notin Channels
  /\ Callers \cap Works = {} /\ Core # Nobody
  /\ {Core, Nobody} \cap (Callers \cup Works) = {}

VARIABLES
  driver,      \* the driver that is bound
  core,        \* what the driver core's thread does next
  index,       \* the channel its loop is at
  step,        \* the first or the second step of setting it up
  mask,        \* tod_mask, pll_mask: the channels that become clocks
  ready,       \* channels that are set up
  registered,  \* channels that are registered as clocks
  failed,      \* has the probe failed
  lock,        \* owner of the mutex
  call,        \* per caller: where it is, its kind, its clock and the channel
               \* an external time stamp is about
  eventClock,  \* per channel: event_channel, the clock its events go to, while
               \* it is in extts_mask, else Nobody
  posting,     \* clocks the polling work has found events for
  queued,      \* works that are queued
  run,         \* per work: "no", "lock" or "busy", when it runs
  overlapped,  \* has a call, a poll or a work gone on during unbinding
  lateEvent    \* has an event been posted to a clock that is not registered

coreVars   == <<driver, core, index, step, mask, ready, registered, failed>>
workVars   == <<eventClock, posting, queued, run>>
noteVars   == <<overlapped, lateEvent>>
vars == <<coreVars, lock, call, workVars, noteVars>>

Kinds == {"enable", "disable", "gettime", "adjtime"}

TypeOK ==
  /\ driver \in Drivers
  /\ core \in {"lock", "load", "channel", "unlock", "bound", "cancel", "unwind",
               "unregister", "gone"}
  /\ index \in 0 .. Last + 1 /\ step \in 1 .. 2
  /\ {mask, ready, registered, posting} \subseteq SUBSET Channels
  /\ {failed, overlapped, lateEvent} \subseteq BOOLEAN
  /\ lock \in Callers \cup Works \cup {Core, Nobody}
  /\ call \in [Callers -> [pc : {"idle", "lock", "busy"}, kind : Kinds,
                           clock : Channels, about : Channels]]
  /\ eventClock \in [Channels -> Channels \cup {Nobody}]
  /\ queued \subseteq Works
  /\ run \in [Works -> {"no", "lock", "busy"}]

exttsMask == {d \in Channels : eventClock[d] # Nobody}

NoCall == [pc |-> "idle", kind |-> "gettime", clock |-> 0, about |-> 0]

(* set_default_masks, and the like of idt82p33_probe *)
Init ==
  /\ driver \in Drivers
  /\ core = "lock" /\ index = 0 /\ step = 1
  /\ mask = {0}
  /\ ready = {} /\ registered = {} /\ failed = FALSE
  /\ lock = Nobody
  /\ call = [k \in Callers |-> NoCall]
  /\ eventClock = [d \in Channels |-> Nobody]
  /\ posting = {} /\ queued = {}
  /\ run = [w \in Works |-> "no"]
  /\ overlapped = FALSE /\ lateEvent = FALSE

-----------------------------------------------------------------------------
(* Probing. *)

Lock ==
  /\ core = "lock" /\ lock = Nobody
  /\ lock' = Core /\ core' = "load"
  /\ UNCHANGED <<driver, index, step, mask, ready, registered, failed, call, workVars, noteVars>>

(* A mask without any channel, or with one there is not, is refused.       *)
FirmwareMasks == (SUBSET Channels) \ {{}}

(* A firmware image may change the mask, also when its loading fails in    *)
(* the middle, which is no reason to give up.                              *)
LoadFirmware ==
  /\ core = "load"
  /\ mask' \in FirmwareMasks
  /\ core' = "channel"
  /\ UNCHANGED <<driver, index, step, ready, registered, failed, lock, call, workVars, noteVars>>

(* A missing image is one for the ClockMatrix: its probe is deferred.      *)
Defer ==
  /\ core = "load" /\ driver = "idtcm"
  /\ lock' = Nobody /\ core' = "gone" /\ failed' = TRUE
  /\ UNCHANGED <<driver, index, step, mask, ready, registered, call, workVars, noteVars>>

(* The step in which the driver registers the clock. *)
RegistersAt == IF driver = "idtcm" THEN 2 ELSE 1

NextStep(s, i) == step' = s /\ index' = i /\ core' = IF i > Last THEN "unlock" ELSE "channel"

MutantSetUp ==
  /\ core = "channel" /\ index \in mask /\ step # RegistersAt
  /\ ready' = ready \cup {index}
  /\ lock' = Nobody
  /\ IF step = 1 THEN NextStep(2, index) ELSE NextStep(1, index + 1)
  /\ UNCHANGED <<driver, mask, registered, failed, call, workVars, noteVars>>
SetUp ==
  /\ core = "channel" /\ index \in mask /\ step # RegistersAt
  /\ ready' = ready \cup {index}
  /\ IF step = 1 THEN NextStep(2, index) ELSE NextStep(1, index + 1)
  /\ UNCHANGED <<driver, mask, registered, failed, lock, call, workVars, noteVars>>

Register ==
  /\ core = "channel" /\ index \in mask /\ step = RegistersAt
  /\ registered' = registered \cup {index}
  /\ IF step = 1 THEN NextStep(2, index) ELSE NextStep(1, index + 1)
  /\ UNCHANGED <<driver, mask, ready, failed, lock, call, workVars, noteVars>>

(* A channel that is no clock may still be asked for time stamps.          *)
SetUpUnmasked ==
  /\ core = "channel" /\ index \notin mask
  /\ ready' = ready \cup {index}
  /\ NextStep(1, index + 1)
  /\ UNCHANGED <<driver, mask, registered, failed, lock, call, workVars, noteVars>>

MutantChannelFails ==
  /\ core = "channel" /\ index \in mask
  /\ NextStep(1, index + 1)
  /\ UNCHANGED <<driver, mask, ready, registered, failed, lock, call, workVars, noteVars>>
ChannelFails ==
  /\ core = "channel" /\ index \in mask
  /\ failed' = TRUE /\ core' = "unlock"
  /\ UNCHANGED <<driver, index, step, mask, ready, registered, lock, call, workVars, noteVars>>

MutantUnlock ==
  /\ core = "unlock"
  /\ lock' = (IF failed THEN lock ELSE Nobody) /\ index' = 0
  /\ core' = IF failed THEN "unwind" ELSE "bound"
  /\ UNCHANGED <<driver, step, mask, ready, registered, failed, call, workVars, noteVars>>
Unlock ==
  /\ core = "unlock"
  /\ lock' = Nobody /\ index' = 0
  /\ core' = IF failed THEN "unwind" ELSE "bound"
  /\ UNCHANGED <<driver, step, mask, ready, registered, failed, call, workVars, noteVars>>

-----------------------------------------------------------------------------
(* Unbinding, after a probe that failed or by removal. *)

(* idtcm_remove clears extts_mask, without the mutex: a poll that has      *)
(* found events goes on.                                                   *)
Remove ==
  /\ core = "bound"
  /\ IF driver = "idtcm"
       THEN eventClock' = [d \in Channels |-> Nobody] /\ core' = "unwind"
            /\ overlapped' = (overlapped \/ run[Extts] = "busy")
       ELSE core' = "cancel" /\ UNCHANGED <<eventClock, overlapped>>
  /\ UNCHANGED <<driver, index, step, mask, ready, registered, failed, lock, call,
                 posting, queued, run, lateEvent>>

(* cancel_delayed_work_sync takes a work from the queue, waits for its     *)
(* handler and keeps it from being queued meanwhile.                       *)
CancelSync(w) == run[w] = "no" /\ queued' = queued \ {w}

MutantCancelExtts ==
  /\ core = "cancel"
  /\ core' = IF driver = "idtcm" THEN "gone" ELSE "unwind"
  /\ UNCHANGED <<driver, index, step, mask, ready, registered, failed, lock, call, workVars,
                 noteVars>>
CancelExtts ==
  /\ core = "cancel"
  /\ CancelSync(Extts)
  /\ core' = IF driver = "idtcm" THEN "gone" ELSE "unwind"
  /\ UNCHANGED <<driver, index, step, mask, ready, registered, failed, lock, call,
                 eventClock, posting, run, noteVars>>

MutantCancelAdjtime ==
  /\ core = "unwind"
  /\ core' = "unregister"
  /\ UNCHANGED <<driver, index, step, mask, ready, registered, failed, lock, call, workVars,
                 noteVars>>
CancelAdjtime ==
  /\ core = "unwind"
  /\ IF driver = "idt82p33" THEN CancelSync(index) ELSE UNCHANGED queued
  /\ core' = "unregister"
  /\ UNCHANGED <<driver, index, step, mask, ready, registered, failed, lock, call,
                 eventClock, posting, run, noteVars>>

(* ptp_clock_unregister waits for the calls of its clock. *)
Unregister ==
  /\ core = "unregister"
  /\ \A k \in Callers : call[k].pc # "idle" => call[k].clock # index
  /\ registered' = registered \ {index}
  /\ index' = index + 1
  /\ core' = IF index < Last THEN "unwind"
             ELSE IF driver = "idtcm" /\ ~failed THEN "cancel" ELSE "gone"
  /\ UNCHANGED <<driver, step, mask, ready, failed, lock, call, workVars, noteVars>>

Unbinding == core \in {"cancel", "unwind", "unregister"}
GoesOn == overlapped' = (overlapped \/ Unbinding)

-----------------------------------------------------------------------------
(* Calls. *)

Call(k, kind, c, d) ==
  /\ call[k].pc = "idle" /\ c \in registered
  /\ ~(core = "unregister" /\ c = index)
  /\ driver = "idtcm" => kind \in {"enable", "disable"}
  /\ kind \in {"enable", "disable"} \/ d = c
  /\ call' = [call EXCEPT ![k] = [pc |-> "lock", kind |-> kind, clock |-> c, about |-> d]]
  /\ UNCHANGED <<coreVars, lock, workVars, noteVars>>

Locked(k, kind) ==
  /\ call[k].pc = "lock" /\ call[k].kind = kind
  /\ lock = Nobody
  /\ GoesOn

Return(k) == call' = [call EXCEPT ![k] = NoCall] /\ lock' = Nobody

(* idtcm_extts_enable, idt82p33_extts_enable *)
EnableExtts(k) ==
  /\ Locked(k, "enable") /\ Return(k)
  /\ eventClock' = [eventClock EXCEPT ![call[k].about] = call[k].clock]
  /\ queued' = IF exttsMask = {} THEN queued \cup {Extts} ELSE queued
  /\ UNCHANGED <<coreVars, posting, run, lateEvent>>

DisableExtts(k) ==
  /\ Locked(k, "disable") /\ Return(k)
  /\ eventClock' = [eventClock EXCEPT ![call[k].about] = Nobody]
  /\ queued' = IF exttsMask' = {} THEN queued \ {Extts} ELSE queued
  /\ UNCHANGED <<coreVars, posting, run, lateEvent>>

CallFails(k) ==
  /\ call[k].pc = "lock" /\ lock = Nobody
  /\ Return(k)
  /\ UNCHANGED <<coreVars, workVars, noteVars>>

(* Reading the clock of an 82P33 cancels the poll, if there is one, with   *)
(* the mutex held, and queues it again; adjtime begins with it.            *)
BeginRead(k) ==
  /\ Locked(k, call[k].kind) /\ call[k].kind \in {"gettime", "adjtime"}
  /\ lock' = k
  /\ call' = [call EXCEPT ![k].pc = "busy"]
  /\ UNCHANGED <<coreVars, workVars, lateEvent>>

(* The works that are queued once the clock has been read. *)
Requeued == IF exttsMask = {} THEN queued ELSE queued \cup {Extts}
PollIsOver == exttsMask # {} => run[Extts] = "no"

EndRead(k) ==
  /\ call[k].pc = "busy" /\ PollIsOver
  /\ queued' \in {Requeued, Requeued \cup (IF call[k].kind = "adjtime" THEN {call[k].clock} ELSE {})}
  /\ Return(k) /\ GoesOn
  /\ UNCHANGED <<coreVars, eventClock, posting, run, lateEvent>>

-----------------------------------------------------------------------------
(* Works. *)

SetRun(w, at) == run' = [run EXCEPT ![w] = at]

Expire(w) ==
  /\ w \in queued /\ run[w] = "no"
  /\ queued' = queued \ {w}
  /\ SetRun(w, IF w = Extts /\ exttsMask = {} THEN "no" ELSE "lock")
  /\ UNCHANGED <<coreVars, lock, call, eventClock, posting, noteVars>>

BeginWork(w) ==
  /\ run[w] = "lock" /\ lock = Nobody
  /\ lock' = w /\ SetRun(w, "busy")
  /\ w # Extts => UNCHANGED <<eventClock, posting>>
  /\ w = Extts =>
       \E found \in SUBSET exttsMask, singleShot \in BOOLEAN :
         /\ posting' = {eventClock[d] : d \in found}
         /\ eventClock' = [d \in Channels |->
              IF singleShot /\ d \in found THEN Nobody ELSE eventClock[d]]
  /\ UNCHANGED <<coreVars, call, queued, noteVars>>

(* idtcm_extts_check, idt82p33_extts_check: a single shot channel is       *)
(* turned off by its event.                                                *)
EndPoll ==
  /\ run[Extts] = "busy"
  /\ lateEvent' = (lateEvent \/ ~(posting \subseteq registered))
  /\ posting' = {}
  /\ queued' = IF exttsMask = {} THEN queued ELSE queued \cup {Extts}
  /\ lock' = Nobody /\ SetRun(Extts, "no")
  /\ UNCHANGED <<coreVars, call, eventClock, overlapped>>

(* idt82p33_adjtime_workaround reads the clock, too. *)
EndAdjtime(c) ==
  /\ run[c] = "busy" /\ PollIsOver
  /\ queued' = Requeued
  /\ lock' = Nobody /\ SetRun(c, "no") /\ GoesOn
  /\ UNCHANGED <<coreVars, call, eventClock, posting, lateEvent>>

-----------------------------------------------------------------------------
CoreStep ==
  \/ Lock \/ LoadFirmware \/ Defer
  \/ SetUp \/ Register \/ SetUpUnmasked \/ ChannelFails \/ Unlock
  \/ CancelExtts \/ CancelAdjtime \/ Unregister

CallStep(k) ==
  EnableExtts(k) \/ DisableExtts(k) \/ CallFails(k) \/ BeginRead(k) \/ EndRead(k)

WorkStep(w) == BeginWork(w) \/ (w = Extts /\ EndPoll) \/ (w # Extts /\ EndAdjtime(w))

Next ==
  \/ CoreStep \/ Remove
  \/ \E k \in Callers :
       \/ \E kind \in Kinds, c, d \in Channels : Call(k, kind, c, d)
       \/ CallStep(k)
  \/ \E w \in Works : Expire(w) \/ WorkStep(w)

Spec == Init /\ [][Next]_vars

-----------------------------------------------------------------------------
(* A driver that is bound has registered exactly the clocks its firmware   *)
(* names and has set up every channel.                                     *)
BoundIsComplete == core = "bound" => registered = mask /\ ready = Channels

(* A call that has the mutex finds its clock and the channel it is about   *)
(* set up, although the clock is visible before: unless the probe failed.  *)
CallsFindReady ==
  \A k \in Callers :
    call[k].pc # "idle" /\ lock \in {Nobody, k} /\ ~failed =>
      {call[k].clock, call[k].about} \subseteq ready

(* When the driver's memory is freed no clock is left, no call is inside   *)
(* and no work is queued or runs; where works are cancelled before the     *)
(* clocks go, or not at all, only if no call and no alignment work went on *)
(* during the unbinding.                                                   *)
QuietOnceGone ==
  core = "gone" =>
    /\ registered = {} /\ \A k \in Callers : call[k].pc = "idle"
    /\ \/ queued = {} /\ \A w \in Works : run[w] = "no"
       \/ overlapped /\ (failed \/ driver = "idt82p33")

(* Events go to registered clocks, unless a call or a poll that was under  *)
(* way went on during the unbinding.                                       *)
EventsToRegistered == lateEvent => overlapped

(* Who waits for whom: for the owner of the mutex, for a call to return    *)
(* before its clock goes, for the handler of a work that is cancelled.     *)
Actors == Callers \cup Works \cup {Core}

NeedsMutex(a) ==
  \/ a \in Callers /\ call[a].pc = "lock"
  \/ a \in Works /\ run[a] = "lock"

Reads(a) ==
  /\ exttsMask # {}
  /\ \/ a \in Callers /\ call[a].pc = "busy"
     \/ a \in Channels /\ run[a] = "busy"

WaitsFor(a, b) ==
  \/ NeedsMutex(a) /\ lock = b
  \/ Reads(a) /\ b = Extts /\ run[b] # "no"
  \/ a = Core /\ core = "unregister" /\ b \in Callers
       /\ call[b].pc # "idle" /\ call[b].clock = index
  \/ a = Core /\ core = "unwind" /\ driver = "idt82p33" /\ b = index /\ run[b] # "no"
  \/ a = Core /\ core = "cancel" /\ b = Extts /\ run[b] # "no"

(* Calls, probing and removing end: the owner of the mutex, for whom the   *)
(* others wait, waits for none of them, but for a read of an 82P33 that    *)
(* waits for the poll.                                                     *)
OwnerIsNotHeldUp ==
  \A b \in Actors :
    NeedsMutex(b) /\ lock # Nobody /\ WaitsFor(lock, b) =>
      driver = "idt82p33" /\ b = Extts /\ Reads(lock)
=============================================================================
