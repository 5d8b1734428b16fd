------------------------- MODULE IdtcmExtts_proofs -------------------------
(***************************************************************************)
(* Proofs about IdtcmExtts, for any number of ToDs, clocks and callers: an *)
(* enabled ToD is polled, has its trigger armed or a time stamp waiting,   *)
(* and no time stamp is reported twice.                                    *)
(***************************************************************************)
EXTENDS IdtcmExtts, TLAPS

Holders == {"arm", "note", "off"}

(* Who has the mutex, and where.                                           *)
MutexInv ==
  /\ \A c \in Callers :
       /\ pc[c] \in {"idle", "lock"} \cup Holders
       /\ lock = c <=> pc[c] \in Holders
  /\ pc[Worker] \in {"idle", "test", "lock", "loop", "rearm"}
  /\ lock = Worker <=> pc[Worker] \in {"loop", "rearm"}
  /\ pc[Worker] = "rearm" => at \in Tods

(* A request that has the mutex knows whether it is the first to enable a  *)
(* ToD; with the mask not empty the work is queued or under way, whoever   *)
(* has the mutex.                                                          *)
PollInv ==
  removing = "no" =>
    /\ \A c \in Callers : pc[c] \in Holders => (req[c].first <=> mask = {})
    /\ mask # {} => queued \/ pc[Worker] # "idle"

(* The ToD the poll is about to arm again is the only one in the mask that *)
(* may be neither armed nor latched.                                       *)
Waits(t) == armed[t] \/ latched[t]

ArmedInv ==
  errs = 0 =>
    /\ \A t \in mask : Waits(t) \/ (pc[Worker] = "rearm" /\ t = at)
    /\ \A c \in Callers : pc[c] = "note" => Waits(req[c].tod)
    /\ \A t \in Tods : event[t] # "stale"

ExttsInv == MutexInv /\ PollInv /\ ArmedInv

LEMMA TypesStep == ASSUME TypeOK, ExttsInv, Next PROVE TypeOK'
PROOF
<1> USE ExttsAssumption DEF TypeOK, Actors, Tods, deviceVars, removeVars
<1>1. ASSUME NEW c \in Callers, NEW k \in Clocks, NEW t \in Tods, NEW on \in BOOLEAN,
             Call(c, k, t, on)
      PROVE  TypeOK'
  BY <1>1 DEF Call, Goto, Requests
<1>2. ASSUME NEW c \in Callers, Lock(c) PROVE TypeOK'
  <2>1. [req[c] EXCEPT !.first = (mask = {})] \in Requests
    <3>1. req[c] \in Requests BY <1>2 DEF Lock
    <3>2. (mask = {}) \in BOOLEAN OBVIOUS
    <3> QED BY <3>1, <3>2 DEF Requests
  <2>2. req' \in [Callers -> Requests]
    BY <1>2, <2>1 DEF Lock
  <2> QED BY <1>2, <2>2 DEF Lock, Goto
<1>3. ASSUME NEW c \in Callers, Request(c) PROVE TypeOK'
  <2>1. CASE NoPin(c) BY <2>1 DEF NoPin, Release, Goto
  <2>2. CASE ArmForRequest(c) BY <2>2 DEF ArmForRequest, Arm, Goto
  <2>3. CASE ArmForRequestFails(c)
    <3>1. errs' \in 0 .. MaxErrors BY <2>3 DEF ArmForRequestFails, Fault
    <3> QED BY <2>3, <3>1 DEF ArmForRequestFails, Release, Goto
  <2>4. CASE NoteEnabled(c)
    <3>1. req[c].tod \in Tods BY <1>3 DEF Requests
    <3>2. singleShot' \in BOOLEAN /\ queued' \in BOOLEAN
      BY <2>4 DEF NoteEnabled, is_single_shot, QueueIfFirst, Queue
    <3> QED BY <2>4, <3>1, <3>2 DEF NoteEnabled, Release, Goto
  <2>5. CASE Disable(c)
    <3>1. singleShot' \in BOOLEAN /\ queued' \in BOOLEAN BY <2>5 DEF Disable, is_single_shot
    <3> QED BY <2>5, <3>1 DEF Disable, Release, Goto
  <2> QED BY <1>3, <2>1, <2>2, <2>3, <2>4, <2>5 DEF Request
<1>4. CASE WorkExpires BY <1>4 DEF WorkExpires, Goto
<1>5. CASE StartPoll BY <1>5 DEF StartPoll, Goto
<1>6. CASE PollStep
  <2>1. CASE TestMask BY <2>1 DEF TestMask, Goto
  <2>2. CASE SkipTod BY <2>2 DEF SkipTod, MoreTods
  <2>3. CASE CheckFails
    <3>1. errs' \in 0 .. MaxErrors BY <2>3 DEF CheckFails, Fault
    <3>2. at' \in 0 .. MAX_TOD BY <2>3 DEF CheckFails
    <3> QED BY <2>3, <3>1, <3>2 DEF CheckFails
  <2>4. CASE Report
    <3>1. at' \in 0 .. MAX_TOD BY <2>4 DEF Report, AfterReport
    <3>2. mask' \subseteq Tods BY <2>4 DEF Report, AfterReport
    <3>3. pc' \in [Actors -> {"idle", "test", "lock", "arm", "note", "off", "loop", "rearm"}]
      BY <2>4 DEF Report, AfterReport, Goto
    <3>4. event' \in [Tods -> {"none", "new", "stale"}] /\ latched' \in [Tods -> BOOLEAN]
      BY <2>4 DEF Report
    <3> QED BY <2>4, <3>1, <3>2, <3>3, <3>4 DEF Report
  <2>5. CASE ReArm
    <3>1. at' \in 0 .. MAX_TOD BY <2>5 DEF ReArm, ExttsInv, MutexInv
    <3> QED BY <2>5, <3>1 DEF ReArm, Arm, Goto
  <2>6. CASE ReArmFails
    <3>1. errs' \in 0 .. MaxErrors BY <2>6 DEF ReArmFails, Fault
    <3>2. at' \in 0 .. MAX_TOD BY <2>6 DEF ReArmFails, ExttsInv, MutexInv
    <3> QED BY <2>6, <3>1, <3>2 DEF ReArmFails, Goto
  <2>7. CASE EndPoll BY <2>7 DEF EndPoll, PollAgain, Queue, Release, Goto
  <2> QED BY <1>6, <2>1, <2>2, <2>3, <2>4, <2>5, <2>6, <2>7 DEF PollStep
<1>7. CASE RemoveStarts BY <1>7 DEF RemoveStarts
<1>8. CASE Cancel BY <1>8 DEF Cancel, CancelWork
<1>9. CASE CancelReturns BY <1>9 DEF CancelReturns
<1>10. ASSUME NEW k \in Clocks, UnregisterClock(k) PROVE TypeOK'
  BY <1>10 DEF UnregisterClock
<1>11. ASSUME NEW t \in Tods, Fire(t) PROVE TypeOK'
  BY <1>11 DEF Fire
<1> HIDE DEF TypeOK, Actors, Tods
<1> QED BY <1>1, <1>2, <1>3, <1>4, <1>5, <1>6, <1>7, <1>8, <1>9, <1>10, <1>11 DEF Next

LEMMA MutexStep == ASSUME TypeOK, ExttsInv, Next PROVE MutexInv'
PROOF
<1> USE ExttsAssumption DEF TypeOK, ExttsInv, Actors, Tods, deviceVars, removeVars, MutexInv, Holders
<1>1. ASSUME NEW c \in Callers, NEW k \in Clocks, NEW t \in Tods, NEW on \in BOOLEAN,
             Call(c, k, t, on)
      PROVE  MutexInv'
  BY <1>1 DEF Call, Goto
<1>2. ASSUME NEW c \in Callers, Lock(c) PROVE MutexInv'
  BY <1>2 DEF Lock, Goto
<1>3. ASSUME NEW c \in Callers, Request(c) PROVE MutexInv'
  <2>1. CASE NoPin(c) BY <2>1 DEF NoPin, Release, Goto
  <2>2. CASE ArmForRequest(c) BY <2>2 DEF ArmForRequest, Arm, Goto
  <2>3. CASE ArmForRequestFails(c) BY <2>3 DEF ArmForRequestFails, Fault, Release, Goto
  <2>4. CASE NoteEnabled(c) BY <2>4 DEF NoteEnabled, QueueIfFirst, Queue, Release, Goto
  <2>5. CASE Disable(c) BY <2>5 DEF Disable, Release, Goto
  <2> QED BY <1>3, <2>1, <2>2, <2>3, <2>4, <2>5 DEF Request
<1>4. CASE WorkExpires BY <1>4 DEF WorkExpires, Goto
<1>5. CASE StartPoll BY <1>5 DEF StartPoll, Goto
<1>6. CASE PollStep
  <2>1. CASE TestMask BY <2>1 DEF TestMask, Goto
  <2>2. CASE SkipTod BY <2>2 DEF SkipTod, MoreTods
  <2>3. CASE CheckFails BY <2>3 DEF CheckFails, Fault
  <2>4. CASE Report BY <2>4 DEF Report, AfterReport, Goto
  <2>5. CASE ReArm BY <2>5 DEF ReArm, Arm, Goto
  <2>6. CASE ReArmFails BY <2>6 DEF ReArmFails, Fault, Goto
  <2>7. CASE EndPoll BY <2>7 DEF EndPoll, PollAgain, Queue, Release, Goto
  <2> QED BY <1>6, <2>1, <2>2, <2>3, <2>4, <2>5, <2>6, <2>7 DEF PollStep
<1>7. CASE RemoveStarts BY <1>7 DEF RemoveStarts
<1>8. CASE Cancel BY <1>8 DEF Cancel, CancelWork
<1>9. CASE CancelReturns BY <1>9 DEF CancelReturns
<1>10. ASSUME NEW k \in Clocks, UnregisterClock(k) PROVE MutexInv'
  BY <1>10 DEF UnregisterClock
<1>11. ASSUME NEW t \in Tods, Fire(t) PROVE MutexInv'
  BY <1>11 DEF Fire
<1> QED BY <1>1, <1>2, <1>3, <1>4, <1>5, <1>6, <1>7, <1>8, <1>9, <1>10, <1>11 DEF Next

LEMMA PollStepKeeps == ASSUME TypeOK, ExttsInv, Next PROVE PollInv'
PROOF
<1> USE ExttsAssumption DEF TypeOK, ExttsInv, Actors, Tods, deviceVars, removeVars, MutexInv, Holders, PollInv, Requests
<1>1. ASSUME NEW c \in Callers, NEW k \in Clocks, NEW t \in Tods, NEW on \in BOOLEAN,
             Call(c, k, t, on)
      PROVE  PollInv'
  BY <1>1 DEF Call, Goto
<1>2. ASSUME NEW c \in Callers, Lock(c) PROVE PollInv'
  <2>1. req'[c].first <=> mask = {}
    <3>1. req'[c] = [req[c] EXCEPT !.first = (mask = {})] BY <1>2 DEF Lock
    <3>2. CASE mask = {}
      <4>1. req'[c] = [req[c] EXCEPT !.first = TRUE] BY <3>1, <3>2, Zenon
      <4> QED BY <3>2, <4>1
    <3>3. CASE mask # {}
      <4>1. (mask = {}) = FALSE BY <3>3
      <4>2. req'[c] = [req[c] EXCEPT !.first = FALSE] BY <3>1, <4>1, Zenon
      <4> QED BY <3>3, <4>2
    <3> QED BY <3>2, <3>3
  <2>2. \A b \in Callers : b # c => pc[b] \notin Holders BY <1>2 DEF Lock
  <2>3. \A b \in Callers : pc'[b] \in Holders => b = c BY <1>2, <2>2 DEF Lock, Goto
  <2>4. pc'[Worker] = pc[Worker] BY <1>2 DEF Lock, Goto
  <2> QED BY <1>2, <2>1, <2>3, <2>4 DEF Lock
<1>3. ASSUME NEW c \in Callers, Request(c) PROVE PollInv'
  <2>1. CASE NoPin(c) BY <2>1 DEF NoPin, Release, Goto
  <2>2. CASE ArmForRequest(c) BY <2>2 DEF ArmForRequest, Arm, Goto
  <2>3. CASE ArmForRequestFails(c) BY <2>3 DEF ArmForRequestFails, Fault, Release, Goto
  <2>4. CASE NoteEnabled(c) BY <2>4 DEF NoteEnabled, QueueIfFirst, Queue, Release, Goto
  <2>5. CASE Disable(c) BY <2>5 DEF Disable, Release, Goto
  <2> QED BY <1>3, <2>1, <2>2, <2>3, <2>4, <2>5 DEF Request
<1>4. CASE WorkExpires BY <1>4 DEF WorkExpires, Goto
<1>5. CASE StartPoll BY <1>5 DEF StartPoll, Goto
<1>6. CASE PollStep
  <2>1. CASE TestMask BY <2>1 DEF TestMask, Goto
  <2>2. CASE SkipTod BY <2>2 DEF SkipTod, MoreTods
  <2>3. CASE CheckFails BY <2>3 DEF CheckFails, Fault
  <2>4. CASE Report BY <2>4 DEF Report, AfterReport, Goto
  <2>5. CASE ReArm BY <2>5 DEF ReArm, Arm, Goto
  <2>6. CASE ReArmFails BY <2>6 DEF ReArmFails, Fault, Goto
  <2>7. CASE EndPoll BY <2>7 DEF EndPoll, PollAgain, Queue, Release, Goto
  <2> QED BY <1>6, <2>1, <2>2, <2>3, <2>4, <2>5, <2>6, <2>7 DEF PollStep
<1>7. CASE RemoveStarts BY <1>7 DEF RemoveStarts
<1>8. CASE Cancel BY <1>8 DEF Cancel, CancelWork
<1>9. CASE CancelReturns BY <1>9 DEF CancelReturns
<1>10. ASSUME NEW k \in Clocks, UnregisterClock(k) PROVE PollInv'
  BY <1>10 DEF UnregisterClock
<1>11. ASSUME NEW t \in Tods, Fire(t) PROVE PollInv'
  BY <1>11 DEF Fire
<1> QED BY <1>1, <1>2, <1>3, <1>4, <1>5, <1>6, <1>7, <1>8, <1>9, <1>10, <1>11 DEF Next

LEMMA ArmedStep == ASSUME TypeOK, ExttsInv, Next PROVE ArmedInv'
PROOF
<1> USE ExttsAssumption DEF TypeOK, ExttsInv, Actors, Tods, deviceVars, removeVars, MutexInv, Holders, ArmedInv, Waits, Requests
<1>1. ASSUME NEW c \in Callers, NEW k \in Clocks, NEW t \in Tods, NEW on \in BOOLEAN,
             Call(c, k, t, on)
      PROVE  ArmedInv'
  BY <1>1 DEF Call, Goto
<1>2. ASSUME NEW c \in Callers, Lock(c) PROVE ArmedInv'
  BY <1>2 DEF Lock, Goto
<1>3. ASSUME NEW c \in Callers, Request(c) PROVE ArmedInv'
  <2>1. CASE NoPin(c) BY <2>1 DEF NoPin, Release, Goto
  <2>2. CASE ArmForRequest(c) BY <2>2 DEF ArmForRequest, Arm, Goto
  <2>3. CASE ArmForRequestFails(c) BY <2>3 DEF ArmForRequestFails, Fault, Release, Goto
  <2>4. CASE NoteEnabled(c) BY <2>4 DEF NoteEnabled, QueueIfFirst, Queue, Release, Goto
  <2>5. CASE Disable(c) BY <2>5 DEF Disable, Release, Goto
  <2> QED BY <1>3, <2>1, <2>2, <2>3, <2>4, <2>5 DEF Request
<1>4. CASE WorkExpires BY <1>4 DEF WorkExpires, Goto
<1>5. CASE StartPoll BY <1>5 DEF StartPoll, Goto
<1>6. CASE PollStep
  <2>1. CASE TestMask BY <2>1 DEF TestMask, Goto
  <2>2. CASE SkipTod BY <2>2 DEF SkipTod, MoreTods
  <2>3. CASE CheckFails BY <2>3 DEF CheckFails, Fault
  <2>4. CASE Report
    <3>1. /\ pc[Worker] = "loop" /\ at \in mask /\ ~armed[at]
          /\ event' = [event EXCEPT ![at] = IF latched[at] THEN "new" ELSE "stale"]
          /\ latched' = [latched EXCEPT ![at] = FALSE]
          /\ UNCHANGED <<req, armed, errs>>
      BY <2>4 DEF Report
    <3>2. /\ \A c \in Callers : pc'[c] = pc[c] /\ pc[c] # "note"
          /\ \A t \in mask' : t # at \/ (pc'[Worker] = "rearm" /\ t = at')
          /\ mask' \subseteq mask
      BY <2>4, <3>1 DEF Report, AfterReport, Goto
    <3>3. \A t \in Tods \ {at} : event'[t] = event[t] /\ latched'[t] = latched[t]
      BY <3>1
    <3>4. errs = 0 => event'[at] = "new"
      BY <3>1
    <3> QED BY <3>1, <3>2, <3>3, <3>4
  <2>5. CASE ReArm BY <2>5 DEF ReArm, Arm, Goto
  <2>6. CASE ReArmFails BY <2>6 DEF ReArmFails, Fault, Goto
  <2>7. CASE EndPoll BY <2>7 DEF EndPoll, PollAgain, Queue, Release, Goto
  <2> QED BY <1>6, <2>1, <2>2, <2>3, <2>4, <2>5, <2>6, <2>7 DEF PollStep
<1>7. CASE RemoveStarts BY <1>7 DEF RemoveStarts
<1>8. CASE Cancel BY <1>8 DEF Cancel, CancelWork
<1>9. CASE CancelReturns BY <1>9 DEF CancelReturns
<1>10. ASSUME NEW k \in Clocks, UnregisterClock(k) PROVE ArmedInv'
  BY <1>10 DEF UnregisterClock
<1>11. ASSUME NEW t \in Tods, Fire(t) PROVE ArmedInv'
  BY <1>11 DEF Fire
<1> QED BY <1>1, <1>2, <1>3, <1>4, <1>5, <1>6, <1>7, <1>8, <1>9, <1>10, <1>11 DEF Next

-----------------------------------------------------------------------------
LEMMA ExttsInit == Init => TypeOK /\ ExttsInv
PROOF
<1> SUFFICES ASSUME Init PROVE TypeOK /\ ExttsInv OBVIOUS
<1>1. TypeOK
  <2>1. 0 \in 0 .. MAX_TOD /\ 0 \in 0 .. MaxErrors BY ExttsAssumption
  <2>2. req \in [Callers -> Requests]
    <3>1. [clock : Clocks, tod : Tods, on : {FALSE}, first : {FALSE}] \subseteq Requests
      BY DEF Requests
    <3> QED BY <3>1 DEF Init
  <2> QED BY <2>1, <2>2 DEF Init, TypeOK, Actors
<1>2. MutexInv BY ExttsAssumption DEF Init, MutexInv, Holders, Actors
<1>3. PollInv /\ ArmedInv BY ExttsAssumption DEF Init, PollInv, ArmedInv, Holders, Actors
<1> QED BY <1>1, <1>2, <1>3 DEF ExttsInv

LEMMA ExttsStep == TypeOK /\ ExttsInv /\ [Next]_vars => TypeOK' /\ ExttsInv'
PROOF
<1> SUFFICES ASSUME TypeOK, ExttsInv, [Next]_vars PROVE TypeOK' /\ ExttsInv' OBVIOUS
<1>1. CASE Next
  BY <1>1, TypesStep, MutexStep, PollStepKeeps, ArmedStep DEF ExttsInv
<1>2. CASE UNCHANGED vars
  BY <1>2 DEF vars, TypeOK, ExttsInv, MutexInv, PollInv, ArmedInv, Waits
<1> QED BY <1>1, <1>2

(* The invariant of external time stamps.                                  *)
THEOREM ExttsInvariant == Spec => [](TypeOK /\ ExttsInv)
PROOF BY ExttsInit, ExttsStep, PTL DEF Spec

(* The work is queued or under way for as long as a ToD is enabled, until  *)
(* the driver is removed.                                                  *)
THEOREM EnabledTodsArePolled == Spec => []EnabledIsPolled
PROOF
<1>1. ExttsInv => EnabledIsPolled BY DEF ExttsInv, PollInv, EnabledIsPolled
<1> QED BY <1>1, ExttsInvariant, PTL

(* An enabled ToD waits for an edge or to be read.                         *)
THEOREM PolledTodsAreArmed == Spec => []PolledIsArmed
PROOF
<1>1. ExttsInv => PolledIsArmed
  BY ExttsAssumption DEF ExttsInv, MutexInv, ArmedInv, Waits, PolledIsArmed
<1> QED BY <1>1, ExttsInvariant, PTL

(* No time stamp is reported twice.                                        *)
THEOREM ReportedOnce == Spec => []EventsAreNew
PROOF
<1>1. ExttsInv => EventsAreNew BY DEF ExttsInv, ArmedInv, EventsAreNew
<1> QED BY <1>1, ExttsInvariant, PTL
=============================================================================
