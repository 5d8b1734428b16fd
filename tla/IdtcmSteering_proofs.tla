----------------------- MODULE IdtcmSteering_proofs -----------------------
(***************************************************************************)
(* Proofs about IdtcmSteering, for any set of callers and frequencies and  *)
(* any number of failed transfers.                                         *)
(***************************************************************************)
EXTENDS IdtcmSteering, PullIn, TLAPS

(* Who may be where: the owner of the mutex is the one actor inside its    *)
(* critical section, the worker only stops pull-ins and callers never do,  *)
(* and only adjfine has anything to do after it.                           *)
Placement ==
  /\ \A a \in Actors : lock = a <=> pc[a] \in {"setup", "mode", "write"}
  /\ \A c \in Callers : op[c].kind # "stop"
  /\ op[Worker].kind = "stop"
  /\ \A a \in Actors : pc[a] = "store" => a \in Callers /\ op[a].kind = "adjfine"

(* The cached mode is the device's, and it is the one the word of an       *)
(* operation about to write needs; between timers and mode it is not yet.  *)
ModeCoherent ==
  /\ hwMode = mode
  /\ manualRef => ~wpTimer
  /\ \A a \in Actors :
       /\ pc[a] = "write" => Steers(a) /\ mode = ModeFor(a)
       /\ pc[a] = "mode" => /\ Steers(a) /\ mode # ModeFor(a)
                            /\ ~manualRef /\ wpTimer = TimerFor(a)

(* Once a switch has succeeded the timer follows the mode, except while    *)
(* somebody is between the two, until a switch breaks off.                 *)
TimerCoherent ==
  switched /\ (\A a \in Actors : pc[a] # "mode")
    => wpTimer = (~manualRef /\ mode = WritePhase)

IInv ==
  /\ TypeOK
  /\ Placement
  /\ ModeCoherent
  /\ TimerCoherent
  /\ OffFrequencyIsFlagged
  /\ PullInHasCanceller

USE SteeringAssumption DEF SteeringAssumption

(* What op holds outside the driver is an operation of the right kind. *)
LEMMA NoOpKind ==
  ASSUME NEW a \in Actors
  PROVE  NoOp(a) \in Ops /\ (NoOp(a).kind = "stop" <=> a = Worker)
<1>1. CASE a = Worker
  BY <1>1 DEF NoOp, Ops, Kinds
<1>2. CASE a # Worker
  BY <1>2 DEF NoOp, Ops, Kinds
<1>3. QED
  BY <1>1, <1>2

LEMMA InitIInv == Init => IInv
<1> SUFFICES ASSUME Init PROVE IInv
  OBVIOUS
<1>1. wpTimer \in BOOLEAN /\ switched \in BOOLEAN /\ errs \in 0..MaxErrors /\ (manualRef => ~wpTimer)
  <2>1. wpTimer \in BOOLEAN /\ errs \in 0..MaxErrors /\ (manualRef => ~wpTimer)
    BY DEF Init, InitialModes
  <2>2. switched \in BOOLEAN
    BY Zenon DEF Init, InitialModes
  <2>3. QED
    BY <2>1, <2>2
<1>2. mode \in {WriteFrequency, WritePhase, Unsupported} /\ (switched => ~wpTimer /\ mode = WriteFrequency)
  BY DEF Init, InitialModes
<1>3. pc = [a \in Actors |-> "idle"] /\ op = [a \in Actors |-> NoOp(a)] /\ lock = Nobody
  BY DEF Init
<1>4. TypeOK
  <2>1. op \in [Actors -> Ops]
    BY <1>3, NoOpKind
  <2>2. QED
    BY <1>1, <1>2, <1>3, <2>1 DEF TypeOK, Init
<1>5. Placement
  <2>1. \A a \in Actors : op[a].kind = "stop" <=> a = Worker
    BY <1>3, NoOpKind
  <2>2. QED
    BY <1>3, <2>1 DEF Placement, Actors
<1>6. ModeCoherent
  BY <1>1, <1>3 DEF ModeCoherent, Init
<1>7. TimerCoherent
  BY <1>1, <1>2 DEF TimerCoherent, WriteFrequency, WritePhase
<1>8. OffFrequencyIsFlagged /\ PullInHasCanceller
  BY DEF OffFrequencyIsFlagged, PullInHasCanceller, Init
<1>9. QED
  BY <1>4, <1>5, <1>6, <1>7, <1>8 DEF IInv

(* The types of where the actors are, and of the rest. *)
Labels == {"idle", "lock", "setup", "mode", "write", "store"}
ActorTypes == pc \in [Actors -> Labels] /\ op \in [Actors -> Ops] /\ lock \in Actors \cup {Nobody}

Words == [base : Freqs \cup {Torn}, pull : BOOLEAN]
DriverTypes ==
  /\ oldFirmware \in BOOLEAN /\ manualRef \in BOOLEAN
  /\ mode \in {WriteFrequency, WritePhase, Unsupported}
  /\ pullIn \in BOOLEAN /\ currentFreq \in Freqs /\ due \in BOOLEAN /\ alive \in BOOLEAN
DeviceTypes ==
  /\ hwMode \in {WriteFrequency, WritePhase, Unsupported}
  /\ wpTimer \in BOOLEAN /\ dpll \in Words /\ hwPullIn \in BOOLEAN
HistoryTypes ==
  /\ errs \in 0..MaxErrors
  /\ overlapped \in BOOLEAN /\ unsure \in BOOLEAN /\ abandoned \in BOOLEAN /\ switched \in BOOLEAN

LEMMA TypeParts == TypeOK <=> ActorTypes /\ DriverTypes /\ DeviceTypes /\ HistoryTypes
BY DEF TypeOK, ActorTypes, DriverTypes, DeviceTypes, HistoryTypes, Labels, Words

LEMMA TypeParts2 == TypeOK' <=> ActorTypes' /\ DriverTypes' /\ DeviceTypes' /\ HistoryTypes'
BY DEF TypeOK, ActorTypes, DriverTypes, DeviceTypes, HistoryTypes, Labels, Words

LEMMA ActorTypesKept ==
  ASSUME TypeOK, NEW a \in Actors, NEW label \in Labels, Goto(a, label),
         UNCHANGED op \/ \E o \in Ops : op' = [op EXCEPT ![a] = o],
         lock' \in Actors \cup {Nobody}
  PROVE  ActorTypes'
BY TypeParts DEF ActorTypes, Goto

LEMMA ReturnTypes ==
  ASSUME TypeOK, NEW a \in Actors, Return(a)
  PROVE  ActorTypes'
BY ActorTypesKept, NoOpKind DEF Return, Labels

LEMMA WordType ==
  ASSUME TypeOK, NEW a \in Actors
  PROVE  WordOf(a) \in Words /\ TornWord \in Words /\ op[a].freq \in Freqs
BY DEF TypeOK, WordOf, TornWord, Words, Ops

(* Every action keeps the types. *)
LEMMA TypesStep ==
  ASSUME TypeOK, [Next]_vars
  PROVE  TypeOK'
<1> ActorTypes /\ DriverTypes /\ DeviceTypes /\ HistoryTypes
  BY TypeParts
<1> SUFFICES ActorTypes' /\ DriverTypes' /\ DeviceTypes' /\ HistoryTypes'
  BY TypeParts2
<1>a. ASSUME UNCHANGED driverVars PROVE DriverTypes'
  BY <1>a DEF DriverTypes, driverVars
<1>b. ASSUME UNCHANGED deviceVars PROVE DeviceTypes'
  BY <1>b DEF DeviceTypes, deviceVars
<1>c. ASSUME UNCHANGED historyVars, UNCHANGED errs PROVE HistoryTypes'
  BY <1>c DEF HistoryTypes, historyVars
<1> DEFINE Typed == ActorTypes' /\ DriverTypes' /\ DeviceTypes' /\ HistoryTypes'
<1> HIDE DEF Typed
<1>1. ASSUME NEW c \in Callers, NEW kind \in Kinds, NEW f \in Freqs, Call(c, kind, f) PROVE Typed
  <2>1. c \in Actors /\ [kind |-> kind, freq |-> f] \in Ops /\ "lock" \in Labels /\ lock \in Actors \cup {Nobody}
    BY DEF Actors, Ops, Labels, ActorTypes
  <2>2. ActorTypes'
    BY <1>1, <2>1, ActorTypesKept DEF Call
  <2>3. HistoryTypes'
    BY <1>1 DEF Call, HistoryTypes
  <2>4. QED
    BY <1>1, <1>a, <1>b, <2>2, <2>3 DEF Call, Typed
<1>2. ASSUME NEW c \in Callers, NEW f \in Freqs, idtcm_adjfine(c, f) PROVE Typed
  BY <1>1, <1>2 DEF idtcm_adjfine, Kinds
<1>3. ASSUME NEW c \in Callers, idtcm_adjtime(c) \/ idtcm_adjtime_deprecated(c) PROVE Typed
  BY <1>1, <1>3 DEF idtcm_adjtime, idtcm_adjtime_deprecated, CorrectTime, Kinds
<1>4. ASSUME NEW c \in Callers, idtcm_adjphase(c) PROVE Typed
  BY <1>1, <1>4 DEF idtcm_adjphase, Kinds
<1>5. ASSUME NEW c \in Callers, StoreFrequency(c) PROVE Typed
  <2>1. c \in Actors /\ op[c].freq \in Freqs /\ "idle" \in Labels /\ lock \in Actors \cup {Nobody}
    BY WordType DEF Actors, Labels, ActorTypes
  <2>2. ActorTypes'
    BY <1>5, <2>1, NoOpKind, ActorTypesKept DEF StoreFrequency
  <2>3. DriverTypes'
    BY <1>5, <2>1 DEF StoreFrequency, DriverTypes
  <2>4. QED
    BY <1>5, <1>b, <1>c, <2>2, <2>3 DEF StoreFrequency, Typed
<1>6. ASSUME NEW a \in Actors, Acquire(a) PROVE Typed
  <2>1. [op[a] EXCEPT !.freq = FreqOf(a)] \in Ops
    BY WordType DEF Ops, FreqOf, ActorTypes, DriverTypes
  <2>2. op' = [op EXCEPT ![a] = [op[a] EXCEPT !.freq = FreqOf(a)]]
    BY <1>6 DEF Acquire
  <2>3. ActorTypes'
    BY <1>6, <2>1, <2>2, ActorTypesKept DEF Acquire, Labels
  <2>4. QED
    BY <1>6, <1>a, <1>b, <1>c, <2>3 DEF Acquire, Typed
<1>7. ASSUME NEW a \in Actors, ModeAlreadySet(a) \/ WriteTimers(a) \/ SwitchMode(a) PROVE Typed
  <2>1. ActorTypes'
    BY <1>7, ActorTypesKept DEF ModeAlreadySet, WriteTimers, SwitchMode, Labels, ActorTypes
  <2>2. DriverTypes'
    BY <1>7, <1>a DEF ModeAlreadySet, WriteTimers, SwitchMode, ModeFor, DriverTypes
  <2>3. DeviceTypes'
    BY <1>7, <1>b DEF ModeAlreadySet, WriteTimers, TimerFor, SwitchMode, ModeFor, DeviceTypes
  <2>4. HistoryTypes'
    BY <1>7, <1>c DEF ModeAlreadySet, WriteTimers, SwitchMode, HistoryTypes
  <2>5. QED
    BY <2>1, <2>2, <2>3, <2>4 DEF Typed
<1>8. ASSUME NEW a \in Actors, AdjfineWrites(a) PROVE Typed
  <2>1. ActorTypes'
    BY <1>8, ActorTypesKept DEF AdjfineWrites, Labels
  <2>2. DeviceTypes' /\ HistoryTypes'
    BY <1>8, WordType DEF AdjfineWrites, WriteFrequencyWord, DeviceTypes, HistoryTypes
  <2>3. QED
    BY <1>8, <1>a, <2>1, <2>2 DEF AdjfineWrites, Typed
<1>9. ASSUME NEW a \in Actors, PullInStarts(a) PROVE Typed
  <2>1. ActorTypes'
    BY <1>9, ReturnTypes DEF PullInStarts
  <2>2. DeviceTypes' /\ HistoryTypes'
    BY <1>9, WordType DEF PullInStarts, WriteFrequencyWord, DeviceTypes, HistoryTypes
  <2>3. DriverTypes'
    BY <1>9 DEF PullInStarts, ScheduleWorker, DriverTypes
  <2>4. QED
    BY <2>1, <2>2, <2>3 DEF Typed
<1>10. ASSUME NEW a \in Actors, PullInStops(a) PROVE Typed
  <2>1. ActorTypes'
    BY <1>10, ReturnTypes DEF PullInStops
  <2>2. DeviceTypes' /\ HistoryTypes'
    BY <1>10, WordType DEF PullInStops, WriteFrequencyWord, DeviceTypes, HistoryTypes
  <2>3. DriverTypes'
    BY <1>10 DEF PullInStops, PullInStopped, DriverTypes
  <2>4. QED
    BY <2>1, <2>2, <2>3 DEF Typed
<1>11. ASSUME NEW a \in Actors, AdjphaseWrites(a) \/ WriteTimeOfDay(a) \/ FirmwarePullIn(a) PROVE Typed
  <2>1. ActorTypes'
    BY <1>11, ReturnTypes DEF AdjphaseWrites, WriteTimeOfDay, FirmwarePullIn
  <2>2. DeviceTypes'
    BY <1>11, <1>b DEF AdjphaseWrites, WriteTimeOfDay, FirmwarePullIn, DeviceTypes
  <2>3. QED
    BY <1>11, <1>a, <1>c, <2>1, <2>2 DEF AdjphaseWrites, WriteTimeOfDay, FirmwarePullIn, Typed
<1>12. ASSUME NEW a \in Actors, Fail(a), unsure' \in BOOLEAN, switched' \in BOOLEAN, DeviceTypes'
       PROVE  Typed
  <2>1. ActorTypes'
    BY <1>12, ReturnTypes DEF Fail
  <2>2. HistoryTypes'
    BY <1>12 DEF Fail, HistoryTypes
  <2>3. QED
    BY <1>12, <1>a, <2>1, <2>2 DEF Fail, Typed
<1>13. ASSUME NEW a \in Actors, SwitchModeFails(a) PROVE Typed
  BY <1>12, <1>13 DEF SwitchModeFails, TimerFor, DeviceTypes, HistoryTypes
<1>14. ASSUME NEW a \in Actors, WordFails(a) PROVE Typed
  BY <1>12, <1>14, WordType DEF WordFails, DeviceTypes, HistoryTypes
<1>15. ASSUME NEW a \in Actors, AdjphaseFails(a) \/ FirmwarePullInFails(a) PROVE Typed
  BY <1>12, <1>15, <1>b DEF AdjphaseFails, FirmwarePullInFails, HistoryTypes
<1>16. ASSUME WorkExpires PROVE Typed
  <2>1. Worker \in Actors
    BY DEF Actors
  <2>2. ActorTypes'
    BY <1>16, <2>1, ActorTypesKept DEF WorkExpires, Labels, ActorTypes
  <2>3. DriverTypes'
    BY <1>16 DEF WorkExpires, DriverTypes
  <2>4. QED
    BY <1>16, <1>b, <1>c, <2>2, <2>3 DEF WorkExpires, Typed
<1>17. ASSUME FirmwarePullInEnds \/ ptp_clock_unregister PROVE Typed
  <2>1. ActorTypes' /\ HistoryTypes'
    BY <1>17, <1>c DEF FirmwarePullInEnds, ptp_clock_unregister, ActorTypes
  <2>2. DriverTypes'
    BY <1>17, <1>a DEF FirmwarePullInEnds, ptp_clock_unregister, DriverTypes
  <2>3. DeviceTypes'
    BY <1>17, <1>b DEF FirmwarePullInEnds, ptp_clock_unregister, DeviceTypes
  <2>4. QED
    BY <2>1, <2>2, <2>3 DEF Typed
<1>18. ASSUME UNCHANGED vars PROVE Typed
  BY <1>18, <1>a, <1>b, <1>c DEF vars, ActorTypes, Typed
<1>19. QED
  BY <1>2, <1>3, <1>4, <1>5, <1>6, <1>7, <1>8, <1>9, <1>10, <1>11, <1>13, <1>14, <1>15,
     <1>16, <1>17, <1>18
  DEF Next, CriticalSection, Typed

Inside == {"setup", "mode", "write"}

(* One actor moves, and takes or releases the mutex as it enters or leaves *)
(* its critical section.                                                   *)
Moves(a) ==
  /\ \A b \in Actors : b # a => pc'[b] = pc[b] /\ op'[b] = op[b]
  /\ op'[a].kind = "stop" <=> a = Worker
  /\ pc'[a] = "store" => a \in Callers /\ op'[a].kind = "adjfine"
  /\ \/ lock' = lock /\ (pc[a] \in Inside <=> pc'[a] \in Inside)
     \/ lock = Nobody /\ lock' = a /\ pc'[a] \in Inside
     \/ lock = a /\ lock' = Nobody /\ pc'[a] \notin Inside

(* ... and the steering mode, its timer and their caches are left alone.   *)
KeepsMode(a) ==
  /\ Moves(a)
  /\ pc[a] # "mode" /\ pc'[a] \notin {"mode", "write"}
  /\ UNCHANGED <<manualRef, mode, hwMode, wpTimer, switched>>

LEMMA CallMoves ==
  ASSUME TypeOK, Placement, NEW c \in Callers, NEW kind \in Kinds \ {"stop"}, NEW f, Call(c, kind, f)
  PROVE  KeepsMode(c)
BY DEF TypeOK, Placement, Call, Goto, KeepsMode, Moves, Inside, Actors, driverVars, deviceVars

(* What a return from the driver does. *)
LEMMA ReturnMoves ==
  ASSUME TypeOK, Placement, NEW a \in Actors, Return(a), pc[a] \in Inside
  PROVE  Moves(a) /\ pc'[a] = "idle"
<1>1. NoOp(a).kind = "stop" <=> a = Worker
  BY NoOpKind
<1>2. QED
  BY <1>1 DEF TypeOK, Placement, Return, Goto, Moves, Inside

LEMMA QuietMoves ==
  ASSUME TypeOK, Placement, ModeCoherent, NEW a \in Actors,
         \/ Acquire(a) \/ AdjfineWrites(a) \/ PullInStarts(a) \/ PullInStops(a)
         \/ AdjphaseWrites(a) \/ WordFails(a) \/ AdjphaseFails(a) \/ WriteTimeOfDay(a)
         \/ FirmwarePullIn(a) \/ FirmwarePullInFails(a)
  PROVE  KeepsMode(a)
<1> USE DEF driverVars, deviceVars, historyVars
<1>1. CASE Acquire(a)
  BY <1>1 DEF TypeOK, Placement, Acquire, Goto, KeepsMode, Moves, Inside, Actors, Ops
<1>2. CASE AdjfineWrites(a)
  BY <1>2 DEF TypeOK, Placement, AdjfineWrites, Goto, KeepsMode, Moves, Inside, Actors
<1>3. ASSUME Return(a), pc[a] \in {"setup", "write"},
             UNCHANGED <<manualRef, mode, hwMode, wpTimer, switched>>
      PROVE  KeepsMode(a)
  BY <1>3, ReturnMoves DEF KeepsMode, Inside
<1>4. CASE PullInStarts(a) \/ PullInStops(a)
  BY <1>3, <1>4 DEF PullInStarts, PullInStops
<1>5. CASE AdjphaseWrites(a) \/ WriteTimeOfDay(a) \/ FirmwarePullIn(a)
  BY <1>3, <1>5 DEF AdjphaseWrites, WriteTimeOfDay, FirmwarePullIn
<1>6. CASE WordFails(a) \/ AdjphaseFails(a) \/ FirmwarePullInFails(a)
  BY <1>3, <1>6 DEF WordFails, AdjphaseFails, FirmwarePullInFails, Fail
<1>7. QED
  BY <1>1, <1>2, <1>4, <1>5, <1>6

LEMMA StoreMoves ==
  ASSUME TypeOK, Placement, NEW c \in Callers, StoreFrequency(c)
  PROVE  KeepsMode(c)
<1>1. NoOp(c).kind # "stop"
  BY NoOpKind DEF Actors
<1>2. QED
  BY <1>1 DEF TypeOK, Placement, StoreFrequency, Goto, KeepsMode, Moves, Inside, Actors, driverVars, deviceVars, historyVars

LEMMA ExpiryMoves ==
  ASSUME TypeOK, Placement, WorkExpires
  PROVE  KeepsMode(Worker)
BY DEF TypeOK, Placement, WorkExpires, Goto, KeepsMode, Moves, Inside, Actors, deviceVars, historyVars

(* Switching the mode. *)
SwitchStep(a) == ModeAlreadySet(a) \/ WriteTimers(a) \/ SwitchMode(a) \/ SwitchModeFails(a)

LEMMA SwitchMoves ==
  ASSUME TypeOK, Placement, NEW a \in Actors, SwitchStep(a)
  PROVE  Moves(a)
<1>1. CASE ModeAlreadySet(a) \/ WriteTimers(a) \/ SwitchMode(a)
  BY <1>1 DEF TypeOK, Placement, ModeAlreadySet, WriteTimers, SwitchMode, Goto, Moves, Inside, Actors
<1>2. CASE SwitchModeFails(a)
  BY <1>2, ReturnMoves DEF SwitchModeFails, Fail, Inside
<1>3. QED
  BY <1>1, <1>2 DEF SwitchStep

(* A step of the system is one of these moves, or moves nobody. *)
Elsewhere == FirmwarePullInEnds \/ ptp_clock_unregister \/ UNCHANGED vars

LEMMA StepKinds ==
  ASSUME TypeOK, Placement, ModeCoherent, [Next]_vars
  PROVE  \/ \E a \in Actors : KeepsMode(a)
         \/ \E a \in Actors : SwitchStep(a)
         \/ Elsewhere
<1>1. \A c \in Callers : c \in Actors
  BY DEF Actors
<1>2. ASSUME NEW c \in Callers, NEW f \in Freqs, idtcm_adjfine(c, f) PROVE KeepsMode(c)
  BY <1>2, CallMoves DEF idtcm_adjfine, Kinds
<1>3. ASSUME NEW c \in Callers, idtcm_adjtime(c) \/ idtcm_adjtime_deprecated(c) PROVE KeepsMode(c)
  BY <1>3, CallMoves DEF idtcm_adjtime, idtcm_adjtime_deprecated, CorrectTime, Kinds
<1>4. ASSUME NEW c \in Callers, idtcm_adjphase(c) PROVE KeepsMode(c)
  BY <1>4, CallMoves DEF idtcm_adjphase, Kinds
<1>5. ASSUME NEW c \in Callers, StoreFrequency(c) PROVE KeepsMode(c)
  BY <1>5, StoreMoves
<1>6. ASSUME NEW a \in Actors, Acquire(a) \/ CriticalSection(a) PROVE KeepsMode(a) \/ SwitchStep(a)
  BY <1>6, QuietMoves DEF CriticalSection, SwitchStep
<1>7. ASSUME WorkExpires PROVE Worker \in Actors /\ KeepsMode(Worker)
  BY <1>7, ExpiryMoves DEF Actors
<1>8. QED
  BY <1>1, <1>2, <1>3, <1>4, <1>5, <1>6, <1>7 DEF Next, Elsewhere

LEMMA PlacementStep ==
  ASSUME TypeOK, Placement, ModeCoherent, [Next]_vars
  PROVE  Placement'
<1>1. ASSUME NEW a \in Actors, Moves(a) PROVE Placement'
  <2>1. \A b \in Actors : lock' = b <=> pc'[b] \in Inside
    BY <1>1 DEF Moves, Placement, Inside, TypeOK, Actors
  <2>2. \A b \in Actors : op'[b].kind = "stop" <=> b = Worker
    BY <1>1 DEF Moves, Placement, Actors
  <2>3. \A b \in Actors : pc'[b] = "store" => b \in Callers /\ op'[b].kind = "adjfine"
    BY <1>1 DEF Moves, Placement
  <2>4. QED
    BY <2>1, <2>2, <2>3 DEF Placement, Inside, Actors
<1>2. ASSUME Elsewhere PROVE Placement'
  <2>1. UNCHANGED <<pc, op, lock>>
    BY <1>2 DEF Elsewhere, FirmwarePullInEnds, ptp_clock_unregister, vars
  <2>2. QED
    BY <2>1 DEF Placement
<1>3. QED
  BY <1>1, <1>2, StepKinds, SwitchMoves DEF KeepsMode

LEMMA ModeStep ==
  ASSUME TypeOK, Placement, ModeCoherent, TimerCoherent, [Next]_vars
  PROVE  ModeCoherent' /\ TimerCoherent'
<1>1. ASSUME NEW a \in Actors, KeepsMode(a) PROVE ModeCoherent' /\ TimerCoherent'
  <2>1. \A b \in Actors : pc'[b] \in {"mode", "write"} => pc'[b] = pc[b] /\ op'[b] = op[b]
    BY <1>1 DEF KeepsMode, Moves
  <2>2. (\A b \in Actors : pc'[b] # "mode") => \A b \in Actors : pc[b] # "mode"
    BY <1>1 DEF KeepsMode, Moves
  <2>3. UNCHANGED <<manualRef, mode, hwMode, wpTimer, switched>>
    BY <1>1 DEF KeepsMode
  <2>4. ModeCoherent'
    BY <2>1, <2>3 DEF ModeCoherent, Steers, ModeFor, TimerFor
  <2>5. TimerCoherent'
    BY <2>2, <2>3 DEF TimerCoherent
  <2>6. QED
    BY <2>4, <2>5
<1>2. ASSUME NEW a \in Actors, SwitchStep(a) PROVE ModeCoherent' /\ TimerCoherent'
  <2>1. \A b \in Actors : b # a => pc[b] \notin Inside /\ pc'[b] = pc[b]
    <3>1. pc[a] \in Inside
      BY <1>2 DEF SwitchStep, ModeAlreadySet, WriteTimers, SwitchMode, SwitchModeFails, Inside
    <3>2. QED
      BY <1>2, <3>1, SwitchMoves DEF Moves, Placement, Inside
  <2>2. UNCHANGED manualRef
    BY <1>2 DEF SwitchStep, ModeAlreadySet, WriteTimers, SwitchMode, SwitchModeFails, Fail, driverVars
  <2>3. CASE ModeAlreadySet(a)
    <3>1. /\ pc'[a] = "write" /\ Steers(a) /\ mode = ModeFor(a) /\ pc[a] = "setup"
          /\ UNCHANGED <<op, manualRef, mode, hwMode, wpTimer, switched>>
      BY <2>3 DEF ModeAlreadySet, ModeSet, Goto, TypeOK, driverVars, deviceVars, historyVars
    <3>2. ModeCoherent'
      BY <2>1, <3>1 DEF ModeCoherent, Inside, Steers, ModeFor
    <3>3. TimerCoherent'
      BY <2>1, <3>1 DEF TimerCoherent, Inside
    <3>4. QED
      BY <3>2, <3>3
  <2>4. CASE WriteTimers(a)
    <3>1. /\ pc'[a] = "mode" /\ Steers(a) /\ mode # ModeFor(a) /\ ~manualRef
          /\ wpTimer' = TimerFor(a) /\ UNCHANGED <<op, mode, hwMode>>
      BY <2>4 DEF WriteTimers, ModeSet, Goto, TypeOK, driverVars
    <3>2. ModeCoherent'
      BY <2>1, <2>2, <3>1 DEF ModeCoherent, Inside, Steers, ModeFor, TimerFor
    <3>3. TimerCoherent'
      BY <3>1 DEF TimerCoherent
    <3>4. QED
      BY <3>2, <3>3
  <2>5. CASE SwitchMode(a)
    <3>1. /\ pc'[a] = "write" /\ mode' = ModeFor(a) /\ hwMode' = mode'
          /\ UNCHANGED <<op, wpTimer>>
      BY <2>5 DEF SwitchMode, Goto, TypeOK
    <3>2. Steers(a) /\ wpTimer = (~manualRef /\ TimerFor(a))
      BY <2>5 DEF SwitchMode, ModeCoherent, TimerFor, TypeOK
    <3>3. ModeCoherent'
      BY <2>1, <2>2, <3>1, <3>2 DEF ModeCoherent, Inside, Steers, ModeFor
    <3>4. TimerCoherent'
      BY <2>1, <2>2, <3>1, <3>2 DEF TimerCoherent, TimerFor, Inside
    <3>5. QED
      BY <3>3, <3>4
  <2>6. CASE SwitchModeFails(a)
    <3>1. pc'[a] = "idle" /\ UNCHANGED <<mode, hwMode>> /\ switched' = FALSE
      BY <2>6 DEF SwitchModeFails, Fail, Return, Goto, TypeOK, driverVars
    <3>2. manualRef => ~wpTimer'
      BY <2>6 DEF SwitchModeFails, ModeCoherent
    <3>3. ModeCoherent'
      BY <2>1, <2>2, <3>1, <3>2 DEF ModeCoherent, Inside
    <3>4. QED
      BY <3>1, <3>3 DEF TimerCoherent
  <2>7. QED
    BY <1>2, <2>3, <2>4, <2>5, <2>6 DEF SwitchStep
<1>3. ASSUME Elsewhere PROVE ModeCoherent' /\ TimerCoherent'
  <2>1. UNCHANGED <<pc, op, manualRef, mode, hwMode, wpTimer, switched>>
    BY <1>3 DEF Elsewhere, FirmwarePullInEnds, ptp_clock_unregister, vars, driverVars, deviceVars, historyVars
  <2>2. QED
    BY <2>1 DEF ModeCoherent, TimerCoherent, Steers, ModeFor, TimerFor
<1>4. QED
  BY <1>1, <1>2, <1>3, StepKinds

(* Flag, word and worker. *)
LEMMA FlagStep ==
  ASSUME TypeOK, Placement, OffFrequencyIsFlagged, PullInHasCanceller, [Next]_vars
  PROVE  OffFrequencyIsFlagged' /\ PullInHasCanceller'
<1> USE DEF TypeOK, OffFrequencyIsFlagged, PullInHasCanceller, Goto, Return, driverVars, deviceVars, historyVars
<1>1. ASSUME NEW a \in Actors, a # Worker, pc'[Worker] = pc[Worker],
             UNCHANGED <<pullIn, due, alive, dpll, unsure, abandoned>>
      PROVE  OffFrequencyIsFlagged' /\ PullInHasCanceller'
  BY <1>1
<1>2. \A c \in Callers : c \in Actors /\ c # Worker
  BY DEF Actors
<1>3. ASSUME NEW c \in Callers, NEW kind, NEW f, Call(c, kind, f)
      PROVE  OffFrequencyIsFlagged' /\ PullInHasCanceller'
  BY <1>1, <1>2, <1>3 DEF Call
<1>4. ASSUME NEW c \in Callers,
             \/ \E f \in Freqs : idtcm_adjfine(c, f)
             \/ idtcm_adjtime(c) \/ idtcm_adjtime_deprecated(c) \/ idtcm_adjphase(c)
      PROVE  OffFrequencyIsFlagged' /\ PullInHasCanceller'
  BY <1>3, <1>4 DEF idtcm_adjfine, idtcm_adjtime, idtcm_adjtime_deprecated, CorrectTime, idtcm_adjphase
<1>5. ASSUME NEW c \in Callers, StoreFrequency(c) PROVE OffFrequencyIsFlagged' /\ PullInHasCanceller'
  BY <1>1, <1>2, <1>5 DEF StoreFrequency
<1>6. ASSUME NEW a \in Actors, Acquire(a) \/ ModeAlreadySet(a) \/ WriteTimers(a) \/ SwitchMode(a)
      PROVE  OffFrequencyIsFlagged' /\ PullInHasCanceller'
  <2>1. pc[a] # "idle" /\ pc'[a] # "idle" /\ UNCHANGED <<pullIn, due, alive, dpll, unsure, abandoned>>
    BY <1>6 DEF Acquire, ModeAlreadySet, WriteTimers, SwitchMode
  <2>2. \A b \in Actors : b # a => pc'[b] = pc[b]
    BY <1>6 DEF Acquire, ModeAlreadySet, WriteTimers, SwitchMode
  <2>3. pc[Worker] # "idle" => pc'[Worker] # "idle"
    BY <2>1, <2>2 DEF Actors
  <2>4. QED
    BY <2>1, <2>3
<1>7. ASSUME NEW a \in Actors, AdjfineWrites(a) PROVE OffFrequencyIsFlagged' /\ PullInHasCanceller'
  <2>1. a # Worker /\ pc'[Worker] = pc[Worker]
    BY <1>7 DEF AdjfineWrites, Placement, Actors
  <2>2. QED
    BY <1>7, <2>1 DEF AdjfineWrites, WriteFrequencyWord, WordOf
<1>8. ASSUME NEW a \in Actors, PullInStarts(a) PROVE OffFrequencyIsFlagged' /\ PullInHasCanceller'
  BY <1>8 DEF PullInStarts, ScheduleWorker
<1>9. ASSUME NEW a \in Actors, PullInStops(a) PROVE OffFrequencyIsFlagged' /\ PullInHasCanceller'
  BY <1>9 DEF PullInStops, WriteFrequencyWord, WordOf, PullInStopped
<1>10. ASSUME NEW a \in Actors, AdjphaseWrites(a) \/ WriteTimeOfDay(a) \/ FirmwarePullIn(a)
       PROVE  OffFrequencyIsFlagged' /\ PullInHasCanceller'
  <2>1. a # Worker
    BY <1>10 DEF AdjphaseWrites, WriteTimeOfDay, FirmwarePullIn, Placement
  <2>2. QED
    BY <1>1, <1>10, <2>1 DEF AdjphaseWrites, WriteTimeOfDay, FirmwarePullIn, Actors
<1>11. ASSUME NEW a \in Actors, Fail(a), UNCHANGED <<dpll, unsure>> \/ unsure' = TRUE
       PROVE  OffFrequencyIsFlagged' /\ PullInHasCanceller'
  BY <1>11 DEF Fail, Actors
<1>12. ASSUME NEW a \in Actors,
              SwitchModeFails(a) \/ WordFails(a) \/ AdjphaseFails(a) \/ FirmwarePullInFails(a)
       PROVE  OffFrequencyIsFlagged' /\ PullInHasCanceller'
  BY <1>11, <1>12 DEF SwitchModeFails, WordFails, AdjphaseFails, FirmwarePullInFails
<1>13. CASE WorkExpires
  BY <1>13 DEF WorkExpires, Actors
<1>14. CASE Elsewhere
  BY <1>14 DEF Elsewhere, FirmwarePullInEnds, ptp_clock_unregister, vars
<1>15. QED
  BY <1>4, <1>5, <1>6, <1>7, <1>8, <1>9, <1>10, <1>12, <1>13, <1>14
  DEF Next, CriticalSection, Elsewhere

LEMMA NextIInv == IInv /\ [Next]_vars => IInv'
BY TypesStep, PlacementStep, ModeStep, FlagStep DEF IInv

(* The types hold, and every conjunct of the invariant with them. *)
THEOREM SteeringInvariant == Spec => []IInv
<1>1. Init => IInv
  BY InitIInv
<1>2. IInv /\ [Next]_vars => IInv'
  BY NextIInv
<1>3. QED
  BY <1>1, <1>2, PTL DEF Spec

THEOREM SteeringTypes == Spec => []TypeOK
<1>1. IInv => TypeOK
  BY DEF IInv
<1>2. QED
  BY <1>1, SteeringInvariant, PTL

(* Words are only written in the mode that uses them: _idtcm_adjfine and   *)
(* _idtcm_adjphase may trust channel->mode.                                *)
THEOREM WordsInTheirMode == Spec => []WordWrittenInItsMode
<1>1. IInv => WordWrittenInItsMode
  BY DEF IInv, ModeCoherent, WordWrittenInItsMode
<1>2. QED
  BY <1>1, SteeringInvariant, PTL

(* The clock is not off its dialed frequency with phase_pull_in down, but  *)
(* after a write of the frequency word that failed.                        *)
THEOREM OffFrequencyFlagged == Spec => []OffFrequencyIsFlagged
<1>1. IInv => OffFrequencyIsFlagged
  BY DEF IInv
<1>2. QED
  BY <1>1, SteeringInvariant, PTL

(* The worker that ends a pull-in is on its way whenever phase_pull_in is  *)
(* set, whichever calls fail, unless it has failed itself.                 *)
THEOREM PullInCancellerScheduled == Spec => []PullInHasCanceller
<1>1. IInv => PullInHasCanceller
  BY DEF IInv
<1>2. QED
  BY <1>1, SteeringInvariant, PTL

(* A switch that succeeds brings timer and mode together, whatever broke   *)
(* off before it, and they stay together until a switch breaks off.        *)
THEOREM TimerFollowsMode == Spec => []WordWrittenWithItsTimer
<1>1. ASSUME IInv, NEW a \in Actors, pc[a] = "write", switched
      PROVE  wpTimer = (~manualRef /\ ModeFor(a) = WritePhase)
  <2>1. lock = a
    BY <1>1 DEF IInv, Placement
  <2>2. \A b \in Actors : pc[b] # "mode"
    BY <1>1, <2>1 DEF IInv, Placement
  <2>3. QED
    BY <1>1, <2>2 DEF IInv, ModeCoherent, TimerCoherent
<1>2. IInv => WordWrittenWithItsTimer
  BY <1>1 DEF WordWrittenWithItsTimer
<1>3. QED
  BY <1>2, SteeringInvariant, PTL

-----------------------------------------------------------------------------
(* Until two calls overlap. *)

OneAtATime == \A c, d \in Callers : pc[c] # "idle" /\ pc[d] # "idle" => c = d

(* A call that passed the lock-free test of phase_pull_in still sees it    *)
(* down: nobody else could have raised it.                                 *)
Tested(c) == op[c].kind # "adjphase" /\ (oldFirmware => op[c].kind = "adjfine")

TestStillHolds == \A c \in Callers : pc[c] # "idle" /\ Tested(c) => ~pullIn

(* The frequency the current critical section works with. *)
FreqTaken ==
  /\ \A a \in Actors :
       pc[a] \in {"setup", "mode", "write"} /\ op[a].kind \in {"pull_in", "stop"}
         => op[a].freq = currentFreq
  /\ \A c \in Callers : pc[c] = "store" => dpll.base = op[c].freq /\ ~unsure

WorkerOnlyInPullIn ==
  /\ due \/ pc[Worker] # "idle" => pullIn
  /\ due => pc[Worker] = "idle"

Serial ==
  /\ OneAtATime
  /\ TestStillHolds
  /\ FreqTaken
  /\ WorkerOnlyInPullIn
  /\ PullInUndisturbed
  /\ FrequencyRemembered

SInv == IInv /\ (~overlapped => Serial)

LEMMA InitSInv == Init => SInv
<1> SUFFICES ASSUME Init PROVE SInv
  OBVIOUS
<1>1. IInv
  BY InitIInv
<1>2. Serial
  BY DEF Init, Serial, OneAtATime, TestStillHolds, Tested, FreqTaken, WorkerOnlyInPullIn,
         PullInUndisturbed, FrequencyRemembered, Actors
<1>3. QED
  BY <1>1, <1>2 DEF SInv

(* Calls that have overlapped stay so. *)
LEMMA OverlappedStays ==
  ASSUME TypeOK, [Next]_vars, overlapped
  PROVE  overlapped'
BY DEF TypeOK, Next, vars, historyVars, CriticalSection, idtcm_adjfine, idtcm_adjtime,
       idtcm_adjtime_deprecated, CorrectTime, idtcm_adjphase, Call, StoreFrequency, Acquire,
       ModeAlreadySet, WriteTimers, SwitchMode, SwitchModeFails, AdjfineWrites, PullInStarts,
       PullInStops, AdjphaseWrites, WordFails, AdjphaseFails, WriteTimeOfDay, FirmwarePullIn,
       FirmwarePullInFails, Fail, WorkExpires, FirmwarePullInEnds, ptp_clock_unregister

LEMMA NextSInv ==
  ASSUME SInv, [Next]_vars
  PROVE  SInv'
<1>1. IInv'
  BY NextIInv DEF SInv
<1> SUFFICES ASSUME ~overlapped' PROVE Serial'
  BY <1>1 DEF SInv
<1> ~overlapped /\ IInv /\ Serial
  BY OverlappedStays DEF SInv, IInv
<1> USE DEF Serial, OneAtATime, IInv, TypeOK, Placement, TestStillHolds, Tested, FreqTaken,
            WorkerOnlyInPullIn, PullInUndisturbed, FrequencyRemembered, OffFrequencyIsFlagged,
            Actors, Ops, Kinds, Goto, Return, NoOp, driverVars, deviceVars, historyVars
<1>2. ASSUME NEW c \in Callers, NEW f \in Freqs, idtcm_adjfine(c, f) PROVE Serial'
  BY <1>2 DEF idtcm_adjfine, Call, PullInBusy
<1>3. ASSUME NEW c \in Callers, idtcm_adjtime(c) \/ idtcm_adjtime_deprecated(c) PROVE Serial'
  <2>1. PICK kind \in {"pull_in", "settime"} : Call(c, kind, ZeroFreq)
    BY <1>3 DEF idtcm_adjtime, idtcm_adjtime_deprecated, CorrectTime
  <2>2. oldFirmware \/ ~pullIn
    BY <1>3 DEF idtcm_adjtime, idtcm_adjtime_deprecated, PullInBusy
  <2>3. QED
    BY <2>1, <2>2 DEF Call
<1>4. ASSUME NEW c \in Callers, idtcm_adjphase(c) PROVE Serial'
  BY <1>4 DEF idtcm_adjphase, Call
<1>5. ASSUME NEW c \in Callers, StoreFrequency(c) PROVE Serial'
  BY <1>5 DEF StoreFrequency
<1>6. ASSUME NEW a \in Actors, Acquire(a) PROVE Serial'
  BY <1>6 DEF Acquire, FreqOf
<1>7. ASSUME NEW a \in Actors, ModeAlreadySet(a) PROVE Serial'
  BY <1>7 DEF ModeAlreadySet
<1>8. ASSUME NEW a \in Actors, SwitchMode(a) PROVE Serial'
  BY <1>8 DEF SwitchMode
<1>21. ASSUME NEW a \in Actors, WriteTimers(a) PROVE Serial'
  BY <1>21 DEF WriteTimers
<1>9. ASSUME NEW a \in Actors, AdjfineWrites(a) PROVE Serial'
  BY <1>9 DEF AdjfineWrites, WriteFrequencyWord, WordOf
<1>10. ASSUME NEW a \in Actors, PullInStarts(a) PROVE Serial'
  <2>1. a \in Callers
    BY <1>10 DEF PullInStarts
  <2>2. pc[Worker] = "idle"
    BY <1>10, <2>1 DEF PullInStarts
  <2>3. dpll'.base = currentFreq /\ dpll'.pull /\ pullIn'
    BY <1>10 DEF PullInStarts, WriteFrequencyWord, WordOf
  <2>4. TestStillHolds'
    BY <1>10, <2>1 DEF PullInStarts
  <2>5. FreqTaken'
    BY <1>10, <2>1, <2>2 DEF PullInStarts
  <2>6. QED
    BY <1>10, <2>1, <2>2, <2>3, <2>4, <2>5 DEF PullInStarts
<1>11. ASSUME NEW a \in Actors, PullInStops(a) PROVE Serial'
  <2>1. a = Worker
    BY <1>11 DEF PullInStops
  <2>2. dpll'.base = currentFreq /\ ~dpll'.pull /\ ~pullIn' /\ pullIn
    BY <1>11, <2>1 DEF PullInStops, WriteFrequencyWord, WordOf, PullInStopped
  <2>3. ~due' /\ pc'[Worker] = "idle"
    BY <1>11, <2>1 DEF PullInStops, PullInStopped
  <2>4. QED
    BY <1>11, <2>1, <2>2, <2>3 DEF PullInStops, PullInStopped
<1>12. ASSUME NEW a \in Actors, AdjphaseWrites(a) PROVE Serial'
  BY <1>12 DEF AdjphaseWrites
<1>13. ASSUME NEW a \in Actors, WriteTimeOfDay(a) PROVE Serial'
  BY <1>13 DEF WriteTimeOfDay
<1>14. ASSUME NEW a \in Actors, FirmwarePullIn(a) PROVE Serial'
  BY <1>14 DEF FirmwarePullIn
<1>15. ASSUME NEW a \in Actors,
              SwitchModeFails(a) \/ AdjphaseFails(a) \/ FirmwarePullInFails(a)
       PROVE Serial'
  BY <1>15 DEF SwitchModeFails, AdjphaseFails, FirmwarePullInFails, Fail
<1>22. ASSUME NEW a \in Actors, WordFails(a) PROVE Serial'
  BY <1>22 DEF WordFails, Fail
<1>16. CASE WorkExpires
  BY <1>16 DEF WorkExpires
<1>17. CASE FirmwarePullInEnds
  BY <1>17 DEF FirmwarePullInEnds
<1>18. CASE ptp_clock_unregister
  BY <1>18 DEF ptp_clock_unregister
<1>19. CASE UNCHANGED vars
  BY <1>19 DEF vars
<1>20. QED
  BY <1>2, <1>3, <1>4, <1>5, <1>6, <1>7, <1>8, <1>9, <1>10, <1>11, <1>12, <1>13,
     <1>14, <1>15, <1>16, <1>17, <1>18, <1>19, <1>21, <1>22
  DEF Next, CriticalSection

THEOREM SerialInvariant == Spec => []SInv
<1>1. Init => SInv
  BY InitSInv
<1>2. SInv /\ [Next]_vars => SInv'
  BY NextSInv
<1>3. QED
  BY <1>1, <1>2, PTL DEF Spec

(* Until two calls overlap the remembered frequency is the one in the      *)
(* device, whenever the last write of the word succeeded ...               *)
THEOREM SerialFrequencyRemembered == Spec => []FrequencyRemembered
<1>1. SInv => FrequencyRemembered
  BY DEF SInv, Serial, FrequencyRemembered
<1>2. QED
  BY <1>1, SerialInvariant, PTL

(* ... nothing overwrites a pull-in ...                                    *)
THEOREM SerialPullInUndisturbed == Spec => []PullInUndisturbed
<1>1. SInv => PullInUndisturbed
  BY DEF SInv, Serial, PullInUndisturbed
<1>2. QED
  BY <1>1, SerialInvariant, PTL

-----------------------------------------------------------------------------
(* ... and steering implements the abstract clock. *)

LEMMA InitRefines == Init => Clock!ClockInit
BY DEF Init, Clock!ClockInit

(* A step that leaves the word alone, and what is known of it, leaves the  *)
(* abstract clock alone.                                                   *)
LEMMA QuietRefines ==
  ASSUME UNCHANGED <<dpll, unsure>>, unsure => UNCHANGED currentFreq
  PROVE  UNCHANGED Clock!clockVars
BY DEF Clock!clockVars

(* Only a write of the frequency word is a step of the abstract clock.     *)
LEMMA NextRefines ==
  ASSUME SInv, [Next]_vars
  PROVE  [overlapped \/ Clock!ClockNext]_(Clock!clockVars)
<1> SUFFICES ASSUME ~overlapped, ~UNCHANGED Clock!clockVars
             PROVE  Clock!ClockNext
  OBVIOUS
<1> USE DEF SInv, Serial, OneAtATime, IInv, TypeOK, Placement, Actors, Ops, Goto, Return,
            driverVars, deviceVars, historyVars
<1>1. PICK a \in Actors : AdjfineWrites(a) \/ PullInStarts(a) \/ PullInStops(a) \/ WordFails(a)
  <2>1. ASSUME NEW c \in Callers, StoreFrequency(c) PROVE FALSE
    BY <2>1, QuietRefines DEF StoreFrequency, FreqTaken
  <2>2. CASE /\ \A c \in Callers : ~StoreFrequency(c)
             /\ \A b \in Actors : ~(AdjfineWrites(b) \/ PullInStarts(b) \/ PullInStops(b) \/ WordFails(b))
    <3>1. UNCHANGED <<dpll, unsure, currentFreq>>
      BY <2>2 DEF Next, vars, CriticalSection, idtcm_adjfine, idtcm_adjtime,
           idtcm_adjtime_deprecated, CorrectTime, idtcm_adjphase, Call, Acquire, ModeAlreadySet,
           WriteTimers, SwitchMode, SwitchModeFails, AdjphaseWrites, AdjphaseFails,
           WriteTimeOfDay, FirmwarePullIn, FirmwarePullInFails, Fail, WorkExpires,
           FirmwarePullInEnds, ptp_clock_unregister
    <3>2. QED
      BY <3>1, QuietRefines
  <2>3. QED
    BY <2>1, <2>2
<1>2. CASE AdjfineWrites(a)
  <2>1. a \in Callers /\ ~pullIn
    BY <1>2 DEF AdjfineWrites, TestStillHolds, Tested
  <2>2. unsure \/ ~dpll.pull
    BY <2>1 DEF OffFrequencyIsFlagged
  <2>3. unsure' = FALSE /\ dpll' = [base |-> op[a].freq, pull |-> FALSE]
    BY <1>2 DEF AdjfineWrites, WriteFrequencyWord, WordOf
  <2>4. Clock!Dial(op[a].freq) /\ op[a].freq \in Freqs
    BY <2>1, <2>2, <2>3 DEF Clock!Dial
  <2>5. QED
    BY <2>4 DEF Clock!ClockNext
<1>3. CASE PullInStarts(a)
  <2>1. /\ a \in Callers /\ op[a].freq = currentFreq /\ UNCHANGED currentFreq
        /\ unsure' = FALSE /\ dpll' = [base |-> currentFreq, pull |-> TRUE]
    BY <1>3 DEF PullInStarts, FreqTaken, WriteFrequencyWord, WordOf
  <2>2. unsure \/ dpll.base = currentFreq
    BY <1>3, <2>1 DEF PullInStarts, FrequencyRemembered
  <2>3. Clock!StartPullIn \/ UNCHANGED Clock!clockVars
    BY <2>1, <2>2 DEF Clock!StartPullIn, Clock!clockVars
  <2>4. QED
    BY <2>3 DEF Clock!ClockNext
<1>4. CASE PullInStops(a)
  <2>1. /\ pullIn /\ op[a].freq = currentFreq /\ UNCHANGED currentFreq
        /\ unsure' = FALSE /\ dpll' = [base |-> currentFreq, pull |-> FALSE]
    BY <1>4 DEF PullInStops, PullInStopped, WorkerOnlyInPullIn, FreqTaken, WriteFrequencyWord, WordOf
  <2>2. unsure \/ dpll.base = currentFreq
    BY <2>1 DEF TestStillHolds, Tested, FrequencyRemembered
  <2>3. Clock!EndPullIn \/ UNCHANGED Clock!clockVars
    BY <2>1, <2>2 DEF Clock!EndPullIn, Clock!clockVars
  <2>4. QED
    BY <2>3 DEF Clock!ClockNext
<1>5. CASE WordFails(a)
  <2>1. unsure' = TRUE /\ UNCHANGED currentFreq
    BY <1>5 DEF WordFails, Fail
  <2>2. unsure \/ dpll.base = currentFreq
    <3>1. CASE a \in Callers
      BY <1>5, <3>1 DEF WordFails, FrequencyRemembered
    <3>2. CASE a = Worker
      BY <1>5, <3>2 DEF WordFails, WorkerOnlyInPullIn, TestStillHolds, Tested, FrequencyRemembered
    <3>3. QED
      BY <3>1, <3>2
  <2>3. Clock!WriteFails
    BY <2>1, <2>2 DEF Clock!WriteFails
  <2>4. QED
    BY <2>3 DEF Clock!ClockNext
<1>6. QED
  BY <1>1, <1>2, <1>3, <1>4, <1>5

THEOREM SteeringImplementsClock == Spec => ImplementsClock
<1>1. Init => Clock!ClockInit
  BY InitRefines
<1>2. SInv /\ [Next]_vars => [overlapped \/ Clock!ClockNext]_(Clock!clockVars)
  BY NextRefines
<1>3. QED
  BY <1>1, <1>2, SerialInvariant, PTL DEF Spec, ImplementsClock
-----------------------------------------------------------------------------
(* The arithmetic of pull-ins (PullIn), for any limits, frequencies and    *)
(* corrections.                                                            *)

(* Halving drops the odd unit on either side of zero. *)
LEMMA HalfOf ==
  ASSUME NEW n \in Int
  PROVE  /\ Half(n) \in Int
         /\ Half(-n) = -Half(n)
         /\ n >= 0 => Half(n) >= 0 /\ (2 * Half(n) = n \/ 2 * Half(n) = n - 1)
  BY DEF Half, Quotient

(* The conversion to scaled_ppm rounds towards zero. *)
LEMMA ScaledOf ==
  ASSUME NEW n \in Int
  PROVE  /\ Scaled(n) \in Int
         /\ Scaled(-n) = -Scaled(n)
         /\ n >= 0 => /\ Scaled(n) >= 0
                      /\ 125 * Scaled(n) <= 8192 * n
                      /\ 8192 * n <= 125 * Scaled(n) + 124
  BY DEF Scaled, Quotient

(* p ppb for n seconds is a correction of d ns but for what rounding n     *)
(* equal parts leaves.                                                     *)
Part(d, p, n) == 0 <= p /\ p * n <= d /\ d < (p + 1) * n

LEMMA TimesNat ==
  ASSUME NEW x \in Int, NEW y \in Int, NEW n \in Nat, x <= y
  PROVE  x * n <= y * n
  OBVIOUS

LEMMA HalfPart ==
  ASSUME NEW d \in Int, NEW p \in Int, NEW n \in Nat \ {0}, Part(d, p, n)
  PROVE  Part(d, Half(p), 2 * n)
<1> DEFINE h == Half(p)
<1>1. h \in Int /\ h >= 0 /\ 2 * h <= p /\ p + 1 <= 2 * (h + 1)
  BY HalfOf DEF Part
<1> HIDE DEF h
<1>2. (2 * h) * n <= p * n
  BY <1>1, TimesNat
<1>3. (p + 1) * n <= (2 * (h + 1)) * n
  BY <1>1, TimesNat
<1>4. (2 * h) * n = h * (2 * n) /\ (2 * (h + 1)) * n = (h + 1) * (2 * n)
  BY <1>1
<1>5. h * (2 * n) <= d /\ d < (h + 1) * (2 * n)
  BY <1>1, <1>2, <1>3, <1>4 DEF Part
<1> QED
  BY <1>1, <1>5 DEF Part, h

(* What a word w for n seconds adds to a clock dialed to c is d or, at the *)
(* limit m, less.                                                          *)
Adds(d, n, m, c, w) ==
  /\ 0 <= (w - c) * n /\ (w - c) * n <= Scaled(d)
  /\ w < m => Scaled(d) - (w - c) * n < 67 * n

AtMost(m, x) == IF x > m THEN m ELSE x

(* So it is for a pull-in of one such part, with a dialed frequency within *)
(* the limit.                                                              *)
LEMMA PartShift ==
  ASSUME NEW d \in Int, NEW p \in Int, NEW n \in Nat \ {0}, Part(d, p, n),
         NEW m \in Int, NEW c \in Int, c <= m, NEW w \in Int,
         w = AtMost(m, c + Scaled(p))
  PROVE  Adds(d, n, m, c, w)
<1> DEFINE q == Scaled(p)  k == Scaled(d)
<1>1. /\ q \in Int /\ q >= 0 /\ 125 * q <= 8192 * p /\ 8192 * p <= 125 * q + 124
      /\ p \in Nat /\ p * n <= d /\ d + 1 <= (p + 1) * n
  BY ScaledOf DEF Part
<1>2. d \in Nat
  BY <1>1
<1>3. /\ k \in Int /\ 125 * k <= 8192 * d /\ 8192 * d <= 125 * k + 124
  BY <1>2, ScaledOf
<1>4. w = IF c + q > m THEN m ELSE c + q
  BY DEF AtMost
<1> HIDE DEF q, k
<1>5. 0 <= w - c /\ w - c <= q /\ (w < m => w - c = q)
  BY <1>1, <1>4
<1>6. (w - c) * n <= q * n /\ 0 * n <= (w - c) * n
  BY <1>1, <1>5, TimesNat
<1>7. (125 * q) * n <= (8192 * p) * n /\ (8192 * p) * n <= (125 * q + 124) * n
  BY <1>1, TimesNat
<1> DEFINE qn == q * n  pn == p * n
<1>8. /\ (125 * q) * n = 125 * qn /\ (8192 * p) * n = 8192 * pn
      /\ (125 * q + 124) * n = 125 * qn + 124 * n /\ (p + 1) * n = pn + n
  BY <1>1
<1>9. qn \in Int /\ pn \in Int
  BY <1>1
<1> HIDE DEF qn, pn
<1>10. 125 * qn <= 8192 * pn /\ 8192 * pn <= 125 * qn + 124 * n
  BY <1>7, <1>8
<1>11. pn <= d /\ d + 1 <= pn + n
  BY <1>1, <1>8 DEF pn
<1>12. qn <= k /\ k - qn < 67 * n
  BY <1>3, <1>9, <1>10, <1>11
<1>13. (w - c) * n \in Int /\ (w - c) * n <= qn /\ 0 <= (w - c) * n
  BY <1>5, <1>6 DEF qn
<1>14. w < m => (w - c) * n = qn
  BY <1>5 DEF qn
<1> QED
  BY <1>12, <1>13, <1>14, <1>9, <1>3 DEF k, Adds

(* In the loop and while pulling, ppb for so many seconds is the           *)
(* correction but for what the halvings dropped; the word is their sum.    *)
PartInv == stage # "idle" => Part(delta, ppb, duration) \/ Part(-delta, -ppb, duration)
WordInv == stage = "pulling" => word = Limited(current + Scaled(ppb))
PullInInv == PullInTypeOK /\ PartInv /\ WordInv
LEMMA ChipLimits ==
  ASSUME PullInAssumption, chip \in Chips
  PROVE  /\ chip.maxAdj \in Nat /\ chip.maxPull \in Nat /\ chip.least \in Nat
         /\ MaxFfo \in Nat /\ Limit \in Nat
<1>1. chip.maxAdj \in Nat /\ chip.maxPull \in Nat /\ chip.least \in Nat
  BY DEF PullInAssumption, Chips, ClockMatrix, Idt82p33
<1>2. MaxFfo \in Nat
  BY <1>1 DEF MaxFfo
<1>3. \A n \in Nat : Scaled(n) \in Nat
  BY ScaledOf
<1>4. Limit \in Nat
  BY <1>1, <1>3 DEF Limit
<1> QED
  BY <1>1, <1>2, <1>4

LEMMA PullInStep ==
  ASSUME PullInAssumption, PullInInv, PullInNext
  PROVE  PullInInv'
<1> USE PullInAssumption DEF PullInInv, PullInTypeOK
<1>1. chip' = chip /\ Limit' = Limit
  BY DEF PullInNext, Dial, Adjtime, Halve, StartPulling, StartPullingFails, StopPulling, Limit
<1>2. ASSUME NEW f \in Dials, Dial(f)  PROVE PullInInv'
  BY <1>2, <1>1 DEF Dial, PartInv, WordInv, PullInAssumption
<1>3. ASSUME NEW d \in Deltas, Adjtime(d)  PROVE PullInInv'
  <2>1. PullInTypeOK' /\ WordInv'
    BY <1>3, <1>1 DEF Adjtime, WordInv, PullInAssumption
  <2>2. d \in Int /\ delta' = d /\ ppb' = d /\ duration' = 1
    BY <1>3 DEF Adjtime, PullInAssumption
  <2>3. PartInv'
    BY <2>2 DEF PartInv, Part
  <2> QED
    BY <2>1, <2>3
<1>4. CASE Halve
  <2>1. Half(ppb) \in Int /\ Half(-ppb) = -Half(ppb)
    BY HalfOf
  <2>2. PullInTypeOK' /\ WordInv'
    BY <1>4, <1>1, <2>1 DEF Halve, WordInv
  <2>3. stage # "idle" /\ delta' = delta /\ ppb' = Half(ppb) /\ duration' = 2 * duration
    BY <1>4 DEF Halve
  <2>4. Part(delta, ppb, duration) => Part(delta, Half(ppb), 2 * duration)
    BY HalfPart
  <2>5. Part(-delta, -ppb, duration) => Part(-delta, Half(-ppb), 2 * duration)
    BY HalfPart
  <2>6. PartInv'
    BY <2>1, <2>3, <2>4, <2>5 DEF PartInv
  <2> QED
    BY <2>2, <2>6
<1>5. CASE StartPulling
  <2>1. current + Scaled(ppb) \in Int
    BY ScaledOf
  <2>2. Limited(current + Scaled(ppb)) \in Int
    BY <2>1, ChipLimits DEF Limited
  <2>3. stage # "idle" /\ current' = current /\ delta' = delta /\ ppb' = ppb /\ duration' = duration
    BY <1>5 DEF StartPulling
  <2>4. PartInv'
    BY <2>3 DEF PartInv
  <2>5. WordInv'
    BY <1>5, <1>1, <2>3 DEF StartPulling, WordInv, Limited
  <2> QED
    BY <1>5, <1>1, <2>2, <2>4, <2>5 DEF StartPulling
<1>6. CASE StartPullingFails
  BY <1>6, <1>1 DEF StartPullingFails, PartInv, WordInv
<1>7. CASE StopPulling
  BY <1>7, <1>1 DEF StopPulling, PartInv, WordInv
<1> QED
  BY <1>2, <1>3, <1>4, <1>5, <1>6, <1>7 DEF PullInNext

(* Either sign of the correction is the other one mirrored. *)
LEMMA SignedShift ==
  ASSUME NEW d \in Int, NEW p \in Int, NEW n \in Nat \ {0},
         Part(d, p, n) \/ Part(-d, -p, n),
         Limit \in Nat, NEW c \in -Limit .. Limit, NEW w \in Int,
         w = Limited(c + Scaled(p))
  PROVE  /\ Toward((w - c) * n, Scaled(d))
         /\ w > -Limit /\ w < Limit => Abs(Scaled(d) - (w - c) * n) < 67 * n
<1> DEFINE q == Scaled(p)  k == Scaled(d)
<1>1. q \in Int /\ Scaled(-p) = -q /\ k \in Int /\ Scaled(-d) = -k
  BY ScaledOf
<1>2. CASE Part(d, p, n)
  <2>1. q >= 0
    BY <1>2, ScaledOf DEF Part
  <2>2. w = AtMost(Limit, c + Scaled(p))
    BY <1>1, <2>1 DEF Limited, AtMost
  <2>3. c \in Int /\ c <= Limit /\ Limit \in Int
    OBVIOUS
  <2>4. Adds(d, n, Limit, c, w)
    BY <1>2, <2>2, <2>3, PartShift
  <2> QED
    BY <1>1, <2>4 DEF Toward, Abs, Adds
<1>3. CASE Part(-d, -p, n)
  <2>1. q <= 0
    BY <1>1, <1>3, ScaledOf DEF Part
  <2> DEFINE e == -d  r == -p  b == -c  v == -w
  <2>2. e \in Int /\ r \in Int /\ b \in Int /\ b <= Limit /\ v \in Int /\ Limit \in Int
    OBVIOUS
  <2>3. v = AtMost(Limit, b + Scaled(r))
    BY <1>1, <2>1 DEF Limited, AtMost
  <2>4. Part(e, r, n)
    BY <1>3
  <2>5. v - b = -(w - c) /\ Scaled(e) = -k
    BY <1>1
  <2> HIDE DEF e, r, b, v
  <2>6. Adds(e, n, Limit, b, v)
    BY <2>2, <2>3, <2>4, PartShift
  <2>7. (v - b) * n = -((w - c) * n) /\ (w - c) * n \in Int
    BY <2>5
  <2> QED
    BY <1>1, <2>5, <2>6, <2>7 DEF Toward, Abs, Adds, v
<1> QED
  BY <1>2, <1>3

LEMMA PullInInvImplies ==
  ASSUME PullInAssumption, PullInInv
  PROVE  PullsInAsAsked
<1>1. /\ delta \in Int /\ ppb \in Int /\ duration \in Nat \ {0}
      /\ word \in Int /\ Limit \in Nat
  BY ChipLimits DEF PullInInv, PullInTypeOK
<1>2. stage = "pulling" =>
        /\ Part(delta, ppb, duration) \/ Part(-delta, -ppb, duration)
        /\ word = Limited(current + Scaled(ppb))
  BY DEF PullInInv, PartInv, WordInv
<1> QED
  BY <1>1, <1>2, SignedShift DEF PullsInAsAsked, Shift, Wanted

(* Through every halving the remaining ppb, for the time it takes, is the  *)
(* correction but for what was rounded away, and the word of a pull-in is  *)
(* the dialed frequency plus it, limited.                                  *)
THEOREM PullInInductive == PullInSpec => []PullInInv
<1>1. PullInInit => PullInInv
  BY DEF PullInInit, PullInInv, PullInTypeOK, PartInv, WordInv
<1>2. PullInInv /\ [PullInNext]_pullVars => PullInInv'
  <2> SUFFICES ASSUME PullInInv, [PullInNext]_pullVars  PROVE PullInInv'
    OBVIOUS
  <2>1. CASE PullInNext
    BY <2>1, PullInStep, PullInAssumption
  <2>2. CASE UNCHANGED pullVars
    BY <2>2 DEF pullVars, PullInInv, PullInTypeOK, PartInv, WordInv, Limited, Limit, Chips, ClockMatrix, Idt82p33
  <2> QED
    BY <2>1, <2>2
<1> QED
  BY <1>1, <1>2, PTL DEF PullInSpec

(* A software pull-in moves the clock the way that was asked for, never    *)
(* too far, and all the way where the limit is not met, for every limit    *)
(* the drivers set, every dialed frequency within it and every correction. *)
THEOREM PullInsAsAsked == PullInSpec => []PullsInAsAsked
<1>1. PullInInv => PullsInAsAsked
  BY PullInInvImplies, PullInAssumption
<1> QED
  BY <1>1, PullInInductive, PTL
=============================================================================
