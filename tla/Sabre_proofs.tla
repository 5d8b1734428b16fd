---------------------------- MODULE Sabre_proofs ----------------------------
(***************************************************************************)
(* Proofs about the clocks of the 82P33.                                   *)
(*                                                                         *)
(* SabreSteering, for any callers and frequencies: what the mutex          *)
(* guarantees (FrequencyRemembered, OffFrequencyIsFlagged) holds for all   *)
(* users, except while the last write of the frequency word is one that    *)
(* failed and may have arrived in part.  What relates the two memories of the mode needs KeepMode    *)
(* and the invariant HoldingInv: during holdover the cached mode, the mode *)
(* to return to and the mode of every call on its way to the mutex are all *)
(* the same, and outside holdover the cache is the device's.               *)
(*                                                                         *)
(* SabreTimeOfDay, for any clocks, times, corrections, length of a second  *)
(* and bounds: OffsetInv says for each clock what its trigger will make of *)
(* its offset, and when.                                                   *)
(***************************************************************************)
EXTENDS SabreSteering, SabreTimeOfDay, TLAPS

USE SabreAssumption DEF SabreAssumption

(* All variables keep their types. *)
LEMMA TypeInit == Init => TypeOK
<1> SUFFICES ASSUME Init PROVE TypeOK
  OBVIOUS
<1> USE DEF Init, TypeOK
<1>1. req \in [Callers -> Requests]
  <2>1. [kind |-> "adjfine", freq |-> ZeroFreq] \in Requests
    BY DEF Requests
  <2> QED
    BY <2>1
<1>2. word \in [base : Freqs \cup {TornBase}, pull : BOOLEAN]
  OBVIOUS
<1>3. pc \in [Callers -> {"idle", "lock"}] /\ pllMode \in Modes /\ hwMode \in Modes
  BY DEF Modes, DCO
<1>4. errs \in 0 .. MaxErrors
  OBVIOUS
<1>5. prevMode \in {Unset}
  OBVIOUS
<1> QED
  BY <1>1, <1>2, <1>3, <1>4, <1>5

LEMMA TypeStep == TypeOK /\ [Next]_vars => TypeOK'
<1> SUFFICES ASSUME TypeOK, [Next]_vars PROVE TypeOK'
  OBVIOUS
<1> USE DEF TypeOK, Modes, Requests, DCO, WPH, Holdover, Unset, clockVars, holdingVars, wordVars,
           ModeOf
<1>1. ASSUME NEW c \in Callers, NEW r \in Requests, Call(c, r) PROVE TypeOK'
  BY <1>1 DEF Call
<1>a. \A f \in Freqs, k \in {"adjfine", "adjtime", "adjphase"} : [kind |-> k, freq |-> f] \in Requests
  OBVIOUS
<1>2. ASSUME NEW c \in Callers, Adjfine(c) PROVE TypeOK'
  BY <1>2 DEF Adjfine, Locked, WriteWord, Dialed, SetMode, Remember, Return
<1>3. ASSUME NEW c \in Callers, StartDdco(c) PROVE TypeOK'
  BY <1>3 DEF StartDdco, Locked, WriteWord, PulledIn, SetMode, Return
<1>4. ASSUME NEW c \in Callers, NoDdco(c) PROVE TypeOK'
  BY <1>4 DEF NoDdco, Locked, Return
<1>5. ASSUME NEW c \in Callers, Adjphase(c) PROVE TypeOK'
  BY <1>5 DEF Adjphase, Locked, SetMode, Return
<1>6. ASSUME NEW c \in Callers, CallFails(c) PROVE TypeOK'
  BY <1>6 DEF CallFails, Fault, StopsAt, SetMode, Return
<1>w. ASSUME NEW w \in [base : Freqs, pull : BOOLEAN], WordFails(w)
      PROVE  /\ pllMode' \in Modes /\ hwMode' \in Modes \cup {Holdover}
             /\ word' \in [base : Freqs \cup {TornBase}, pull : BOOLEAN] /\ unsure' \in BOOLEAN
             /\ errs' \in 0 .. MaxErrors
  <2>1. /\ pllMode' \in Modes /\ hwMode' \in Modes \cup {Holdover}
        /\ unsure' \in BOOLEAN /\ errs' \in 0 .. MaxErrors
    BY <1>w DEF WordFails, Fault, SetMode
  <2>2. /\ w \in [base : Freqs \cup {TornBase}, pull : BOOLEAN]
        /\ TornWord \in [base : Freqs \cup {TornBase}, pull : BOOLEAN]
    BY DEF TornWord
  <2>3. word' \in {word, w, TornWord}
    BY <1>w DEF WordFails
  <2> QED
    BY <2>1, <2>2, <2>3
<1>14. ASSUME NEW c \in Callers, CallWordFails(c) PROVE TypeOK'
  <2>1. Dialed(req[c].freq) \in [base : Freqs, pull : BOOLEAN] /\ PulledIn \in [base : Freqs, pull : BOOLEAN]
    BY DEF Dialed, PulledIn
  <2>2. WordFails(Dialed(req[c].freq)) \/ WordFails(PulledIn)
    BY <1>14 DEF CallWordFails
  <2>3. pc' \in [Callers -> {"idle", "lock"}] /\ req' = req
    BY <1>14 DEF CallWordFails, Return
  <2> QED
    BY <1>14, <1>w, <2>1, <2>2, <2>3 DEF CallWordFails
<1>7. CASE StopDdco
  BY <1>7 DEF StopDdco, WriteWord, Dialed, SetMode
<1>8. CASE StopDdcoFails
  <2>1. CASE WordFails(Dialed(currentFreq))
    <3>1. Dialed(currentFreq) \in [base : Freqs, pull : BOOLEAN]
      BY DEF Dialed
    <3> QED
      BY <1>8, <1>w, <2>1, <3>1 DEF StopDdcoFails
  <2>2. CASE Fault /\ StopsAt(DCO) /\ UNCHANGED wordVars
    <3>1. pllMode' \in Modes /\ hwMode' \in Modes \cup {Holdover} /\ errs' \in 0 .. MaxErrors
      BY <2>2 DEF Fault, StopsAt, SetMode
    <3> QED
      BY <1>8, <2>2, <3>1 DEF StopDdcoFails
  <2> QED
    BY <1>8, <2>1, <2>2 DEF StopDdcoFails
<1>9. CASE EnableHoldover
  BY <1>9 DEF EnableHoldover, Found
<1>10. CASE EnableHoldoverFails
  BY <1>10 DEF EnableHoldoverFails, Fault, Found
<1>11. CASE DisableHoldover
  BY <1>11 DEF DisableHoldover, Restored
<1>12. CASE DisableHoldoverFails
  BY <1>12 DEF DisableHoldoverFails, Fault, Restored
<1>13. CASE UNCHANGED vars
  BY <1>13 DEF vars
<1> QED
  BY <1>1, <1>2, <1>3, <1>4, <1>5, <1>6, <1>7, <1>8, <1>9, <1>10, <1>11, <1>12, <1>13, <1>14
     DEF Next, idt82p33_adjfine, idt82p33_adjtime, idt82p33_adjwritephase

(* The state of clock and character device keeps its type. *)
THEOREM SabreTypes == Spec => []TypeOK
  BY TypeInit, TypeStep, PTL DEF Spec

-----------------------------------------------------------------------------
(* What holds whoever calls what.                                          *)

(* The word, its memory and the flag and the worker of a pull-in change    *)
(* together, under the mutex; the type invariant is not needed.            *)
ClockInv ==
  /\ FrequencyRemembered
  /\ OffFrequencyIsFlagged
  /\ DdcoHasCanceller
  /\ due => ddco

LEMMA ClockStep == TypeOK /\ ClockInv /\ [Next]_vars => ClockInv'
<1> SUFFICES ASSUME TypeOK, ClockInv, [Next]_vars PROVE ClockInv'
  OBVIOUS
<1> USE DEF ClockInv, FrequencyRemembered, OffFrequencyIsFlagged, DdcoHasCanceller, wordVars,
           WriteWord, Dialed, PulledIn
<1>1. ASSUME NEW c \in Callers, NEW r, Call(c, r) PROVE ClockInv'
  BY <1>1 DEF Call, clockVars
<1>2. ASSUME NEW c \in Callers, Adjfine(c) PROVE ClockInv'
  BY <1>2 DEF Adjfine, Remember
<1>3. ASSUME NEW c \in Callers, StartDdco(c) PROVE ClockInv'
  BY <1>3 DEF StartDdco
<1>4. ASSUME NEW c \in Callers, NoDdco(c) \/ Adjphase(c) PROVE ClockInv'
  BY <1>4 DEF NoDdco, Adjphase, clockVars
<1>5. ASSUME NEW c \in Callers, CallFails(c) PROVE ClockInv'
  BY <1>5 DEF CallFails, Fault, TypeOK
<1>11. ASSUME NEW c \in Callers, CallWordFails(c) PROVE ClockInv'
  BY <1>11 DEF CallWordFails, WordFails, Fault, TypeOK
<1>6. CASE StopDdco
  BY <1>6 DEF StopDdco
<1>7. CASE StopDdcoFails
  BY <1>7 DEF StopDdcoFails, WordFails, Fault, TypeOK
<1>8. CASE EnableHoldover \/ DisableHoldover
  BY <1>8 DEF EnableHoldover, DisableHoldover, clockVars
<1>9. CASE EnableHoldoverFails \/ DisableHoldoverFails
  BY <1>9 DEF EnableHoldoverFails, DisableHoldoverFails, Fault, clockVars, TypeOK
<1>10. CASE UNCHANGED vars
  BY <1>10 DEF vars
<1> QED
  BY <1>1, <1>2, <1>3, <1>4, <1>5, <1>6, <1>7, <1>8, <1>9, <1>10, <1>11
     DEF Next, idt82p33_adjfine, idt82p33_adjtime, idt82p33_adjwritephase

LEMMA ClockInvariant == Spec => []ClockInv
<1>1. Init => ClockInv
  BY DEF Init, ClockInv, FrequencyRemembered, OffFrequencyIsFlagged, DdcoHasCanceller
<1> QED
  BY <1>1, ClockStep, SabreTypes, PTL DEF Spec

(* current_freq is the base frequency in the device, unless the last write *)
(* of the frequency word failed.                                           *)
THEOREM SabreFrequencyRemembered == Spec => []FrequencyRemembered
  BY ClockInvariant, PTL DEF ClockInv

(* A DPLL at a pull-in frequency is flagged, with the same exception. *)
THEOREM SabreOffFrequencyFlagged == Spec => []OffFrequencyIsFlagged
  BY ClockInvariant, PTL DEF ClockInv

(* A flagged pull-in has its worker queued unless a transfer failed. *)
THEOREM SabreDdcoCancelled == Spec => []DdcoHasCanceller
  BY ClockInvariant, PTL DEF ClockInv

(* Only the write of a frequency word is a step of the abstract clock, one *)
(* that fails a step to an unknown frequency.                              *)
LEMMA SteeringStepRefines ==
  ASSUME TypeOK, ClockInv, [Next]_vars
  PROVE  [StaleAdjfine \/ Clock!ClockNext]_(Clock!clockVars)
<1> SUFFICES ASSUME ~StaleAdjfine
             PROVE  [Clock!ClockNext]_(Clock!clockVars)
  OBVIOUS
<1> USE DEF Clock!clockVars, Clock!ClockNext, ClockInv, FrequencyRemembered, OffFrequencyIsFlagged
<1>1. CASE UNCHANGED <<word, unsure, currentFreq>>
  BY <1>1
<1>2. ASSUME NEW c \in Callers, Adjfine(c) PROVE Clock!ClockNext
  <2>1. ~ddco
    BY <1>2 DEF Adjfine, Return, StaleAdjfine, TypeOK
  <2>2. req[c].freq \in Freqs
    BY DEF TypeOK, Requests
  <2>3. Clock!Dial(req[c].freq)
    BY <1>2, <2>1 DEF Adjfine, WriteWord, Dialed, Clock!Dial
  <2> QED
    BY <2>2, <2>3
<1>3. ASSUME NEW c \in Callers, StartDdco(c) PROVE [Clock!ClockNext]_(Clock!clockVars)
  <2>1. word' = PulledIn /\ ~unsure' /\ currentFreq' = currentFreq
    BY <1>3 DEF StartDdco, WriteWord
  <2> QED
    BY <2>1 DEF PulledIn, Clock!StartPullIn
<1>4. ASSUME UNCHANGED currentFreq, unsure' PROVE Clock!WriteFails
  BY <1>4 DEF Clock!WriteFails
<1>5. CASE StopDdco
  <2>1. word' = Dialed(currentFreq) /\ ~unsure' /\ currentFreq' = currentFreq
    BY <1>5 DEF StopDdco, WriteWord
  <2> QED
    BY <2>1 DEF Dialed, Clock!EndPullIn
<1>6. \/ UNCHANGED <<word, unsure, currentFreq>>
      \/ unsure' /\ UNCHANGED currentFreq
      \/ \E c \in Callers : Adjfine(c) \/ StartDdco(c)
      \/ StopDdco
  <2>1. ASSUME NEW c \in Callers,
               NoDdco(c) \/ Adjphase(c) \/ CallFails(c) \/ (\E r \in Requests : Call(c, r))
        PROVE  UNCHANGED <<word, unsure, currentFreq>>
    BY <2>1 DEF NoDdco, Adjphase, CallFails, Call, clockVars, wordVars
  <2>2. ASSUME NEW c \in Callers, CallWordFails(c) PROVE unsure' /\ UNCHANGED currentFreq
    BY <2>2 DEF CallWordFails, WordFails
  <2>3. CASE StopDdcoFails
    BY <2>3 DEF StopDdcoFails, WordFails, wordVars
  <2>4. CASE EnableHoldover \/ EnableHoldoverFails \/ DisableHoldover \/ DisableHoldoverFails
    BY <2>4 DEF EnableHoldover, EnableHoldoverFails, DisableHoldover, DisableHoldoverFails,
               clockVars, wordVars
  <2>5. CASE UNCHANGED vars
    BY <2>5 DEF vars
  <2>6. ASSUME NEW c \in Callers,
               (\E f \in Freqs : idt82p33_adjfine(c, f)) \/ idt82p33_adjtime(c) \/ idt82p33_adjwritephase(c)
        PROVE  \E r \in Requests : Call(c, r)
    BY <2>6 DEF idt82p33_adjfine, idt82p33_adjtime, idt82p33_adjwritephase, Requests
  <2> QED
    BY <2>1, <2>2, <2>3, <2>4, <2>5, <2>6 DEF Next
<1> QED
  BY <1>1, <1>2, <1>3, <1>4, <1>5, <1>6, Zenon

(* The clock of an 82P33 is dialed and pulled in as SteeredClock says,     *)
(* whatever calls overlap, but for an adjfine whose test of ddco has gone  *)
(* stale; a write of the frequency word that fails leaves it at an unknown *)
(* frequency, until the next one that succeeds.                            *)
THEOREM SabreImplementsClock == Spec => ImplementsClock
<1>1. Init => Clock!ClockInit
  BY DEF Init, Clock!ClockInit
<1>2. TypeOK /\ ClockInv /\ [Next]_vars
      => [StaleAdjfine \/ Clock!ClockNext]_(Clock!clockVars)
  BY SteeringStepRefines
<1> QED
  BY <1>1, <1>2, SabreTypes, ClockInvariant, PTL DEF Spec, ImplementsClock

-----------------------------------------------------------------------------
(* What holds when the users keep the mode during holdover.                *)

HoldingInv ==
  /\ ~holding => hwMode = pllMode
  /\ holding =>
       /\ prevMode = pllMode
       /\ hwMode \in {Holdover, pllMode}
       /\ errs = 0 => hwMode = Holdover
       /\ due => pllMode = DCO
       /\ \A c \in Callers : pc[c] = "lock" => ModeOf(req[c].kind) = pllMode

LEMMA HoldingStep ==
  ASSUME KeepMode
  PROVE  TypeOK /\ TypeOK' /\ ClockInv /\ HoldingInv /\ [Next]_vars => HoldingInv'
<1> SUFFICES ASSUME TypeOK, TypeOK', ClockInv, HoldingInv, [Next]_vars PROVE HoldingInv'
  OBVIOUS
<1> USE DEF HoldingInv, TypeOK, ModeOf, WriteWord, WordFails
(* A call that returns from the mutex disturbs no other call's request. *)
<1>0. ASSUME NEW c \in Callers, Return(c)
      PROVE  \A d \in Callers : pc'[d] = "lock" => pc[d] = "lock" /\ req'[d] = req[d]
  BY <1>0 DEF Return
<1>1. ASSUME NEW c \in Callers, NEW r \in Requests, Call(c, r) PROVE HoldingInv'
  <2>1. \A d \in Callers : d # c => pc'[d] = pc[d] /\ req'[d] = req[d]
    BY <1>1 DEF Call
  <2>2. holding => ModeOf(req'[c].kind) = pllMode
    BY <1>1 DEF Call
  <2> QED
    BY <1>1, <2>1, <2>2 DEF Call, clockVars, holdingVars
<1>2. ASSUME NEW c \in Callers, Adjfine(c) PROVE HoldingInv'
  BY <1>0, <1>2 DEF Adjfine, Locked, SetMode, holdingVars
<1>3. ASSUME NEW c \in Callers, StartDdco(c) PROVE HoldingInv'
  BY <1>0, <1>3 DEF StartDdco, Locked, SetMode, holdingVars
<1>4. ASSUME NEW c \in Callers, NoDdco(c) PROVE HoldingInv'
  BY <1>0, <1>4 DEF NoDdco, clockVars, holdingVars
<1>5. ASSUME NEW c \in Callers, Adjphase(c) PROVE HoldingInv'
  BY <1>0, <1>5 DEF Adjphase, Locked, SetMode, holdingVars
<1>6. ASSUME NEW c \in Callers, CallFails(c) PROVE HoldingInv'
  BY <1>0, <1>6 DEF CallFails, Fault, StopsAt, SetMode, holdingVars
<1>14. ASSUME NEW c \in Callers, CallWordFails(c) PROVE HoldingInv'
  BY <1>0, <1>14 DEF CallWordFails, Locked, Fault, SetMode, holdingVars
<1>7. CASE StopDdco
  BY <1>7 DEF StopDdco, SetMode, holdingVars
<1>8. CASE StopDdcoFails
  BY <1>8 DEF StopDdcoFails, Fault, StopsAt, SetMode, holdingVars
<1>9. CASE EnableHoldover
  BY <1>9 DEF EnableHoldover, MayEnable, Found, clockVars, ClockInv
<1>10. CASE EnableHoldoverFails
  BY <1>10 DEF EnableHoldoverFails, MayEnable, Fault, clockVars
<1>11. CASE DisableHoldover
  BY <1>11 DEF DisableHoldover, MayDisable, Restored, clockVars
<1>12. CASE DisableHoldoverFails
  BY <1>12 DEF DisableHoldoverFails, MayDisable, Fault, Restored, clockVars
<1>13. CASE UNCHANGED vars
  BY <1>13 DEF vars
<1> QED
  BY <1>1, <1>2, <1>3, <1>4, <1>5, <1>6, <1>7, <1>8, <1>9, <1>10, <1>11, <1>12, <1>13, <1>14
     DEF Next, Requests, idt82p33_adjfine, idt82p33_adjtime, idt82p33_adjwritephase

LEMMA HoldingInvariant == ASSUME KeepMode PROVE Spec => []HoldingInv
<1>1. Init => HoldingInv
  BY DEF Init, HoldingInv
<1>2. TypeOK /\ TypeOK' /\ ClockInv /\ HoldingInv /\ [Next]_vars => HoldingInv'
  BY HoldingStep
<1> QED
  BY <1>1, <1>2, SabreTypes, ClockInvariant, PTL DEF Spec

(* Outside holdover the cached mode is the mode of the device. *)
THEOREM SabreModeKnown == ASSUME KeepMode PROVE Spec => []ModeIsKnown
<1>1. HoldingInv => ModeIsKnown
  BY DEF HoldingInv, ModeIsKnown
<1>2. Spec => []HoldingInv
  BY HoldingInvariant
<1> QED
  BY <1>1, <1>2, PTL

(* Holdover lasts while the clock is steered as before. *)
THEOREM SabreHoldoverLasts == ASSUME KeepMode PROVE Spec => []HoldoverLasts
<1>1. HoldingInv => HoldoverLasts
  BY DEF HoldingInv, HoldoverLasts
<1>2. Spec => []HoldingInv
  BY HoldingInvariant
<1> QED
  BY <1>1, <1>2, PTL

(* Holdover that was enabled once can be disabled. *)
THEOREM SabreHoldoverEnds == ASSUME KeepMode PROVE Spec => []HoldoverCanBeDisabled
<1>1. HoldingInv /\ TypeOK => HoldoverCanBeDisabled
  BY DEF HoldingInv, HoldoverCanBeDisabled, TypeOK
<1>2. Spec => []HoldingInv
  BY HoldingInvariant
<1> QED
  BY <1>1, <1>2, SabreTypes, PTL

HIDE SabreAssumption DEF SabreAssumption

-----------------------------------------------------------------------------
(* SabreTimeOfDay.  The operation under way, if it is one on clock c: it   *)
(* sets it, has read it to correct it, aligns its outputs, or has failed.  *)

Own(c)        == stage # "idle" /\ clock = c
Corrects      == op.kind \in {"adjtime", "workaround"}
Setting(c)    == Own(c) /\ Sets
Correcting(c) == Own(c) /\ Corrects /\ stage \notin {"read", "done"}
Aligning(c)   == Own(c) /\ op.kind = "workaround" /\ stage # "done"
Spoiling(c)   == Own(c) /\ Corrects /\ stage = "done" /\ failed

(* The first full second after v, and the value a clock shows at the first *)
(* of its full seconds after t.                                            *)
After(v)        == (v \div Second + 1) * Second
FullAfter(t, c) == After(t + offset[c])

(* Where an operation may be, and how long it has been.                    *)
StageInv ==
  /\ stage \in {"measure", "sync"} => op.kind = "enable"
  /\ stage \in {"delay", "cnfg", "arm_pps"} => op.kind \in {"adjtime", "workaround"}
  /\ stage = "read" => ~Sets
  /\ stage = "read_now" => op.kind = "adjtime"
  /\ stage \in {"arm_msb", "write"} => Sets \/ op.kind = "adjtime"
  /\ stage \notin {"idle", "done"} => ~failed
  /\ stage = "write" => trigger[clock] = "msb"
  /\ stage \in {"arm_msb", "write", "measure", "sync"} /\ Sets => ts = op.arg

PaceInv ==
  /\ began <= now /\ readAt <= now
  /\ stage \in {"delay", "cnfg", "arm_pps"} => now <= readAt + Guard

(* The flag is up within an adjtime that falls back, and after one failed. *)
FlagInv ==
  /\ overhead /\ ~spoilt =>
       /\ op.kind = "adjtime"
       /\ stage \in {"read_now", "arm_msb", "write"} \/ (stage = "done" /\ failed)
  /\ Sets /\ ~failed /\ stage \in {"measure", "sync", "done"} => ~overhead

SetInv ==
  Sets /\ ~failed /\ stage \in {"sync", "done"} =>
    /\ trigger[clock] = "none"
    /\ ~owing[clock]
    /\ ~spoilt => op.arg - offset[clock] \in began .. now

(* The offset a clock has, or gets at its next full second.                *)
Promised(c) ==
  intended[c] + (IF Own(c) /\ op.kind = "adjtime" /\ stage = "done" THEN op.arg ELSE 0)

SteadyInv(c) ==
  /\ trigger[c] \in {"none", "pps"}
  /\ trigger[c] = "none" => offset[c] = Promised(c)
  /\ trigger[c] = "pps" => cnfg[c] + offset[c] = FullAfter(now, c) + Promised(c)
  /\ failures = 0 /\ workDue[c] = Never /\ ~Aligning(c) =>
       IF trigger[c] = "none" THEN ~owing[c] ELSE cnfg[c] % Second = 0

(* A correction under way, once the clock has been read: up to the writes  *)
(* that nothing but an alignment waits for a full second, and that none    *)
(* comes between the last two; falling back, that the flag counts the time *)
(* since the clock was read again.                                         *)
CorrectingInv(c) ==
  /\ stage \in {"delay", "cnfg", "arm_pps"} =>
       trigger[c] \in {"none", "pps"} /\ offset[c] = intended[c]
  /\ stage = "delay" =>
       /\ trigger[c] = "pps" => cnfg[c] = FullAfter(now, c)
       /\ (readAt + offset[c]) % Second >= Second - Guard
       /\ ts = FullAfter(readAt, c) + Second + op.arg
  /\ stage \in {"cnfg", "arm_pps"} =>
       /\ (readAt + offset[c]) % Second < Second - Guard
       /\ ts = FullAfter(readAt, c) + op.arg
  /\ stage = "arm_pps" => cnfg[c] = ts /\ (workDue[c] = Never => ts % Second = 0)
  /\ stage \in {"read_now", "arm_msb", "write"} => overhead
  /\ stage \in {"arm_msb", "write"} => ts = start + intended[c] + op.arg

OffsetInv(c) ==
  ~crossed[c] =>
    IF Correcting(c) THEN CorrectingInv(c) ELSE Setting(c) \/ Spoiling(c) \/ SteadyInv(c)

TodInv == StageInv /\ PaceInv /\ FlagInv /\ SetInv /\ \A c \in Clocks : OffsetInv(c)

-----------------------------------------------------------------------------
(* Full seconds. *)

LEMMA SecondIsPositive ==
  Second \in Nat /\ Guard \in Nat /\ 0 < Second /\ 0 < Guard /\ 2 * Guard < Second
BY SabreTimeAssumption

LEMMA DivMod ==
  ASSUME NEW v \in Int
  PROVE  /\ v \div Second \in Int
         /\ v % Second \in 0 .. Second - 1
         /\ v = (v \div Second) * Second + (v % Second)
BY SecondIsPositive

LEMMA Apart ==
  ASSUME NEW a \in Int, NEW b \in Int, a < b
  PROVE  a * Second + Second <= b * Second
<1>1. b = a + 1 + (b - a - 1) /\ b - a - 1 \in Nat OBVIOUS
<1>2. \A d \in Nat : d * Second \in Nat BY SecondIsPositive
<1>3. (a + 1 + (b - a - 1)) * Second = a * Second + Second + (b - a - 1) * Second
  BY SecondIsPositive
<1> QED BY <1>1, <1>2, <1>3, SecondIsPositive

LEMMA DivModUnique ==
  ASSUME NEW q \in Int, NEW r \in 0 .. Second - 1
  PROVE  (q * Second + r) \div Second = q /\ (q * Second + r) % Second = r
<1> DEFINE v == q * Second + r
<1>1. v \in Int BY SecondIsPositive
<1>2. /\ v \div Second \in Int /\ v % Second \in 0 .. Second - 1
      /\ v = (v \div Second) * Second + (v % Second)
  BY <1>1, DivMod
<1> HIDE DEF v
<1>3. v = q * Second + r BY DEF v
<1>4. ~(v \div Second < q) BY <1>2, <1>3, Apart, SecondIsPositive
<1>5. ~(q < v \div Second) BY <1>2, <1>3, Apart, SecondIsPositive
<1>6. v \div Second = q BY <1>2, <1>4, <1>5
<1>7. v % Second = r BY <1>2, <1>3, <1>6, SecondIsPositive
<1> QED BY <1>6, <1>7 DEF v

(* The full second after v is at most a second away, and how far.          *)
LEMMA AfterBounds ==
  ASSUME NEW v \in Int
  PROVE  /\ After(v) \in Int /\ v < After(v) /\ After(v) <= v + Second
         /\ v % Second \in 0 .. Second - 1
         /\ After(v) = v + (Second - (v % Second))
<1>1. (v \div Second + 1) * Second = (v \div Second) * Second + Second
  BY DivMod, SecondIsPositive
<1> QED BY <1>1, DivMod, SecondIsPositive DEF After

(* It stays the same until it is reached. *)
LEMMA AfterSame ==
  ASSUME NEW v \in Int, NEW w \in Int, v <= w, w < After(v)
  PROVE  After(w) = After(v) /\ w % Second = (v % Second) + (w - v)
<1> DEFINE q == v \div Second
           r == (v % Second) + (w - v)
<1>1. q \in Int /\ v = q * Second + (v % Second) /\ v % Second \in 0 .. Second - 1
  BY DivMod
<1>2. r \in 0 .. Second - 1 BY <1>1, AfterBounds, SecondIsPositive
<1>3. w = q * Second + r BY <1>1, SecondIsPositive
<1> HIDE DEF q, r
<1>4. w \div Second = q /\ w % Second = r BY <1>1, <1>2, <1>3, DivModUnique
<1> QED BY <1>4 DEF After, q, r

LEMMA AfterNext ==
  ASSUME NEW v \in Int
  PROVE  IF (v + 1) % Second = 0 THEN After(v) = v + 1 ELSE After(v + 1) = After(v)
<1>1. CASE v + 1 < After(v)
  <2>1. After(v + 1) = After(v) /\ (v + 1) % Second = (v % Second) + 1
    BY <1>1, AfterSame
  <2> QED BY <2>1, AfterBounds
<1>2. CASE After(v) = v + 1
  <2>1. PICK q \in Int : v + 1 = q * Second
    <3>1. v + 1 = (v \div Second + 1) * Second BY <1>2 DEF After
    <3>2. v \div Second + 1 \in Int BY DivMod
    <3> QED BY <3>1, <3>2
  <2>2. (v + 1) % Second = 0
    <3>1. 0 \in 0 .. Second - 1 /\ q * Second + 0 = v + 1 BY <2>1, SecondIsPositive
    <3>2. (q * Second + 0) % Second = 0 BY <3>1, DivModUnique
    <3> QED BY <3>1, <3>2
  <2> QED BY <1>2, <2>2
<1> QED BY <1>1, <1>2, AfterBounds

(* A full second and a correction by a: the fraction is that of a.         *)
LEMMA AfterPlus ==
  ASSUME NEW v \in Int, NEW a \in Int, NEW n \in {0, Second}
  PROVE  (After(v) + n + a) % Second = a % Second
<1>1. PICK k \in Int : After(v) + n = k * Second
  <2>1. PICK q \in Int : After(v) = q * Second BY DivMod DEF After
  <2>2. q * Second + Second = (q + 1) * Second /\ q * Second + 0 = q * Second
    BY SecondIsPositive
  <2>3. q \in Int /\ q + 1 \in Int OBVIOUS
  <2>4. CASE n = 0 BY <2>1, <2>2, <2>4
  <2>5. CASE n = Second BY <2>1, <2>2, <2>3, <2>5
  <2> QED BY <2>4, <2>5
<1>2. PICK m \in Int, r \in 0 .. Second - 1 : a = m * Second + r /\ r = a % Second
  BY DivMod
<1>3. After(v) + n + a = (k + m) * Second + r
  <2>1. (k + m) * Second = k * Second + m * Second BY SecondIsPositive
  <2> QED BY <1>1, <1>2, <2>1, AfterBounds, SecondIsPositive
<1> QED BY <1>2, <1>3, DivModUnique

(* After the delay the second that was too close is over.                  *)
LEMMA AfterDelay ==
  ASSUME NEW v \in Int, v % Second >= Second - Guard
  PROVE  /\ After(v + Guard) = After(v) + Second
         /\ (v + Guard) % Second < Second - Guard
<1> DEFINE q == v \div Second + 1
           r == (v % Second) + Guard - Second
<1>1. /\ v \div Second \in Int /\ v = (v \div Second) * Second + (v % Second)
      /\ v % Second \in 0 .. Second - 1
  BY DivMod
<1>2. q \in Int /\ r \in 0 .. Second - 1 /\ r < Second - Guard BY <1>1, SecondIsPositive
<1>3. v + Guard = q * Second + r BY <1>1, SecondIsPositive
<1>4. After(v) = q * Second BY DEF After
<1> HIDE DEF q, r
<1>5. (v + Guard) \div Second = q /\ (v + Guard) % Second = r
  BY <1>2, <1>3, DivModUnique
<1>6. (q + 1) * Second = q * Second + Second BY <1>2, SecondIsPositive
<1> QED BY <1>2, <1>4, <1>5, <1>6 DEF After
-----------------------------------------------------------------------------
(* All variables keep their types. *)

LEMMA OpTypes ==
  ASSUME NEW o \in Ops
  PROVE  /\ o.kind \in {"settime", "adjtime", "gettime", "enable", "workaround"}
         /\ o.clock \in Clocks /\ o.arg \in Int
         /\ o.kind \in {"gettime", "enable", "workaround"} => o.arg = 0
<1>1. CASE o \in [kind : {"settime"}, clock : Clocks, arg : Times]
  <2>1. o.kind = "settime" /\ o.clock \in Clocks /\ o.arg \in Times BY <1>1
  <2>2. o.arg \in Nat BY <2>1, SabreTimeAssumption
  <2> QED BY <2>1, <2>2
<1>2. CASE o \in [kind : {"adjtime"}, clock : Clocks, arg : Deltas]
  <2>1. o.kind = "adjtime" /\ o.clock \in Clocks /\ o.arg \in Deltas BY <1>2
  <2> QED BY <2>1, SabreTimeAssumption
<1>3. CASE o \in [kind : {"gettime"}, clock : Clocks, arg : {0}] BY <1>3
<1>4. CASE o \in [kind : {"enable", "workaround"}, clock : Clocks, arg : {0}] BY <1>4
<1> QED BY <1>1, <1>2, <1>3, <1>4 DEF Ops, TodRequests

LEMMA ValueType == ASSUME TodTypeOK, NEW c \in Clocks PROVE offset[c] \in Int /\ now \in Nat /\ Value(c) \in Int
BY SabreTimeAssumption DEF TodTypeOK, Value

LEMMA FailTypes == TodTypeOK /\ Fail => failures' \in 0 .. MaxFailures /\ stage' = "done" /\ failed' = TRUE
BY SabreTimeAssumption DEF TodTypeOK, Fail

LEMMA TodTypesInit == TodInit => TodTypeOK
<1> SUFFICES ASSUME TodInit PROVE TodTypeOK OBVIOUS
<1> USE SabreTimeAssumption DEF TodInit
<1>1. workDue \in [Clocks -> Nat \cup {Never}] /\ enabled \in [Clocks -> {"no", "measured", "yes"}]
  OBVIOUS
<1>2. {offset, cnfg, intended} \subseteq [Clocks -> Int] OBVIOUS
<1>3. trigger \in [Clocks -> {"none", "msb", "pps"}] /\ {crossed, owing} \subseteq [Clocks -> BOOLEAN]
  OBVIOUS
<1>4. {start, readAt, began, now} \subseteq 0 .. MaxNow /\ ops \in 0 .. MaxOps /\ failures \in 0 .. MaxFailures
  OBVIOUS
<1> QED BY <1>1, <1>2, <1>3, <1>4 DEF TodTypeOK

LEMMA RecordTypes ==
  ASSUME TodTypeOK, NEW o \in Ops, Record(o), workDue' \in [Clocks -> Nat \cup {Never}],
         crossed' \in [Clocks -> BOOLEAN], ops' \in 0 .. MaxOps,
         stage' \in {"arm_msb", "read"}
  PROVE  TodTypeOK'
BY OpTypes DEF TodTypeOK, Record, deviceVars

LEMMA WrittenTypes ==
  ASSUME TodTypeOK, NEW v \in Int, Written(v)
  PROVE  /\ offset' \in [Clocks -> Int] /\ trigger' \in [Clocks -> {"none", "msb", "pps"}]
         /\ cnfg' \in [Clocks -> Int]
<1>1. now \in Int BY SabreTimeAssumption DEF TodTypeOK
<1>2. v - now \in Int BY <1>1
<1>3. \/ UNCHANGED <<offset, trigger>>
      \/ /\ offset' = [offset EXCEPT ![clock] = v - now]
         /\ trigger' = [trigger EXCEPT ![clock] = "none"]
  BY DEF Written, Take
<1>4. cnfg' = [cnfg EXCEPT ![clock] = v] BY DEF Written
<1> QED BY <1>2, <1>3, <1>4 DEF TodTypeOK

LEMMA PartlyTypes ==
  ASSUME TodTypeOK, NEW v \in Int, PartlyWritten(v)
  PROVE  /\ offset' \in [Clocks -> Int] /\ trigger' \in [Clocks -> {"none", "msb", "pps"}]
         /\ cnfg' \in [Clocks -> Int]
<1>1. CASE Written(v) BY <1>1, WrittenTypes
<1>2. CASE cnfg' \in {cnfg, [cnfg EXCEPT ![clock] = Torn]} /\ UNCHANGED <<offset, trigger>>
  <2>1. Torn \in Int /\ cnfg \in [Clocks -> Int] BY SabreTimeAssumption DEF TodTypeOK
  <2>2. [cnfg EXCEPT ![clock] = Torn] \in [Clocks -> Int] BY <2>1
  <2> QED BY <1>2, <2>1, <2>2 DEF TodTypeOK
<1> QED BY <1>1, <1>2 DEF PartlyWritten

LEMMA CrossesTypes == TodTypeOK /\ Crosses => crossed' \in [Clocks -> BOOLEAN]
<1> SUFFICES ASSUME TodTypeOK, Crosses PROVE crossed' \in [Clocks -> BOOLEAN] OBVIOUS
<1>1. crossed' = [crossed EXCEPT ![clock] = @ \/ offset[clock] # intended[clock]] BY DEF Crosses
<1>2. (crossed[clock] \/ offset[clock] # intended[clock]) \in BOOLEAN OBVIOUS
<1>3. crossed \in [Clocks -> BOOLEAN] BY DEF TodTypeOK
<1> QED BY <1>1, <1>2, <1>3

LEMMA TodTypesStep == ASSUME TodTypeOK, TodNext PROVE TodTypeOK'
PROOF
<1> USE SabreTimeAssumption, FailTypes DEF TodTypeOK, driverVars, deviceVars, historyVars
<1>a. op.clock \in Clocks /\ op.arg \in Int BY OpTypes
<1>1. ASSUME NEW c \in Clocks, idt82p33_enable_tod(c) PROVE TodTypeOK'
  <2>1. [kind |-> "enable", clock |-> c, arg |-> 0] \in Ops BY DEF Ops
  <2> HIDE DEF TodTypeOK
  <2>2. crossed' \in [Clocks -> BOOLEAN] /\ workDue' \in [Clocks -> Nat \cup {Never}] /\ ops' \in 0 .. MaxOps
    BY <1>1 DEF idt82p33_enable_tod, TodTypeOK
  <2> QED BY <1>1, <2>1, <2>2, RecordTypes DEF idt82p33_enable_tod
<1>2. ASSUME NEW c \in Clocks, idt82p33_adjtime_workaround(c) PROVE TodTypeOK'
  <2>1. [kind |-> "workaround", clock |-> c, arg |-> 0] \in Ops BY DEF Ops
  <2> HIDE DEF TodTypeOK
  <2>2. crossed' \in [Clocks -> BOOLEAN] /\ workDue' \in [Clocks -> Nat \cup {Never}] /\ ops' \in 0 .. MaxOps
    BY <1>2 DEF idt82p33_adjtime_workaround, TodTypeOK
  <2> QED BY <1>2, <2>1, <2>2, RecordTypes DEF idt82p33_adjtime_workaround
<1>3. ASSUME NEW o \in TodRequests, Begin(o) PROVE TodTypeOK'
  <2>1. o \in Ops BY DEF Ops
  <2> HIDE DEF TodTypeOK
  <2>3. crossed' \in [Clocks -> BOOLEAN] /\ workDue' \in [Clocks -> Nat \cup {Never}] /\ ops' \in 0 .. MaxOps
    <3>1. ops' = ops + 1 /\ ops < MaxOps /\ ops \in 0 .. MaxOps BY <1>3 DEF Begin, TodTypeOK
    <3>2. crossed' \in [Clocks -> BOOLEAN] BY <1>3 DEF Begin, TodTypeOK
    <3>3. workDue' \in [Clocks -> Nat \cup {Never}] BY <1>3 DEF Begin, TodTypeOK
    <3> QED BY <3>1, <3>2, <3>3
  <2>4. stage' \in {"arm_msb", "read"} BY <1>3 DEF Begin
  <2> QED BY <1>3, <2>1, <2>3, <2>4, RecordTypes DEF Begin
<1>4. CASE Complete
  <2>1. Crossed \in BOOLEAN
    <3>1. crossed[clock] \in BOOLEAN /\ spoilt \in BOOLEAN /\ failed \in BOOLEAN BY <1>a DEF clock
    <3>2. (IF Sets THEN spoilt ELSE crossed[clock]) \in BOOLEAN BY <3>1
    <3>3. (failed \/ (IF Sets THEN spoilt ELSE crossed[clock])) \in BOOLEAN OBVIOUS
    <3> QED BY <3>1, <3>3 DEF Crossed
  <2>2. Intended \in Int
    <3>1. offset[clock] \in Int /\ intended[clock] \in Int BY <1>a DEF clock
    <3> QED BY <1>a, <3>1 DEF Intended
  <2>3. spoilt' \in BOOLEAN
    <3>1. spoilt' = IF failed THEN spoilt \/ op.kind = "adjtime" ELSE spoilt /\ ~Sets
      BY <1>4 DEF Complete
    <3>2. (spoilt \/ op.kind = "adjtime") \in BOOLEAN /\ (spoilt /\ ~Sets) \in BOOLEAN OBVIOUS
    <3> QED BY <3>1, <3>2
  <2>4. /\ intended' = [intended EXCEPT ![clock] = Intended]
        /\ crossed' = [crossed EXCEPT ![clock] = Crossed]
    BY <1>4 DEF Complete
  <2>5. intended' \in [Clocks -> Int] /\ crossed' \in [Clocks -> BOOLEAN]
    BY <2>1, <2>2, <2>4
  <2>6. /\ stage' = "idle" /\ began' = 0 /\ ts' = 0 /\ readAt' = 0
        /\ UNCHANGED <<op, failed, overhead, start, workDue, enabled, now, deviceVars, ops, failures>>
    BY <1>4 DEF Complete
  <2> QED BY <2>3, <2>5, <2>6
<1>5. CASE ArmMsb BY <1>5 DEF ArmMsb, At, In, Goto
<1>6. CASE ArmMsbFails BY <1>6 DEF ArmMsbFails, At, In
<1>7. CASE Write
  <2>1. ts + Elapsed \in Int BY DEF Elapsed
  <2>2. stage' \in {"done", "measure", "sync"} /\ UNCHANGED <<failed, failures>>
    BY <1>7 DEF Write, Goto
  <2>3. offset' \in [Clocks -> Int] /\ trigger' \in [Clocks -> {"none", "msb", "pps"}]
    BY <1>7, <2>1, WrittenTypes DEF Write
  <2>4. cnfg' \in [Clocks -> Int] /\ owing' \in [Clocks -> BOOLEAN] /\ overhead' = FALSE
    BY <1>7, <2>1, WrittenTypes DEF Write
  <2>5. UNCHANGED <<op, now, historyVars, ops, ts, start, readAt, workDue, enabled>>
    BY <1>7 DEF Write, At, In
  <2> QED BY <2>2, <2>3, <2>4, <2>5
<1>8. CASE WriteFails
  <2>0. ts + Elapsed \in Int BY DEF Elapsed
  <2>1. offset' \in [Clocks -> Int] /\ trigger' \in [Clocks -> {"none", "msb", "pps"}] /\ cnfg' \in [Clocks -> Int]
    BY <1>8, <2>0, PartlyTypes DEF WriteFails
  <2>2. /\ failures' \in 0 .. MaxFailures /\ stage' = "done" /\ failed' \in BOOLEAN /\ overhead' = FALSE
        /\ UNCHANGED <<op, now, historyVars, ops, ts, start, readAt, workDue, enabled, owing>>
    BY <1>8 DEF WriteFails, At, In
  <2> QED BY <2>1, <2>2
<1>9. CASE Measure
  <2>1. enabled' \in [Clocks -> {"no", "measured", "yes"}] BY <1>9 DEF Measure
  <2>2. trigger' \in [Clocks -> {"none", "msb", "pps"}] /\ cnfg' \in [Clocks -> Int]
    BY <1>9 DEF Measure
  <2>3. /\ stage' = "arm_msb"
        /\ UNCHANGED <<op, now, historyVars, ops, failed, failures, ts, overhead, start, readAt, workDue, offset, owing>>
    BY <1>9 DEF Measure, At, In, Goto
  <2> QED BY <2>1, <2>2, <2>3
<1>10. CASE MeasureFails BY <1>10 DEF MeasureFails, At, In
<1>11. CASE Sync BY <1>11 DEF Sync, At, In, Goto
<1>12. CASE SyncFails BY <1>12 DEF SyncFails, At, In
<1>13. CASE Gettime BY <1>13 DEF Gettime, At, In, Goto, StartTime
<1>14. CASE GettimeFails BY <1>14 DEF GettimeFails, At, In, StartTime
<1>15. CASE ReadTime
  <2>1. NextSecond(TooClose) + op.arg \in Int
    BY <1>a, DivMod, ValueType, SecondIsPositive DEF NextSecond, clock
  <2>2. crossed' \in [Clocks -> BOOLEAN] BY <1>15, CrossesTypes DEF ReadTime
  <2> QED BY <1>15, <2>1, <2>2 DEF ReadTime, In, Goto, StartTime
<1>16. CASE DelayOver BY <1>16 DEF DelayOver, At, In, Goto
<1>17. CASE WriteCnfg
  <2>1. workDue' \in [Clocks -> Nat \cup {Never}]
    <3>1. workDue' = workDue \/ workDue' = [workDue EXCEPT ![clock] = now + Second]
      BY <1>17 DEF WriteCnfg, Schedule
    <3>2. now + Second \in Nat \cup {Never} OBVIOUS
    <3> QED BY <3>1, <3>2
  <2>2. offset' \in [Clocks -> Int] /\ trigger' \in [Clocks -> {"none", "msb", "pps"}] /\ cnfg' \in [Clocks -> Int]
    BY <1>17, WrittenTypes DEF WriteCnfg
  <2>4. stage' = "arm_pps" /\ UNCHANGED <<op, now, historyVars, ops, failed, failures, ts, overhead, start, readAt, enabled, owing>>
    BY <1>17 DEF WriteCnfg, At, In, Goto
  <2> QED BY <2>1, <2>2, <2>4
<1>18. CASE ArmPps BY <1>18 DEF ArmPps, At, In, Goto
<1>19. CASE TriggeredFails
  <2>1. /\ offset' \in [Clocks -> Int] /\ trigger' \in [Clocks -> {"none", "msb", "pps"}]
        /\ cnfg' \in [Clocks -> Int] /\ start' \in 0 .. MaxNow
    <3>1. CASE At("read") BY <1>19, <3>1 DEF TriggeredFails, StartTime, At, In
    <3>2. CASE At("cnfg")
      <4>1. PartlyWritten(ts) /\ UNCHANGED start BY <1>19, <3>2 DEF TriggeredFails, At, In
      <4> QED BY <4>1, PartlyTypes
    <3>3. CASE At("arm_pps")
      <4>1. UNCHANGED <<start, cnfg, offset>> /\ trigger' \in {trigger, [trigger EXCEPT ![clock] = "pps"]}
        BY <1>19, <3>3 DEF TriggeredFails, At, In
      <4> QED BY <4>1
    <3> QED BY <1>19, <3>1, <3>2, <3>3 DEF TriggeredFails
  <2>2. /\ stage' \in {"read_now", "done"} /\ failures' \in 0 .. MaxFailures
        /\ failed' \in BOOLEAN /\ overhead' \in BOOLEAN
    <3>1. CASE FallsBack BY <1>19, <3>1 DEF TriggeredFails
    <3>2. CASE ~FallsBack BY <1>19, <3>2 DEF TriggeredFails
    <3> QED BY <3>1, <3>2
  <2>3. UNCHANGED <<op, now, historyVars, ops, ts, readAt, workDue, enabled, owing>>
    BY <1>19 DEF TriggeredFails, At, In
  <2> QED BY <2>1, <2>2, <2>3
<1>20. CASE ReadNow
  <2>1. Value(clock) + op.arg \in Int BY <1>a, ValueType DEF clock
  <2>2. crossed' \in [Clocks -> BOOLEAN] BY <1>20, CrossesTypes DEF ReadNow
  <2> QED BY <1>20, <2>1, <2>2 DEF ReadNow, In, Goto, StartTime
<1>21. CASE ReadNowFails BY <1>21 DEF ReadNowFails, At, In, StartTime
<1>22. CASE Tick
  <2>1. now' \in 0 .. MaxNow BY <1>22 DEF Tick
  <2>2. offset' \in [Clocks -> Int] /\ trigger' \in [Clocks -> {"none", "msb", "pps"}] /\ owing' \in [Clocks -> BOOLEAN]
    <3>1. \A c \in Clocks :
            /\ (IF FullSecond(c) THEN cnfg[c] - now' ELSE offset[c]) \in Int
            /\ (IF FullSecond(c) THEN "none" ELSE trigger[c]) \in {"none", "msb", "pps"}
            /\ (IF FullSecond(c) THEN cnfg[c] % Second # 0 ELSE owing[c]) \in BOOLEAN
      <4> HIDE DEF FullSecond
      <4> TAKE c \in Clocks
      <4>1. cnfg[c] - now' \in Int /\ offset[c] \in Int BY <2>1
      <4>2. trigger[c] \in {"none", "msb", "pps"} OBVIOUS
      <4>3. owing[c] \in BOOLEAN /\ (cnfg[c] % Second # 0) \in BOOLEAN OBVIOUS
      <4> QED BY <4>1, <4>2, <4>3
    <3>2. /\ offset' = [c \in Clocks |-> IF FullSecond(c) THEN cnfg[c] - now' ELSE offset[c]]
          /\ trigger' = [c \in Clocks |-> IF FullSecond(c) THEN "none" ELSE trigger[c]]
          /\ owing' = [c \in Clocks |-> IF FullSecond(c) THEN cnfg[c] % Second # 0 ELSE owing[c]]
      BY <1>22 DEF Tick
    <3> HIDE DEF FullSecond
    <3> QED BY <3>1, <3>2
  <2> QED BY <1>22, <2>1, <2>2 DEF Tick
<1> QED
  BY TodNext, <1>1, <1>2, <1>3, <1>4, <1>5, <1>6, <1>7, <1>8, <1>9, <1>10, <1>11, <1>12, <1>13,
     <1>14, <1>15, <1>16, <1>17, <1>18, <1>19, <1>20, <1>21, <1>22
     DEF TodNext, SettimeStep
-----------------------------------------------------------------------------
(* Where an operation is, how long it has been, and the flag. *)

LEMMA StageStep == ASSUME TodTypeOK, TodInv, TodNext PROVE StageInv'
PROOF
<1> USE DEF TodInv, StageInv, Sets, clock, driverVars, deviceVars, historyVars
<1>1. ASSUME NEW c \in Clocks, idt82p33_enable_tod(c) PROVE StageInv'
  BY <1>1 DEF idt82p33_enable_tod, Record
<1>2. ASSUME NEW c \in Clocks, idt82p33_adjtime_workaround(c) PROVE StageInv'
  BY <1>2 DEF idt82p33_adjtime_workaround, Record
<1>3. ASSUME NEW o \in TodRequests, Begin(o) PROVE StageInv'
  BY <1>3 DEF Begin, Record, TodRequests
<1>4. CASE Complete BY <1>4 DEF Complete
<1>5. CASE ArmMsb
  BY <1>5, OpTypes DEF ArmMsb, At, In, Goto, TodTypeOK
<1>6. CASE ArmMsbFails BY <1>6 DEF ArmMsbFails, At, In, Fail
<1>7. CASE Write BY <1>7 DEF Write, At, In, Goto, Written, Take, Elapsed
<1>8. CASE WriteFails BY <1>8 DEF WriteFails, At, In, Fail
<1>9. CASE Measure BY <1>9 DEF Measure, At, In, Goto
<1>10. CASE MeasureFails BY <1>10 DEF MeasureFails, At, In, Fail
<1>11. CASE Sync BY <1>11 DEF Sync, At, In, Goto
<1>12. CASE SyncFails BY <1>12 DEF SyncFails, At, In, Fail
<1>13. CASE Gettime BY <1>13 DEF Gettime, At, In, Goto, StartTime
<1>14. CASE GettimeFails BY <1>14 DEF GettimeFails, At, In, Fail, StartTime
<1>15. CASE ReadTime
  <2>1. /\ stage = "read" /\ stage' \in {"delay", "cnfg"} /\ op.kind # "gettime"
        /\ UNCHANGED <<op, failed>>
    BY <1>15 DEF ReadTime, At, In, Goto
  <2>2. op.kind \in {"adjtime", "workaround"}
    BY <2>1, OpTypes DEF TodTypeOK
  <2> QED BY <2>1, <2>2
<1>16. CASE DelayOver BY <1>16 DEF DelayOver, At, In, Goto
<1>17. CASE WriteCnfg BY <1>17 DEF WriteCnfg, At, In, Goto, Written, Take
<1>18. CASE ArmPps BY <1>18 DEF ArmPps, At, In, Goto
<1>19. CASE TriggeredFails BY <1>19 DEF TriggeredFails, At, In, Fail, FallsBack
<1>20. CASE ReadNow BY <1>20 DEF ReadNow, At, In, Goto, StartTime
<1>21. CASE ReadNowFails BY <1>21 DEF ReadNowFails, At, In, Fail, StartTime
<1>22. CASE Tick
  <2>1. stage # "write" BY <1>22 DEF Tick, InTime
  <2> QED BY <1>22, <2>1 DEF Tick
<1> QED
  BY TodNext, <1>1, <1>2, <1>3, <1>4, <1>5, <1>6, <1>7, <1>8, <1>9, <1>10, <1>11, <1>12,
     <1>13, <1>14, <1>15, <1>16, <1>17, <1>18, <1>19, <1>20, <1>21, <1>22
     DEF TodNext, SettimeStep

LEMMA PaceStep == ASSUME TodTypeOK, TodInv, TodNext PROVE PaceInv'
PROOF
<1> USE SabreTimeAssumption DEF TodTypeOK, driverVars, deviceVars, historyVars, TodInv, PaceInv
<1>1. ASSUME NEW c \in Clocks, idt82p33_enable_tod(c) PROVE PaceInv'
  BY <1>1 DEF idt82p33_enable_tod, Record
<1>2. ASSUME NEW c \in Clocks, idt82p33_adjtime_workaround(c) PROVE PaceInv'
  BY <1>2 DEF idt82p33_adjtime_workaround, Record
<1>3. ASSUME NEW o \in TodRequests, Begin(o) PROVE PaceInv'
  BY <1>3 DEF Begin, Record
<1>4. CASE Complete BY <1>4 DEF Complete
<1>5. CASE ArmMsb BY <1>5 DEF ArmMsb, At, In, Goto
<1>6. CASE ArmMsbFails BY <1>6 DEF ArmMsbFails, At, In, Fail
<1>7. CASE Write BY <1>7 DEF Write, At, In, Goto, Written, Take, Elapsed
<1>8. CASE WriteFails BY <1>8 DEF WriteFails, At, In, Fail
<1>9. CASE Measure BY <1>9 DEF Measure, At, In, Goto
<1>10. CASE MeasureFails BY <1>10 DEF MeasureFails, At, In, Fail
<1>11. CASE Sync BY <1>11 DEF Sync, At, In, Goto
<1>12. CASE SyncFails BY <1>12 DEF SyncFails, At, In, Fail
<1>13. CASE Gettime BY <1>13 DEF Gettime, At, In, Goto, StartTime
<1>14. CASE GettimeFails
  <2>1. stage' = "done" /\ UNCHANGED <<began, readAt, now>> BY <1>14 DEF GettimeFails, At, In, Fail
  <2> QED BY <2>1
<1>15. CASE ReadTime BY <1>15 DEF ReadTime, At, In, Goto, StartTime
<1>16. CASE DelayOver BY <1>16 DEF DelayOver, At, In, Goto
<1>17. CASE WriteCnfg BY <1>17 DEF WriteCnfg, At, In, Goto, Written, Take
<1>18. CASE ArmPps BY <1>18 DEF ArmPps, At, In, Goto
<1>19. CASE TriggeredFails BY <1>19 DEF TriggeredFails, At, In, Fail, FallsBack
<1>20. CASE ReadNow BY <1>20 DEF ReadNow, At, In, Goto, StartTime
<1>21. CASE ReadNowFails
  <2>1. stage' = "done" /\ UNCHANGED <<began, readAt, now>> BY <1>21 DEF ReadNowFails, At, In, Fail
  <2> QED BY <2>1
<1>22. CASE Tick
  <2>1. now' = now + 1 /\ UNCHANGED <<stage, began, readAt>> BY <1>22 DEF Tick
  <2>2. stage \in {"delay", "cnfg", "arm_pps"} => now - readAt < Guard BY <1>22 DEF Tick, InTime
  <2>3. now \in Int /\ began \in Int /\ readAt \in Int BY SabreTimeAssumption
  <2> HIDE DEF TodTypeOK
  <2> QED BY <2>1, <2>2, <2>3, SabreTimeAssumption
<1> QED
  BY TodNext, <1>1, <1>2, <1>3, <1>4, <1>5, <1>6, <1>7, <1>8, <1>9, <1>10, <1>11, <1>12,
     <1>13, <1>14, <1>15, <1>16, <1>17, <1>18, <1>19, <1>20, <1>21, <1>22
     DEF TodNext, SettimeStep

LEMMA FlagStep == ASSUME TodTypeOK, TodInv, TodNext PROVE FlagInv'
PROOF
<1> USE DEF driverVars, deviceVars, historyVars, TodInv, StageInv, FlagInv, Sets
<1>1. ASSUME NEW c \in Clocks, idt82p33_enable_tod(c) PROVE FlagInv'
  BY <1>1 DEF idt82p33_enable_tod, Record
<1>2. ASSUME NEW c \in Clocks, idt82p33_adjtime_workaround(c) PROVE FlagInv'
  BY <1>2 DEF idt82p33_adjtime_workaround, Record
<1>3. ASSUME NEW o \in TodRequests, Begin(o) PROVE FlagInv'
  BY <1>3 DEF Begin, Record
<1>4. CASE Complete BY <1>4 DEF Complete
<1>5. CASE ArmMsb BY <1>5 DEF ArmMsb, At, In, Goto
<1>6. CASE ArmMsbFails BY <1>6 DEF ArmMsbFails, At, In, Fail
<1>7. CASE Write BY <1>7 DEF Write, At, In, Goto, Written, Take, Elapsed
<1>8. CASE WriteFails BY <1>8 DEF WriteFails, At, In, Fail
<1>9. CASE Measure BY <1>9 DEF Measure, At, In, Goto
<1>10. CASE MeasureFails BY <1>10 DEF MeasureFails, At, In, Fail
<1>11. CASE Sync BY <1>11 DEF Sync, At, In, Goto
<1>12. CASE SyncFails BY <1>12 DEF SyncFails, At, In, Fail
<1>13. CASE Gettime BY <1>13 DEF Gettime, At, In, Goto, StartTime
<1>14. CASE GettimeFails BY <1>14 DEF GettimeFails, At, In, Fail, StartTime
<1>15. CASE ReadTime BY <1>15 DEF ReadTime, At, In, Goto, StartTime
<1>16. CASE DelayOver BY <1>16 DEF DelayOver, At, In, Goto
<1>17. CASE WriteCnfg BY <1>17 DEF WriteCnfg, At, In, Goto, Written, Take
<1>18. CASE ArmPps BY <1>18 DEF ArmPps, At, In, Goto
<1>19. CASE TriggeredFails BY <1>19 DEF TriggeredFails, At, In, Fail, FallsBack
<1>20. CASE ReadNow BY <1>20 DEF ReadNow, At, In, Goto, StartTime
<1>21. CASE ReadNowFails BY <1>21 DEF ReadNowFails, At, In, Fail, StartTime
<1>22. CASE Tick BY <1>22 DEF Tick
<1> QED
  BY TodNext, <1>1, <1>2, <1>3, <1>4, <1>5, <1>6, <1>7, <1>8, <1>9, <1>10, <1>11, <1>12,
     <1>13, <1>14, <1>15, <1>16, <1>17, <1>18, <1>19, <1>20, <1>21, <1>22
     DEF TodNext, SettimeStep

(* A time that was set. *)

LEMMA ClockIn == TodTypeOK => op.clock \in Clocks /\ clock = op.clock /\ op.arg \in Int
BY OpTypes DEF TodTypeOK, clock

LEMMA CorrectionTypes ==
  ASSUME TodTypeOK
  PROVE  /\ op.clock \in Clocks /\ clock = op.clock
         /\ now \in Int /\ readAt \in Int /\ start \in Int /\ ts \in Int /\ op.arg \in Int
         /\ offset[op.clock] \in Int /\ intended[op.clock] \in Int /\ cnfg[op.clock] \in Int
         /\ Second \in Int /\ Guard \in Int
BY ClockIn, SabreTimeAssumption DEF TodTypeOK

LEMMA SetStep == ASSUME TodTypeOK, TodInv, TodNext PROVE SetInv'
PROOF
<1> USE DEF TodInv, StageInv, FlagInv, SetInv, Sets, clock, driverVars, deviceVars, historyVars
<1>1. ASSUME NEW c \in Clocks, idt82p33_enable_tod(c) PROVE SetInv'
  BY <1>1 DEF idt82p33_enable_tod, Record
<1>2. ASSUME NEW c \in Clocks, idt82p33_adjtime_workaround(c) PROVE SetInv'
  BY <1>2 DEF idt82p33_adjtime_workaround, Record
<1>3. ASSUME NEW o \in TodRequests, Begin(o) PROVE SetInv'
  BY <1>3 DEF Begin, Record
<1>4. CASE Complete BY <1>4 DEF Complete
<1>5. CASE ArmMsb BY <1>5 DEF ArmMsb, At, In, Goto
<1>6. CASE ArmMsbFails BY <1>6 DEF ArmMsbFails, At, In, Fail
<1>7. CASE Write
  <2>0. op.clock \in Clocks /\ clock = op.clock /\ op.arg \in Int BY ClockIn
  <2> SUFFICES ASSUME Sets PROVE SetInv' BY <1>7 DEF Write, At, In, Goto
  <2>1. trigger[clock] = "msb" /\ ts = op.arg /\ ~failed BY <1>7 DEF Write, At, In
  <2>2. offset' = [offset EXCEPT ![clock] = (ts + Elapsed) - now] /\ trigger' = [trigger EXCEPT ![clock] = "none"]
        /\ owing' = [owing EXCEPT ![clock] = FALSE]
    BY <1>7, <2>1 DEF Write, Written, Take
  <2>3. trigger'[op.clock] = "none" /\ owing'[op.clock] = FALSE /\ offset'[op.clock] = (ts + Elapsed) - now
    BY <2>0, <2>2 DEF TodTypeOK
  <2>4. UNCHANGED <<op, now, began, spoilt>> BY <1>7 DEF Write, At, In
  <2>5. now \in Int /\ began \in Int /\ began <= now BY SabreTimeAssumption DEF TodTypeOK, PaceInv
  <2>6. ~spoilt => Elapsed = 0 BY DEF Elapsed
  <2>7. ~spoilt => op.arg - offset'[op.clock] = now
    <3>1. op.arg - ((op.arg + 0) - now) = now BY <2>0, <2>5
    <3> QED BY <2>1, <2>3, <2>6, <3>1
  <2>8. now \in began .. now BY <2>5
  <2> HIDE DEF TodInv, StageInv, FlagInv
  <2> QED BY <2>3, <2>4, <2>7, <2>8
<1>8. CASE WriteFails BY <1>8 DEF WriteFails, At, In, Fail
<1>9. CASE Measure BY <1>9 DEF Measure, At, In, Goto
<1>10. CASE MeasureFails BY <1>10 DEF MeasureFails, At, In, Fail
<1>11. CASE Sync BY <1>11 DEF Sync, At, In, Goto
<1>12. CASE SyncFails BY <1>12 DEF SyncFails, At, In, Fail
<1>13. CASE Gettime BY <1>13 DEF Gettime, At, In, Goto, StartTime
<1>14. CASE GettimeFails BY <1>14 DEF GettimeFails, At, In, Fail, StartTime
<1>15. CASE ReadTime BY <1>15 DEF ReadTime, At, In, Goto, StartTime
<1>16. CASE DelayOver BY <1>16 DEF DelayOver, At, In, Goto
<1>17. CASE WriteCnfg BY <1>17 DEF WriteCnfg, At, In, Goto, Written, Take
<1>18. CASE ArmPps BY <1>18 DEF ArmPps, At, In, Goto
<1>19. CASE TriggeredFails BY <1>19 DEF TriggeredFails, At, In, Fail, FallsBack
<1>20. CASE ReadNow BY <1>20 DEF ReadNow, At, In, Goto, StartTime
<1>21. CASE ReadNowFails BY <1>21 DEF ReadNowFails, At, In, Fail, StartTime
<1>22. CASE Tick
  <2>1. now' = now + 1 /\ UNCHANGED <<stage, op, failed, began, spoilt>> BY <1>22 DEF Tick
  <2> SUFFICES ASSUME Sets, ~failed, stage \in {"sync", "done"}, trigger[clock] = "none"
               PROVE  SetInv'
    BY <2>1
  <2>2. op.clock \in Clocks BY ClockIn
  <2>3. trigger'[op.clock] = "none" /\ offset'[op.clock] = offset[op.clock] /\ owing'[op.clock] = owing[op.clock]
    BY <1>22, <2>2 DEF Tick, FullSecond
  <2>4. now \in Int /\ began \in Int BY SabreTimeAssumption DEF TodTypeOK
  <2>5. \A v : v \in began .. now => v \in began .. now + 1 BY <2>4
  <2> HIDE DEF StageInv, FlagInv
  <2> QED BY <2>1, <2>3, <2>5
<1> QED
  BY TodNext, <1>1, <1>2, <1>3, <1>4, <1>5, <1>6, <1>7, <1>8, <1>9, <1>10, <1>11, <1>12,
     <1>13, <1>14, <1>15, <1>16, <1>17, <1>18, <1>19, <1>20, <1>21, <1>22
     DEF TodNext, SettimeStep

-----------------------------------------------------------------------------
(* A clock that no correction is under way for. *)

LEMMA SteadyKept ==
  ASSUME NEW c \in Clocks, SteadyInv(c),
         UNCHANGED <<trigger[c], offset[c], cnfg[c], workDue[c], owing[c], now>>,
         Promised(c)' = Promised(c), failures' = 0 => failures = 0,
         Aligning(c) => Aligning(c)'
  PROVE  SteadyInv(c)'
BY DEF SteadyInv, FullAfter, After

(* Full seconds are reached one tick at a time, and none is missed. *)
LEMMA SteadyTick ==
  ASSUME TodTypeOK, TodTypeOK', NEW c \in Clocks, SteadyInv(c), Tick
  PROVE  SteadyInv(c)'
<1>1. UNCHANGED <<stage, op, cnfg, workDue, intended, failures>> /\ now' = now + 1
  BY DEF Tick, driverVars, historyVars
<1>2. /\ offset'[c] = IF FullSecond(c) THEN cnfg[c] - now' ELSE offset[c]
      /\ trigger'[c] = IF FullSecond(c) THEN "none" ELSE trigger[c]
      /\ owing'[c] = IF FullSecond(c) THEN cnfg[c] % Second # 0 ELSE owing[c]
  BY DEF Tick
<1>3. Promised(c)' = Promised(c) /\ Aligning(c)' = Aligning(c)
  BY <1>1 DEF Promised, Aligning, Own, clock
<1>4. CASE trigger[c] = "none"
  <2>1. ~FullSecond(c) BY <1>4 DEF FullSecond
  <2> QED BY <1>1, <1>2, <1>3, <1>4, <2>1 DEF SteadyInv
<1>5. CASE trigger[c] = "pps"
  <2> DEFINE v == now + offset[c]
             n == FullAfter(now, c)
  <2>1. /\ now \in Int /\ offset[c] \in Int /\ cnfg[c] \in Int /\ intended[c] \in Int /\ op.arg \in Int
        /\ v \in Int
    BY ClockIn DEF TodTypeOK
  <2>2. Promised(c) \in Int BY <2>1 DEF Promised
  <2>3. n = After(v) /\ n \in Int BY <2>1, AfterBounds DEF FullAfter
  <2>4. FullSecond(c) <=> (v + 1) % Second = 0
    <3>1. now + 1 + offset[c] = v + 1 BY <2>1
    <3> HIDE DEF v
    <3> QED BY <1>5, <3>1 DEF FullSecond
  <2>5. cnfg[c] + offset[c] = n + Promised(c) BY <1>5 DEF SteadyInv
  <2>6. CASE FullSecond(c)
    <3>1. n = v + 1 BY <2>1, <2>3, <2>4, <2>6, AfterNext
    <3>2. offset'[c] = cnfg[c] - (now + 1) /\ trigger'[c] = "none" BY <1>1, <1>2, <2>6
    <3>3. offset'[c] = Promised(c) BY <2>1, <2>2, <2>5, <3>1, <3>2
    <3>4. failures = 0 /\ workDue[c] = Never /\ ~Aligning(c) => ~owing'[c]
      BY <1>2, <1>5, <2>6 DEF SteadyInv
    <3> QED BY <1>1, <1>3, <3>2, <3>3, <3>4 DEF SteadyInv
  <2>7. CASE ~FullSecond(c)
    <3>1. offset'[c] = offset[c] /\ trigger'[c] = trigger[c] /\ owing'[c] = owing[c]
      BY <1>2, <2>7
    <3>2. After(v + 1) = After(v) BY <2>1, <2>4, <2>7, AfterNext
    <3>3. FullAfter(now, c)' = FullAfter(now, c)
      <4>1. now' + offset'[c] = v + 1 BY <1>1, <2>1, <3>1
      <4> QED BY <2>3, <3>2, <4>1 DEF FullAfter, After
    <3> QED BY <1>1, <1>3, <1>5, <3>1, <3>3 DEF SteadyInv
  <2> QED BY <2>6, <2>7
<1> QED BY <1>4, <1>5 DEF SteadyInv

(* In the delay an alignment may take effect, which does not move the      *)
(* clock; between the delay and the trigger no full second comes.          *)
LEMMA CorrectingTick ==
  ASSUME TodTypeOK, TodTypeOK', TodInv, NEW c \in Clocks, Correcting(c), CorrectingInv(c), Tick
  PROVE  CorrectingInv(c)'
<1> DEFINE v == readAt + offset[c]
           w == now + offset[c]
<1>1. /\ UNCHANGED <<stage, op, ts, start, overhead, readAt, cnfg, workDue, intended>>
      /\ now' = now + 1 /\ InTime
  BY DEF Tick, driverVars, historyVars
<1>2. /\ offset'[c] = IF FullSecond(c) THEN cnfg[c] - now' ELSE offset[c]
      /\ trigger'[c] = IF FullSecond(c) THEN "none" ELSE trigger[c]
  BY DEF Tick
<1>3. /\ now \in Int /\ readAt \in Int /\ offset[c] \in Int /\ cnfg[c] \in Int
      /\ v \in Int /\ w \in Int /\ now + 1 + offset[c] = w + 1
  BY CorrectionTypes DEF TodTypeOK
<1>4. stage # "write" BY <1>1 DEF InTime
<1>5. CASE stage = "delay"
  <2>1. After(w) \in Int /\ FullAfter(now, c) = After(w) BY <1>3, AfterBounds DEF FullAfter
  <2>2. trigger[c] \in {"none", "pps"} /\ (trigger[c] = "pps" => cnfg[c] = After(w))
    BY <1>5, <2>1 DEF CorrectingInv
  <2>3. CASE FullSecond(c)
    <3>1. trigger[c] = "pps" /\ (w + 1) % Second = 0 BY <1>3, <2>3 DEF FullSecond
    <3>2. After(w) = w + 1 BY <1>3, <3>1, AfterNext
    <3>3. offset'[c] = offset[c] /\ trigger'[c] = "none" BY <1>1, <1>2, <1>3, <2>2, <2>3, <3>1, <3>2
    <3> HIDE DEF v, w
    <3> QED BY <1>1, <1>5, <3>3 DEF CorrectingInv, FullAfter, After
  <2>4. CASE ~FullSecond(c)
    <3>1. offset'[c] = offset[c] /\ trigger'[c] = trigger[c] BY <1>2, <2>4
    <3>2. trigger[c] = "pps" => After(w + 1) = After(w)
      <4>1. trigger[c] = "pps" => (w + 1) % Second # 0 BY <1>3, <2>4 DEF FullSecond
      <4> HIDE DEF w
      <4> QED BY <1>3, <4>1, AfterNext
    <3>3. FullAfter(now, c)' = After(w + 1)
      <4>1. now' + offset'[c] = w + 1 BY <1>1, <1>3, <3>1
      <4> QED BY <4>1 DEF FullAfter, After
    <3>4. trigger'[c] = "pps" => cnfg'[c] = FullAfter(now, c)' BY <1>1, <2>2, <3>1, <3>2, <3>3
    <3> QED BY <1>1, <1>5, <3>1, <3>4 DEF CorrectingInv, FullAfter, After
  <2> QED BY <2>3, <2>4
<1>6. CASE stage \in {"cnfg", "arm_pps"}
  <2>1. ~FullSecond(c)
    <3>1. now - readAt < Guard BY <1>1, <1>6 DEF InTime
    <3>2. readAt <= now BY DEF TodInv, PaceInv
    <3>3. v % Second < Second - Guard BY <1>6 DEF CorrectingInv
    <3>4. v < w + 1 /\ w + 1 <= v + Guard BY <1>3, <3>1, <3>2, SecondIsPositive
    <3> HIDE DEF v, w
    <3>5. v % Second \in 0 .. Second - 1 /\ After(v) = v + (Second - (v % Second)) BY <1>3, AfterBounds
    <3>6. w + 1 < After(v) BY <1>3, <3>3, <3>4, <3>5, SecondIsPositive
    <3>7. (w + 1) % Second = (v % Second) + (w + 1 - v) BY <1>3, <3>4, <3>6, AfterSame
    <3>8. (w + 1) % Second # 0 BY <1>3, <3>4, <3>5, <3>7
    <3> QED BY <1>3, <3>8 DEF FullSecond
  <2>2. offset'[c] = offset[c] /\ trigger'[c] = trigger[c] BY <1>2, <2>1
  <2> HIDE DEF v, w
  <2> QED BY <1>1, <1>6, <2>2 DEF CorrectingInv, FullAfter, After
<1>7. CASE stage \in {"read_now", "arm_msb"}
  BY <1>1, <1>7 DEF CorrectingInv
<1>8. stage \in {"delay", "cnfg", "arm_pps", "read_now", "arm_msb"}
  <2>1. op.kind \notin {"enable", "settime"} BY DEF Correcting, Corrects
  <2>2. stage \notin {"measure", "sync"} BY <2>1 DEF TodInv, StageInv
  <2> QED BY <1>4, <2>2 DEF Correcting, Own, TodTypeOK
<1> QED BY <1>5, <1>6, <1>7, <1>8

LEMMA ClockTick ==
  ASSUME TodTypeOK, TodTypeOK', TodInv, NEW c \in Clocks, Tick
  PROVE  OffsetInv(c)'
<1>1. UNCHANGED <<stage, op, failed, crossed>> BY DEF Tick, historyVars
<1>2. Correcting(c)' = Correcting(c) /\ Setting(c)' = Setting(c) /\ Spoiling(c)' = Spoiling(c)
  BY <1>1 DEF Correcting, Setting, Spoiling, Own, Sets, Corrects, clock
<1> SUFFICES ASSUME ~crossed[c]
             PROVE  IF Correcting(c) THEN CorrectingInv(c)'
                    ELSE Setting(c) \/ Spoiling(c) \/ SteadyInv(c)'
  BY <1>1, <1>2 DEF OffsetInv
<1>3. CASE Correcting(c)
  <2>1. CorrectingInv(c) BY <1>3 DEF TodInv, OffsetInv
  <2> QED BY <1>3, <2>1, CorrectingTick
<1>4. CASE ~Correcting(c)
  <2>1. Setting(c) \/ Spoiling(c) \/ SteadyInv(c) BY <1>4 DEF TodInv, OffsetInv
  <2> QED BY <1>4, <2>1, SteadyTick
<1> QED BY <1>3, <1>4
-----------------------------------------------------------------------------
(* The steps of an operation. *)

OpStep ==
  \/ SettimeStep \/ Measure \/ MeasureFails \/ Sync \/ SyncFails \/ Gettime \/ GettimeFails
  \/ ReadTime \/ DelayOver \/ WriteCnfg \/ ArmPps \/ TriggeredFails \/ ReadNow \/ ReadNowFails

(* They only change their own clock, and forget no failure nor what        *)
(* crossed.                                                                *)
LEMMA OpStepFrame ==
  ASSUME TodTypeOK, OpStep
  PROVE  /\ UNCHANGED <<op, now, intended>>
         /\ failures' = 0 => failures = 0
         /\ \A c \in Clocks : crossed[c] => crossed'[c]
         /\ \A c \in Clocks \ {op.clock} :
              UNCHANGED <<trigger[c], offset[c], cnfg[c], workDue[c], owing[c], crossed[c]>>
PROOF
<1> DEFINE Frame ==
      /\ UNCHANGED <<op, now, intended>>
      /\ failures' = 0 => failures = 0
      /\ \A c \in Clocks : crossed[c] => crossed'[c]
      /\ \A c \in Clocks \ {op.clock} :
           UNCHANGED <<trigger[c], offset[c], cnfg[c], workDue[c], owing[c], crossed[c]>>
<1> SUFFICES Frame OBVIOUS
<1>a. ASSUME NEW v, Written(v) \/ PartlyWritten(v)
      PROVE  /\ offset' \in {offset, [offset EXCEPT ![clock] = v - now]}
             /\ trigger' \in {trigger, [trigger EXCEPT ![clock] = "none"]}
             /\ cnfg' \in {cnfg, [cnfg EXCEPT ![clock] = v], [cnfg EXCEPT ![clock] = Torn]}
  BY <1>a DEF Written, PartlyWritten, Take
<1>b. ASSUME NEW v, Written(v) \/ PartlyWritten(v)
      PROVE  \A c \in Clocks \ {op.clock} : UNCHANGED <<trigger[c], offset[c], cnfg[c]>>
  BY <1>a, <1>b DEF TodTypeOK, clock
<1>c. Crosses => /\ \A c \in Clocks : crossed[c] => crossed'[c]
                 /\ \A c \in Clocks \ {op.clock} : crossed'[c] = crossed[c]
  BY DEF Crosses, TodTypeOK, clock
<1> USE DEF driverVars, deviceVars, historyVars, clock, At, In, Goto, TodTypeOK
<1>0. ASSUME NEW f, f = failures + 1 PROVE f # 0
  BY <1>0, SabreTimeAssumption
<1>1. CASE ArmMsb BY <1>1 DEF ArmMsb
<1>2. CASE ArmMsbFails BY <1>0, <1>2 DEF ArmMsbFails, Fail
<1>3. CASE Write
  <2>1. /\ workDue' = workDue /\ owing' = [owing EXCEPT ![clock] = FALSE]
        /\ UNCHANGED <<op, now, intended, crossed, failures>>
    BY <1>3 DEF Write
  <2>2. \A c \in Clocks \ {op.clock} : UNCHANGED <<trigger[c], offset[c], cnfg[c]>>
    BY <1>3, <1>b DEF Write
  <2>3. \A c \in Clocks \ {op.clock} : owing'[c] = owing[c] BY <2>1
  <2> QED BY <2>1, <2>2, <2>3
<1>4. CASE WriteFails
  <2>1. UNCHANGED <<op, now, intended, crossed, workDue, owing>> /\ failures' = failures + 1
    BY <1>4 DEF WriteFails, Fail
  <2>2. \A c \in Clocks \ {op.clock} : UNCHANGED <<trigger[c], offset[c], cnfg[c]>>
    BY <1>4, <1>b DEF WriteFails
  <2> QED BY <1>0, <2>1, <2>2
<1>5. CASE Measure BY <1>5 DEF Measure
<1>6. CASE MeasureFails BY <1>0, <1>6 DEF MeasureFails, Fail
<1>7. CASE Sync BY <1>7 DEF Sync
<1>8. CASE SyncFails BY <1>0, <1>8 DEF SyncFails, Fail
<1>9. CASE Gettime BY <1>9 DEF Gettime
<1>10. CASE GettimeFails BY <1>0, <1>10 DEF GettimeFails, Fail
<1>11. CASE ReadTime BY <1>11, <1>c DEF ReadTime
<1>12. CASE DelayOver BY <1>12 DEF DelayOver
<1>13. CASE WriteCnfg
  <2>1. workDue' \in {workDue, [workDue EXCEPT ![clock] = now + Second]}
        /\ UNCHANGED <<op, now, intended, crossed, owing, failures>>
    BY <1>13 DEF WriteCnfg, Schedule
  <2>2. \A c \in Clocks \ {op.clock} : UNCHANGED <<trigger[c], offset[c], cnfg[c]>>
    BY <1>13, <1>b DEF WriteCnfg
  <2> QED BY <2>1, <2>2
<1>14. CASE ArmPps BY <1>14 DEF ArmPps
<1>15. CASE TriggeredFails
  <2>1. failures' = failures + 1 BY <1>15 DEF TriggeredFails, Fail
  <2>2. UNCHANGED <<op, now, intended, crossed, owing, workDue>>
    BY <1>15 DEF TriggeredFails
  <2>3. \/ UNCHANGED <<trigger, offset, cnfg>>
        \/ PartlyWritten(ts)
        \/ UNCHANGED <<offset, cnfg>> /\ trigger' = [trigger EXCEPT ![clock] = "pps"]
    BY <1>15 DEF TriggeredFails
  <2>4. \A c \in Clocks \ {op.clock} : UNCHANGED <<trigger[c], offset[c], cnfg[c]>>
    BY <1>b, <2>3
  <2> QED BY <1>0, <2>1, <2>2, <2>4
<1>16. CASE ReadNow BY <1>16, <1>c DEF ReadNow
<1>17. CASE ReadNowFails BY <1>0, <1>17 DEF ReadNowFails, Fail
<1> HIDE DEF Frame, TodTypeOK, At, In, Goto, clock
<1> QED
  BY OpStep, <1>1, <1>2, <1>3, <1>4, <1>5, <1>6, <1>7, <1>8, <1>9, <1>10, <1>11, <1>12, <1>13,
     <1>14, <1>15, <1>16, <1>17 DEF OpStep, SettimeStep

LEMMA ClockElsewhere ==
  ASSUME TodInv, NEW c \in Clocks, ~Own(c), ~Own(c)',
         UNCHANGED <<trigger[c], offset[c], cnfg[c], workDue[c], owing[c], now, intended[c], crossed[c]>>,
         failures' = 0 => failures = 0
  PROVE  OffsetInv(c)'
<1>1. ~crossed[c] => SteadyInv(c) BY DEF TodInv, OffsetInv, Correcting, Setting, Spoiling
<1>2. Promised(c)' = Promised(c) /\ ~Aligning(c) BY DEF Promised, Aligning
<1>3. ~crossed[c] => SteadyInv(c)' BY <1>1, <1>2, SteadyKept
<1> QED BY <1>3 DEF OffsetInv, Correcting

(* An operation that sets the time, or reads it, and its own clock.        *)
LEMMA OpStages ==
  ASSUME OpStep
  PROVE  stage \notin {"idle", "done"} /\ stage' # "idle" /\ UNCHANGED op
BY DEF OpStep, SettimeStep, ArmMsb, ArmMsbFails, Write, WriteFails, Measure, MeasureFails,
       Sync, SyncFails, Gettime, GettimeFails, ReadTime, DelayOver, WriteCnfg, ArmPps,
       TriggeredFails, ReadNow, ReadNowFails, At, In, Goto, Fail

CorrectionStep ==
  \/ SettimeStep
  \/ ReadTime \/ DelayOver \/ WriteCnfg \/ ArmPps \/ TriggeredFails \/ ReadNow \/ ReadNowFails

LEMMA KindSteps ==
  ASSUME StageInv, OpStep, ~Sets
  PROVE  IF op.kind = "gettime" THEN Gettime \/ GettimeFails ELSE CorrectionStep
BY DEF StageInv, OpStep, CorrectionStep, SettimeStep, Sets, ArmMsb, ArmMsbFails, Write, WriteFails,
       Measure, MeasureFails, Sync, SyncFails, Gettime, GettimeFails, ReadTime, DelayOver, WriteCnfg,
       ArmPps, TriggeredFails, ReadNow, ReadNowFails, At, In

(* The steps of a correction, on its own clock. *)
LEMMA OwnArmMsb ==
  ASSUME TodTypeOK, NEW c \in Clocks, c = op.clock, Corrects, CorrectingInv(c), ArmMsb
  PROVE  CorrectingInv(c)' /\ Correcting(c)'
<1>1. stage = "arm_msb" /\ stage' = "write" BY DEF ArmMsb, At, In, Goto
<1>2. UNCHANGED <<op, intended, ts, start, overhead>> BY DEF ArmMsb, At, In, Goto, driverVars
<1> QED BY <1>1, <1>2 DEF CorrectingInv, Correcting, Corrects, Own, clock

LEMMA OwnWrite ==
  ASSUME TodTypeOK, StageInv, NEW c \in Clocks, c = op.clock, op.kind = "adjtime", CorrectingInv(c), Write
  PROVE  SteadyInv(c)' /\ ~Correcting(c)'
<1> DEFINE v == (ts + Elapsed) - now
<1>1. stage = "write" /\ stage' = "done" BY DEF Write, At, In, Goto
<1>2. trigger[c] = "msb" /\ overhead /\ ts = start + intended[c] + op.arg
  BY <1>1 DEF CorrectingInv, StageInv, clock
<1>3. v = intended[c] + op.arg BY <1>2, CorrectionTypes DEF Elapsed
<1>4. offset' = [offset EXCEPT ![c] = v] /\ trigger' = [trigger EXCEPT ![c] = "none"]
      /\ owing' = [owing EXCEPT ![c] = FALSE]
  BY <1>2 DEF Write, Written, Take, clock
<1> HIDE DEF v
<1>5. offset'[c] = intended[c] + op.arg /\ trigger'[c] = "none" /\ ~owing'[c]
  BY <1>3, <1>4 DEF TodTypeOK
<1>6. UNCHANGED <<op, intended>> BY DEF Write, At, In
<1>7. Promised(c)' = intended[c] + op.arg BY <1>1, <1>6 DEF Promised, Own, clock
<1> QED BY <1>1, <1>5, <1>7 DEF SteadyInv, Correcting

(* The clock is where the operations so far have put it, or it crosses.    *)
LEMMA NotCrossed ==
  ASSUME TodTypeOK, Crosses, NEW c \in Clocks, c = op.clock, ~crossed'[c]
  PROVE  ~crossed[c] /\ offset[c] = intended[c]
<1>1. crossed'[c] = (crossed[c] \/ offset[c] # intended[c]) BY DEF Crosses, TodTypeOK, clock
<1> QED BY <1>1

LEMMA OwnReadTime ==
  ASSUME TodTypeOK, NEW c \in Clocks, c = op.clock, Corrects, ReadTime, ~crossed'[c], SteadyInv(c)
  PROVE  CorrectingInv(c)' /\ Correcting(c)'
<1> DEFINE v == now + offset[c]
<1>1. /\ stage = "read" /\ readAt' = now /\ ts' = NextSecond(TooClose) + op.arg
      /\ stage' = IF TooClose THEN "delay" ELSE "cnfg"
      /\ UNCHANGED <<op, now, intended, trigger, offset, cnfg, owing, workDue, failures>>
  BY DEF ReadTime, In, Goto, deviceVars
<1>2. v \in Int /\ Value(c) = v BY CorrectionTypes DEF Value
<1>3. /\ After(v) \in Int /\ v % Second \in 0 .. Second - 1 BY <1>2, AfterBounds
<1>4. TooClose <=> v % Second >= Second - Guard BY <1>2 DEF TooClose, clock
<1>5. NextSecond(TooClose) = IF TooClose THEN After(v) + Second ELSE After(v)
  <2>1. PICK q \in Int : q = v \div Second BY <1>2, DivMod
  <2>2. (q + 2) * Second = (q + 1) * Second + Second BY SecondIsPositive
  <2> QED BY <1>2, <2>1, <2>2 DEF NextSecond, After, clock
<1>6. FullAfter(readAt, c)' = After(v) /\ FullAfter(now, c)' = After(v)
  BY <1>1 DEF FullAfter, After
<1>7. offset[c] = intended[c] BY NotCrossed DEF ReadTime
<1>8. (readAt + offset[c])' = v BY <1>1
<1>9. trigger[c] \in {"none", "pps"} /\ (trigger[c] = "pps" => cnfg[c] = After(v))
  <2>1. Promised(c) = intended[c] + 0 BY <1>1 DEF Promised
  <2>2. trigger[c] = "pps" => cnfg[c] + offset[c] = After(v) + (intended[c] + 0)
    BY <2>1 DEF SteadyInv, FullAfter
  <2> HIDE DEF v
  <2> QED BY <1>3, <1>7, <2>2, CorrectionTypes DEF SteadyInv
<1> HIDE DEF v
<1>10. CASE TooClose
  <2>1. stage' = "delay" BY <1>1, <1>10
  <2> QED BY <1>1, <1>4, <1>5, <1>6, <1>7, <1>8, <1>9, <1>10, <2>1
          DEF CorrectingInv, Correcting, Corrects, Own, clock
<1>11. CASE ~TooClose
  <2>1. stage' = "cnfg" /\ v % Second < Second - Guard
    BY <1>1, <1>3, <1>4, <1>11, SecondIsPositive
  <2> QED BY <1>1, <1>4, <1>5, <1>6, <1>7, <1>8, <1>9, <1>11, <2>1
          DEF CorrectingInv, Correcting, Corrects, Own, clock
<1> QED BY <1>10, <1>11

LEMMA OwnDelayOver ==
  ASSUME TodTypeOK, PaceInv, NEW c \in Clocks, c = op.clock, Corrects, CorrectingInv(c), DelayOver
  PROVE  CorrectingInv(c)' /\ Correcting(c)'
<1> DEFINE v == readAt + offset[c]
<1>1. /\ stage = "delay" /\ readAt' = now /\ stage' = "cnfg" /\ now - readAt >= Guard
      /\ UNCHANGED <<op, now, intended, trigger, offset, cnfg, owing, workDue, failures, ts>>
  BY DEF DelayOver, At, In, Goto, deviceVars
<1>2. now = readAt + Guard BY <1>1, CorrectionTypes DEF PaceInv
<1>3. v \in Int /\ (readAt + offset[c])' = v + Guard BY <1>1, <1>2, CorrectionTypes
<1>4. v % Second >= Second - Guard /\ ts = After(v) + Second + op.arg
      /\ trigger[c] \in {"none", "pps"} /\ offset[c] = intended[c]
  BY <1>1 DEF CorrectingInv, FullAfter
<1>5. After(v + Guard) = After(v) + Second /\ (v + Guard) % Second < Second - Guard
  BY <1>3, <1>4, AfterDelay
<1>6. FullAfter(readAt, c)' = After(v + Guard) BY <1>3 DEF FullAfter, After
<1> HIDE DEF v
<1> QED BY <1>1, <1>3, <1>4, <1>5, <1>6 DEF CorrectingInv, Correcting, Corrects, Own, clock

LEMMA OwnWriteCnfg ==
  ASSUME TodTypeOK, PaceInv, NEW c \in Clocks, c = op.clock, Corrects, CorrectingInv(c), WriteCnfg
  PROVE  CorrectingInv(c)' /\ Correcting(c)'
<1> DEFINE v == readAt + offset[c]
<1>1. stage = "cnfg" /\ stage' = "arm_pps" BY DEF WriteCnfg, At, In, Goto
<1>2. trigger[c] \in {"none", "pps"} /\ offset[c] = intended[c] /\ v % Second < Second - Guard
  BY <1>1 DEF CorrectingInv
<1>3. UNCHANGED <<op, now, intended, trigger, offset, ts, readAt>>
  BY <1>2 DEF WriteCnfg, Written, At, In, Goto, clock
<1>4. cnfg'[c] = ts BY DEF WriteCnfg, Written, clock, TodTypeOK
<1>5. v \in Int /\ After(v) \in Int
  <2>1. v \in Int BY CorrectionTypes
  <2> QED BY <2>1, AfterBounds
<1>6. ts = After(v) + op.arg BY <1>1 DEF CorrectingInv, FullAfter
<1>7. FullAfter(readAt, c)' = After(v) BY <1>3 DEF FullAfter, After
<1>8. ts % Second = op.arg % Second
  <2>1. (After(v) + 0 + op.arg) % Second = op.arg % Second BY <1>5, AfterPlus, CorrectionTypes
  <2>2. After(v) + 0 + op.arg = ts BY <1>5, <1>6, CorrectionTypes
  <2> HIDE DEF v
  <2> QED BY <2>1, <2>2
<1>9. workDue' = IF op.arg % Second # 0 /\ workDue[c] = Never
                   THEN [workDue EXCEPT ![c] = now + Second] ELSE workDue
  BY DEF WriteCnfg, Schedule, clock
<1>10. workDue'[c] = Never => ts' % Second = 0
  <2>1. CASE op.arg % Second # 0 /\ workDue[c] = Never
    <3>1. workDue'[c] = now + Second BY <1>9, <2>1 DEF TodTypeOK
    <3> QED BY <3>1, CorrectionTypes, SabreTimeAssumption
  <2>2. CASE op.arg % Second = 0 BY <1>3, <1>8, <2>2
  <2>3. CASE op.arg % Second # 0 /\ workDue[c] # Never BY <1>9, <2>3
  <2> QED BY <2>1, <2>2, <2>3
<1>11. (readAt + offset[c])' = v BY <1>3
<1> HIDE DEF v
<1>12. Correcting(c)' BY <1>1, <1>3 DEF Correcting, Corrects, Own, clock
<1> QED BY <1>1, <1>2, <1>3, <1>4, <1>6, <1>7, <1>10, <1>11, <1>12 DEF CorrectingInv

(* The trigger is armed before the full second the time is for.            *)
LEMMA OwnArmPps ==
  ASSUME TodTypeOK, PaceInv, NEW c \in Clocks, c = op.clock, Corrects, CorrectingInv(c), ArmPps
  PROVE  SteadyInv(c)' /\ ~Correcting(c)'
<1> DEFINE v == readAt + offset[c]
           w == now + offset[c]
<1>1. stage = "arm_pps" /\ stage' = "done" /\ trigger' = [trigger EXCEPT ![c] = "pps"]
  BY DEF ArmPps, At, In, Goto, clock
<1>2. UNCHANGED <<op, now, intended, offset, cnfg, owing, workDue, failures>>
  BY DEF ArmPps, At, In, Goto, driverVars
<1>3. trigger'[c] = "pps" BY <1>1 DEF TodTypeOK
<1>4. /\ v % Second < Second - Guard
      /\ cnfg[c] = After(v) + op.arg
      /\ offset[c] = intended[c]
      /\ workDue[c] = Never => cnfg[c] % Second = 0
  BY <1>1 DEF CorrectingInv, FullAfter
<1>5. v \in Int /\ w \in Int /\ v <= w /\ w <= v + Guard BY <1>1, CorrectionTypes DEF PaceInv
<1>6. After(w) = After(v) /\ After(v) \in Int
  <2> HIDE DEF v, w
  <2>1. w < After(v) BY <1>4, <1>5, AfterBounds, SecondIsPositive
  <2> QED BY <1>5, <2>1, AfterSame, AfterBounds
<1>7. FullAfter(now, c)' = After(w) BY <1>2 DEF FullAfter, After
<1>8. Promised(c)' = intended[c] + op.arg
  <2>1. op.kind = "workaround" => op.arg = 0 BY OpTypes DEF TodTypeOK
  <2> QED BY <1>1, <1>2, <2>1, CorrectionTypes DEF Promised, Corrects, Own, clock
<1> HIDE DEF v, w
<1>9. cnfg'[c] + offset'[c] = After(w) + Promised(c)' BY <1>2, <1>4, <1>6, <1>8, CorrectionTypes
<1> QED BY <1>1, <1>2, <1>3, <1>4, <1>6, <1>7, <1>9 DEF SteadyInv, Correcting

LEMMA OwnReadNow ==
  ASSUME TodTypeOK, NEW c \in Clocks, c = op.clock, Corrects, ReadNow, ~crossed'[c], CorrectingInv(c)
  PROVE  CorrectingInv(c)' /\ Correcting(c)'
<1>1. stage = "read_now" /\ stage' = "arm_msb" /\ overhead BY DEF ReadNow, In, Goto, CorrectingInv
<1>2. UNCHANGED <<op, intended, overhead>> BY DEF ReadNow, In, Goto
<1>3. start' = now /\ ts' = now + offset[c] + op.arg
  BY <1>1 DEF ReadNow, StartTime, Value, clock
<1>4. offset[c] = intended[c] BY NotCrossed DEF ReadNow
<1> QED BY <1>1, <1>2, <1>3, <1>4 DEF CorrectingInv, Correcting, Corrects, Own, clock

(* A correction that fails, or falls back with the flag up. *)
LEMMA OwnFails ==
  ASSUME TodTypeOK, NEW c \in Clocks, c = op.clock, Corrects,
         ArmMsbFails \/ WriteFails \/ TriggeredFails \/ ReadNowFails
  PROVE  IF Correcting(c)' THEN CorrectingInv(c)' ELSE Spoiling(c)'
<1>1. UNCHANGED op BY DEF ArmMsbFails, WriteFails, TriggeredFails, ReadNowFails, At, In, Fail
<1>2. CASE stage' = "done"
  <2>1. failed' BY <1>2 DEF ArmMsbFails, WriteFails, TriggeredFails, ReadNowFails, Fail
  <2> QED BY <1>1, <1>2, <2>1 DEF Spoiling, Correcting, Corrects, Own, clock
<1>3. CASE stage' # "done"
  <2>1. stage' = "read_now" /\ overhead'
    BY <1>3 DEF ArmMsbFails, WriteFails, TriggeredFails, ReadNowFails, Fail
  <2> QED BY <1>1, <2>1 DEF CorrectingInv, Correcting, Corrects, Own, clock
<1> QED BY <1>2, <1>3

LEMMA ClockOwn ==
  ASSUME TodTypeOK, TodInv, OpStep, NEW c \in Clocks, c = op.clock
  PROVE  OffsetInv(c)'
<1>1. stage \notin {"idle", "done"} /\ stage' # "idle" /\ UNCHANGED op BY OpStages
<1>2. Own(c) /\ Own(c)' BY <1>1 DEF Own, clock
<1>3. UNCHANGED <<now, intended>> /\ (failures' = 0 => failures = 0) /\ (crossed[c] => crossed'[c])
  BY OpStepFrame
<1> SUFFICES ASSUME ~crossed'[c]
             PROVE  IF Correcting(c)' THEN CorrectingInv(c)' ELSE Setting(c)' \/ Spoiling(c)' \/ SteadyInv(c)'
  BY DEF OffsetInv
<1>4. IF Correcting(c) THEN CorrectingInv(c) ELSE Setting(c) \/ Spoiling(c) \/ SteadyInv(c)
  BY <1>3 DEF TodInv, OffsetInv
<1>5. op.kind \in {"settime", "adjtime", "gettime", "enable", "workaround"} BY OpTypes DEF TodTypeOK
<1>6. CASE Sets
  <2>1. Setting(c)' /\ ~Correcting(c)' BY <1>1, <1>2, <1>6 DEF Setting, Correcting, Corrects, Sets
  <2> QED BY <2>1
<1>7. CASE op.kind = "gettime"
  <2>1. ~Sets /\ ~Correcting(c) /\ ~Correcting(c)' /\ ~Aligning(c)
    BY <1>1, <1>7 DEF Sets, Correcting, Corrects, Aligning
  <2>2. SteadyInv(c) BY <1>4, <1>7, <2>1 DEF Setting, Spoiling, Corrects
  <2>3. Gettime \/ GettimeFails BY <1>7, <2>1, KindSteps DEF TodInv
  <2>4. UNCHANGED <<trigger, offset, cnfg, workDue, owing>>
    BY <2>3 DEF Gettime, GettimeFails, deviceVars
  <2>5. Promised(c)' = Promised(c) BY <1>1, <1>3, <1>7 DEF Promised
  <2>6. SteadyInv(c)' BY <1>3, <2>1, <2>2, <2>4, <2>5, SteadyKept
  <2> QED BY <2>1, <2>6
<1>8. CASE op.kind \in {"adjtime", "workaround"}
  <2>0. Corrects BY <1>8 DEF Corrects
  <2>1. stage # "read" => CorrectingInv(c) BY <1>1, <1>2, <1>4, <2>0 DEF Correcting
  <2>2. stage = "read" => SteadyInv(c)
    BY <1>4, <1>8 DEF Correcting, Setting, Spoiling, Sets
  <2>3. CorrectionStep /\ ~Sets BY <1>8, KindSteps DEF TodInv, Sets
  <2>4. CASE ArmMsb
    <3>1. stage # "read" BY <2>4 DEF ArmMsb, At, In
    <3> QED BY <2>0, <2>1, <2>4, <3>1, OwnArmMsb
  <2>5. CASE Write
    <3>1. stage = "write" BY <2>5 DEF Write, At, In
    <3>2. op.kind = "adjtime" BY <2>3, <3>1 DEF TodInv, StageInv
    <3> QED BY <2>1, <2>5, <3>1, <3>2, OwnWrite DEF TodInv
  <2>6. CASE ReadTime
    <3>1. stage = "read" BY <2>6 DEF ReadTime, In
    <3> QED BY <2>0, <2>2, <2>6, <3>1, OwnReadTime
  <2>7. CASE DelayOver
    <3>1. stage # "read" BY <2>7 DEF DelayOver, At, In
    <3> QED BY <2>0, <2>1, <2>7, <3>1, OwnDelayOver DEF TodInv
  <2>8. CASE WriteCnfg
    <3>1. stage # "read" BY <2>8 DEF WriteCnfg, At, In
    <3> QED BY <2>0, <2>1, <2>8, <3>1, OwnWriteCnfg DEF TodInv
  <2>9. CASE ArmPps
    <3>1. stage # "read" BY <2>9 DEF ArmPps, At, In
    <3> QED BY <2>0, <2>1, <2>9, <3>1, OwnArmPps DEF TodInv
  <2>10. CASE ReadNow
    <3>1. stage # "read" BY <2>10 DEF ReadNow, In
    <3> QED BY <2>0, <2>1, <2>10, <3>1, OwnReadNow
  <2>11. CASE ArmMsbFails \/ WriteFails \/ TriggeredFails \/ ReadNowFails
    BY <2>0, <2>11, OwnFails
  <2> QED BY <2>3, <2>4, <2>5, <2>6, <2>7, <2>8, <2>9, <2>10, <2>11 DEF CorrectionStep, SettimeStep
<1> QED BY <1>5, <1>6, <1>7, <1>8 DEF Sets

-----------------------------------------------------------------------------
(* Operations begin and end. *)

LEMMA RecordFrame ==
  ASSUME NEW o, Record(o)
  PROVE  /\ op' = o /\ failed' = FALSE
         /\ UNCHANGED <<now, trigger, offset, cnfg, owing, intended, failures>>
BY DEF Record, deviceVars

(* Its own clock is set, or as it was. *)
LEMMA ClockBegins ==
  ASSUME TodTypeOK, TodInv, stage = "idle", NEW o, o.clock \in Clocks, Record(o),
         o.kind \in {"enable", "settime", "gettime", "adjtime", "workaround"},
         stage' = IF o.kind \in {"enable", "settime"} THEN "arm_msb" ELSE "read",
         NEW c \in Clocks, UNCHANGED crossed[c],
         workDue'[c] # workDue[c] => o.kind = "workaround" /\ c = o.clock
  PROVE  OffsetInv(c)'
<1>1. /\ op' = o /\ failed' = FALSE
      /\ UNCHANGED <<now, trigger, offset, cnfg, owing, intended, failures>>
  BY RecordFrame
<1>2. ~crossed[c] => SteadyInv(c) BY DEF TodInv, OffsetInv, Correcting, Setting, Spoiling, Own
<1>3. ~Aligning(c) /\ Promised(c)' = Promised(c)
  BY <1>1 DEF Aligning, Promised, Own
<1>4. CASE o.kind \in {"enable", "settime"} /\ c = o.clock
  <2>1. Setting(c)' /\ ~Correcting(c)' BY <1>1, <1>4 DEF Setting, Correcting, Corrects, Own, Sets, clock
  <2> QED BY <2>1 DEF OffsetInv
<1>5. CASE o.kind \notin {"enable", "settime"} \/ c # o.clock
  <2>1. ~Correcting(c)' BY <1>1, <1>5 DEF Correcting, Corrects, Own, clock
  <2>2. CASE workDue'[c] = workDue[c]
    <3>1. ~crossed[c] => SteadyInv(c)' BY <1>1, <1>2, <1>3, <2>2, SteadyKept
    <3> QED BY <2>1, <3>1 DEF OffsetInv
  <2>3. CASE o.kind = "workaround" /\ c = o.clock
    <3>1. Aligning(c)' BY <1>1, <2>3 DEF Aligning, Own, clock
    <3>2. FullAfter(now, c)' = FullAfter(now, c) BY <1>1 DEF FullAfter, After
    <3>3. ~crossed[c] => SteadyInv(c)' BY <1>1, <1>2, <1>3, <3>1, <3>2 DEF SteadyInv
    <3> QED BY <2>1, <3>3 DEF OffsetInv
  <2> QED BY <2>2, <2>3
<1> QED BY <1>4, <1>5

LEMMA ClockCompletes ==
  ASSUME TodTypeOK, TodInv, Complete, NEW c \in Clocks
  PROVE  OffsetInv(c)'
<1>1. /\ stage = "done" /\ stage' = "idle"
      /\ UNCHANGED <<op, failed, workDue, now, offset, cnfg, trigger, owing, failures>>
      /\ intended' = [intended EXCEPT ![clock] = Intended]
      /\ crossed' = [crossed EXCEPT ![clock] = Crossed]
  BY DEF Complete, deviceVars
<1>2. ~Own(c)' /\ ~Correcting(c)' BY <1>1 DEF Own, Correcting
<1>3. CASE c # clock
  <2>1. ~Own(c) BY <1>3 DEF Own
  <2>2. intended'[c] = intended[c] /\ crossed'[c] = crossed[c] BY <1>1, <1>3 DEF TodTypeOK
  <2> QED BY <1>1, <1>2, <2>1, <2>2, ClockElsewhere
<1>4. CASE c = clock
  <2> SUFFICES ASSUME ~crossed'[c] PROVE SteadyInv(c)' BY <1>2 DEF OffsetInv
  <2>1. crossed'[c] = Crossed /\ intended'[c] = Intended BY <1>1, <1>4 DEF TodTypeOK
  <2>2. ~Crossed BY <2>1
  <2>3. Promised(c)' = Intended + 0 BY <1>2, <2>1 DEF Promised
  <2>4. offset[c] \in Int /\ intended[c] \in Int /\ op.arg \in Int BY <1>4, CorrectionTypes
  <2>5. CASE Sets
    <3>1. ~failed /\ Intended = offset[c] BY <1>4, <2>2, <2>5 DEF Crossed, Intended, Sets
    <3>2. trigger[c] = "none" /\ ~owing[c] BY <1>1, <1>4, <2>5, <3>1 DEF TodInv, SetInv
    <3> QED BY <1>1, <2>3, <2>4, <3>1, <3>2 DEF SteadyInv
  <2>6. CASE ~Sets
    <3>1. ~crossed[c] /\ (op.kind # "gettime" => ~failed)
      BY <1>4, <2>2, <2>6 DEF Crossed
    <3>2. SteadyInv(c) BY <1>1, <2>6, <3>1 DEF TodInv, OffsetInv, Correcting, Setting, Spoiling, Corrects
    <3>3. Intended = intended[c] + op.arg BY <1>4, <2>2, <2>6 DEF Intended
    <3>4. op.kind # "adjtime" => op.arg = 0 BY <2>6, OpTypes DEF Sets, TodTypeOK
    <3>5. Promised(c) = Intended + 0 BY <1>1, <1>4, <2>4, <3>3, <3>4 DEF Promised, Own
    <3>6. ~Aligning(c) BY <1>1 DEF Aligning
    <3> QED BY <1>1, <2>3, <3>2, <3>5, <3>6, SteadyKept
  <2> QED BY <2>5, <2>6
<1> QED BY <1>3, <1>4

LEMMA OffsetStep == ASSUME TodTypeOK, TodInv, TodNext, NEW c \in Clocks PROVE OffsetInv(c)'
PROOF
<1>1. ASSUME NEW d \in Clocks, idt82p33_enable_tod(d) PROVE OffsetInv(c)'
  <2> DEFINE o == [kind |-> "enable", clock |-> d, arg |-> 0]
  <2>1. o.clock \in Clocks /\ o.kind = "enable" OBVIOUS
  <2>2. stage = "idle" /\ Record(o) /\ stage' = "arm_msb" /\ UNCHANGED <<workDue, crossed>>
    BY <1>1 DEF idt82p33_enable_tod
  <2> HIDE DEF o
  <2> QED BY <2>1, <2>2, ClockBegins
<1>2. ASSUME NEW d \in Clocks, idt82p33_adjtime_workaround(d) PROVE OffsetInv(c)'
  <2> DEFINE o == [kind |-> "workaround", clock |-> d, arg |-> 0]
  <2>1. o.clock = d /\ o.kind = "workaround" OBVIOUS
  <2>2. stage = "idle" /\ Record(o) /\ stage' = "read" /\ UNCHANGED crossed
    BY <1>2 DEF idt82p33_adjtime_workaround
  <2>3. workDue'[c] # workDue[c] => c = d
    BY <1>2 DEF idt82p33_adjtime_workaround, TodTypeOK
  <2> HIDE DEF o
  <2> QED BY <2>1, <2>2, <2>3, ClockBegins
<1>3. ASSUME NEW o \in TodRequests, Begin(o) PROVE OffsetInv(c)'
  <2>1. o.kind \in {"settime", "adjtime", "gettime"} /\ o.clock \in Clocks BY OpTypes DEF TodRequests, Ops
  <2>2. /\ stage = "idle" /\ Record(o) /\ UNCHANGED <<workDue, crossed>>
        /\ stage' = IF o.kind = "settime" THEN "arm_msb" ELSE "read"
    BY <1>3 DEF Begin
  <2> QED BY <2>1, <2>2, ClockBegins
<1>4. CASE Complete BY <1>4, ClockCompletes
<1>5. CASE OpStep
  <2>1. CASE c = op.clock BY <1>5, <2>1, ClockOwn
  <2>2. CASE c # op.clock
    <3>1. ~Own(c) /\ ~Own(c)' BY <1>5, <2>2, OpStages DEF Own, clock
    <3>2. /\ UNCHANGED <<now, intended>> /\ (failures' = 0 => failures = 0)
          /\ UNCHANGED <<trigger[c], offset[c], cnfg[c], workDue[c], owing[c], crossed[c]>>
      BY <1>5, <2>2, OpStepFrame
    <3> QED BY <3>1, <3>2, ClockElsewhere
  <2> QED BY <2>1, <2>2
<1>6. CASE Tick BY <1>6, TodTypesStep, ClockTick
<1> QED BY TodNext, <1>1, <1>2, <1>3, <1>4, <1>5, <1>6 DEF TodNext, OpStep

LEMMA TodInvInit == TodInit => TodInv
<1> SUFFICES ASSUME TodInit PROVE TodInv OBVIOUS
<1>1. StageInv /\ PaceInv /\ FlagInv /\ SetInv
  BY SabreTimeAssumption DEF TodInit, StageInv, PaceInv, FlagInv, SetInv
<1>2. ASSUME NEW c \in Clocks PROVE OffsetInv(c) BY DEF TodInit, OffsetInv
<1> QED BY <1>1, <1>2 DEF TodInv

LEMMA TodInvStep == TodTypeOK /\ TodInv /\ [TodNext]_todVars => TodInv'
<1> SUFFICES ASSUME TodTypeOK, TodInv, [TodNext]_todVars PROVE TodInv' OBVIOUS
<1>1. CASE TodNext
  <2>1. StageInv' /\ PaceInv' /\ FlagInv' /\ SetInv' BY <1>1, StageStep, PaceStep, FlagStep, SetStep
  <2>2. \A c \in Clocks : OffsetInv(c)' BY <1>1, OffsetStep
  <2> QED BY <2>1, <2>2 DEF TodInv
<1>2. CASE UNCHANGED todVars
  BY <1>2 DEF todVars, driverVars, deviceVars, historyVars, TodInv, StageInv, PaceInv, FlagInv, SetInv,
     OffsetInv, SteadyInv, CorrectingInv, Correcting, Corrects, Aligning, Setting, Spoiling, Own, Sets, Promised, FullAfter,
     After, clock
<1> QED BY <1>1, <1>2

-----------------------------------------------------------------------------
(* The types, and what the clocks rely on: operations are where their kind *)
(* may be (StageInv, PaceInv), the overhead flag is up within an adjtime   *)
(* or since one failed (FlagInv), a time that was set is shown (SetInv),   *)
(* and per clock what its trigger will do and when (OffsetInv).             *)
THEOREM SabreTodInvariant == TodSpec => [](TodTypeOK /\ TodInv)
<1>1. TodInit => TodTypeOK /\ TodInv BY TodTypesInit, TodInvInit
<1>2. TodTypeOK /\ TodInv /\ [TodNext]_todVars => (TodTypeOK /\ TodInv)'
  <2>1. TodTypeOK /\ UNCHANGED todVars => TodTypeOK'
    BY DEF TodTypeOK, todVars, driverVars, deviceVars, historyVars
  <2> QED BY <2>1, TodTypesStep, TodInvStep
<1> QED BY <1>1, <1>2, PTL DEF TodSpec

(* The adjtimes have moved a clock by the sum of their deltas and nothing  *)
(* else has, until an operation fails on it, or it is read for another     *)
(* correction, or its alignment, before one has taken effect (which is     *)
(* lost) or after one has taken effect that reported an error (and counts  *)
(* twice).                                                                 *)
THEOREM SabreClocksAsIntended == TodSpec => []ClockAsIntended
<1>1. TodTypeOK /\ TodInv => ClockAsIntended
  <2> SUFFICES ASSUME TodTypeOK, TodInv, NEW c \in Clocks, Settled(c) PROVE offset[c] = intended[c]
    BY DEF ClockAsIntended
  <2>1. SteadyInv(c) BY DEF TodInv, OffsetInv, Settled, Correcting, Setting, Spoiling, Own
  <2>2. Promised(c) = intended[c] + 0 /\ intended[c] \in Int
    BY DEF Promised, Own, Settled, TodTypeOK
  <2> QED BY <2>1, <2>2 DEF SteadyInv, Settled
<1> QED BY <1>1, SabreTodInvariant, PTL

(* A settime that succeeds sets its clock to the time asked for, at some   *)
(* moment of the call, unless an adjtime failed since a time was last set. *)
THEOREM SabreSettimeSets == TodSpec => []SettimeSets
<1>1. TodInv => SettimeSets
  <2> SUFFICES ASSUME TodInv PROVE SettimeSets OBVIOUS
  <2> QED BY DEF TodInv, SetInv, SettimeSets, clock
<1> QED BY <1>1, SabreTodInvariant, PTL

(* A clock that was moved by a fraction of a second has its alignment work *)
(* queued until that has moved it by nothing, unless a transfer failed or  *)
(* a correction was lost.                                                  *)
THEOREM SabreAlignmentFollows == TodSpec => []AlignmentFollows
<1>1. TodInv => AlignmentFollows
  BY DEF TodInv, OffsetInv, SteadyInv, AlignmentFollows, Settled, Correcting, Aligning, Setting, Spoiling, Own
<1> QED BY <1>1, SabreTodInvariant, PTL
=============================================================================
