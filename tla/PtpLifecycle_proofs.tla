------------------------ MODULE PtpLifecycle_proofs ------------------------
(***************************************************************************)
(* Proofs about PtpLifecycle, for either driver, any number of channels    *)
(* and any number of callers: a driver that is bound is complete, calls    *)
(* find their channel set up, nothing of a driver is left when its memory  *)
(* goes, events go to registered clocks and the owner of the mutex is not  *)
(* held up, with the exceptions the properties name.                       *)
(***************************************************************************)
EXTENDS PtpLifecycle, TLAPS

Probing == core \in {"lock", "load", "channel", "unlock"}

(* Who has the mutex, and where.                                           *)
OwnerInv ==
  /\ lock = Core <=> core \in {"load", "channel", "unlock"}
  /\ \A k \in Callers : lock = k <=> call[k].pc = "busy"
  /\ \A w \in Works : lock = w <=> run[w] = "busy"

(* A call is inside a registered clock; only calls and alignment works of  *)
(* the 82P33 read the clock.                                               *)
CallInv ==
  /\ \A k \in Callers :
       /\ call[k].pc # "idle" => call[k].clock \in registered
       /\ call[k].pc = "busy" => call[k].kind \in {"gettime", "adjtime"}
  /\ driver = "idtcm" =>
       /\ \A k \in Callers : call[k].pc # "idle" => call[k].kind \in {"enable", "disable"}
       /\ queued \subseteq {Extts} /\ \A d \in Channels : run[d] = "no"

(* How far probing and unbinding are.                                      *)
ProbeInv ==
  /\ registered \subseteq mask
  /\ core \in {"lock", "load"} => registered = {} /\ ready = {} /\ index = 0 /\ step = 1
  /\ core = "channel" =>
       /\ index \in Channels
       /\ \A d \in Channels : d < index => d \in ready /\ (d \in mask => d \in registered)
       /\ step = 2 =>
            /\ index \in mask
            /\ IF driver = "idtcm" THEN index \in ready ELSE index \in registered
  /\ core \in {"lock", "load", "channel", "bound"} => ~failed
  /\ ~failed /\ core = "unlock" => registered = mask /\ ready = Channels
  /\ core = "bound" => registered = mask
  /\ ~failed /\ ~Probing => ready = Channels

UnbindInv ==
  /\ core \in {"unwind", "unregister"} => index \in Channels /\ registered \subseteq index .. Last
  /\ core \in {"bound", "cancel"} => ~failed
  /\ core = "bound" \/ (core = "cancel" /\ driver = "idt82p33") => index = 0
  /\ core \in {"cancel", "gone"} /\ driver = "idtcm" => registered = {}
  /\ core = "gone" => registered = {}

Idle(w) == w \notin queued /\ run[w] = "no"

(* While the driver is probing, and after a probe that failed unless a     *)
(* call has overlapped, no work has been queued and no time stamps are on. *)
(* Works that removal has cancelled stay idle unless a call or an          *)
(* alignment work goes on.                                                 *)
WorkInv ==
  /\ Probing => ~overlapped
  /\ ~overlapped /\ (Probing \/ failed) => exttsMask = {} /\ \A w \in Works : Idle(w)
  /\ ~overlapped /\ ~failed /\ driver = "idt82p33" =>
       /\ core \in {"unwind", "unregister", "gone"} => Idle(Extts)
       /\ \A d \in Channels :
            \/ core = "unwind" /\ d < index
            \/ core = "unregister" /\ d <= index
            \/ core = "gone"
            => Idle(d)
  /\ driver = "idtcm" /\ ~failed /\ core = "gone" => Idle(Extts)

(* Where events go.                                                        *)
EventInv ==
  /\ run[Extts] # "busy" => posting = {}
  /\ ~overlapped =>
       /\ ~lateEvent
       /\ posting \subseteq registered
       /\ Probing \/ core = "bound" \/ (core = "cancel" /\ driver = "idt82p33")
            => \A d \in Channels : eventClock[d] \in registered \cup {Nobody}
       /\ driver = "idtcm" /\ ~Probing /\ core # "bound" => exttsMask = {} /\ posting = {}

LifeInv == OwnerInv /\ CallInv /\ ProbeInv /\ UnbindInv /\ WorkInv /\ EventInv

(* What a call is, and what is left of it when it returns.                 *)
CallRecords == [pc : {"idle", "lock", "busy"}, kind : Kinds, clock : Channels, about : Channels]

LEMMA ReturnEffect ==
  ASSUME TypeOK, NEW k \in Callers, Return(k)
  PROVE  /\ lock' = Nobody
         /\ call' \in [Callers -> CallRecords]
         /\ call'[k].pc = "idle"
         /\ \A j \in Callers : j # k => call'[j] = call[j]
PROOF
<1>1. 0 \in Channels BY LifecycleAssumption DEF Channels
<1>2. NoCall \in CallRecords /\ NoCall.pc = "idle" BY <1>1 DEF NoCall, CallRecords, Kinds
<1>3. call \in [Callers -> CallRecords] BY DEF TypeOK, CallRecords
<1>4. lock' = Nobody /\ call' = [call EXCEPT ![k] = NoCall] BY DEF Return
<1> QED BY <1>2, <1>3, <1>4

(* The handler of a work, and when it runs.                                *)
LEMMA RunEffect ==
  ASSUME TypeOK, NEW w \in Works, NEW at \in {"no", "lock", "busy"}, SetRun(w, at)
  PROVE  /\ run' \in [Works -> {"no", "lock", "busy"}]
         /\ run'[w] = at
         /\ \A v \in Works : v # w => run'[v] = run[v]
BY DEF TypeOK, SetRun

LEMMA TypesStep == ASSUME TypeOK, LifeInv, Next PROVE TypeOK'
PROOF
<1> USE LifecycleAssumption DEF TypeOK, Channels, Works, Kinds, coreVars, workVars, noteVars
<1>1. CASE Lock BY <1>1 DEF Lock
<1>2. CASE LoadFirmware BY <1>2 DEF LoadFirmware, FirmwareMasks
<1>3. CASE Defer BY <1>3 DEF Defer
<1>4. CASE SetUp BY <1>4 DEF SetUp, NextStep, RegistersAt
<1>5. CASE Register
  <2>1. /\ index \in Channels /\ registered' = registered \cup {index}
        /\ UNCHANGED <<driver, mask, ready, failed, lock, call, eventClock, posting, queued, run, overlapped, lateEvent>>
    BY <1>5 DEF Register
  <2>2. /\ index' \in 0 .. Last + 1 /\ step' \in 1 .. 2
        /\ core' \in {"channel", "unlock"}
    BY <1>5, <2>1 DEF Register, NextStep
  <2>3. registered' \in SUBSET Channels BY <2>1
  <2> QED BY <2>1, <2>2, <2>3
<1>6. CASE SetUpUnmasked BY <1>6 DEF SetUpUnmasked, NextStep, LifeInv, ProbeInv
<1>7. CASE ChannelFails BY <1>7 DEF ChannelFails
<1>8. CASE Unlock BY <1>8 DEF Unlock
<1>9. CASE CancelExtts BY <1>9 DEF CancelExtts, CancelSync
<1>10. CASE CancelAdjtime BY <1>10 DEF CancelAdjtime, CancelSync
<1>11. CASE Unregister BY <1>11 DEF Unregister, LifeInv, UnbindInv
<1>12. CASE Remove
  <2>1. /\ core' \in {"cancel", "unwind"} /\ overlapped' \in BOOLEAN
        /\ eventClock' \in [Channels -> Channels \cup {Nobody}]
    <3>1. CASE driver = "idtcm" BY <1>12, <3>1 DEF Remove
    <3>2. CASE driver # "idtcm" BY <1>12, <3>2 DEF Remove
    <3> QED BY <3>1, <3>2
  <2>2. UNCHANGED <<driver, index, step, mask, ready, registered, failed, lock, call,
                    posting, queued, run, lateEvent>>
    BY <1>12 DEF Remove
  <2> QED BY <2>1, <2>2
<1>13. ASSUME NEW k \in Callers, NEW kind \in Kinds, NEW c \in Channels, NEW d \in Channels,
              Call(k, kind, c, d)
       PROVE  TypeOK'
  BY <1>13 DEF Call, Kinds
<1>14. ASSUME NEW k \in Callers, CallStep(k) PROVE TypeOK'
  <2>1. CASE EnableExtts(k) BY <2>1 DEF EnableExtts, Locked, GoesOn, Return, NoCall, Unbinding, exttsMask
  <2>2. CASE DisableExtts(k)
    <3>1. queued' \subseteq queued \cup {Extts} BY <2>2 DEF DisableExtts
    <3>2. call' = [call EXCEPT ![k] = NoCall] /\ lock' = Nobody
          /\ overlapped' \in BOOLEAN
          /\ eventClock' = [eventClock EXCEPT ![call[k].about] = Nobody]
          /\ UNCHANGED <<coreVars, posting, run, lateEvent>>
      BY <2>2 DEF DisableExtts, Locked, GoesOn, Return, Unbinding
    <3> QED BY <3>1, <3>2 DEF NoCall
  <2>3. CASE CallFails(k) BY <2>3 DEF CallFails, Return, NoCall
  <2>4. CASE BeginRead(k)
    <3>1. lock' = k /\ call' = [call EXCEPT ![k].pc = "busy"] /\ overlapped' \in BOOLEAN
          /\ UNCHANGED <<coreVars, workVars, lateEvent>>
      BY <2>4 DEF BeginRead, Locked, GoesOn, Unbinding
    <3>2. call' \in [Callers -> CallRecords]
      <4>1. call \in [Callers -> CallRecords] BY DEF CallRecords
      <4> HIDE DEF TypeOK, Channels, Kinds
      <4>2. [call[k] EXCEPT !.pc = "busy"] \in CallRecords BY <4>1 DEF CallRecords
      <4> QED BY <3>1, <4>1, <4>2
    <3> QED BY <3>1, <3>2 DEF CallRecords
  <2>5. CASE EndRead(k)
    <3>1. lock' = Nobody /\ call' \in [Callers -> CallRecords] BY <2>5, ReturnEffect DEF EndRead
    <3>2. queued' \subseteq Works
      <4>1. Requeued \subseteq Works BY DEF Requeued
      <4>2. call[k].clock \in Works OBVIOUS
      <4> HIDE DEF TypeOK, Works
      <4> QED BY <2>5, <4>1, <4>2 DEF EndRead
    <3>3. overlapped' \in BOOLEAN /\ UNCHANGED <<coreVars, eventClock, posting, run, lateEvent>>
      BY <2>5 DEF EndRead, GoesOn, Unbinding
    <3> QED BY <3>1, <3>2, <3>3 DEF CallRecords
  <2> QED BY <1>14, <2>1, <2>2, <2>3, <2>4, <2>5 DEF CallStep
<1>15. ASSUME NEW w \in Works, Expire(w) \/ WorkStep(w) PROVE TypeOK'
  <2>1. CASE Expire(w) BY <2>1 DEF Expire, SetRun
  <2>2. CASE BeginWork(w) BY <2>2 DEF BeginWork, SetRun, exttsMask
  <2>3. CASE w = Extts /\ EndPoll BY <2>3 DEF EndPoll, SetRun, exttsMask
  <2>4. CASE w # Extts /\ EndAdjtime(w) BY <2>4 DEF EndAdjtime, SetRun, GoesOn, Unbinding, Requeued, PollIsOver, exttsMask
  <2> QED BY <1>15, <2>1, <2>2, <2>3, <2>4 DEF WorkStep
<1> HIDE DEF TypeOK, Channels, Works, Kinds
<1> QED BY <1>1, <1>2, <1>3, <1>4, <1>5, <1>6, <1>7, <1>8, <1>9, <1>10, <1>11, <1>12, <1>13, <1>14, <1>15 DEF Next, CoreStep

LEMMA OwnerStep == ASSUME TypeOK, LifeInv, Next PROVE OwnerInv'
PROOF
<1> USE LifecycleAssumption DEF LifeInv, Channels, Works, coreVars, workVars, noteVars, TypeOK, OwnerInv
<1>1. CASE Lock BY <1>1 DEF Lock
<1>2. CASE LoadFirmware BY <1>2 DEF LoadFirmware, FirmwareMasks
<1>3. CASE Defer BY <1>3 DEF Defer
<1>4. CASE SetUp BY <1>4 DEF SetUp, NextStep, RegistersAt
<1>5. CASE Register BY <1>5 DEF Register, NextStep, RegistersAt
<1>6. CASE SetUpUnmasked BY <1>6 DEF SetUpUnmasked, NextStep
<1>7. CASE ChannelFails BY <1>7 DEF ChannelFails
<1>8. CASE Unlock BY <1>8 DEF Unlock
<1>9. CASE CancelExtts BY <1>9 DEF CancelExtts, CancelSync
<1>10. CASE CancelAdjtime BY <1>10 DEF CancelAdjtime, CancelSync
<1>11. CASE Unregister BY <1>11 DEF Unregister
<1>12. CASE Remove BY <1>12 DEF Remove
<1>13. ASSUME NEW k \in Callers, NEW kind \in Kinds, NEW c \in Channels, NEW d \in Channels,
              Call(k, kind, c, d)
       PROVE  OwnerInv'
  BY <1>13 DEF Call, Kinds
<1>14. ASSUME NEW k \in Callers, CallStep(k) PROVE OwnerInv'
  <2>1. CASE EnableExtts(k) BY <2>1 DEF EnableExtts, Locked, GoesOn, Return, NoCall, Unbinding, exttsMask
  <2>2. CASE DisableExtts(k) BY <2>2 DEF DisableExtts, Locked, GoesOn, Return, NoCall, Unbinding, exttsMask
  <2>3. CASE CallFails(k) BY <2>3 DEF CallFails, Return, NoCall
  <2>4. CASE BeginRead(k)
    <3>1. lock = Nobody /\ lock' = k /\ UNCHANGED <<core, run>> BY <2>4 DEF BeginRead, Locked
    <3>2. \A j \in Callers : call'[j].pc = IF j = k THEN "busy" ELSE call[j].pc
      BY <2>4 DEF BeginRead
    <3>3. lock' # Core /\ core \notin {"load", "channel", "unlock"} BY <3>1
    <3>4. \A j \in Callers : lock' = j <=> call'[j].pc = "busy" BY <3>1, <3>2
    <3>5. \A w \in Works : lock' = w <=> run'[w] = "busy"
      <4>1. \A w \in Works : w # k /\ w # Nobody OBVIOUS
      <4>2. \A w \in Works : lock = w <=> run[w] = "busy" OBVIOUS
      <4> HIDE DEF TypeOK, LifeInv, OwnerInv, Works
      <4> QED BY <3>1, <4>1, <4>2
    <3> QED BY <3>1, <3>3, <3>4, <3>5
  <2>5. CASE EndRead(k)
    <3>1. lock = k /\ lock' = Nobody /\ UNCHANGED <<core, run>>
      BY <2>5 DEF EndRead, Return
    <3>2. call'[k].pc = "idle" /\ \A j \in Callers : j # k => call'[j] = call[j]
      BY <2>5, ReturnEffect DEF EndRead
    <3>3. lock' # Core /\ core \notin {"load", "channel", "unlock"} BY <3>1
    <3>4. \A j \in Callers : lock' = j <=> call'[j].pc = "busy" BY <3>1, <3>2
    <3>5. \A w \in Works : lock' = w <=> run'[w] = "busy" BY <3>1
    <3> QED BY <3>1, <3>3, <3>4, <3>5
  <2> QED BY <1>14, <2>1, <2>2, <2>3, <2>4, <2>5 DEF CallStep
<1>15. ASSUME NEW w \in Works, Expire(w) \/ WorkStep(w) PROVE OwnerInv'
  <2>1. CASE Expire(w) BY <2>1 DEF Expire, SetRun
  <2>2. CASE BeginWork(w)
    <3>1. lock = Nobody /\ lock' = w /\ UNCHANGED <<core, call>> BY <2>2 DEF BeginWork
    <3>2. run'[w] = "busy" /\ \A v \in Works : v # w => run'[v] = run[v]
      BY <2>2, RunEffect DEF BeginWork
    <3>3. lock' # Core /\ core \notin {"load", "channel", "unlock"} BY <3>1
    <3>4. \A j \in Callers : lock' = j <=> call'[j].pc = "busy" BY <3>1
    <3>5. \A v \in Works : lock' = v <=> run'[v] = "busy" BY <3>1, <3>2
    <3> QED BY <3>1, <3>3, <3>4, <3>5
  <2>3. CASE w = Extts /\ EndPoll
    <3>1. lock = w /\ lock' = Nobody /\ UNCHANGED <<core, call>> BY <2>3 DEF EndPoll
    <3>2. run'[w] = "no" /\ \A v \in Works : v # w => run'[v] = run[v]
      BY <2>3, RunEffect DEF EndPoll
    <3>3. lock' # Core /\ core \notin {"load", "channel", "unlock"} BY <3>1
    <3>4. \A j \in Callers : lock' = j <=> call'[j].pc = "busy" BY <3>1
    <3>5. \A v \in Works : lock' = v <=> run'[v] = "busy" BY <3>1, <3>2
    <3> QED BY <3>1, <3>3, <3>4, <3>5
  <2>4. CASE w # Extts /\ EndAdjtime(w)
    <3>1. lock = w /\ lock' = Nobody /\ UNCHANGED <<core, call>> BY <2>4 DEF EndAdjtime
    <3>2. run'[w] = "no" /\ \A v \in Works : v # w => run'[v] = run[v]
      BY <2>4, RunEffect DEF EndAdjtime
    <3>3. lock' # Core /\ core \notin {"load", "channel", "unlock"} BY <3>1
    <3>4. \A j \in Callers : lock' = j <=> call'[j].pc = "busy" BY <3>1
    <3>5. \A v \in Works : lock' = v <=> run'[v] = "busy" BY <3>1, <3>2
    <3> QED BY <3>1, <3>3, <3>4, <3>5
  <2> QED BY <1>15, <2>1, <2>2, <2>3, <2>4 DEF WorkStep
<1> QED BY <1>1, <1>2, <1>3, <1>4, <1>5, <1>6, <1>7, <1>8, <1>9, <1>10, <1>11, <1>12, <1>13, <1>14, <1>15 DEF Next, CoreStep

LEMMA CallsStep == ASSUME TypeOK, LifeInv, Next PROVE CallInv'
PROOF
<1> USE LifecycleAssumption DEF LifeInv, Channels, Works, coreVars, workVars, noteVars, TypeOK, CallInv, OwnerInv, Kinds
<1>1. CASE Lock BY <1>1 DEF Lock
<1>2. CASE LoadFirmware BY <1>2 DEF LoadFirmware, FirmwareMasks
<1>3. CASE Defer BY <1>3 DEF Defer
<1>4. CASE SetUp BY <1>4 DEF SetUp, NextStep, RegistersAt
<1>5. CASE Register BY <1>5 DEF Register, NextStep, RegistersAt
<1>6. CASE SetUpUnmasked BY <1>6 DEF SetUpUnmasked, NextStep
<1>7. CASE ChannelFails BY <1>7 DEF ChannelFails
<1>8. CASE Unlock BY <1>8 DEF Unlock
<1>9. CASE CancelExtts BY <1>9 DEF CancelExtts, CancelSync
<1>10. CASE CancelAdjtime BY <1>10 DEF CancelAdjtime, CancelSync
<1>11. CASE Unregister BY <1>11 DEF Unregister
<1>12. CASE Remove BY <1>12 DEF Remove
<1>13. ASSUME NEW k \in Callers, NEW kind \in Kinds, NEW c \in Channels, NEW d \in Channels,
              Call(k, kind, c, d)
       PROVE  CallInv'
  BY <1>13 DEF Call, Kinds
<1>14. ASSUME NEW k \in Callers, CallStep(k) PROVE CallInv'
  <2>1. CASE EnableExtts(k) \/ DisableExtts(k)
    <3>1. call'[k].pc = "idle" /\ \A j \in Callers : j # k => call'[j] = call[j]
      BY <2>1, ReturnEffect DEF EnableExtts, DisableExtts
    <3>2. queued' \subseteq queued \cup {Extts}
      <4> HIDE DEF TypeOK, LifeInv
      <4> QED BY <2>1 DEF EnableExtts, DisableExtts
    <3>3. UNCHANGED <<driver, registered, run>> BY <2>1 DEF EnableExtts, DisableExtts
    <3>4. CallInv OBVIOUS
    <3> HIDE DEF TypeOK, LifeInv, OwnerInv
    <3> QED BY <3>1, <3>2, <3>3, <3>4
  <2>3. CASE CallFails(k) BY <2>3 DEF CallFails, Return, NoCall
  <2>4. CASE BeginRead(k) BY <2>4 DEF BeginRead, Locked, GoesOn, Unbinding
  <2>5. CASE EndRead(k) BY <2>5 DEF EndRead, Return, NoCall, GoesOn, Unbinding, Requeued, PollIsOver, exttsMask
  <2> QED BY <1>14, <2>1, <2>3, <2>4, <2>5 DEF CallStep
<1>15. ASSUME NEW w \in Works, Expire(w) \/ WorkStep(w) PROVE CallInv'
  <2>1. CASE Expire(w) BY <2>1 DEF Expire, SetRun
  <2>2. CASE BeginWork(w) BY <2>2 DEF BeginWork, SetRun, exttsMask
  <2>3. CASE w = Extts /\ EndPoll BY <2>3 DEF EndPoll, SetRun, exttsMask
  <2>4. CASE w # Extts /\ EndAdjtime(w) BY <2>4 DEF EndAdjtime, SetRun, GoesOn, Unbinding, Requeued, PollIsOver, exttsMask
  <2> QED BY <1>15, <2>1, <2>2, <2>3, <2>4 DEF WorkStep
<1> QED BY <1>1, <1>2, <1>3, <1>4, <1>5, <1>6, <1>7, <1>8, <1>9, <1>10, <1>11, <1>12, <1>13, <1>14, <1>15 DEF Next, CoreStep

LEMMA ProbeStep == ASSUME TypeOK, LifeInv, Next PROVE ProbeInv'
PROOF
<1> USE LifecycleAssumption DEF LifeInv, Channels, Works, coreVars, workVars, noteVars, TypeOK, ProbeInv, Probing, CallInv, OwnerInv
<1>0. ASSUME core = "channel", NextStep(1, index + 1),
              ready' = ready \cup {index}, UNCHANGED <<mask, failed>>,
              registered' = registered \/ registered' = registered \cup {index},
              index \in mask => index \in registered' /\ index \in Channels,
              registered' \subseteq mask
       PROVE  ProbeInv'
  <2>1. index \in Channels /\ index' = index + 1 /\ step' = 1 /\ ~failed
    BY <1>0 DEF NextStep
  <2>2. \A d \in Channels : d < index + 1 => d \in ready' /\ (d \in mask => d \in registered')
    <3>1. \A d \in Channels : d < index + 1 => d < index \/ d = index BY <2>1
    <3> QED BY <1>0, <3>1
  <2>3. CASE index < Last
    <3>1. core' = "channel" /\ index + 1 \in Channels BY <1>0, <2>1, <2>3 DEF NextStep
    <3> QED BY <1>0, <2>1, <2>2, <3>1
  <2>4. CASE index = Last
    <3>1. core' = "unlock" BY <1>0, <2>4 DEF NextStep
    <3>2. \A d \in Channels : d < index + 1 BY <2>1, <2>4
    <3>3. ready' = Channels
      <4>1. \A d \in Channels : d \in ready' BY <2>2, <3>2
      <4>2. ready' \subseteq Channels BY <1>0, <2>1
      <4> HIDE DEF TypeOK, LifeInv, ProbeInv, CallInv, OwnerInv
      <4> QED BY <4>1, <4>2
    <3>4. registered' = mask
      <4>1. mask \subseteq Channels OBVIOUS
      <4>2. \A d \in mask : d \in registered' BY <2>2, <3>2, <4>1
      <4>3. registered' \subseteq mask BY <1>0
      <4> HIDE DEF TypeOK, LifeInv, ProbeInv, CallInv, OwnerInv
      <4> QED BY <4>2, <4>3
    <3> QED BY <1>0, <2>1, <3>1, <3>3, <3>4
  <2> QED BY <2>1, <2>3, <2>4
<1>1. CASE Lock BY <1>1 DEF Lock
<1>2. CASE LoadFirmware BY <1>2 DEF LoadFirmware, FirmwareMasks
<1>3. CASE Defer BY <1>3 DEF Defer
<1>4. CASE SetUp
  <2>1. CASE step = 1 /\ driver = "idtcm" BY <1>4, <2>1 DEF SetUp, NextStep, RegistersAt
  <2>2. CASE step = 2 /\ driver = "idtcm" BY <1>4, <2>2 DEF SetUp, NextStep, RegistersAt
  <2>3. CASE step = 1 /\ driver = "idt82p33" BY <1>4, <2>3 DEF SetUp, NextStep, RegistersAt
  <2>4. CASE step = 2 /\ driver = "idt82p33" BY <1>0, <1>4, <2>4 DEF SetUp, NextStep, RegistersAt
  <2> QED BY <2>1, <2>2, <2>3, <2>4
<1>5. CASE Register
  <2>1. CASE step = 1 /\ driver = "idtcm" BY <1>5, <2>1 DEF Register, NextStep, RegistersAt
  <2>2. CASE step = 2 /\ driver = "idtcm"
    <3>1. NextStep(1, index + 1) BY <1>5, <2>2 DEF Register
    <3>2. index \in ready /\ ready = ready \cup {index} BY <1>5, <2>2 DEF Register
    <3> QED BY <1>0, <1>5, <3>1, <3>2 DEF Register
  <2>3. CASE step = 1 /\ driver = "idt82p33" BY <1>5, <2>3 DEF Register, NextStep, RegistersAt
  <2>4. CASE step = 2 /\ driver = "idt82p33" BY <1>5, <2>4 DEF Register, NextStep, RegistersAt
  <2> QED BY <2>1, <2>2, <2>3, <2>4
<1>6. CASE SetUpUnmasked BY <1>0, <1>6 DEF SetUpUnmasked
<1>7. CASE ChannelFails BY <1>7 DEF ChannelFails
<1>8. CASE Unlock BY <1>8 DEF Unlock
<1>9. CASE CancelExtts BY <1>9 DEF CancelExtts, CancelSync
<1>10. CASE CancelAdjtime BY <1>10 DEF CancelAdjtime, CancelSync
<1>11. CASE Unregister BY <1>11 DEF Unregister
<1>12. CASE Remove BY <1>12 DEF Remove
<1>13. ASSUME NEW k \in Callers, NEW kind \in Kinds, NEW c \in Channels, NEW d \in Channels,
              Call(k, kind, c, d)
       PROVE  ProbeInv'
  BY <1>13 DEF Call, Kinds
<1>14. ASSUME NEW k \in Callers, CallStep(k) PROVE ProbeInv'
  <2>1. CASE EnableExtts(k) BY <2>1 DEF EnableExtts, Locked, GoesOn, Return, NoCall, Unbinding, exttsMask
  <2>2. CASE DisableExtts(k) BY <2>2 DEF DisableExtts, Locked, GoesOn, Return, NoCall, Unbinding, exttsMask
  <2>3. CASE CallFails(k) BY <2>3 DEF CallFails, Return, NoCall
  <2>4. CASE BeginRead(k) BY <2>4 DEF BeginRead, Locked, GoesOn, Unbinding
  <2>5. CASE EndRead(k) BY <2>5 DEF EndRead, Return, NoCall, GoesOn, Unbinding, Requeued, PollIsOver, exttsMask
  <2> QED BY <1>14, <2>1, <2>2, <2>3, <2>4, <2>5 DEF CallStep
<1>15. ASSUME NEW w \in Works, Expire(w) \/ WorkStep(w) PROVE ProbeInv'
  <2>1. CASE Expire(w) BY <2>1 DEF Expire, SetRun
  <2>2. CASE BeginWork(w) BY <2>2 DEF BeginWork, SetRun, exttsMask
  <2>3. CASE w = Extts /\ EndPoll BY <2>3 DEF EndPoll, SetRun, exttsMask
  <2>4. CASE w # Extts /\ EndAdjtime(w) BY <2>4 DEF EndAdjtime, SetRun, GoesOn, Unbinding, Requeued, PollIsOver, exttsMask
  <2> QED BY <1>15, <2>1, <2>2, <2>3, <2>4 DEF WorkStep
<1> QED BY <1>1, <1>2, <1>3, <1>4, <1>5, <1>6, <1>7, <1>8, <1>9, <1>10, <1>11, <1>12, <1>13, <1>14, <1>15 DEF Next, CoreStep

LEMMA UnbindStep == ASSUME TypeOK, LifeInv, Next PROVE UnbindInv'
PROOF
<1> USE LifecycleAssumption DEF LifeInv, Channels, Works, coreVars, workVars, noteVars, TypeOK, ProbeInv, Probing, UnbindInv
<1>1. CASE Lock BY <1>1 DEF Lock
<1>2. CASE LoadFirmware BY <1>2 DEF LoadFirmware, FirmwareMasks
<1>3. CASE Defer BY <1>3 DEF Defer
<1>4. CASE SetUp BY <1>4 DEF SetUp, NextStep, RegistersAt
<1>5. CASE Register BY <1>5 DEF Register, NextStep, RegistersAt
<1>6. CASE SetUpUnmasked BY <1>6 DEF SetUpUnmasked, NextStep
<1>7. CASE ChannelFails BY <1>7 DEF ChannelFails
<1>8. CASE Unlock BY <1>8 DEF Unlock
<1>9. CASE CancelExtts BY <1>9 DEF CancelExtts, CancelSync
<1>10. CASE CancelAdjtime BY <1>10 DEF CancelAdjtime, CancelSync
<1>11. CASE Unregister BY <1>11 DEF Unregister
<1>12. CASE Remove BY <1>12 DEF Remove
<1>13. ASSUME NEW k \in Callers, NEW kind \in Kinds, NEW c \in Channels, NEW d \in Channels,
              Call(k, kind, c, d)
       PROVE  UnbindInv'
  BY <1>13 DEF Call, Kinds
<1>14. ASSUME NEW k \in Callers, CallStep(k) PROVE UnbindInv'
  <2>1. CASE EnableExtts(k) BY <2>1 DEF EnableExtts, Locked, GoesOn, Return, NoCall, Unbinding, exttsMask
  <2>2. CASE DisableExtts(k) BY <2>2 DEF DisableExtts, Locked, GoesOn, Return, NoCall, Unbinding, exttsMask
  <2>3. CASE CallFails(k) BY <2>3 DEF CallFails, Return, NoCall
  <2>4. CASE BeginRead(k) BY <2>4 DEF BeginRead, Locked, GoesOn, Unbinding
  <2>5. CASE EndRead(k) BY <2>5 DEF EndRead, Return, NoCall, GoesOn, Unbinding, Requeued, PollIsOver, exttsMask
  <2> QED BY <1>14, <2>1, <2>2, <2>3, <2>4, <2>5 DEF CallStep
<1>15. ASSUME NEW w \in Works, Expire(w) \/ WorkStep(w) PROVE UnbindInv'
  <2>1. CASE Expire(w) BY <2>1 DEF Expire, SetRun
  <2>2. CASE BeginWork(w) BY <2>2 DEF BeginWork, SetRun, exttsMask
  <2>3. CASE w = Extts /\ EndPoll BY <2>3 DEF EndPoll, SetRun, exttsMask
  <2>4. CASE w # Extts /\ EndAdjtime(w) BY <2>4 DEF EndAdjtime, SetRun, GoesOn, Unbinding, Requeued, PollIsOver, exttsMask
  <2> QED BY <1>15, <2>1, <2>2, <2>3, <2>4 DEF WorkStep
<1> QED BY <1>1, <1>2, <1>3, <1>4, <1>5, <1>6, <1>7, <1>8, <1>9, <1>10, <1>11, <1>12, <1>13, <1>14, <1>15 DEF Next, CoreStep

LEMMA WorksStep == ASSUME TypeOK, LifeInv, Next PROVE WorkInv'
PROOF
<1> USE LifecycleAssumption DEF LifeInv, Channels, Works, coreVars, workVars, noteVars, TypeOK, WorkInv, Probing, Idle, UnbindInv, ProbeInv, CallInv, OwnerInv, exttsMask
<1>1. CASE Lock BY <1>1 DEF Lock
<1>2. CASE LoadFirmware BY <1>2 DEF LoadFirmware, FirmwareMasks
<1>3. CASE Defer BY <1>3 DEF Defer
<1>4. CASE SetUp BY <1>4 DEF SetUp, NextStep, RegistersAt
<1>5. CASE Register BY <1>5 DEF Register, NextStep, RegistersAt
<1>6. CASE SetUpUnmasked BY <1>6 DEF SetUpUnmasked, NextStep
<1>7. CASE ChannelFails BY <1>7 DEF ChannelFails
<1>8. CASE Unlock BY <1>8 DEF Unlock
<1>9. CASE CancelExtts BY <1>9 DEF CancelExtts, CancelSync
<1>10. CASE CancelAdjtime BY <1>10 DEF CancelAdjtime, CancelSync
<1>11. CASE Unregister BY <1>11 DEF Unregister
<1>12. CASE Remove BY <1>12 DEF Remove
<1>13. ASSUME NEW k \in Callers, NEW kind \in Kinds, NEW c \in Channels, NEW d \in Channels,
              Call(k, kind, c, d)
       PROVE  WorkInv'
  BY <1>13 DEF Call, Kinds
<1>14. ASSUME NEW k \in Callers, CallStep(k) PROVE WorkInv'
  <2>1. CASE EnableExtts(k) BY <2>1 DEF EnableExtts, Locked, GoesOn, Return, NoCall, Unbinding, exttsMask
  <2>2. CASE DisableExtts(k) BY <2>2 DEF DisableExtts, Locked, GoesOn, Return, NoCall, Unbinding, exttsMask
  <2>3. CASE CallFails(k) BY <2>3 DEF CallFails, Return, NoCall
  <2>4. CASE BeginRead(k) BY <2>4 DEF BeginRead, Locked, GoesOn, Unbinding
  <2>5. CASE EndRead(k) BY <2>5 DEF EndRead, Return, NoCall, GoesOn, Unbinding, Requeued, PollIsOver, exttsMask
  <2> QED BY <1>14, <2>1, <2>2, <2>3, <2>4, <2>5 DEF CallStep
<1>15. ASSUME NEW w \in Works, Expire(w) \/ WorkStep(w) PROVE WorkInv'
  <2>1. CASE Expire(w) BY <2>1 DEF Expire, SetRun
  <2>2. CASE BeginWork(w) BY <2>2 DEF BeginWork, SetRun, exttsMask
  <2>3. CASE w = Extts /\ EndPoll BY <2>3 DEF EndPoll, SetRun, exttsMask
  <2>4. CASE w # Extts /\ EndAdjtime(w) BY <2>4 DEF EndAdjtime, SetRun, GoesOn, Unbinding, Requeued, PollIsOver, exttsMask
  <2> QED BY <1>15, <2>1, <2>2, <2>3, <2>4 DEF WorkStep
<1> QED BY <1>1, <1>2, <1>3, <1>4, <1>5, <1>6, <1>7, <1>8, <1>9, <1>10, <1>11, <1>12, <1>13, <1>14, <1>15 DEF Next, CoreStep

LEMMA EventsStep == ASSUME TypeOK, LifeInv, Next PROVE EventInv'
PROOF
<1> USE LifecycleAssumption DEF LifeInv, Channels, Works, coreVars, workVars, noteVars, TypeOK, EventInv, WorkInv, Probing, Idle, UnbindInv, ProbeInv, CallInv, OwnerInv, exttsMask
<1>1. CASE Lock BY <1>1 DEF Lock
<1>2. CASE LoadFirmware BY <1>2 DEF LoadFirmware, FirmwareMasks
<1>3. CASE Defer BY <1>3 DEF Defer
<1>4. CASE SetUp BY <1>4 DEF SetUp, NextStep, RegistersAt
<1>5. CASE Register BY <1>5 DEF Register, NextStep, RegistersAt
<1>6. CASE SetUpUnmasked BY <1>6 DEF SetUpUnmasked, NextStep
<1>7. CASE ChannelFails BY <1>7 DEF ChannelFails
<1>8. CASE Unlock
  <2>1. ~overlapped /\ exttsMask = {} /\ posting = {} BY <1>8 DEF Unlock
  <2>2. /\ UNCHANGED <<driver, registered, eventClock, posting, run, overlapped, lateEvent>>
        /\ core' \in {"unwind", "bound"}
    BY <1>8 DEF Unlock
  <2>3. \A d \in Channels : eventClock'[d] = Nobody BY <2>1, <2>2
  <2>4. exttsMask' = {} BY <2>3
  <2>5. EventInv OBVIOUS
  <2> HIDE DEF TypeOK, LifeInv, WorkInv, UnbindInv, ProbeInv, CallInv, OwnerInv, exttsMask
  <2> QED BY <2>1, <2>2, <2>3, <2>4, <2>5
<1>9. CASE CancelExtts BY <1>9 DEF CancelExtts, CancelSync
<1>10. CASE CancelAdjtime BY <1>10 DEF CancelAdjtime, CancelSync
<1>11. CASE Unregister
  <2>1. ~overlapped => posting = {}
    BY <1>11 DEF Unregister
  <2> QED BY <1>11, <2>1 DEF Unregister
<1>12. CASE Remove
  <2>1. CASE driver = "idtcm"
    <3>1. \A d \in Channels : eventClock'[d] = Nobody BY <1>12, <2>1 DEF Remove
    <3>2. exttsMask' = {} BY <3>1
    <3>3. ~overlapped' => ~overlapped /\ posting = {} BY <1>12, <2>1 DEF Remove
    <3> QED BY <1>12, <2>1, <3>1, <3>2, <3>3 DEF Remove
  <2>2. CASE driver # "idtcm" BY <1>12, <2>2 DEF Remove
  <2> QED BY <2>1, <2>2
<1>13. ASSUME NEW k \in Callers, NEW kind \in Kinds, NEW c \in Channels, NEW d \in Channels,
              Call(k, kind, c, d)
       PROVE  EventInv'
  BY <1>13 DEF Call, Kinds
<1>14. ASSUME NEW k \in Callers, CallStep(k) PROVE EventInv'
  <2>1. CASE EnableExtts(k)
    <3>1. /\ call[k].clock \in registered /\ call[k].about \in Channels
          /\ eventClock' = [eventClock EXCEPT ![call[k].about] = call[k].clock]
          /\ UNCHANGED <<coreVars, posting, run, lateEvent>>
          /\ ~overlapped' => ~overlapped /\ core \notin {"cancel", "unwind", "unregister", "gone"}
      BY <2>1 DEF EnableExtts, Locked, GoesOn, Unbinding
    <3>2. \A d \in Channels : eventClock'[d] \in {eventClock[d], call[k].clock}
      BY <3>1
    <3> QED BY <3>1, <3>2
  <2>2. CASE DisableExtts(k) BY <2>2 DEF DisableExtts, Locked, GoesOn, Return, NoCall, Unbinding, exttsMask
  <2>3. CASE CallFails(k) BY <2>3 DEF CallFails, Return, NoCall
  <2>4. CASE BeginRead(k) BY <2>4 DEF BeginRead, Locked, GoesOn, Unbinding
  <2>5. CASE EndRead(k) BY <2>5 DEF EndRead, Return, NoCall, GoesOn, Unbinding, Requeued, PollIsOver, exttsMask
  <2> QED BY <1>14, <2>1, <2>2, <2>3, <2>4, <2>5 DEF CallStep
<1>15. ASSUME NEW w \in Works, Expire(w) \/ WorkStep(w) PROVE EventInv'
  <2>1. CASE Expire(w) BY <2>1 DEF Expire, SetRun
  <2>2. CASE BeginWork(w)
    <3>1. CASE w # Extts BY <2>2, <3>1 DEF BeginWork, SetRun
    <3>2. CASE w = Extts
      <4>1. PICK found \in SUBSET exttsMask, singleShot \in BOOLEAN :
              /\ posting' = {eventClock[d] : d \in found}
              /\ eventClock' = [d \in Channels |->
                   IF singleShot /\ d \in found THEN Nobody ELSE eventClock[d]]
        BY <2>2, <3>2 DEF BeginWork
      <4>2. /\ UNCHANGED <<coreVars, call, queued, noteVars>>
            /\ run'[Extts] = "busy" /\ run[Extts] = "lock"
        BY <2>2, <3>2 DEF BeginWork, SetRun
      <4>3. ~overlapped => posting' \subseteq registered
                           /\ (driver = "idtcm" /\ ~Probing /\ core # "bound" => posting' = {})
        <5> SUFFICES ASSUME ~overlapped
                     PROVE  /\ posting' \subseteq registered
                            /\ driver = "idtcm" /\ ~Probing /\ core # "bound" => posting' = {}
          OBVIOUS
        <5>1. CASE Probing \/ core = "bound" \/ (core = "cancel" /\ driver = "idt82p33")
          <6>1. \A d \in found : eventClock[d] \in registered BY <5>1
          <6> QED BY <4>1, <5>1, <6>1
        <5>2. CASE driver = "idtcm" /\ ~Probing /\ core # "bound"
          <6>1. exttsMask = {} BY <5>2
          <6> HIDE DEF exttsMask
          <6> QED BY <4>1, <6>1
        <5>3. CASE driver = "idt82p33" /\ core \in {"unwind", "unregister", "gone"}
          BY <4>2, <5>3
        <5> QED BY <5>1, <5>2, <5>3
      <4>4. \A d \in Channels : eventClock'[d] \in {eventClock[d], Nobody} BY <4>1
      <4>5. exttsMask = {} => exttsMask' = {} BY <4>4
      <4>6. EventInv OBVIOUS
      <4>7. driver = "idtcm" /\ ~Probing /\ core # "bound" /\ ~overlapped => exttsMask = {}
        BY <4>6
      <4> HIDE DEF TypeOK, LifeInv, WorkInv, UnbindInv, ProbeInv, CallInv, OwnerInv, exttsMask
      <4> QED BY <4>2, <4>3, <4>4, <4>5, <4>6, <4>7
    <3> QED BY <3>1, <3>2
  <2>3. CASE w = Extts /\ EndPoll BY <2>3 DEF EndPoll, SetRun, exttsMask
  <2>4. CASE w # Extts /\ EndAdjtime(w) BY <2>4 DEF EndAdjtime, SetRun, GoesOn, Unbinding, Requeued, PollIsOver, exttsMask
  <2> QED BY <1>15, <2>1, <2>2, <2>3, <2>4 DEF WorkStep
<1> QED BY <1>1, <1>2, <1>3, <1>4, <1>5, <1>6, <1>7, <1>8, <1>9, <1>10, <1>11, <1>12, <1>13, <1>14, <1>15 DEF Next, CoreStep

-----------------------------------------------------------------------------
LEMMA LifeInit == Init => TypeOK /\ LifeInv
PROOF
<1> SUFFICES ASSUME Init PROVE TypeOK /\ LifeInv OBVIOUS
<1>1. 0 \in Channels BY LifecycleAssumption DEF Channels
<1>2. TypeOK
  <2>1. 0 \in 0 .. Last + 1 /\ 1 \in 1 .. 2 BY LifecycleAssumption
  <2>2. mask \subseteq Channels /\ mask = {0} BY <1>1 DEF Init
  <2>3. NoCall \in [pc : {"idle", "lock", "busy"}, kind : Kinds, clock : Channels, about : Channels]
    BY <1>1 DEF NoCall, Kinds
  <2> QED BY <2>1, <2>2, <2>3 DEF Init, TypeOK
<1>3. OwnerInv BY LifecycleAssumption DEF Init, OwnerInv, NoCall
<1>4. exttsMask = {} BY DEF Init, exttsMask
<1>5. CallInv /\ ProbeInv /\ UnbindInv /\ WorkInv /\ EventInv
  BY <1>1, <1>4, LifecycleAssumption
     DEF Init, CallInv, ProbeInv, UnbindInv, WorkInv, EventInv, NoCall, Probing, Idle, Works
<1> QED BY <1>2, <1>3, <1>5 DEF LifeInv

LEMMA LifeStep == TypeOK /\ LifeInv /\ [Next]_vars => TypeOK' /\ LifeInv'
PROOF
<1> SUFFICES ASSUME TypeOK, LifeInv, [Next]_vars PROVE TypeOK' /\ LifeInv' OBVIOUS
<1>1. CASE Next
  BY <1>1, TypesStep, OwnerStep, CallsStep, ProbeStep, UnbindStep, WorksStep, EventsStep DEF LifeInv
<1>2. CASE UNCHANGED vars
  BY <1>2 DEF vars, coreVars, workVars, noteVars, TypeOK, LifeInv, OwnerInv, CallInv, ProbeInv,
     Probing, UnbindInv, WorkInv, Idle, EventInv, exttsMask
<1> QED BY <1>1, <1>2

(* The invariant of binding and unbinding. *)
THEOREM LifecycleInvariant == Spec => [](TypeOK /\ LifeInv)
PROOF BY LifeInit, LifeStep, PTL DEF Spec

(* A driver that is bound has registered the clocks its firmware names and *)
(* has set up every channel.                                               *)
THEOREM BoundDriversAreComplete == Spec => []BoundIsComplete
PROOF
<1>1. TypeOK /\ LifeInv => BoundIsComplete
  BY DEF LifeInv, ProbeInv, Probing, BoundIsComplete
<1> QED BY <1>1, LifecycleInvariant, PTL

(* Calls that get the mutex find their channels set up: probing holds the  *)
(* mutex for as long as a clock is registered and not yet set up.          *)
THEOREM CallsFindTheirChannels == Spec => []CallsFindReady
PROOF
<1>1. TypeOK /\ LifeInv => CallsFindReady
  <2> SUFFICES ASSUME TypeOK, LifeInv, NEW k \in Callers, call[k].pc # "idle",
                      lock \in {Nobody, k}, ~failed
               PROVE  {call[k].clock, call[k].about} \subseteq ready
    BY DEF CallsFindReady
  <2>1. ~Probing
    BY LifecycleAssumption DEF LifeInv, OwnerInv, CallInv, ProbeInv, Probing
  <2>2. ready = Channels BY <2>1 DEF LifeInv, ProbeInv
  <2>3. call[k].clock \in Channels /\ call[k].about \in Channels BY DEF TypeOK
  <2> QED BY <2>2, <2>3
<1> QED BY <1>1, LifecycleInvariant, PTL

(* When the memory of the driver goes no clock is registered, no call is   *)
(* inside and no work is left, with the exceptions QuietOnceGone names.    *)
THEOREM NothingIsLeftBehind == Spec => []QuietOnceGone
PROOF
<1>1. TypeOK /\ LifeInv => QuietOnceGone
  <2> SUFFICES ASSUME TypeOK, LifeInv, core = "gone"
               PROVE  /\ registered = {} /\ \A k \in Callers : call[k].pc = "idle"
                      /\ \/ queued = {} /\ \A w \in Works : run[w] = "no"
                         \/ overlapped /\ (failed \/ driver = "idt82p33")
    BY DEF QuietOnceGone
  <2>1. registered = {} BY DEF LifeInv, UnbindInv
  <2>2. \A k \in Callers : call[k].pc = "idle" BY <2>1 DEF LifeInv, CallInv
  <2>3. driver \in {"idtcm", "idt82p33"} BY LifecycleAssumption DEF TypeOK
  <2>4. ~(overlapped /\ (failed \/ driver = "idt82p33")) => \A w \in Works : Idle(w)
    BY <2>3 DEF LifeInv, WorkInv, CallInv, Idle, Works
  <2>5. (\A w \in Works : Idle(w)) => queued = {} /\ \A w \in Works : run[w] = "no"
    BY DEF Idle, TypeOK
  <2> QED BY <2>1, <2>2, <2>4, <2>5
<1> QED BY <1>1, LifecycleInvariant, PTL

(* Events go to registered clocks unless something went on meanwhile.      *)
THEOREM EventsGoToRegistered == Spec => []EventsToRegistered
PROOF
<1>1. LifeInv => EventsToRegistered BY DEF LifeInv, EventInv, EventsToRegistered
<1> QED BY <1>1, LifecycleInvariant, PTL

(* The owner of the mutex, for whom others wait, waits for none of them,   *)
(* but for a read of an 82P33 that waits for the poll.                     *)
THEOREM OwnersAreNotHeldUp == Spec => []OwnerIsNotHeldUp
PROOF
<1>1. TypeOK /\ LifeInv => OwnerIsNotHeldUp
  <2> SUFFICES ASSUME TypeOK, LifeInv, NEW b \in Actors,
                      NeedsMutex(b), lock # Nobody, WaitsFor(lock, b)
               PROVE  driver = "idt82p33" /\ b = Extts /\ Reads(lock)
    BY DEF OwnerIsNotHeldUp
  <2>1. ~NeedsMutex(lock) BY LifecycleAssumption DEF LifeInv, OwnerInv, NeedsMutex
  <2>2. lock = Core => core \in {"load", "channel", "unlock"} BY DEF LifeInv, OwnerInv
  <2>3. b = Extts /\ Reads(lock) BY <2>1, <2>2 DEF WaitsFor
  <2>4. driver # "idtcm"
    BY <2>3, LifecycleAssumption DEF Reads, LifeInv, CallInv, OwnerInv
  <2>5. driver = "idt82p33" BY <2>4, LifecycleAssumption DEF TypeOK
  <2> QED BY <2>3, <2>5
<1> QED BY <1>1, LifecycleInvariant, PTL
=============================================================================
