------------------------ MODULE Idt82p33Extts_proofs ------------------------
(***************************************************************************)
(* Proofs about Idt82p33Extts: for any number of PLLs and callers whoever  *)
(* reads the clock is alone with the registers of the time, and time       *)
(* stamps come from edges of their own reference but for the two           *)
(* exceptions EventsFromOwnReference names; on a device with one PLL, and  *)
(* any number of callers and failures, time stamps survive reads of the    *)
(* clock.                                                                  *)
(***************************************************************************)
EXTENDS Idt82p33Extts, FiniteSetTheorems, TLAPS

Reading  == {"trigger", "read", "restore"}
Holding  == {"enable", "disable", "gettime", "wait"} \cup Reading

(* Who has the mutex: the polling work only ever within one step.          *)
MutexInv ==
  /\ \A c \in Callers :
       /\ pc[c] \in {"idle", "lock"} \cup Holding
       /\ lock = c <=> pc[c] \in Holding
  /\ pc[Worker] \in {"idle", "test", "lock"} /\ lock # Worker

(* A reader that has turned time stamps off has taken the work from the    *)
(* queue and outlived its handler.                                         *)
AloneInv ==
  \A c \in Callers :
    /\ pc[c] = "gettime" => newMask[c] = {}
    /\ pc[c] = "wait" => ~queued
    /\ pc[c] \in Reading /\ newMask[c] # {} => ~queued /\ pc[Worker] = "idle"

ReaderInv == MutexInv /\ AloneInv

(* Any number of PLLs.  A reader turns on again what it turned off.  Until *)
(* it does so with the trigger of another PLL, an enabled PLL has its own  *)
(* trigger or the reader's, and what it has latched is an edge of its own  *)
(* reference or was there before its first event.                          *)
LatchInv ==
  \A i \in mask :
    /\ todTrigger[i] \in Refs
    /\ trigger[i] \in {Lsb, todTrigger[i]}
    /\ trigger[i] = Lsb \/ latched[i] \in {NoTrigger, todTrigger[i]} \/ event[i] = "none"

OwnInv ==
  /\ \A c \in Callers : pc[c] \in Reading => newMask[c] \subseteq mask
  /\ \A i \in mask : todTrigger[i] \in Refs
  /\ ~shared => LatchInv /\ \A i \in Plls : event[i] # "other"

(* A device with one PLL.  It is never polled in single shot mode, so a    *)
(* read of the clock turns on again what it turned off.                    *)
KeptInv ==
  /\ mask # {} => ~singleShot
  /\ \A c \in Callers : pc[c] \in Reading => newMask[c] = mask

(* The trigger the device has while the PLL is enabled and what came of    *)
(* it, unless a transfer failed.                                           *)
TriggerInv ==
  errs = 0 =>
    /\ \A i \in mask : trigger[i] = todTrigger[i] \/ \E c \in Callers : pc[c] \in {"read", "restore"}
    /\ \A i \in Plls : event[i] # "read"

(* Only the reader of the clock keeps the poll off.                        *)
PolledInv ==
  errs = 0 /\ mask # {} =>
    queued \/ pc[Worker] # "idle" \/ \E c \in Callers : pc[c] \in {"wait"} \cup Reading

OnePllInv == KeptInv /\ TriggerInv /\ PolledInv

(* What a failure of the transfers to a set of PLLs counts for.            *)
LEMMA FailCounts ==
  ASSUME TypeOK, NEW failed \in SUBSET Plls, Fail(failed)
  PROVE  errs' \in 0 .. MaxErrors /\ (errs' = 0 => errs = 0 /\ failed = {})
PROOF
<1>1. IsFiniteSet(failed) BY ExttsAssumption, FS_Subset
<1>2. Cardinality(failed) \in Nat BY <1>1, FS_CardinalityType
<1>3. Cardinality(failed) = 0 => failed = {} BY <1>1, FS_EmptySet
<1>4. errs \in 0 .. MaxErrors BY DEF TypeOK
<1>5. errs + Cardinality(failed) <= MaxErrors /\ errs' = errs + Cardinality(failed) BY DEF Fail
<1> QED BY <1>2, <1>3, <1>4, <1>5, ExttsAssumption

LEMMA FaultCounts == TypeOK /\ Fault => errs' \in 0 .. MaxErrors /\ errs' # 0
PROOF
<1>1. TypeOK => errs \in 0 .. MaxErrors BY DEF TypeOK
<1> QED BY <1>1, ExttsAssumption DEF Fault

(* What a poll does to the PLLs, its local definitions as parameters.      *)
PollStep(failed, rearmed, unarmed) ==
  /\ rearmed = IF singleShot THEN {} ELSE Happened(mask \ failed)
  /\ Fail(failed \cup unarmed)
  /\ Posts(mask \ failed)
  /\ Discards(mask \ failed)
  /\ trigger' = [i \in Plls |-> IF i \in rearmed \ unarmed THEN todTrigger[i] ELSE trigger[i]]
  /\ latched' \in [Plls -> Refs \cup {NoTrigger}]
  /\ \A i \in Plls : latched'[i] \in IF i \in rearmed \ unarmed THEN Remains(i, {})
                                    ELSE {IF i \in mask \ failed THEN NoTrigger ELSE latched[i]}
  /\ mask' = IF singleShot THEN mask \ Happened(mask \ failed) ELSE mask

LEMMA PollSteps ==
  ASSUME Poll
  PROVE  \E failed, rearmed, unarmed \in SUBSET mask :
           unarmed \subseteq rearmed /\ rearmed \subseteq mask \ failed
           /\ PollStep(failed, rearmed, unarmed)
PROOF
<1>1. PICK failed \in SUBSET mask :
        \E unarmed \in SUBSET IF singleShot THEN {} ELSE Happened(mask \ failed) :
          PollStep(failed, IF singleShot THEN {} ELSE Happened(mask \ failed), unarmed)
  BY DEF Poll, PollStep
<1> DEFINE rearmed == IF singleShot THEN {} ELSE Happened(mask \ failed)
<1>2. PICK unarmed \in SUBSET rearmed : PollStep(failed, rearmed, unarmed) BY <1>1
<1>3. rearmed \subseteq mask \ failed BY DEF Happened
<1> HIDE DEF rearmed
<1>4. rearmed \in SUBSET mask /\ unarmed \in SUBSET mask BY <1>3
<1> QED BY <1>2, <1>3, <1>4

LEMMA TypesStep == ASSUME TypeOK, ReaderInv, Next PROVE TypeOK'
PROOF
<1> USE ExttsAssumption DEF TypeOK, Actors, maskVars, deviceVars
<1>1. ASSUME NEW c \in Callers, NEW r \in Requests, Call(c, r) PROVE TypeOK'
  BY <1>1 DEF Call, Goto
<1>2. ASSUME NEW c \in Callers, Lock(c) PROVE TypeOK'
  BY <1>2 DEF Lock, Goto, Requests, Kinds
<1>3. ASSUME NEW c \in Callers, Operation(c) PROVE TypeOK'
  <2>1. CASE EnableReturns(c) BY <2>1 DEF EnableReturns, Return, Goto
  <2>2. ASSUME NEW ref \in Refs, Enable(c, ref) PROVE TypeOK'
    <3>1. req[c].pll \in Plls BY DEF Requests
    <3>2. mask' \subseteq Plls /\ singleShot' \in BOOLEAN /\ queued' \in BOOLEAN
      BY <2>2, <3>1 DEF Enable, is_one_shot
    <3>3. trigger' \in [Plls -> Triggers] /\ latched' \in [Plls -> Refs \cup {NoTrigger}]
      BY <2>2 DEF Enable, Armed, Triggers
    <3>5. event' \in [Plls -> {"none", "own", "slipped", "other", "read"}] BY <2>2 DEF Enable
    <3>4. todTrigger' \in [Plls -> Refs \cup {NoTrigger}] BY <2>2 DEF Enable, RememberTrigger
    <3> QED BY <2>2, <3>2, <3>3, <3>4, <3>5 DEF Enable, Return, Goto
  <2>3. CASE EnableFails(c)
    <3>1. errs' \in 0 .. MaxErrors BY <2>3, FaultCounts DEF EnableFails
    <3>2. latched' \in [Plls -> Refs \cup {NoTrigger}] BY <2>3 DEF EnableFails
    <3> QED BY <2>3, <3>1, <3>2 DEF EnableFails, Return, Goto
  <2>4. CASE Disable(c)
    <3>1. mask' \subseteq Plls /\ singleShot' \in BOOLEAN /\ queued' \in BOOLEAN
      BY <2>4 DEF Disable, is_one_shot
    <3> QED BY <2>4, <3>1 DEF Disable, Return, Goto
  <2>5. CASE CancelPoll(c) BY <2>5 DEF CancelPoll, Goto
  <2>6. CASE LastCheck(c)
    <3>1. PICK failed \in SUBSET mask :
            /\ Fail(failed)
            /\ Posts(mask \ failed)
            /\ Discards(mask \ failed)
            /\ latched' = [i \in Plls |-> IF i \in mask \ failed THEN NoTrigger ELSE latched[i]]
            /\ newMask' = [newMask EXCEPT ![c] =
                             mask \ (IF singleShot THEN Happened(mask \ failed) ELSE {})]
      BY <2>6 DEF LastCheck
    <3>2. errs' \in 0 .. MaxErrors BY <3>1, FailCounts
    <3>3. event' \in [Plls -> {"none", "own", "slipped", "other", "read"}]
      BY <3>1 DEF Posts, Source
    <3>4. discard' \in [Plls -> BOOLEAN] BY <3>1 DEF Discards
    <3>5. latched' \in [Plls -> Refs \cup {NoTrigger}] BY <3>1
    <3>6. newMask' \in [Callers -> SUBSET Plls] BY <3>1
    <3> QED BY <2>6, <3>2, <3>3, <3>4, <3>5, <3>6 DEF LastCheck, Goto
  <2>7. CASE SelectLsb(c) BY <2>7 DEF SelectLsb, Goto, Triggers
  <2>8. CASE ReadTod(c) BY <2>8 DEF ReadTod, Return, Goto
  <2>9. CASE GettimeFails(c)
    <3>1. errs' \in 0 .. MaxErrors BY <2>9, FaultCounts DEF GettimeFails
    <3> QED BY <2>9, <3>1 DEF GettimeFails, Return, Goto
  <2>10. CASE Restore(c)
    <3>1. PICK failed \in SUBSET newMask[c] :
            Fail(failed) /\ Armed(newMask[c], failed, [i \in Plls |-> todTrigger[req[c].clock]])
      BY <2>10 DEF Restore, RestoreArms
    <3>2. errs' \in 0 .. MaxErrors
      <4>1. failed \subseteq Plls OBVIOUS
      <4> QED BY <3>1, <4>1, FailCounts
    <3>3. todTrigger[req[c].clock] \in Triggers BY ExttsAssumption DEF Requests, Triggers
    <3>4. trigger' \in [Plls -> Triggers] /\ latched' \in [Plls -> Refs \cup {NoTrigger}]
      BY <3>1, <3>3 DEF Armed
    <3>5. shared' \in BOOLEAN BY <2>10 DEF Restore, RestoreArms
    <3> QED BY <2>10, <3>2, <3>4, <3>5 DEF Restore, Return, Goto
  <2> QED BY <1>3, <2>1, <2>2, <2>3, <2>4, <2>5, <2>6, <2>7, <2>8, <2>9, <2>10 DEF Operation
<1>4. CASE WorkExpires BY <1>4 DEF WorkExpires, Goto
<1>5. CASE TestMask BY <1>5 DEF TestMask, Goto
<1>6. CASE Poll
  <2>0. PICK failed, rearmed, unarmed \in SUBSET mask :
          unarmed \subseteq rearmed /\ rearmed \subseteq mask \ failed
          /\ PollStep(failed, rearmed, unarmed)
    BY <1>6, PollSteps
  <2>1. /\ Fail(failed \cup unarmed)
        /\ Posts(mask \ failed)
        /\ Discards(mask \ failed)
        /\ mask' = IF singleShot THEN mask \ Happened(mask \ failed) ELSE mask
        /\ trigger' = [i \in Plls |-> IF i \in rearmed \ unarmed THEN todTrigger[i] ELSE trigger[i]]
        /\ latched' \in [Plls -> Refs \cup {NoTrigger}]
    BY <2>0 DEF PollStep
  <2>2. errs' \in 0 .. MaxErrors
    <3>1. failed \cup unarmed \in SUBSET Plls OBVIOUS
    <3> QED BY <2>1, <3>1, FailCounts
  <2>3. event' \in [Plls -> {"none", "own", "slipped", "other", "read"}]
    BY <2>1 DEF Posts, Source
  <2>4. discard' \in [Plls -> BOOLEAN] BY <2>1 DEF Discards
  <2>6. mask' \subseteq Plls BY <2>1
  <2>7. trigger' \in [Plls -> Triggers] BY <2>1 DEF Triggers
  <2>8. queued' \in BOOLEAN BY <1>6 DEF Poll
  <2> QED BY <1>6, <2>1, <2>2, <2>3, <2>4, <2>6, <2>7, <2>8 DEF Poll, Goto
<1>8. ASSUME NEW i \in Plls, Edge(i) PROVE TypeOK'
  BY <1>8 DEF Edge
<1> QED BY <1>1, <1>2, <1>3, <1>4, <1>5, <1>6, <1>8 DEF Next

LEMMA MutexStep == ASSUME TypeOK, ReaderInv, Next PROVE MutexInv'
PROOF
<1> USE ExttsAssumption DEF TypeOK, Actors, maskVars, deviceVars, ReaderInv, MutexInv, Holding, Reading
<1>1. ASSUME NEW c \in Callers, NEW r \in Requests, Call(c, r) PROVE MutexInv'
  BY <1>1 DEF Call, Goto
<1>2. ASSUME NEW c \in Callers, Lock(c) PROVE MutexInv'
  BY <1>2 DEF Lock, Goto, Requests, Kinds
<1>3. ASSUME NEW c \in Callers, Operation(c) PROVE MutexInv'
  <2>1. CASE EnableReturns(c) BY <2>1 DEF EnableReturns, Return, Goto
  <2>2. ASSUME NEW ref \in Refs, Enable(c, ref) PROVE MutexInv'
    BY <2>2 DEF Enable, Return, Goto
  <2>3. CASE EnableFails(c) BY <2>3 DEF EnableFails, Fault, Return, Goto
  <2>4. CASE Disable(c) BY <2>4 DEF Disable, Return, Goto
  <2>5. CASE CancelPoll(c) BY <2>5 DEF CancelPoll, Goto
  <2>6. CASE LastCheck(c) BY <2>6 DEF LastCheck, PollIsOver, Posts, Discards, Goto
  <2>7. CASE SelectLsb(c) BY <2>7 DEF SelectLsb, Goto
  <2>8. CASE ReadTod(c) BY <2>8 DEF ReadTod, Return, Goto
  <2>9. CASE GettimeFails(c) BY <2>9 DEF GettimeFails, Fault, Return, Goto
  <2>10. CASE Restore(c) BY <2>10 DEF Restore, Return, Goto
  <2> QED BY <1>3, <2>1, <2>2, <2>3, <2>4, <2>5, <2>6, <2>7, <2>8, <2>9, <2>10 DEF Operation
<1>4. CASE WorkExpires BY <1>4 DEF WorkExpires, Goto
<1>5. CASE TestMask BY <1>5 DEF TestMask, Goto
<1>6. CASE Poll BY <1>6 DEF Poll, Posts, Discards, Goto
<1>8. ASSUME NEW i \in Plls, Edge(i) PROVE MutexInv'
  BY <1>8 DEF Edge
<1> QED BY <1>1, <1>2, <1>3, <1>4, <1>5, <1>6, <1>8 DEF Next

LEMMA AloneStep == ASSUME TypeOK, ReaderInv, Next PROVE AloneInv'
PROOF
<1> USE ExttsAssumption DEF TypeOK, Actors, maskVars, deviceVars, ReaderInv, MutexInv, Holding, Reading, AloneInv
<1>1. ASSUME NEW c \in Callers, NEW r \in Requests, Call(c, r) PROVE AloneInv'
  BY <1>1 DEF Call, Goto
<1>2. ASSUME NEW c \in Callers, Lock(c) PROVE AloneInv'
  BY <1>2 DEF Lock, Goto, Requests, Kinds
<1>3. ASSUME NEW c \in Callers, Operation(c) PROVE AloneInv'
  <2>1. CASE EnableReturns(c) BY <2>1 DEF EnableReturns, Return, Goto
  <2>2. ASSUME NEW ref \in Refs, Enable(c, ref) PROVE AloneInv'
    BY <2>2 DEF Enable, Return, Goto
  <2>3. CASE EnableFails(c) BY <2>3 DEF EnableFails, Fault, Return, Goto
  <2>4. CASE Disable(c) BY <2>4 DEF Disable, Return, Goto
  <2>5. CASE CancelPoll(c)
    <3>1. \A b \in Callers : b # c => pc'[b] \notin {"wait"} \cup Reading BY <2>5 DEF CancelPoll, Goto
    <3>2. newMask' = newMask /\ pc'[Worker] = pc[Worker] BY <2>5 DEF CancelPoll, Goto
    <3>3. CASE mask = {} BY <2>5, <3>1, <3>2, <3>3 DEF CancelPoll, Goto
    <3>4. CASE mask # {} BY <2>5, <3>1, <3>2, <3>4 DEF CancelPoll, Goto
    <3> QED BY <3>3, <3>4
  <2>6. CASE LastCheck(c) BY <2>6 DEF LastCheck, PollIsOver, Posts, Discards, Goto
  <2>7. CASE SelectLsb(c) BY <2>7 DEF SelectLsb, Goto
  <2>8. CASE ReadTod(c) BY <2>8 DEF ReadTod, Return, Goto
  <2>9. CASE GettimeFails(c) BY <2>9 DEF GettimeFails, Fault, Return, Goto
  <2>10. CASE Restore(c) BY <2>10 DEF Restore, Return, Goto
  <2> QED BY <1>3, <2>1, <2>2, <2>3, <2>4, <2>5, <2>6, <2>7, <2>8, <2>9, <2>10 DEF Operation
<1>4. CASE WorkExpires BY <1>4 DEF WorkExpires, Goto
<1>5. CASE TestMask BY <1>5 DEF TestMask, Goto
<1>6. CASE Poll BY <1>6 DEF Poll, Posts, Discards, Goto
<1>8. ASSUME NEW i \in Plls, Edge(i) PROVE AloneInv'
  BY <1>8 DEF Edge
<1> QED BY <1>1, <1>2, <1>3, <1>4, <1>5, <1>6, <1>8 DEF Next

(* What an enabled PLL has latched says where its event comes from.        *)
LEMMA NoOtherSource ==
  ASSUME LatchInv, NEW i \in mask, Differs(i)
  PROVE  Source(i) # "other"
PROOF BY ExttsAssumption DEF LatchInv, Source, Differs

LEMMA OwnStep == ASSUME TypeOK, ReaderInv, OwnInv, Next PROVE OwnInv'
PROOF
<1> USE ExttsAssumption DEF TypeOK, Actors, maskVars, deviceVars, ReaderInv, MutexInv, Holding, Reading, OwnInv, LatchInv
<1>1. ASSUME NEW c \in Callers, NEW r \in Requests, Call(c, r) PROVE OwnInv'
  BY <1>1 DEF Call, Goto
<1>2. ASSUME NEW c \in Callers, Lock(c) PROVE OwnInv'
  BY <1>2 DEF Lock, Goto, Requests, Kinds
<1>3. ASSUME NEW c \in Callers, Operation(c) PROVE OwnInv'
  <2>1. CASE EnableReturns(c) BY <2>1 DEF EnableReturns, Return, Goto
  <2>2. ASSUME NEW ref \in Refs, Enable(c, ref) PROVE OwnInv'
    <3> DEFINE q == req[c].pll
    <3>1. q \in Plls BY DEF Requests
    <3>2. mask' = mask \cup {q} /\ shared' = shared BY <2>2 DEF Enable
    <3>3. \A b \in Callers : pc'[b] \notin Reading BY <2>2 DEF Enable, Return, Goto
    <3>4. \A i \in Plls : i # q => /\ trigger'[i] = trigger[i] /\ latched'[i] = latched[i]
                                  /\ todTrigger'[i] = todTrigger[i] /\ event'[i] = event[i]
      BY <2>2 DEF Enable, Armed, RememberTrigger
    <3>5. trigger'[q] = ref /\ todTrigger'[q] = ref /\ event'[q] = "none"
      BY <2>2, <3>1 DEF Enable, Armed, RememberTrigger
    <3>6. \A i \in mask : i \in Plls OBVIOUS
    <3> HIDE DEF q, TypeOK, MutexInv
    <3> QED BY <3>1, <3>2, <3>3, <3>4, <3>5, <3>6
  <2>3. CASE EnableFails(c)
    <3>1. \A i \in Plls : latched'[i] \in {latched[i], NoTrigger} BY <2>3 DEF EnableFails
    <3> QED BY <2>3, <3>1 DEF EnableFails, Return, Goto
  <2>4. CASE Disable(c)
    <3>1. mask' \subseteq mask /\ UNCHANGED <<todTrigger, deviceVars>> BY <2>4 DEF Disable
    <3>2. \A b \in Callers : pc'[b] \notin Reading BY <2>4 DEF Disable, Return, Goto
    <3> QED BY <3>1, <3>2
  <2>5. CASE CancelPoll(c) BY <2>5 DEF CancelPoll, Goto, AloneInv
  <2>6. CASE LastCheck(c)
    <3>1. PICK failed \in SUBSET mask :
            /\ Posts(mask \ failed)
            /\ latched' = [i \in Plls |-> IF i \in mask \ failed THEN NoTrigger ELSE latched[i]]
            /\ newMask' = [newMask EXCEPT ![c] =
                             mask \ (IF singleShot THEN Happened(mask \ failed) ELSE {})]
      BY <2>6 DEF LastCheck
    <3>2. \A i \in Plls : \/ event'[i] = event[i]
                          \/ i \in mask \ failed /\ Differs(i) /\ event'[i] = Source(i)
      BY <3>1 DEF Posts, Happened
    <3>3. UNCHANGED <<mask, trigger, todTrigger, shared>> BY <2>6 DEF LastCheck
    <3>4. \A b \in Callers : pc'[b] \in Reading => newMask'[b] \subseteq mask
      BY <2>6, <3>1 DEF LastCheck, Goto
    <3>5. ~shared => \A i \in Plls : event'[i] # "other" BY <3>2, NoOtherSource
    <3>6. \A i \in mask : latched'[i] = NoTrigger \/ (latched'[i] = latched[i] /\ event'[i] = event[i])
      BY <3>1, <3>2
    <3> QED BY <3>3, <3>4, <3>5, <3>6
  <2>7. CASE SelectLsb(c) BY <2>7 DEF SelectLsb, Goto
  <2>8. CASE ReadTod(c) BY <2>8 DEF ReadTod, Return, Goto
  <2>9. CASE GettimeFails(c) BY <2>9 DEF GettimeFails, Return, Goto
  <2>10. CASE Restore(c)
    <3> DEFINE own == todTrigger[req[c].clock]
    <3>1. PICK failed \in SUBSET newMask[c] : Armed(newMask[c], failed, [i \in Plls |-> own])
      BY <2>10 DEF Restore, RestoreArms
    <3>2. newMask[c] \subseteq mask BY <2>10 DEF Restore
    <3>3. UNCHANGED <<mask, todTrigger, event>> BY <2>10 DEF Restore
    <3>4. \A b \in Callers : pc'[b] \notin Reading BY <2>10 DEF Restore, Return, Goto
    <3>5. ~shared' => ~shared /\ \A i \in newMask[c] : todTrigger[i] = own
      BY <2>10 DEF Restore, RestoreArms
    <3>6. ASSUME ~shared', NEW i \in mask
          PROVE  /\ trigger'[i] \in {Lsb, todTrigger[i]}
                 /\ trigger'[i] = Lsb \/ latched'[i] \in {NoTrigger, todTrigger[i]} \/ event[i] = "none"
      <4>1. CASE i \in newMask[c] \ failed
        <5>1. trigger'[i] = todTrigger[i] BY <3>1, <3>5, <3>6, <4>1 DEF Armed
        <5>2. latched'[i] \in {NoTrigger} \cup ({trigger[i]} \cap Refs)
          BY <3>1, <3>2, <4>1 DEF Armed, Remains
        <5>3. trigger[i] \in {Lsb, todTrigger[i]} BY <3>5, <3>6
        <5> QED BY <5>1, <5>2, <5>3
      <4>2. CASE i \notin newMask[c] \ failed
        <5>1. trigger'[i] = trigger[i] BY <3>1, <4>2 DEF Armed
        <5>2. latched'[i] \in {latched[i], NoTrigger} BY <3>1, <4>2 DEF Armed, Remains
        <5> QED BY <3>5, <3>6, <5>1, <5>2
      <4> QED BY <4>1, <4>2
    <3> QED BY <3>3, <3>4, <3>5, <3>6
  <2> QED BY <1>3, <2>1, <2>2, <2>3, <2>4, <2>5, <2>6, <2>7, <2>8, <2>9, <2>10 DEF Operation
<1>4. CASE WorkExpires BY <1>4 DEF WorkExpires, Goto
<1>5. CASE TestMask BY <1>5 DEF TestMask, Goto
<1>6. CASE Poll
  <2>0. PICK failed, rearmed, unarmed \in SUBSET mask :
          unarmed \subseteq rearmed /\ rearmed \subseteq mask \ failed
          /\ PollStep(failed, rearmed, unarmed)
    BY <1>6, PollSteps
  <2>1. /\ Posts(mask \ failed)
        /\ mask' = IF singleShot THEN mask \ Happened(mask \ failed) ELSE mask
        /\ trigger' = [i \in Plls |-> IF i \in rearmed \ unarmed THEN todTrigger[i] ELSE trigger[i]]
        /\ \A i \in Plls : latched'[i] \in IF i \in rearmed \ unarmed THEN Remains(i, {})
                                          ELSE {IF i \in mask \ failed THEN NoTrigger ELSE latched[i]}
    BY <2>0 DEF PollStep
  <2>2. \A i \in Plls : \/ event'[i] = event[i]
                        \/ i \in mask \ failed /\ Differs(i) /\ event'[i] = Source(i)
    BY <2>1 DEF Posts, Happened
  <2>3. ~shared => \A i \in Plls : event'[i] # "other" BY <2>2, NoOtherSource
  <2>4. \A b \in Callers : pc'[b] \notin Reading BY <1>6 DEF Poll, Goto
  <2>5. mask' \subseteq mask /\ UNCHANGED <<todTrigger, shared>> BY <1>6, <2>1 DEF Poll
  <2>6. ASSUME ~shared, NEW i \in mask
        PROVE  /\ trigger'[i] \in {Lsb, todTrigger[i]}
               /\ \/ latched'[i] \in {NoTrigger, todTrigger[i]}
                  \/ latched'[i] = latched[i] /\ event'[i] = event[i] /\ trigger'[i] = trigger[i]
    <3>1. trigger[i] \in {Lsb, todTrigger[i]} BY <2>6
    <3>2. CASE i \in rearmed \ unarmed BY <2>1, <3>1, <3>2 DEF Remains
    <3>3. CASE i \notin rearmed \ unarmed BY <2>1, <2>2, <3>1, <3>3
    <3> QED BY <3>2, <3>3
  <2> QED BY <2>3, <2>4, <2>5, <2>6
<1>8. ASSUME NEW i \in Plls, Edge(i) PROVE OwnInv'
  BY <1>8 DEF Edge
<1> QED BY <1>1, <1>2, <1>3, <1>4, <1>5, <1>6, <1>8 DEF Next

(* With one PLL the mask is empty or everything, which is not single shot. *)
LEMMA OnePllSets ==
  ASSUME NEW p, Plls = {p}, NEW m \in SUBSET Plls
  PROVE  m # {} => m = Plls /\ ~is_one_shot(m)
PROOF
<1>1. m # {} => m = {p} OBVIOUS
<1>2. Cardinality({p}) = 1 BY FS_Singleton
<1> QED BY <1>1, <1>2 DEF is_one_shot

LEMMA OnePllRequests ==
  ASSUME NEW p, Plls = {p}, TypeOK, NEW c \in Callers
  PROVE  req[c].pll = p /\ req[c].clock = p
PROOF
<1>1. req[c] \in Requests BY DEF TypeOK
<1> QED BY <1>1, ExttsAssumption DEF Requests

LEMMA KeptStep == ASSUME NEW p, Plls = {p}, TypeOK, ReaderInv, OwnInv, OnePllInv, Next PROVE KeptInv'
PROOF
<1> USE ExttsAssumption DEF TypeOK, Actors, maskVars, deviceVars, ReaderInv, MutexInv, Holding, Reading, OnePllInv, KeptInv
<1>1. ASSUME NEW c \in Callers, NEW r \in Requests, Call(c, r) PROVE KeptInv'
  BY <1>1 DEF Call, Goto
<1>2. ASSUME NEW c \in Callers, Lock(c) PROVE KeptInv'
  BY <1>2 DEF Lock, Goto, Requests, Kinds
<1>3. ASSUME NEW c \in Callers, Operation(c) PROVE KeptInv'
  <2>1. CASE EnableReturns(c) BY <2>1 DEF EnableReturns, Return, Goto
  <2>2. ASSUME NEW ref \in Refs, Enable(c, ref) PROVE KeptInv'
    <3>1. mask' \in SUBSET Plls BY <1>3, <2>2 DEF Enable, Requests
    <3>2. singleShot' = is_one_shot(mask') BY <2>2 DEF Enable
    <3>3. mask' # {} => ~singleShot'
      <4>1. ~is_one_shot(Plls) BY OnePllSets
      <4> QED BY <3>1, <3>2, <4>1, OnePllSets
    <3>4. \A b \in Callers : pc'[b] \notin Reading BY <2>2 DEF Enable, Return, Goto
    <3> QED BY <3>3, <3>4
  <2>3. CASE EnableFails(c) BY <2>3 DEF EnableFails, Fault, Return, Goto
  <2>4. CASE Disable(c)
    <3>1. mask' = {}
      <4>1. req[c].pll = p BY DEF Requests
      <4> QED BY <2>4, <4>1 DEF Disable
    <3>2. \A b \in Callers : pc'[b] \notin Reading BY <2>4 DEF Disable, Return, Goto
    <3> QED BY <3>1, <3>2
  <2>5. CASE CancelPoll(c)
    <3>1. newMask[c] = {} BY <2>5 DEF CancelPoll, AloneInv
    <3>2. \A b \in Callers : b # c => pc'[b] \notin Reading BY <2>5 DEF CancelPoll, Goto
    <3>3. mask = {} \/ pc'[c] = "wait" BY <2>5 DEF CancelPoll, Goto
    <3> QED BY <2>5, <3>1, <3>2, <3>3 DEF CancelPoll
  <2>6. CASE LastCheck(c)
    <3>1. newMask'[c] = mask /\ \A b \in Callers : b # c => newMask'[b] = newMask[b]
      <4>1. PICK failed \in SUBSET mask :
              newMask' = [newMask EXCEPT ![c] =
                            mask \ (IF singleShot THEN Happened(mask \ failed) ELSE {})]
        BY <2>6 DEF LastCheck
      <4> QED BY <4>1
    <3>2. \A b \in Callers : b # c => pc'[b] \notin Reading BY <2>6 DEF LastCheck, Goto
    <3> QED BY <2>6, <3>1, <3>2 DEF LastCheck
  <2>7. CASE SelectLsb(c) BY <2>7 DEF SelectLsb, Goto
  <2>8. CASE ReadTod(c) BY <2>8 DEF ReadTod, Return, Goto
  <2>9. CASE GettimeFails(c) BY <2>9 DEF GettimeFails, Fault, Return, Goto
  <2>10. CASE Restore(c) BY <2>10 DEF Restore, Return, Goto
  <2> QED BY <1>3, <2>1, <2>2, <2>3, <2>4, <2>5, <2>6, <2>7, <2>8, <2>9, <2>10 DEF Operation
<1>4. CASE WorkExpires BY <1>4 DEF WorkExpires, Goto
<1>5. CASE TestMask BY <1>5 DEF TestMask, Goto
<1>6. CASE Poll
  <2>1. \A c \in Callers : pc'[c] \notin Reading BY <1>6 DEF Poll, Goto
  <2>2. mask' \subseteq mask /\ singleShot' = singleShot BY <1>6 DEF Poll
  <2> QED BY <2>1, <2>2
<1>8. ASSUME NEW i \in Plls, Edge(i) PROVE KeptInv'
  BY <1>8 DEF Edge
<1> QED BY <1>1, <1>2, <1>3, <1>4, <1>5, <1>6, <1>8 DEF Next

LEMMA TriggerStep == ASSUME NEW p, Plls = {p}, TypeOK, ReaderInv, OwnInv, OnePllInv, Next PROVE TriggerInv'
PROOF
<1> USE ExttsAssumption DEF TypeOK, Actors, maskVars, deviceVars, ReaderInv, MutexInv, Holding, Reading, OnePllInv, KeptInv, TriggerInv, Requests
<1>1. ASSUME NEW c \in Callers, NEW r \in Requests, Call(c, r) PROVE TriggerInv'
  BY <1>1 DEF Call, Goto
<1>2. ASSUME NEW c \in Callers, Lock(c) PROVE TriggerInv'
  BY <1>2 DEF Lock, Goto
<1>3. ASSUME NEW c \in Callers, Operation(c) PROVE TriggerInv'
  <2>1. CASE EnableReturns(c) BY <2>1 DEF EnableReturns, Return, Goto
  <2>2. ASSUME NEW ref \in Refs, Enable(c, ref) PROVE TriggerInv'
    <3>0. req[c].pll = p BY OnePllRequests
    <3>1. mask' = {p} /\ req[c].pll = p BY <2>2, <3>0 DEF Enable
    <3>2. trigger'[p] = ref BY <2>2, <3>1 DEF Enable, Armed
    <3>3. todTrigger'[p] = ref BY <2>2, <3>1 DEF Enable, RememberTrigger
    <3>4. errs' = errs /\ \A i \in Plls : event'[i] \in {event[i], "none"} BY <2>2 DEF Enable
    <3>5. \A i \in mask' : trigger'[i] = ref /\ todTrigger'[i] = ref BY <3>1, <3>2, <3>3
    <3> HIDE DEF TypeOK, KeptInv
    <3> QED BY <3>4, <3>5
  <2>3. CASE EnableFails(c)
    <3>1. errs' # 0 BY <2>3, FaultCounts DEF EnableFails
    <3> QED BY <3>1
  <2>4. CASE Disable(c) BY <2>4 DEF Disable, Return, Goto
  <2>5. CASE CancelPoll(c) BY <2>5 DEF CancelPoll, Goto
  <2>6. CASE LastCheck(c)
    <3>1. PICK failed \in SUBSET mask : Fail(failed) /\ Posts(mask \ failed)
      BY <2>6 DEF LastCheck
    <3>2. errs' = 0 => errs = 0 BY <3>1, FailCounts
    <3>3. \A i \in Plls : event'[i] = event[i] \/ (i \in mask /\ event'[i] = Source(i))
      BY <3>1 DEF Posts, Happened
    <3>5. \A b \in Callers : pc[b] \notin {"read", "restore"} BY <2>6 DEF LastCheck
    <3>6. errs = 0 => \A i \in mask : trigger[i] = todTrigger[i] /\ Source(i) # "read"
      BY <3>5, ExttsAssumption DEF Source, OwnInv
    <3>7. UNCHANGED <<mask, trigger, todTrigger>> BY <2>6 DEF LastCheck
    <3>8. errs' = 0 => \A i \in Plls : event'[i] # "read" BY <3>2, <3>3, <3>6
    <3>9. errs' = 0 => \A i \in mask : trigger[i] = todTrigger[i] BY <3>2, <3>6
    <3> HIDE DEF TypeOK, KeptInv
    <3> QED BY <3>7, <3>8, <3>9
  <2>7. CASE SelectLsb(c) BY <2>7 DEF SelectLsb, Goto
  <2>8. CASE ReadTod(c)
    <3>1. CASE newMask[c] = {}
      <4>1. mask = {} BY <2>8, <3>1 DEF ReadTod
      <4> QED BY <2>8, <4>1 DEF ReadTod
    <3>2. CASE newMask[c] # {} BY <2>8, <3>2 DEF ReadTod, Goto
    <3> QED BY <3>1, <3>2
  <2>9. CASE GettimeFails(c)
    <3>1. errs' # 0 BY <2>9, FaultCounts DEF GettimeFails
    <3> QED BY <3>1
  <2>10. CASE Restore(c)
    <3>1. PICK failed \in SUBSET newMask[c] :
            Fail(failed) /\ Armed(newMask[c], failed, [i \in Plls |-> todTrigger[req[c].clock]])
      BY <2>10 DEF Restore, RestoreArms
    <3>2. req[c].clock = p /\ newMask[c] = mask BY <2>10, OnePllRequests DEF Restore
    <3>3. errs' = 0 => errs = 0 /\ failed = {}
      <4>1. failed \in SUBSET Plls BY <3>2
      <4> QED BY <3>1, <4>1, FailCounts
    <3>4. \A i \in mask : failed = {} => trigger'[i] = todTrigger[i]
      BY <3>1, <3>2 DEF Armed
    <3>5. UNCHANGED <<mask, todTrigger, event>> BY <2>10 DEF Restore
    <3> QED BY <3>3, <3>4, <3>5
  <2> QED BY <1>3, <2>1, <2>2, <2>3, <2>4, <2>5, <2>6, <2>7, <2>8, <2>9, <2>10 DEF Operation
<1>4. CASE WorkExpires BY <1>4 DEF WorkExpires, Goto
<1>5. CASE TestMask BY <1>5 DEF TestMask, Goto
<1>6. CASE Poll
  <2>0. PICK failed, rearmed, unarmed \in SUBSET mask :
          unarmed \subseteq rearmed /\ rearmed \subseteq mask \ failed
          /\ PollStep(failed, rearmed, unarmed)
    BY <1>6, PollSteps
  <2>1. /\ Fail(failed \cup unarmed)
        /\ Posts(mask \ failed)
        /\ mask' = IF singleShot THEN mask \ Happened(mask \ failed) ELSE mask
        /\ trigger' = [i \in Plls |-> IF i \in rearmed \ unarmed THEN todTrigger[i] ELSE trigger[i]]
    BY <2>0 DEF PollStep
  <2>2. errs' = 0 => errs = 0
    <3>1. failed \cup unarmed \in SUBSET Plls OBVIOUS
    <3> QED BY <2>1, <3>1, FailCounts
  <2>3. \A i \in Plls : event'[i] = event[i] \/ (i \in mask /\ event'[i] = Source(i))
    BY <2>1 DEF Posts, Happened
  <2>5. \A b \in Callers : pc[b] \notin {"read", "restore"} BY <1>6, ExttsAssumption DEF Poll
  <2>6. errs = 0 => \A i \in mask : trigger[i] = todTrigger[i] /\ Source(i) # "read"
    BY <2>5, ExttsAssumption DEF Source, OwnInv
  <2>7. mask' \subseteq mask /\ todTrigger' = todTrigger BY <1>6, <2>1 DEF Poll
  <2>8. \A i \in mask' : trigger'[i] \in {trigger[i], todTrigger[i]} BY <2>1, <2>7
  <2>9. errs' = 0 => \A i \in Plls : event'[i] # "read" BY <2>2, <2>3, <2>6
  <2>10. errs' = 0 => \A i \in mask' : trigger'[i] = todTrigger'[i] BY <2>2, <2>6, <2>7, <2>8
  <2> HIDE DEF TypeOK, KeptInv
  <2> QED BY <2>9, <2>10
<1>8. ASSUME NEW i \in Plls, Edge(i) PROVE TriggerInv'
  BY <1>8 DEF Edge
<1> QED BY <1>1, <1>2, <1>3, <1>4, <1>5, <1>6, <1>8 DEF Next

LEMMA PolledStep == ASSUME NEW p, Plls = {p}, TypeOK, ReaderInv, OwnInv, OnePllInv, Next PROVE PolledInv'
PROOF
<1> USE ExttsAssumption DEF TypeOK, Actors, maskVars, deviceVars, ReaderInv, MutexInv, Holding, Reading, OnePllInv, KeptInv, PolledInv, Requests
<1>1. ASSUME NEW c \in Callers, NEW r \in Requests, Call(c, r) PROVE PolledInv'
  BY <1>1 DEF Call, Goto
<1>2. ASSUME NEW c \in Callers, Lock(c) PROVE PolledInv'
  BY <1>2 DEF Lock, Goto
<1>3. ASSUME NEW c \in Callers, Operation(c) PROVE PolledInv'
  <2>1. CASE EnableReturns(c) BY <2>1 DEF EnableReturns, Return, Goto
  <2>2. CASE \E ref \in Refs : Enable(c, ref) BY <2>2 DEF Enable, Armed, RememberTrigger, Return, Goto
  <2>3. CASE EnableFails(c)
    <3>1. errs' # 0 BY <2>3, FaultCounts DEF EnableFails
    <3> QED BY <3>1
  <2>4. CASE Disable(c) BY <2>4 DEF Disable, Return, Goto
  <2>5. CASE CancelPoll(c) BY <2>5 DEF CancelPoll, Goto
  <2>6. CASE LastCheck(c) BY <2>6 DEF LastCheck, PollIsOver, Posts, Discards, Goto
  <2>7. CASE SelectLsb(c) BY <2>7 DEF SelectLsb, Goto
  <2>8. CASE ReadTod(c) BY <2>8 DEF ReadTod, Return, Goto
  <2>9. CASE GettimeFails(c)
    <3>1. errs' # 0 BY <2>9, FaultCounts DEF GettimeFails
    <3> QED BY <3>1
  <2>10. CASE Restore(c) BY <2>10 DEF Restore, Return, Goto
  <2> QED BY <1>3, <2>1, <2>2, <2>3, <2>4, <2>5, <2>6, <2>7, <2>8, <2>9, <2>10 DEF Operation
<1>4. CASE WorkExpires BY <1>4 DEF WorkExpires, Goto
<1>5. CASE TestMask BY <1>5 DEF TestMask, Goto
<1>6. CASE Poll BY <1>6 DEF Poll, Posts, Discards, Goto
<1>8. ASSUME NEW i \in Plls, Edge(i) PROVE PolledInv'
  BY <1>8 DEF Edge
<1> QED BY <1>1, <1>2, <1>3, <1>4, <1>5, <1>6, <1>8 DEF Next

-----------------------------------------------------------------------------
LEMMA ReaderInit == Init => TypeOK /\ ReaderInv
PROOF
<1> SUFFICES ASSUME Init PROVE TypeOK /\ ReaderInv OBVIOUS
<1>1. TypeOK
  <2>1. req \in [Callers -> Requests]
    <3>1. [kind : {"gettime"}, clock : Clocks, pll : Plls] \subseteq Requests
      BY DEF Requests, Kinds
    <3> QED BY <3>1 DEF Init
  <2>2. 0 \in 0 .. MaxErrors BY ExttsAssumption
  <2>3. trigger \in [Plls -> Triggers] BY DEF Init, Triggers
  <2>4. event \in [Plls -> {"none", "own", "slipped", "other", "read"}] BY DEF Init
  <2>5. discard \in [Plls -> BOOLEAN] /\ latched \in [Plls -> Refs \cup {NoTrigger}] BY DEF Init
  <2> QED BY <2>1, <2>2, <2>3, <2>4, <2>5 DEF Init, TypeOK, Actors
<1>2. ReaderInv
  BY ExttsAssumption DEF Init, ReaderInv, MutexInv, AloneInv, Holding, Reading, Actors
<1> QED BY <1>1, <1>2

LEMMA OnePllInit == Init => OnePllInv
PROOF BY ExttsAssumption
      DEF Init, OnePllInv, KeptInv, TriggerInv, PolledInv, Reading, Actors

LEMMA OwnInit == Init => OwnInv
PROOF BY DEF Init, OwnInv, LatchInv, Reading, Actors

LEMMA ReaderStep == TypeOK /\ ReaderInv /\ [Next]_vars => TypeOK' /\ ReaderInv'
PROOF
<1> SUFFICES ASSUME TypeOK, ReaderInv, [Next]_vars PROVE TypeOK' /\ ReaderInv' OBVIOUS
<1>1. CASE Next BY <1>1, TypesStep, MutexStep, AloneStep DEF ReaderInv
<1>2. CASE UNCHANGED vars
  BY <1>2 DEF vars, maskVars, deviceVars, TypeOK, ReaderInv, MutexInv, AloneInv
<1> QED BY <1>1, <1>2

LEMMA OwnStepOrStutter == TypeOK /\ ReaderInv /\ OwnInv /\ [Next]_vars => OwnInv'
PROOF
<1> SUFFICES ASSUME TypeOK, ReaderInv, OwnInv, [Next]_vars PROVE OwnInv' OBVIOUS
<1>1. CASE Next BY <1>1, OwnStep
<1>2. CASE UNCHANGED vars
  BY <1>2 DEF vars, maskVars, deviceVars, OwnInv, LatchInv
<1> QED BY <1>1, <1>2

LEMMA OnePllStep ==
  ASSUME NEW p, Plls = {p}
  PROVE  TypeOK /\ ReaderInv /\ OwnInv /\ OnePllInv /\ [Next]_vars => OnePllInv'
PROOF
<1> SUFFICES ASSUME TypeOK, ReaderInv, OwnInv, OnePllInv, [Next]_vars PROVE OnePllInv' OBVIOUS
<1>1. CASE Next BY <1>1, KeptStep, TriggerStep, PolledStep DEF OnePllInv
<1>2. CASE UNCHANGED vars
  BY <1>2 DEF vars, maskVars, deviceVars, OnePllInv, KeptInv, TriggerInv, PolledInv
<1> QED BY <1>1, <1>2

(* The invariant of the mutex and of reading the clock.                    *)
THEOREM ReaderInvariant == Spec => [](TypeOK /\ ReaderInv)
PROOF BY ReaderInit, ReaderStep, PTL DEF Spec

(* Between turning time stamps off and on nothing but the reader touches   *)
(* TOD_STS, for any number of PLLs.                                        *)
THEOREM ReadersAreAlone == Spec => []ReaderIsAlone
PROOF
<1>1. ReaderInv => ReaderIsAlone BY DEF ReaderInv, AloneInv, Reading, ReaderIsAlone
<1> QED BY <1>1, ReaderInvariant, PTL

(* Once a reader that has the mutex waits for a poll that wants it, every  *)
(* call that is in the driver stays where it is.                           *)
THEOREM DeadlockLasts == Spec => StuckForEver
PROOF
<1>1. ASSUME TypeOK, ReaderInv, [Next]_vars, Stuck
      PROVE  Stuck' /\ \A c \in Callers : pc[c] # "idle" => pc'[c] = pc[c]
  <2>1. PICK r \in Callers : pc[r] = "wait" BY <1>1 DEF Stuck
  <2>2. lock = r /\ lock # Nobody /\ pc[Worker] = "lock"
    BY <1>1, <2>1, ExttsAssumption DEF ReaderInv, MutexInv, Holding, Stuck
  <2>3. \A c \in Callers : c # r => pc[c] \in {"idle", "lock"}
    BY <1>1, <2>2 DEF ReaderInv, MutexInv
  <2>4. \A a \in Actors : pc[a] # "idle" => pc'[a] = pc[a]
    <3>1. ASSUME NEW c \in Callers, NEW q \in Requests, Call(c, q)
          PROVE  \A a \in Actors : a # c => pc'[a] = pc[a]
      BY <3>1 DEF Call, Goto
    <3>2. ASSUME NEW c \in Callers, NEW q \in Requests, Call(c, q)
          PROVE  \A a \in Actors : pc[a] # "idle" => pc'[a] = pc[a]
      BY <3>1, <3>2 DEF Call
    <3>3. \A c \in Callers : ~Lock(c) BY <2>2 DEF Lock
    <3>4. \A c \in Callers : ~Operation(c)
      BY <2>1, <2>2, <2>3
         DEF Operation, EnableReturns, Enable, EnableFails, Disable, CancelPoll, LastCheck,
             PollIsOver, SelectLsb, ReadTod, GettimeFails, Restore
    <3>5. ~WorkExpires /\ ~TestMask /\ ~Poll
      BY <2>2 DEF WorkExpires, TestMask, Poll
    <3>6. ASSUME NEW i \in Plls, Edge(i) PROVE pc' = pc BY <3>6 DEF Edge
    <3>7. UNCHANGED vars => pc' = pc BY DEF vars
    <3> QED BY <1>1, <3>2, <3>3, <3>4, <3>5, <3>6, <3>7 DEF Next
  <2>5. Worker \in Actors /\ Callers \subseteq Actors BY DEF Actors
  <2> QED BY <2>1, <2>2, <2>4, <2>5 DEF Stuck
<1>2. TypeOK /\ ReaderInv /\ [Next]_vars
      => [Stuck => Stuck' /\ \A c \in Callers : pc[c] # "idle" => pc'[c] = pc[c]]_vars
  BY <1>1
<1> QED BY <1>2, ReaderInvariant, PTL DEF Spec, StuckForEver

(* Every event is an edge of the reference its PLL was enabled with, for   *)
(* any number of PLLs, unless a read of the clock has armed a PLL with the *)
(* trigger of another, and but for a first event that was latched before   *)
(* the trigger was selected.                                               *)
THEOREM OwnReference == Spec => []EventsFromOwnReference
PROOF
<1>1. Spec => []OwnInv
  <2>1. TypeOK /\ ReaderInv /\ OwnInv /\ [Next]_vars => OwnInv' BY OwnStepOrStutter
  <2> QED BY <2>1, OwnInit, ReaderInvariant, PTL DEF Spec
<1>2. OwnInv => EventsFromOwnReference BY DEF OwnInv, EventsFromOwnReference
<1> QED BY <1>1, <1>2, PTL

(* The invariant of a device with one PLL.                                 *)
THEOREM OnePllInvariant == ASSUME NEW p, Plls = {p} PROVE Spec => [](OwnInv /\ OnePllInv)
PROOF
<1>1. TypeOK /\ ReaderInv /\ OwnInv /\ OnePllInv /\ [Next]_vars => OwnInv' /\ OnePllInv'
  BY OwnStepOrStutter, OnePllStep
<1> QED BY <1>1, OwnInit, OnePllInit, ReaderInvariant, PTL DEF Spec

(* With one PLL, no read of the clock is taken for an edge.                *)
THEOREM OnePllNoEventFromRead ==
  ASSUME NEW p, Plls = {p} PROVE Spec => []NoEventFromReadUnlessFailed
PROOF
<1>1. OnePllInv => NoEventFromReadUnlessFailed
  BY DEF OnePllInv, TriggerInv, NoEventFromReadUnlessFailed
<1> QED BY <1>1, OnePllInvariant, PTL

(* With one PLL, no read of the clock leaves the poll off.                 *)
THEOREM OnePllStaysPolled ==
  ASSUME NEW p, Plls = {p} PROVE Spec => []EnabledIsPolledUnlessFailed
PROOF
<1>1. ReaderInv /\ OnePllInv => EnabledIsPolledUnlessFailed
  BY ExttsAssumption
     DEF ReaderInv, MutexInv, Holding, Reading, OnePllInv, PolledInv, EnabledIsPolledUnlessFailed
<1> QED BY <1>1, OnePllInvariant, ReaderInvariant, PTL
=============================================================================
