------------------------- MODULE CdevRequests_proofs -------------------------
(***************************************************************************)
(* Proofs about the requests of the character device: CmRequests, for any  *)
(* threads, units, lists and bounds, and Fc3Requests, for any depth of the *)
(* FIFO, any clocks, references and lists.                                 *)
(***************************************************************************)
EXTENDS CmRequests, Fc3Requests, FiniteSetTheorems, SequenceTheorems, TLAPS

(* What a request makes of a register is a register. *)
LEMMA ChangedType ==
  ASSUME NEW r \in Requests, NEW b \in Bytes
  PROVE  Changed(r, b) \in Bytes
<1>1. CASE r \in CombomodeRequests \cup HoldoverRequests \cup TdcGoRequests
  BY <1>1 DEF Changed, CombomodeRequests, HoldoverRequests, TdcGoRequests, Bytes
<1>2. CASE r \in RegWriteRequests
  BY <1>2 DEF Changed, RegWriteRequests
<1>3. CASE r \in PriorityRequests
  BY <1>3 DEF Changed, PriorityRequests
<1>4. CASE r \in PllModeRequests
  BY <1>4 DEF Changed, PllModeRequests, Bytes
<1> QED BY <1>1, <1>2, <1>3, <1>4 DEF Requests

LEMMA RequestType ==
  ASSUME NEW r \in Requests
  PROVE  /\ r.reg \in Registers
         /\ r.kind # "none"
         /\ r.kind = "tdc_go" => r.reg[1] = "tdc" /\ r.value \in 0 .. 1
         /\ r.kind = "priorities" => r.value \in Lists /\ r.reg[2] \in Units
<1>1. CASE r \in CombomodeRequests \cup HoldoverRequests \cup TdcGoRequests
  BY <1>1 DEF CombomodeRequests, HoldoverRequests, TdcGoRequests, Registers
<1>2. CASE r \in RegWriteRequests
  BY <1>2 DEF RegWriteRequests
<1>3. CASE r \in PriorityRequests
  BY <1>3 DEF PriorityRequests, Registers
<1>4. CASE r \in PllModeRequests
  BY <1>4 DEF PllModeRequests, Registers
<1> QED BY <1>1, <1>2, <1>3, <1>4 DEF Requests

(* A thread inside the driver has a request. *)
Busy == \A t \in Threads : pc[t] # "idle" => request[t] \in Requests
InTable ==
  \A t \in Threads : pc[t] = "table" =>
    request[t].kind = "priorities" /\ Len(request[t].value) <= NumSlots
TInv == TypeOK /\ Busy /\ InTable

LEMMA TypesInit == Init => TInv
<1> SUFFICES ASSUME Init PROVE TInv
  OBVIOUS
<1> USE RequestAssumption DEF RequestAssumption
<1>1. Reset \in Bytes
  BY DEF Reset, Bytes
<1>2. Disabled \in SlotBytes
  BY DEF Disabled, SlotBytes
<1>3. table \in [Units -> [Slots -> SlotBytes]]
  BY <1>2 DEF Init
<1>4. promised \in [Units -> SUBSET Lists] /\ asked \in [Registers -> SUBSET Bytes]
  BY <1>1 DEF Init
<1>5. group \in [Threads -> 0 .. MaxGroup] /\ index \in [Threads -> 1 .. NumSlots + 1]
  BY DEF Init
<1>6. TypeOK
  BY <1>1, <1>3, <1>4, <1>5 DEF Init, TypeOK
<1> QED
  BY <1>6 DEF Init, TInv, Busy, InTable

(* What GroupOf and SlotByte return. *)
LEMMA GroupType ==
  ASSUME NEW l \in Lists, NEW i \in Slots, NEW g \in 0 .. MaxGroup
  PROVE  GroupAfter(l, i, g) \in 0 .. MaxGroup /\ GroupOf(l, i, g) \in 0 .. MaxGroup
BY RequestAssumption DEF RequestAssumption, GroupAfter, GroupOf, NextGroup

LEMMA SlotType ==
  ASSUME NEW l \in Lists, NEW i \in Slots, NEW g \in 0 .. MaxGroup, NEW old,
         i <= Len(l) => Valid(l[i])
  PROVE  SlotByte(l, i, g, old) \in SlotBytes
<1> USE RequestAssumption DEF RequestAssumption
<1>1. CASE i > Len(l)
  BY <1>1 DEF SlotByte, Disabled, SlotBytes
<1>2. CASE ~(i > Len(l))
  <2>1. l \in Seq(Entries) /\ i \in 1 .. Len(l)
    BY <1>2 DEF Slots
  <2>2. l[i] \in Entries
    BY <2>1
  <2>3. l[i].ref \in 0 .. NumRefs - 1
    BY <1>2, <2>1, <2>2 DEF Entries, Valid
  <2> QED
    BY <1>2, <2>3, GroupType DEF SlotByte, SlotBytes
<1> QED BY <1>1, <1>2

LEMMA TypesStep == TInv /\ [Next]_vars => TInv'
<1> SUFFICES ASSUME TInv, [Next]_vars PROVE TInv'
  OBVIOUS
<1> USE RequestAssumption DEF RequestAssumption, TInv, TypeOK, Busy, InTable
<1>a. Reset \in Bytes
  BY DEF Reset, Bytes
<1>b. ASSUME NEW t \in Threads, pc[t] # "idle"
      PROVE  /\ request[t] \in Requests /\ request[t].reg \in Registers
             /\ \A b \in Bytes : Changed(request[t], b) \in Bytes
             /\ request[t].kind = "priorities" => List(t) \in Lists /\ Unit(t) \in Units
  BY <1>b, ChangedType, RequestType DEF List, Unit
<1>c. ASSUME NEW t \in Threads, pc[t] # "idle", NEW k \in BOOLEAN, Asked(t, k)
      PROVE  asked' \in [Registers -> SUBSET Bytes]
  <2> DEFINE old == asked[request[t].reg]
             new == {Changed(request[t], b) : b \in old} \cup (IF k THEN old ELSE {})
  <2>1. old \in SUBSET Bytes
    BY <1>b, <1>c
  <2>2. new \in SUBSET Bytes
    BY <2>1, <1>b, <1>c
  <2>3. asked' = [asked EXCEPT ![request[t].reg] = new]
    BY <1>c DEF Asked
  <2> HIDE DEF new
  <2> QED BY <2>2, <2>3
<1>d. ASSUME NEW t \in Threads, pc[t] # "idle", Succeeded(t) \/ Failed(t)
      PROVE  promised' \in [Units -> SUBSET Lists]
  <2>1. CASE request[t].kind = "priorities"
    <3>1. {List(t)} \in SUBSET Lists /\ {} \in SUBSET Lists
      BY <1>b, <1>d, <2>1
    <3> QED BY <1>d, <2>1, <3>1 DEF Succeeded, Failed
  <2>2. CASE request[t].kind # "priorities"
    BY <1>d, <2>2 DEF Succeeded, Failed
  <2> QED BY <2>1, <2>2
<1>e. ASSUME NEW t \in Threads, Return(t)
      PROVE  /\ pc' \in [Threads -> {"idle", "table", "read", "write"}]
             /\ request' \in [Threads -> Requests \cup {NoRequest}]
             /\ byte' \in [Threads -> Bytes]
             /\ index' \in [Threads -> 1 .. NumSlots + 1]
             /\ group' \in [Threads -> 0 .. MaxGroup]
             /\ lock' \in Threads \cup {Nobody}
             /\ Busy' /\ InTable'
  BY <1>a, <1>e DEF Return
<1>f. ASSUME NEW t \in Threads, pc[t] # "idle", Stored(t)
      PROVE  regs' \in [Registers -> Bytes]
  BY <1>b, <1>f DEF Stored
<1>g. ASSUME NEW t \in Threads, AtSlot(t), ~AtInvalid(t), SlotStored(t)
      PROVE  table' \in [Units -> [Slots -> SlotBytes]]
  <2>1. List(t) \in Lists /\ Unit(t) \in Units /\ index[t] \in Slots
    BY <1>b, <1>g DEF AtSlot, At, Slots
  <2>2. index[t] <= Len(List(t)) => Valid(List(t)[index[t]])
    BY <1>g DEF AtInvalid
  <2>3. \A old : SlotByte(List(t), index[t], group[t], old) \in SlotBytes
    BY <2>1, <2>2, SlotType
  <2> QED
    BY <1>g, <2>1, <2>3 DEF SlotStored
<1>h. Err => errs' \in 0 .. MaxErrors
  BY DEF Err
<1>1. ASSUME NEW t \in Threads, NEW r \in Requests, Start(t, r) PROVE TInv'
  <2>1. /\ pc' \in [Threads -> {"idle", "table", "read", "write"}]
        /\ request' \in [Threads -> Requests \cup {NoRequest}]
        /\ requests' \in 0 .. MaxRequests
    BY <1>1 DEF Start
  <2>2. Busy'
    BY <1>1 DEF Start
  <2>3. InTable'
    <3>1. pc'[t] = "table" => r.kind = "priorities"
      BY <1>1 DEF Start
    <3>2. request'[t] = r /\ \A u \in Threads \ {t} : pc'[u] = pc[u] /\ request'[u] = request[u]
      BY <1>1 DEF Start
    <3> QED BY <1>1, <3>1, <3>2 DEF Start, Accepted
  <2> QED BY <1>1, <2>1, <2>2, <2>3 DEF Start, localVars, ghostVars, probeVars
<1>2. ASSUME NEW t \in Threads, Read(t) PROVE TInv'
  BY <1>2, <1>b DEF Read, At, Goto, ghostVars, probeVars
<1>3. ASSUME NEW t \in Threads, ReadAlreadySet(t) PROVE TInv'
  BY <1>3, <1>c, <1>e DEF ReadAlreadySet, At, probeVars
<1>4. ASSUME NEW t \in Threads, ReadFails(t) PROVE TInv'
  BY <1>4, <1>d, <1>e, <1>h DEF ReadFails, At, probeVars
<1>5. ASSUME NEW t \in Threads, TdcReadFails(t) PROVE TInv'
  BY <1>5, <1>h DEF TdcReadFails, At, Goto, ghostVars, probeVars
<1>6. ASSUME NEW t \in Threads, Write(t) PROVE TInv'
  BY <1>6, <1>c, <1>d, <1>e, <1>f DEF Write, At, probeVars
<1>7. ASSUME NEW t \in Threads, WriteFails(t) PROVE TInv'
  <2>1. regs' \in [Registers -> Bytes]
    BY <1>7, <1>f DEF WriteFails, At
  <2> QED BY <1>7, <2>1, <1>c, <1>d, <1>e, <1>h DEF WriteFails, At, probeVars
<1>8. ASSUME NEW t \in Threads, WriteSlot(t) PROVE TInv'
  <2>1. index' \in [Threads -> 1 .. NumSlots + 1]
    BY <1>8 DEF WriteSlot, AtSlot
  <2>2. group' \in [Threads -> 0 .. MaxGroup]
    <3>1. List(t) \in Lists /\ index[t] \in Slots
      BY <1>8, <1>b DEF WriteSlot, AtSlot, At, Slots
    <3>2. GroupAfter(List(t), index[t], group[t]) \in 0 .. MaxGroup
      BY <3>1, GroupType
    <3> QED BY <1>8, <3>2 DEF WriteSlot
  <2>3. table' \in [Units -> [Slots -> SlotBytes]]
    BY <1>8, <1>g DEF WriteSlot
  <2> QED BY <1>8, <2>1, <2>2, <2>3 DEF WriteSlot, AtSlot, At, ghostVars, probeVars
<1>9. ASSUME NEW t \in Threads, WriteSlotFails(t) PROVE TInv'
  <2>1. table' \in [Units -> [Slots -> SlotBytes]]
    BY <1>9, <1>g DEF WriteSlotFails
  <2> QED BY <1>9, <2>1, <1>d, <1>e, <1>h DEF WriteSlotFails, AtSlot, At, probeVars
<1>10. ASSUME NEW t \in Threads, RefuseEntry(t) PROVE TInv'
  BY <1>10, <1>d, <1>e DEF RefuseEntry, AtSlot, At, probeVars
<1>11. ASSUME NEW t \in Threads, TableWritten(t) PROVE TInv'
  BY <1>11 DEF TableWritten, At, Goto, localVars, ghostVars, probeVars
<1>12. ASSUME NEW r \in Registers, NEW b \in ImageBytes,
              LoadRegister(r, b) \/ LoadRegisterFails(r, b)
       PROVE  TInv'
  <2>1. b \in Bytes
    BY DEF Bytes
  <2>2. regs' \in [Registers -> Bytes]
    BY <1>12, <2>1 DEF LoadRegister, LoadRegisterFails, RegisterLoaded
  <2>3. asked' \in [Registers -> SUBSET Bytes]
    <3>1. \/ asked' = [asked EXCEPT ![r] = {b}]
          \/ asked' = [asked EXCEPT ![r] = @ \cup {b}]
      BY <1>12 DEF LoadRegister, LoadRegisterFails
    <3>2. {b} \in SUBSET Bytes /\ asked[r] \cup {b} \in SUBSET Bytes
      BY <2>1
    <3> QED
      BY <3>1, <3>2
  <2> QED
    BY <1>12, <1>h, <2>2, <2>3 DEF LoadRegister, LoadRegisterFails, localVars
<1>13. CASE ImageLoaded \/ get_fw_version
  BY <1>13, <1>h DEF ImageLoaded, get_fw_version, localVars, ghostVars
<1>14. CASE UNCHANGED vars
  BY <1>14 DEF vars, localVars, ghostVars, probeVars
<1> QED
  BY <1>1, <1>2, <1>3, <1>4, <1>5, <1>6, <1>7, <1>8, <1>9, <1>10, <1>11, <1>12, <1>13, <1>14
     DEF Next

(* The state of driver and device keeps its type: no group number exceeds  *)
(* what the device has, and no slot behind the table is written.           *)
THEOREM RequestTypes == Spec => []TypeOK
<1>1. TInv => TypeOK
  BY DEF TInv
<1> QED
  BY <1>1, TypesInit, TypesStep, PTL DEF Spec

-----------------------------------------------------------------------------
(* No update is lost.  The mutex admits one thread, so that what a thread  *)
(* has read is still in the register when it writes; hence every write is  *)
(* an atomic change.  A TDC whose read failed is one exception: there only *)
(* the bit asked for is certain.  The other is the image: nobody but the   *)
(* PTP driver is inside while it is loaded, and what crosses it is known.  *)

Exclusive == \A t \in Threads : pc[t] # "idle" => lock = t

OnlyClocksYet == probe # "ready" => \A t \in Threads : pc[t] # "idle" => t \in Clocks

ReadIsCurrent ==
  \A t \in Threads :
    pc[t] = "write" /\ request[t].kind # "reg_write" =>
      \/ byte[t] = regs[request[t].reg]
      \/ request[t].kind = "tdc_go" /\ errs > 0
      \/ request[t].reg \in crossed

UInv ==
  TInv /\ Exclusive /\ OnlyClocksYet /\ ReadIsCurrent /\ \A r \in Registers : AsAsked(r)

LEMMA UpdatesInit == Init => UInv
<1> SUFFICES ASSUME Init PROVE UInv
  OBVIOUS
<1>1. Exclusive /\ OnlyClocksYet /\ ReadIsCurrent
  BY DEF Init, Exclusive, OnlyClocksYet, ReadIsCurrent
<1>2. \A r \in Registers : AsAsked(r)
  BY DEF Init, AsAsked
<1> QED BY <1>1, <1>2, TypesInit DEF UInv

(* A write leaves the register as asked, whether the failure of the write  *)
(* keeps what was possible before or not.                                  *)
LEMMA StoredAsAsked ==
  ASSUME UInv, NEW t \in Threads, pc[t] = "write", NEW k \in BOOLEAN, Asked(t, k),
         Stored(t), UNCHANGED crossed, errs' \in Nat, errs' >= errs
  PROVE  \A r \in Registers : AsAsked(r)'
<1> DEFINE q == request[t].reg
           w == Changed(request[t], byte[t])
<1>1. /\ request[t] \in Requests /\ q \in Registers
      /\ AsAsked(q) /\ errs \in Nat
      /\ regs \in [Registers -> Bytes] /\ asked \in [Registers -> SUBSET Bytes]
      /\ byte[t] \in Bytes
  BY RequestType, RequestAssumption DEF UInv, TInv, Busy, TypeOK, RequestAssumption
<1>2. /\ regs' = [regs EXCEPT ![q] = w]
      /\ \A b \in asked[q] : Changed(request[t], b) \in asked'[q]
  BY <1>1 DEF Stored, Asked
<1>3. \A r \in Registers \ {q} : regs'[r] = regs[r] /\ asked'[r] = asked[r]
  BY <1>1 DEF Stored, Asked
<1>4. \A r \in Registers \ {q} : AsAsked(r)'
  BY <1>3, <1>1 DEF UInv, AsAsked
<1>5. regs'[q] = w
  BY <1>1, <1>2
<1>6. CASE q \in crossed
  BY <1>4, <1>6 DEF AsAsked
<1>7. SUFFICES ASSUME q \notin crossed PROVE \A r \in Registers : AsAsked(r)'
  BY <1>6
<1>8. PICK b \in asked[q] :
        \/ b = regs[q]
        \/ q[1] = "tdc" /\ errs > 0 /\ regs[q].own = b.own
  BY <1>1, <1>7 DEF AsAsked
<1>9. CASE request[t].kind = "reg_write"
  <2>1. w = Changed(request[t], b)
    BY <1>9 DEF Changed
  <2> QED BY <1>2, <1>4, <1>5, <1>8, <2>1 DEF AsAsked
<1>10. CASE request[t].kind # "reg_write" /\ byte[t] = regs[q] /\ b = regs[q]
  BY <1>2, <1>4, <1>5, <1>8, <1>10 DEF AsAsked
<1>11. CASE request[t].kind = "tdc_go" /\ errs > 0
  <2>1. q[1] = "tdc" /\ b \in Bytes
    BY <1>1, <1>8, <1>11, RequestType
  <2>2. w.own = Changed(request[t], b).own
    BY <1>1, <1>11, <2>1 DEF Changed, Bytes
  <2>3. regs'[q].own = Changed(request[t], b).own /\ errs' > 0
    BY <1>1, <1>5, <1>11, <2>2
  <2> QED BY <1>2, <1>4, <1>8, <2>1, <2>3 DEF AsAsked
<1>12. CASE request[t].kind \notin {"reg_write", "tdc_go"} /\ q[1] = "tdc"
  <2>1. FALSE
    BY <1>1, <1>12 DEF Requests, CombomodeRequests, HoldoverRequests, PriorityRequests,
       PllModeRequests, RegWriteRequests, TdcGoRequests
  <2> QED BY <2>1
<1>13. CASE request[t].kind = "tdc_go" /\ ~(errs > 0)
  BY <1>1, <1>8, <1>10, <1>13, <1>7 DEF UInv, ReadIsCurrent
<1>14. CASE request[t].kind \notin {"reg_write", "tdc_go"} /\ q[1] # "tdc"
  <2>1. byte[t] = regs[q] /\ b = regs[q]
    BY <1>8, <1>14, <1>7 DEF UInv, ReadIsCurrent
  <2> QED BY <1>10, <1>14, <2>1
<1> QED BY <1>9, <1>11, <1>12, <1>13, <1>14

(* A change that is not made but might have been, or that changes nothing. *)
LEMMA KeptAsAsked ==
  ASSUME UInv, NEW t \in Threads, pc[t] # "idle", UNCHANGED <<regs, crossed>>,
         errs' \in Nat, errs' >= errs,
         \/ Asked(t, TRUE)
         \/ Asked(t, FALSE) /\ AlreadySet(request[t], regs[request[t].reg])
  PROVE  \A r \in Registers : AsAsked(r)'
<1> DEFINE q == request[t].reg
<1>1. /\ request[t] \in Requests /\ q \in Registers
      /\ AsAsked(q) /\ errs \in Nat
      /\ regs \in [Registers -> Bytes] /\ asked \in [Registers -> SUBSET Bytes]
  BY RequestType, RequestAssumption DEF UInv, TInv, Busy, TypeOK, RequestAssumption
<1>2. \A r \in Registers \ {q} : asked'[r] = asked[r]
  BY <1>1 DEF Asked
<1>3. \A r \in Registers \ {q} : AsAsked(r)'
  BY <1>1, <1>2 DEF UInv, AsAsked
<1>4. CASE Asked(t, TRUE)
  <2>1. asked[q] \subseteq asked'[q]
    BY <1>1, <1>4 DEF Asked
  <2>2. \A r \in Registers : r = q => AsAsked(r)'
    BY <1>1, <2>1 DEF AsAsked
  <2> QED BY <1>3, <2>2
<1>5. CASE Asked(t, FALSE) /\ AlreadySet(request[t], regs[q])
  <2>1. request[t].kind = "holdover" /\ regs[q].own = request[t].value
    BY <1>5 DEF AlreadySet
  <2>2. q[1] # "tdc"
    BY <1>1, <2>1 DEF Requests, CombomodeRequests, HoldoverRequests, PriorityRequests,
       PllModeRequests, RegWriteRequests, TdcGoRequests
  <2>3. q \in crossed \/ (regs[q] \in asked[q] /\ regs[q] \in Bytes)
    BY <1>1, <2>2 DEF AsAsked
  <2>4. regs[q] \in asked[q] => Changed(request[t], regs[q]) = regs[q]
    BY <1>1, <2>1 DEF Changed, Bytes
  <2>5. regs[q] \in asked[q] => Changed(request[t], regs[q]) \in asked'[q]
    BY <1>1, <1>5 DEF Asked
  <2> QED BY <1>3, <2>3, <2>4, <2>5 DEF AsAsked
<1> QED BY <1>4, <1>5

LEMMA UpdatesStep == UInv /\ [Next]_vars => UInv'
<1> SUFFICES ASSUME UInv, [Next]_vars PROVE UInv'
  OBVIOUS
<1>1. TInv /\ TInv'
  BY TypesStep DEF UInv
<1>a. errs \in Nat /\ MaxErrors \in Nat /\ Nobody \notin Threads
  BY <1>1, RequestAssumption DEF TInv, TypeOK, RequestAssumption, Threads
<1> USE DEF TInv, TypeOK, UInv, Exclusive, OnlyClocksYet, ReadIsCurrent
<1>b. Err => errs' \in Nat /\ errs' >= errs
  BY <1>a DEF Err
<1>c. ASSUME NEW t \in Threads, pc[t] # "idle", Return(t), UNCHANGED probe
      PROVE  Exclusive' /\ OnlyClocksYet' /\ ReadIsCurrent'
  BY <1>1, <1>c DEF Return
<1>d. ASSUME UNCHANGED <<regs, asked, crossed>>, errs' \in Nat, errs' >= errs
      PROVE  \A r \in Registers : AsAsked(r)'
  BY <1>d, <1>a DEF AsAsked
<1>2. ASSUME NEW t \in Threads, NEW r \in Requests, Start(t, r) PROVE UInv'
  <2>1. Exclusive' /\ OnlyClocksYet'
    BY <1>1, <1>2, <1>a DEF Start, LockFree, IsFrom, Threads, probeVars
  <2>2. \A u \in Threads \ {t} : pc'[u] = "idle"
    BY <1>1, <1>2, <1>a DEF Start, LockFree
  <2>3. pc'[t] = "write" => r.kind = "reg_write"
    BY <1>1, <1>2 DEF Start, probeVars
  <2>4. ReadIsCurrent'
    BY <1>1, <1>2, <2>2, <2>3 DEF Start, probeVars
  <2> QED BY <1>1, <1>2, <1>a, <1>d, <2>1, <2>4 DEF Start, ghostVars, probeVars
<1>3. ASSUME NEW t \in Threads, Read(t) PROVE UInv'
  <2>1. Exclusive' /\ OnlyClocksYet' /\ ReadIsCurrent'
    BY <1>1, <1>3 DEF Read, At, Goto, probeVars
  <2> QED BY <1>1, <1>3, <1>a, <1>d, <2>1 DEF Read, ghostVars, At, probeVars
<1>4. ASSUME NEW t \in Threads, ReadAlreadySet(t) PROVE UInv'
  <2>1. pc[t] # "idle" /\ Asked(t, FALSE) /\ AlreadySet(request[t], regs[request[t].reg])
    BY <1>4 DEF ReadAlreadySet, At, probeVars
  <2>2. UNCHANGED <<regs, crossed>> /\ errs' \in Nat /\ errs' >= errs
    BY <1>4, <1>a DEF ReadAlreadySet, At, probeVars
  <2>3. \A r \in Registers : AsAsked(r)'
    BY <2>1, <2>2, KeptAsAsked
  <2> QED BY <1>1, <1>4, <1>c, <2>1, <2>3 DEF ReadAlreadySet, At, probeVars
<1>5. ASSUME NEW t \in Threads, ReadFails(t) PROVE UInv'
  BY <1>1, <1>5, <1>b, <1>c, <1>d DEF ReadFails, At, probeVars
<1>6. ASSUME NEW t \in Threads, TdcReadFails(t) PROVE UInv'
  <2>1. Exclusive' /\ OnlyClocksYet'
    BY <1>1, <1>6 DEF TdcReadFails, At, Goto, probeVars
  <2>2. errs' > 0
    BY <1>6, <1>a DEF TdcReadFails, Err, At, probeVars
  <2>3. \A u \in Threads \ {t} : pc'[u] = "idle"
    BY <1>1, <1>6 DEF TdcReadFails, At, Goto, probeVars
  <2>4. ReadIsCurrent'
    BY <1>6, <2>2, <2>3 DEF TdcReadFails, At, Goto, probeVars
  <2> QED BY <1>1, <1>6, <1>b, <1>d, <2>1, <2>4 DEF TdcReadFails, ghostVars, At, probeVars
<1>7. ASSUME NEW t \in Threads, Write(t) PROVE UInv'
  <2>1. pc[t] = "write" /\ Asked(t, FALSE) /\ Stored(t)
    BY <1>7 DEF Write, At, probeVars
  <2>2. UNCHANGED crossed /\ errs' \in Nat /\ errs' >= errs
    BY <1>7, <1>a DEF Write, At, probeVars
  <2>3. \A r \in Registers : AsAsked(r)'
    BY <2>1, <2>2, StoredAsAsked
  <2> QED BY <1>1, <1>7, <1>c, <2>1, <2>3 DEF Write, At, probeVars
<1>8. ASSUME NEW t \in Threads, WriteFails(t) PROVE UInv'
  <2>1. \A r \in Registers : AsAsked(r)'
    BY <1>8, <1>b, StoredAsAsked, KeptAsAsked DEF WriteFails, At, probeVars
  <2> QED BY <1>1, <1>8, <1>c, <2>1 DEF WriteFails, At, probeVars
<1>9. ASSUME NEW t \in Threads, WriteSlot(t) PROVE UInv'
  BY <1>1, <1>9, <1>a, <1>d DEF WriteSlot, AtSlot, At, ghostVars, probeVars
<1>10. ASSUME NEW t \in Threads, WriteSlotFails(t) PROVE UInv'
  BY <1>1, <1>10, <1>b, <1>c, <1>d DEF WriteSlotFails, AtSlot, At, probeVars
<1>11. ASSUME NEW t \in Threads, RefuseEntry(t) PROVE UInv'
  BY <1>1, <1>11, <1>a, <1>c, <1>d DEF RefuseEntry, AtSlot, At, probeVars
<1>12. ASSUME NEW t \in Threads, TableWritten(t) PROVE UInv'
  <2>1. Exclusive' /\ OnlyClocksYet' /\ ReadIsCurrent'
    BY <1>1, <1>12 DEF TableWritten, At, Goto, localVars, probeVars
  <2> QED BY <1>1, <1>12, <1>a, <1>d, <2>1 DEF TableWritten, ghostVars, At, probeVars
<1>13. ASSUME NEW r \in Registers, NEW b \in ImageBytes,
              LoadRegister(r, b) \/ LoadRegisterFails(r, b)
       PROVE  UInv'
  <2>1. /\ UNCHANGED <<pc, request, byte, lock>>
        /\ probe = "loading" /\ crossed \subseteq crossed'
        /\ Crosses(r) => r \in crossed'
        /\ \A q \in Registers \ {r} : regs'[q] = regs[q] /\ asked'[q] = asked[q]
        /\ errs' \in Nat /\ errs' >= errs
    BY <1>1, <1>13, <1>a, <1>b
       DEF LoadRegister, LoadRegisterFails, RegisterLoaded, localVars
  <2>2. Exclusive' /\ OnlyClocksYet'
    BY <1>1, <2>1
  <2>3. ASSUME NEW t \in Threads, pc[t] = "write", request[t].reg = r
        PROVE  r \in crossed'
    BY <1>1, <2>1, <2>3 DEF Crosses
  <2>4. ReadIsCurrent'
    <3> SUFFICES ASSUME NEW t \in Threads, pc'[t] = "write", request'[t].kind # "reg_write"
                 PROVE  \/ byte'[t] = regs'[request'[t].reg]
                        \/ request'[t].kind = "tdc_go" /\ errs' > 0
                        \/ request'[t].reg \in crossed'
      OBVIOUS
    <3>1. request[t].reg \in Registers /\ errs \in Nat
      BY <1>a, <1>1, <2>1, RequestType DEF Busy
    <3> QED BY <2>1, <2>3, <3>1
  <2>5. \A q \in Registers \ {r} : AsAsked(q)'
    BY <1>a, <2>1 DEF AsAsked
  <2>6. AsAsked(r)'
    <3>1. \/ regs'[r] \in asked'[r]
          \/ regs'[r] = regs[r] /\ asked[r] \subseteq asked'[r]
      <4>0. regs \in [Registers -> Bytes] /\ asked \in [Registers -> SUBSET Bytes]
        BY <1>1
      <4>1. CASE LoadRegister(r, b)
        <5>1. regs' = [regs EXCEPT ![r] = b] /\ asked' = [asked EXCEPT ![r] = {b}]
          BY <4>1 DEF LoadRegister, RegisterLoaded
        <5> QED BY <4>0, <5>1
      <4>2. CASE LoadRegisterFails(r, b)
        <5>1. /\ regs' = [regs EXCEPT ![r] = b] \/ regs' = regs
              /\ asked' = [asked EXCEPT ![r] = @ \cup {b}]
          BY <4>2 DEF LoadRegisterFails, RegisterLoaded
        <5> QED BY <4>0, <5>1
      <4> QED BY <1>13, <4>1, <4>2
    <3> QED BY <1>a, <2>1, <3>1 DEF AsAsked
  <2> QED BY <1>1, <2>2, <2>4, <2>5, <2>6
<1>14. CASE ImageLoaded \/ get_fw_version
  <2>1. /\ UNCHANGED <<pc, request, byte, lock, regs, asked, crossed>>
        /\ probe # "ready"
        /\ errs' \in Nat /\ errs' >= errs
    BY <1>14, <1>a, <1>b DEF ImageLoaded, get_fw_version, localVars, ghostVars
  <2>2. Exclusive' /\ OnlyClocksYet' /\ ReadIsCurrent'
    BY <1>1, <1>a, <2>1
  <2> QED BY <1>1, <1>d, <2>1, <2>2
<1>15. CASE UNCHANGED vars
  BY <1>1, <1>15, <1>a, <1>d DEF vars, localVars, ghostVars, probeVars
<1> QED
  BY <1>2, <1>3, <1>4, <1>5, <1>6, <1>7, <1>8, <1>9, <1>10, <1>11, <1>12, <1>13, <1>14, <1>15
     DEF Next

(* The PTP driver and the character device lose no update of each other,   *)
(* for any number of threads, units and failures.                          *)
THEOREM UpdatesKept == Spec => []NoUpdateIsLost
<1>1. UInv => NoUpdateIsLost
  BY DEF UInv, NoUpdateIsLost
<1> QED
  BY <1>1, UpdatesInit, UpdatesStep, PTL DEF Spec

-----------------------------------------------------------------------------
(* The priority table.  While a request writes it, the slots written so    *)
(* far are what its list says, and prev_priority_group is the number of    *)
(* runs of equal priorities that have begun: it names the group of the     *)
(* last of them, and as long as the device has groups for all runs no      *)
(* other run has that number.                                              *)

InRun(l, i) == InGroup(l, i) \/ i \in Runs(l)

ListedAs(tab, l, k) ==
  \A s \in 1 .. k :
    /\ tab[s].enabled <=> s <= Len(l)
    /\ s <= Len(l) => tab[s].ref = l[s].ref

GroupedTo(tab, l, k, g) ==
  /\ g = Cardinality(Runs(l) \cap 1 .. k)
  /\ \A i \in 1 .. k : i <= Len(l) => tab[i].group <= g
  /\ k \in 1 .. Len(l) =>
       /\ InRun(l, k) => g > 0
       /\ tab[k].group = IF InRun(l, k) THEN g ELSE 0
  /\ \A i \in 1 .. k : \A j \in i + 1 .. k :
       j <= Len(l) =>
         (InOneRun(l, i, j) <=> tab[i].group = tab[j].group /\ tab[i].group # 0)

WrittenTo(tab, l, k, g) ==
  /\ ListedAs(tab, l, k)
  /\ Cardinality(Runs(l)) <= MaxGroup => GroupedTo(tab, l, k, g)

(* The table is the list. *)
TableIs(tab, l) ==
  /\ ListedAs(tab, l, NumSlots)
  /\ Cardinality(Runs(l)) <= MaxGroup => GroupedAs(tab, l)

(* Runs are counted as they begin.                                         *)
LEMMA RunsCounted ==
  ASSUME NEW l \in Lists, NEW k \in Nat
  PROVE  LET begun == Runs(l) \cap 1 .. k
             next  == Runs(l) \cap 1 .. k + 1 IN
         /\ Cardinality(begun) \in Nat /\ Cardinality(Runs(l)) \in Nat
         /\ k + 1 \notin Runs(l) => Cardinality(next) = Cardinality(begun)
         /\ k + 1 \in Runs(l) =>
              /\ Cardinality(next) = Cardinality(begun) + 1
              /\ Cardinality(begun) < Cardinality(Runs(l))
<1> DEFINE begun == Runs(l) \cap 1 .. k
           next  == Runs(l) \cap 1 .. k + 1
<1>1. l \in Seq(Entries) /\ Runs(l) \subseteq 1 .. Len(l) - 1
  BY RequestAssumption DEF RequestAssumption, Runs
<1>2. IsFiniteSet(1 .. Len(l) - 1)
  BY <1>1, FS_Interval
<1>3. IsFiniteSet(Runs(l))
  BY <1>1, <1>2, FS_Subset
<1>4. IsFiniteSet(begun) /\ IsFiniteSet(next) /\ Cardinality(next) <= Cardinality(Runs(l))
  BY <1>3, FS_Intersection
<1>5. Cardinality(begun) \in Nat /\ Cardinality(next) \in Nat /\ Cardinality(Runs(l)) \in Nat
  BY <1>3, <1>4, FS_CardinalityType
<1>6. CASE k + 1 \notin Runs(l)
  <2>1. next = begun
    BY <1>1, <1>6
  <2> QED BY <1>5, <1>6, <2>1
<1>7. CASE k + 1 \in Runs(l)
  <2>1. next = begun \cup {k + 1} /\ k + 1 \notin begun
    BY <1>1, <1>7
  <2>2. Cardinality(next) = Cardinality(begun) + 1
    BY <1>4, <2>1, FS_AddElement
  <2> QED BY <1>4, <1>5, <1>7, <2>2
<1> QED BY <1>6, <1>7

(* A group is opened where a run begins, as long as there is one.          *)
LEMMA GroupsOpen ==
  ASSUME NEW l \in Lists, NEW i \in 1 .. Len(l), NEW g \in 0 .. MaxGroup
  PROVE  /\ OpensGroup(l, i, g) <=> i \in Runs(l) /\ g < MaxGroup
         /\ i \in Runs(l) => ~InGroup(l, i)
<1>1. l \in Seq(Entries) /\ MaxGroup \in Nat
  BY RequestAssumption DEF RequestAssumption
<1>2. g # NextGroup(g) <=> g < MaxGroup
  BY <1>1 DEF NextGroup
<1>3. i \in Runs(l) <=> ~InGroup(l, i) /\ i < Len(l) /\ SamePriority(l, i, i + 1)
  BY <1>1 DEF Runs, InGroup
<1> QED BY <1>2, <1>3 DEF OpensGroup

(* The next slot continues its run or is apart from all before it.         *)
LEMMA RunsContinue ==
  ASSUME NEW l \in Lists, NEW m \in 1 .. Len(l), NEW i \in 1 .. m - 1
  PROVE  /\ InGroup(l, m) => (InOneRun(l, i, m) <=> InOneRun(l, i, m - 1))
         /\ ~InGroup(l, m) => ~InOneRun(l, i, m)
<1>1. CASE InGroup(l, m)
  <2>1. m - 1 \in i .. m /\ i .. m = i .. m - 1 \cup {m}
    OBVIOUS
  <2>2. l[m].priority = l[m - 1].priority
    BY <1>1 DEF InGroup, SamePriority
  <2> QED BY <1>1, <2>1, <2>2 DEF InOneRun, SamePriority
<1>2. CASE ~InGroup(l, m)
  <2>1. m - 1 \in i .. m /\ m \in i .. m /\ m > 1
    OBVIOUS
  <2>2. l[m].priority # l[m - 1].priority
    BY <1>2, <2>1 DEF InGroup, SamePriority
  <2> QED BY <1>2, <2>1, <2>2 DEF InOneRun, SamePriority
<1> QED BY <1>1, <1>2

(* Nothing is written yet.                                                 *)
LEMMA NothingWritten == ASSUME NEW l \in Lists, NEW tab PROVE WrittenTo(tab, l, 0, 0)
<1>1. Runs(l) \cap 1 .. 0 = {} /\ Cardinality({}) = 0
  BY FS_EmptySet
<1> QED BY <1>1 DEF WrittenTo, ListedAs, GroupedTo

(* Writing one more slot, if there is an entry for it.                     *)
LEMMA EntryWritten ==
  ASSUME NEW l \in Lists, NEW m \in Slots, m <= Len(l), NEW g \in 0 .. MaxGroup, NEW old,
         NEW tab \in [Slots -> SlotBytes], WrittenTo(tab, l, m - 1, g)
  PROVE  WrittenTo([tab EXCEPT ![m] = SlotByte(l, m, g, old)], l, m, GroupAfter(l, m, g))
<1> DEFINE h    == GroupAfter(l, m, g)
           byt  == SlotByte(l, m, g, old)
           next == [tab EXCEPT ![m] = byt]
<1>1. /\ l \in Seq(Entries) /\ Len(l) \in Nat /\ m \in 1 .. Len(l) /\ m \in Nat
      /\ MaxGroup \in Nat /\ NumSlots \in Nat
  BY RequestAssumption DEF RequestAssumption, Slots
<1>2. next[m] = byt /\ \A s \in 1 .. m - 1 : next[s] = tab[s]
  BY <1>1 DEF Slots
<1>3. byt.enabled = TRUE /\ byt.ref = l[m].ref /\ byt.group = GroupOf(l, m, g)
  BY <1>1 DEF SlotByte
<1>4. ListedAs(next, l, m)
  <2>1. ListedAs(tab, l, m - 1)
    BY DEF WrittenTo
  <2>2. \A s \in 1 .. m : s = m \/ s \in 1 .. m - 1
    BY <1>1
  <2> HIDE DEF next, byt
  <2> QED BY <1>1, <1>2, <1>3, <2>1, <2>2 DEF ListedAs
<1>5. ASSUME Cardinality(Runs(l)) <= MaxGroup PROVE GroupedTo(next, l, m, h)
  <2>1. GroupedTo(tab, l, m - 1, g)
    BY <1>5 DEF WrittenTo
  <2>2. /\ m - 1 \in Nat /\ (m - 1) + 1 = m
        /\ g = Cardinality(Runs(l) \cap 1 .. m - 1)
    BY <1>1, <2>1 DEF GroupedTo
  <2>3. /\ Cardinality(Runs(l)) \in Nat
        /\ m \notin Runs(l) => Cardinality(Runs(l) \cap 1 .. m) = g
        /\ m \in Runs(l) => Cardinality(Runs(l) \cap 1 .. m) = g + 1 /\ g < MaxGroup
    <3> HIDE DEF next, byt, h
    <3>1. LET k == m - 1 IN
          /\ Cardinality(Runs(l)) \in Nat
          /\ k + 1 \notin Runs(l) =>
               Cardinality(Runs(l) \cap 1 .. k + 1) = Cardinality(Runs(l) \cap 1 .. k)
          /\ k + 1 \in Runs(l) =>
               /\ Cardinality(Runs(l) \cap 1 .. k + 1) = Cardinality(Runs(l) \cap 1 .. k) + 1
               /\ Cardinality(Runs(l) \cap 1 .. k) < Cardinality(Runs(l))
      BY <2>2, RunsCounted
    <3> QED BY <1>1, <1>5, <2>2, <3>1
  <2>4. /\ OpensGroup(l, m, g) <=> m \in Runs(l)
        /\ m \in Runs(l) => ~InGroup(l, m)
    BY <1>1, <2>3, GroupsOpen
  <2>5. /\ h = IF m \in Runs(l) THEN g + 1 ELSE g
        /\ byt.group = IF InRun(l, m) THEN h ELSE 0
        /\ h = Cardinality(Runs(l) \cap 1 .. m)
    BY <1>1, <1>3, <2>3, <2>4 DEF GroupAfter, GroupOf, NextGroup, InRun
  <2>6. ASSUME InGroup(l, m)
        PROVE  m - 1 \in 1 .. Len(l) /\ tab[m - 1].group = g /\ g > 0
    <3>1. m > 1 /\ SamePriority(l, m - 1, m)
      BY <2>6 DEF InGroup, SamePriority
    <3>2. InRun(l, m - 1)
      BY <1>1, <3>1 DEF InRun, InGroup, Runs
    <3> QED BY <1>1, <2>1, <3>1, <3>2 DEF GroupedTo
  <2>7. InRun(l, m) => h > 0
    BY <1>1, <2>5, <2>6 DEF InRun
  <2>8. \A i \in 1 .. m - 1 : tab[i].group <= g /\ i <= Len(l)
    <3>1. \A i \in 1 .. m - 1 : i <= Len(l)
      BY <1>1
    <3>2. \A i \in 1 .. m - 1 : i <= Len(l) => tab[i].group <= g
      BY <2>1 DEF GroupedTo
    <3> QED BY <3>1, <3>2
  <2>9. \A i \in 1 .. m : next[i].group <= h
    <3>1. \A i \in 1 .. m - 1 : tab[i] \in SlotBytes
      BY <1>1 DEF Slots
    <3>2. \A i \in 1 .. m - 1 : tab[i].group \in Nat
      BY <3>1 DEF SlotBytes
    <3> HIDE DEF next, byt, h
    <3> QED BY <1>1, <1>2, <2>5, <2>7, <2>8, <3>2
  <2>10. ASSUME NEW i \in 1 .. m - 1
         PROVE  InOneRun(l, i, m) <=> next[i].group = next[m].group /\ next[i].group # 0
    <3>1. next[i] = tab[i] /\ tab[i].group <= g /\ tab[i].group \in Nat
      BY <1>1, <1>2, <2>8 DEF Slots, SlotBytes
    <3>2. CASE InGroup(l, m)
      <4>1. next[m].group = g /\ g > 0 /\ tab[m - 1].group = g
        BY <1>2, <2>4, <2>5, <2>6, <3>2 DEF InRun
      <4>2. InOneRun(l, i, m) <=> InOneRun(l, i, m - 1)
        BY <1>1, <3>2, RunsContinue
      <4>3. CASE i = m - 1
        BY <3>1, <4>1, <4>2, <4>3 DEF InOneRun, SamePriority
      <4>4. CASE i # m - 1
        <5>1. m - 1 \in i + 1 .. m - 1 /\ m - 1 <= Len(l)
          BY <1>1, <4>4
        <5>2. InOneRun(l, i, m - 1) <=> tab[i].group = tab[m - 1].group /\ tab[i].group # 0
          BY <2>1, <5>1 DEF GroupedTo
        <5> QED BY <3>1, <4>1, <4>2, <5>2
      <4> QED BY <4>3, <4>4
    <3>3. CASE ~InGroup(l, m)
      <4>1. ~InOneRun(l, i, m)
        BY <1>1, <3>3, RunsContinue
      <4>2. next[m].group = g + 1 \/ next[m].group = 0
        BY <1>2, <2>5, <3>3 DEF InRun
      <4> QED BY <3>1, <4>1, <4>2
    <3> QED BY <3>2, <3>3
  <2>11. ASSUME NEW i \in 1 .. m, NEW j \in i + 1 .. m, j <= Len(l)
         PROVE  InOneRun(l, i, j) <=> next[i].group = next[j].group /\ next[i].group # 0
    <3>1. CASE j = m
      BY <1>1, <2>10, <3>1
    <3>2. CASE j # m
      <4>1. i \in 1 .. m - 1 /\ j \in i + 1 .. m - 1
        BY <1>1, <3>2
      <4>2. next[i] = tab[i] /\ next[j] = tab[j]
        BY <1>1, <1>2, <4>1
      <4> QED BY <2>1, <2>11, <4>1, <4>2 DEF GroupedTo
    <3> QED BY <3>1, <3>2
  <2> HIDE DEF next, byt, h
  <2> QED BY <1>1, <1>2, <2>5, <2>7, <2>9, <2>11 DEF GroupedTo
<1> QED BY <1>4, <1>5 DEF WrittenTo

(* Writing one more slot when the list is over.                            *)
LEMMA RestWritten ==
  ASSUME NEW l \in Lists, NEW m \in Slots, m > Len(l), NEW g \in 0 .. MaxGroup, NEW old,
         NEW tab \in [Slots -> SlotBytes], WrittenTo(tab, l, m - 1, g)
  PROVE  WrittenTo([tab EXCEPT ![m] = SlotByte(l, m, g, old)], l, m, g)
<1> DEFINE byt  == SlotByte(l, m, g, old)
           next == [tab EXCEPT ![m] = byt]
<1>1. /\ l \in Seq(Entries) /\ Len(l) \in Nat /\ m \in Nat \ {0}
      /\ MaxGroup \in Nat /\ NumSlots \in Nat
  BY RequestAssumption DEF RequestAssumption, Slots
<1>2. next[m] = byt /\ \A s \in 1 .. m - 1 : next[s] = tab[s]
  BY <1>1 DEF Slots
<1>3. byt.enabled = FALSE
  BY DEF SlotByte, Disabled
<1>4. \A s \in 1 .. m : s = m \/ s \in 1 .. m - 1
  BY <1>1
<1> HIDE DEF next, byt
<1>5. ListedAs(next, l, m)
  BY <1>1, <1>2, <1>3, <1>4 DEF ListedAs, WrittenTo
<1>6. ASSUME Cardinality(Runs(l)) <= MaxGroup PROVE GroupedTo(next, l, m, g)
  <2>1. GroupedTo(tab, l, m - 1, g)
    BY <1>6 DEF WrittenTo
  <2>2. Runs(l) \cap 1 .. m = Runs(l) \cap 1 .. m - 1
    BY <1>1 DEF Runs
  <2>3. \A i \in 1 .. m : i <= Len(l) => i \in 1 .. m - 1 /\ next[i] = tab[i]
    BY <1>1, <1>2
  <2>4. ASSUME NEW i \in 1 .. m, NEW j \in i + 1 .. m, j <= Len(l)
        PROVE  InOneRun(l, i, j) <=> next[i].group = next[j].group /\ next[i].group # 0
    <3>1. /\ i \in 1 .. m - 1 /\ j \in i + 1 .. m - 1
          /\ next[i] = tab[i] /\ next[j] = tab[j]
      BY <1>1, <1>2, <2>4
    <3> QED BY <2>1, <2>4, <3>1 DEF GroupedTo
  <2>5. g = Cardinality(Runs(l) \cap 1 .. m) /\ m \notin 1 .. Len(l)
    <3>1. g = Cardinality(Runs(l) \cap 1 .. m - 1)
      BY <2>1 DEF GroupedTo
    <3>2. Cardinality(Runs(l) \cap 1 .. m) = Cardinality(Runs(l) \cap 1 .. m - 1)
      BY <2>2, Zenon
    <3>3. m \notin 1 .. Len(l)
      BY <1>1
    <3> QED BY <3>1, <3>2, <3>3
  <2>6. \A i \in 1 .. m : i <= Len(l) => next[i].group <= g
    BY <2>1, <2>3 DEF GroupedTo
  <2> QED BY <2>4, <2>5, <2>6 DEF GroupedTo
<1> QED BY <1>5, <1>6 DEF WrittenTo, next, byt

(* All slots are written.                                                  *)
LEMMA AllWritten ==
  ASSUME NEW l \in Lists, Len(l) <= NumSlots, NEW tab, NEW g,
         WrittenTo(tab, l, NumSlots, g)
  PROVE  TableIs(tab, l)
<1>1. Len(l) \in Nat /\ NumSlots \in Nat
  BY RequestAssumption DEF RequestAssumption
<1>2. \A i \in 1 .. Len(l) : i \in 1 .. NumSlots /\ i + 1 .. Len(l) \subseteq i + 1 .. NumSlots
  BY <1>1
<1> QED BY <1>1, <1>2 DEF WrittenTo, TableIs, GroupedTo, GroupedAs

Starts == \A t \in Threads : pc[t] = "idle" => index[t] = 1 /\ group[t] = 0

WritesTable ==
  \A t \in Threads :
    pc[t] = "table" => WrittenTo(table[Unit(t)], List(t), index[t] - 1, group[t])

HasWrittenTable ==
  \A t \in Threads :
    pc[t] \in {"read", "write"} /\ request[t].kind = "priorities" =>
      TableIs(table[Unit(t)], List(t))

(* A list that was promised is in the table unless another is on its way.  *)
Replaces(t, u) == pc[t] # "idle" /\ request[t].kind = "priorities" /\ Unit(t) = u
Promises ==
  \A u \in Units : \A l \in promised[u] :
    TableIs(table[u], l) \/ \E t \in Threads : Replaces(t, u)

PInv == UInv /\ Starts /\ WritesTable /\ HasWrittenTable /\ Promises

LEMMA PrioritiesInit == Init => PInv
<1> SUFFICES ASSUME Init PROVE PInv
  OBVIOUS
<1>1. Starts /\ WritesTable /\ HasWrittenTable /\ Promises
  BY DEF Init, Starts, WritesTable, HasWrittenTable, Promises
<1> QED BY <1>1, UpdatesInit DEF PInv

(* A thread that is inside is the only one.                                *)
LEMMA NobodyElse ==
  ASSUME UInv, NEW t \in Threads, lock = t, NEW u \in Threads \ {t}
  PROVE  pc[u] = "idle"
BY DEF UInv, Exclusive

(* What a thread that leaves keeps: it promises its list when it has been  *)
(* written, and nothing when it has failed.                                *)
LEMMA ReturnKeeps ==
  ASSUME PInv, NEW t \in Threads, pc[t] # "idle", Return(t),
         \/ UNCHANGED <<table, promised>> /\ request[t].kind # "priorities"
         \/ UNCHANGED table /\ pc[t] = "write" /\ Succeeded(t)
         \/ Failed(t) /\ UNCHANGED table
         \/ Failed(t) /\ request[t].kind = "priorities"
                     /\ \A u \in Units \ {Unit(t)} : table'[u] = table[u]
  PROVE  Starts' /\ WritesTable' /\ HasWrittenTable' /\ Promises'
<1>1. TInv /\ lock = t
  BY DEF PInv, UInv, Exclusive
<1>2. /\ request[t] \in Requests
      /\ request[t].kind = "priorities" => Unit(t) \in Units /\ List(t) \in Lists
  BY <1>1, RequestType DEF TInv, Busy, Unit, List
<1>3. \A u \in Threads : pc'[u] = "idle" /\ index'[u] = 1 /\ group'[u] = 0
  <2>1. \A u \in Threads \ {t} : pc[u] = "idle" /\ index[u] = 1 /\ group[u] = 0
    BY <1>1, NobodyElse DEF PInv, Starts
  <2> QED BY <1>1, <2>1 DEF Return, TInv, TypeOK
<1>4. Starts' /\ WritesTable' /\ HasWrittenTable'
  BY <1>3 DEF Starts, WritesTable, HasWrittenTable
<1>5. \A u \in Units, v \in Threads : Replaces(v, u) =>
        v = t /\ request[t].kind = "priorities" /\ u = Unit(t)
  BY <1>1, NobodyElse DEF PInv, Replaces
<1>6. promised \in [Units -> SUBSET Lists]
  BY <1>1 DEF TInv, TypeOK
<1>7. ASSUME NEW u \in Units, NEW l \in promised'[u] PROVE TableIs(table'[u], l)
  <2>1. CASE request[t].kind = "priorities" /\ u = Unit(t)
    <3>1. l = List(t) /\ pc[t] = "write" /\ table' = table
      BY <1>2, <1>6, <1>7, <2>1 DEF Succeeded, Failed
    <3>2. TableIs(table[Unit(t)], List(t))
      BY <2>1, <3>1 DEF PInv, HasWrittenTable
    <3> QED BY <2>1, <3>1, <3>2
  <2>2. CASE ~(request[t].kind = "priorities" /\ u = Unit(t))
    <3>1. l \in promised[u] /\ table'[u] = table[u]
      BY <1>2, <1>6, <1>7, <2>2 DEF Succeeded, Failed
    <3>2. TableIs(table[u], l)
      BY <1>5, <2>2, <3>1 DEF PInv, Promises
    <3> QED BY <3>1, <3>2
  <2> QED BY <2>1, <2>2
<1> QED BY <1>4, <1>7 DEF Promises

(* What a thread does inside that touches neither table nor promises.      *)
LEMMA InsideKeeps ==
  ASSUME PInv, NEW t \in Threads, pc[t] \in {"read", "write"},
         pc' = [pc EXCEPT ![t] = "write"],
         UNCHANGED <<request, index, group, table, promised>>
  PROVE  Starts' /\ WritesTable' /\ HasWrittenTable' /\ Promises'
<1> USE DEF PInv, UInv, TInv, TypeOK
<1>1. pc'[t] = "write" /\ \A u \in Threads \ {t} : pc'[u] = pc[u]
  OBVIOUS
<1>2. Starts' /\ WritesTable' /\ HasWrittenTable'
  BY <1>1 DEF Starts, WritesTable, HasWrittenTable, Unit, List
<1>3. \A u \in Units, v \in Threads : Replaces(v, u) => Replaces(v, u)'
  BY <1>1 DEF Replaces, Unit
<1> QED BY <1>2, <1>3 DEF Promises

LEMMA WriteSlotKeeps ==
  ASSUME PInv, NEW t \in Threads, WriteSlot(t)
  PROVE  Starts' /\ WritesTable' /\ HasWrittenTable' /\ Promises'
<1> DEFINE l == List(t)
           u == Unit(t)
           m == index[t]
           g == group[t]
<1>1. /\ TInv /\ pc[t] = "table" /\ m <= NumSlots
      /\ UNCHANGED <<pc, request, promised>>
      /\ \A v \in Threads \ {t} : pc[v] = "idle"
  BY NobodyElse DEF PInv, UInv, Exclusive, WriteSlot, AtSlot, At, ghostVars
<1>2. /\ request[t].kind = "priorities" /\ request[t] \in Requests
      /\ l \in Lists /\ u \in Units /\ m \in Slots /\ g \in 0 .. MaxGroup
      /\ table[u] \in [Slots -> SlotBytes] /\ Len(l) \in Nat
  <2>1. request[t].kind = "priorities" /\ request[t] \in Requests
    BY <1>1 DEF TInv, InTable, Busy
  <2>2. l \in Lists /\ u \in Units /\ Len(l) \in Nat
    BY <2>1, RequestType, RequestAssumption DEF List, Unit, RequestAssumption
  <2>3. m \in Slots /\ g \in 0 .. MaxGroup
    BY <1>1, RequestAssumption DEF TInv, TypeOK, Slots, RequestAssumption
  <2>4. table[u] \in [Slots -> SlotBytes]
    BY <1>1, <2>2 DEF TInv, TypeOK
  <2> QED
    BY <2>1, <2>2, <2>3, <2>4
<1>3. WrittenTo(table[u], l, m - 1, g)
  BY <1>1 DEF PInv, WritesTable
<1>4. /\ table'[u] = [table[u] EXCEPT ![m] = SlotByte(l, m, g, table[u][m])]
      /\ \A v \in Units \ {u} : table'[v] = table[v]
  BY <1>1, <1>2 DEF WriteSlot, SlotStored, TInv, TypeOK
<1>5. /\ index'[t] = m + 1 /\ index'[t] - 1 = m
      /\ group'[t] = IF m <= Len(l) THEN GroupAfter(l, m, g) ELSE g
      /\ \A v \in Threads \ {t} : index'[v] = index[v] /\ group'[v] = group[v]
  BY <1>1, <1>2 DEF WriteSlot, TInv, TypeOK, Slots
<1>6. WrittenTo(table'[u], l, m, group'[t])
  <2>1. CASE m <= Len(l)
    BY <1>2, <1>3, <1>4, <1>5, <2>1, EntryWritten
  <2>2. CASE m > Len(l)
    <3>1. group'[t] = g
      BY <1>2, <1>5, <2>2 DEF Slots
    <3> QED BY <1>2, <1>3, <1>4, <2>2, <3>1, RestWritten
  <2> QED BY <1>2, <2>1, <2>2 DEF Slots
<1>7. Starts' /\ WritesTable' /\ HasWrittenTable'
  BY <1>1, <1>5, <1>6 DEF PInv, Starts, WritesTable, HasWrittenTable, Unit, List
<1>8. ASSUME NEW v \in Units, NEW k \in promised'[v]
      PROVE  TableIs(table'[v], k) \/ \E w \in Threads : Replaces(w, v)'
  <2>1. CASE v = u
    BY <1>1, <1>2, <2>1 DEF Replaces, Unit
  <2>2. CASE v # u
    <3>1. k \in promised[v] /\ table'[v] = table[v]
      BY <1>1, <1>4, <2>2
    <3>2. \A w \in Threads : ~Replaces(w, v)
      BY <1>1, <2>2 DEF Replaces
    <3> QED BY <3>1, <3>2 DEF PInv, Promises
  <2> QED BY <2>1, <2>2
<1> QED BY <1>7, <1>8 DEF Promises

LEMMA TableWrittenKeeps ==
  ASSUME PInv, NEW t \in Threads, TableWritten(t)
  PROVE  Starts' /\ WritesTable' /\ HasWrittenTable' /\ Promises'
<1>1. /\ TInv /\ pc[t] = "table" /\ index[t] > NumSlots
      /\ UNCHANGED <<index, group, table, promised, request>>
      /\ pc' = [pc EXCEPT ![t] = "read"]
  BY DEF PInv, UInv, TableWritten, At, Goto, localVars, ghostVars
<1>2. /\ pc'[t] = "read" /\ \A v \in Threads \ {t} : pc'[v] = pc[v]
  BY <1>1 DEF TInv, TypeOK
<1>3. /\ request[t].kind = "priorities" /\ List(t) \in Lists /\ Len(List(t)) <= NumSlots
      /\ index[t] - 1 = NumSlots
  <2>1. request[t].kind = "priorities" /\ Len(List(t)) <= NumSlots /\ request[t] \in Requests
    BY <1>1 DEF TInv, InTable, Busy, List
  <2>2. List(t) \in Lists BY <2>1, RequestType DEF List
  <2>3. index[t] \in 1 .. NumSlots + 1 BY <1>1 DEF TInv, TypeOK
  <2> QED BY <1>1, <2>1, <2>2, <2>3, RequestAssumption
<1>4. TableIs(table[Unit(t)], List(t))
  BY <1>1, <1>3, AllWritten DEF PInv, WritesTable
<1>5. Starts' /\ WritesTable' /\ HasWrittenTable'
  BY <1>1, <1>2, <1>4 DEF PInv, Starts, WritesTable, HasWrittenTable, Unit, List
<1>6. \A u \in Units, v \in Threads : Replaces(v, u) => Replaces(v, u)'
  BY <1>1, <1>2 DEF Replaces, Unit
<1> QED BY <1>1, <1>5, <1>6 DEF PInv, Promises

LEMMA StartKeeps ==
  ASSUME PInv, NEW t \in Threads, NEW r \in Requests, Start(t, r)
  PROVE  Starts' /\ WritesTable' /\ HasWrittenTable' /\ Promises'
<1>1. /\ TInv /\ pc[t] = "idle" /\ lock = Nobody /\ Nobody \notin Threads
      /\ UNCHANGED <<index, group, table, promised>>
  BY RequestAssumption
     DEF PInv, UInv, Start, LockFree, localVars, ghostVars, RequestAssumption, Threads
<1>2. \A v \in Threads : pc[v] = "idle"
  BY <1>1 DEF PInv, UInv, Exclusive
<1>3. /\ request'[t] = r
      /\ \A v \in Threads \ {t} : pc'[v] = "idle"
      /\ pc'[t] # "idle" /\ (pc'[t] = "table" <=> r.kind = "priorities")
  BY <1>1, <1>2 DEF Start, TInv, TypeOK
<1>4. index[t] = 1 /\ group[t] = 0
  BY <1>1 DEF PInv, Starts
<1>5. r.kind = "priorities" => WrittenTo(table'[r.reg[2]], r.value, 0, 0)
  BY RequestType, NothingWritten
<1>6. Starts' /\ WritesTable' /\ HasWrittenTable'
  BY <1>1, <1>2, <1>3, <1>4, <1>5 DEF PInv, Starts, WritesTable, HasWrittenTable, Unit, List
<1>7. \A u \in Units, v \in Threads : ~Replaces(v, u)
  BY <1>2 DEF Replaces
<1> QED BY <1>1, <1>6, <1>7 DEF PInv, Promises

LEMMA PrioritiesStep == PInv /\ [Next]_vars => PInv'
<1> SUFFICES ASSUME PInv, [Next]_vars
             PROVE  Starts' /\ WritesTable' /\ HasWrittenTable' /\ Promises'
  BY UpdatesStep DEF PInv
<1>1. ASSUME UNCHANGED <<pc, request, index, group, table, promised>>
      PROVE  Starts' /\ WritesTable' /\ HasWrittenTable' /\ Promises'
  BY <1>1 DEF PInv, Starts, WritesTable, HasWrittenTable, Promises, Replaces, Unit, List
<1>2. ASSUME NEW t \in Threads, Read(t) \/ TdcReadFails(t)
      PROVE  Starts' /\ WritesTable' /\ HasWrittenTable' /\ Promises'
  BY <1>2, InsideKeeps DEF Read, TdcReadFails, At, Goto, ghostVars
<1>3. ASSUME NEW t \in Threads, ReadAlreadySet(t)
      PROVE  Starts' /\ WritesTable' /\ HasWrittenTable' /\ Promises'
  <2>1. request[t].kind # "priorities" /\ UNCHANGED <<table, promised>>
    BY <1>3 DEF ReadAlreadySet, AlreadySet
  <2> QED BY <1>3, <2>1, ReturnKeeps DEF ReadAlreadySet, At
<1>4. ASSUME NEW t \in Threads, ReadFails(t) \/ WriteFails(t) \/ RefuseEntry(t)
      PROVE  Starts' /\ WritesTable' /\ HasWrittenTable' /\ Promises'
  BY <1>4, ReturnKeeps DEF ReadFails, WriteFails, RefuseEntry, AtSlot, At
<1>5. ASSUME NEW t \in Threads, Write(t)
      PROVE  Starts' /\ WritesTable' /\ HasWrittenTable' /\ Promises'
  BY <1>5, ReturnKeeps DEF Write, At
<1>6. ASSUME NEW t \in Threads, WriteSlotFails(t)
      PROVE  Starts' /\ WritesTable' /\ HasWrittenTable' /\ Promises'
  <2>1. /\ pc[t] = "table" /\ Failed(t) /\ Return(t) /\ TInv
        /\ SlotStored(t) \/ UNCHANGED table
    BY <1>6 DEF WriteSlotFails, AtSlot, At, PInv, UInv
  <2>2. request[t].kind = "priorities" /\ table \in [Units -> [Slots -> SlotBytes]]
    BY <2>1 DEF TInv, InTable, TypeOK
  <2>3. \A u \in Units \ {Unit(t)} : table'[u] = table[u]
    BY <2>1, <2>2 DEF SlotStored
  <2> QED BY <2>1, <2>2, <2>3, ReturnKeeps
<1>7. ASSUME NEW r \in Registers, NEW b \in ImageBytes,
             LoadRegister(r, b) \/ LoadRegisterFails(r, b)
      PROVE  Starts' /\ WritesTable' /\ HasWrittenTable' /\ Promises'
  BY <1>1, <1>7 DEF LoadRegister, LoadRegisterFails, localVars
<1>8. CASE ImageLoaded \/ get_fw_version
  BY <1>1, <1>8 DEF ImageLoaded, get_fw_version, localVars, ghostVars
<1>9. CASE UNCHANGED vars
  BY <1>1, <1>9 DEF vars, localVars, ghostVars
<1> QED
  BY <1>2, <1>3, <1>4, <1>5, <1>6, <1>7, <1>8, <1>9, StartKeeps, WriteSlotKeeps, TableWrittenKeeps
     DEF Next

(* After a request to set priorities that succeeded the table is its list, *)
(* whatever earlier ones left in it, for any threads, lists and failures.  *)
THEOREM PrioritiesFollow == Spec => []PrioritiesAsAsked
<1>1. PInv => PrioritiesAsAsked
  <2> SUFFICES ASSUME PInv, Quiet, NEW u \in Units, NEW l \in promised[u]
               PROVE  /\ \A s \in Slots :
                           /\ table[u][s].enabled <=> s <= Len(l)
                           /\ s <= Len(l) => table[u][s].ref = l[s].ref
                      /\ Cardinality(Runs(l)) <= MaxGroup => GroupedAs(table[u], l)
    BY DEF PrioritiesAsAsked
  <2>1. TableIs(table[u], l)
    BY DEF PInv, Promises, Replaces, Quiet
  <2> QED BY <2>1 DEF TableIs, ListedAs, Slots
<1> QED
  BY <1>1, PrioritiesInit, PrioritiesStep, PTL DEF Spec

-----------------------------------------------------------------------------
(* Requests to a FemtoClock3.                                              *)

LEMMA TdcTypesInit == TdcInit => TdcTypeOK
<1> SUFFICES ASSUME TdcInit PROVE TdcTypeOK
  OBVIOUS
<1>1. /\ {MaxMade, MaxFailures, MaxBinds} \subseteq Nat /\ FifoDepth \in Nat
      /\ <<>> \in Seq(1 .. MaxMade) /\ Len(<<>>) = 0
  BY TdcAssumption DEF TdcAssumption
<1>2. {binding, timeRef, running, started, late} \subseteq BOOLEAN
  BY DEF TdcInit
<1>3. fifo \in Seq(1 .. MaxMade) /\ Len(fifo) <= FifoDepth
  BY <1>1 DEF TdcInit
<1> QED BY <1>1, <1>2, <1>3 DEF TdcInit, TdcTypeOK, Modes

(* What the FIFO may be after a step.                                      *)
LEMMA FifoTypes ==
  ASSUME TdcTypeOK
  PROVE  /\ <<>> \in Seq(1 .. MaxMade) /\ Len(<<>>) <= FifoDepth
         /\ fifo \in Seq(1 .. MaxMade) /\ Len(fifo) <= FifoDepth
         /\ fifo # <<>> =>
              /\ Head(fifo) \in 0 .. MaxMade
              /\ Tail(fifo) \in Seq(1 .. MaxMade) /\ Len(Tail(fifo)) <= FifoDepth
         /\ \A n \in 1 .. MaxMade : Len(fifo) < FifoDepth =>
              Append(fifo, n) \in Seq(1 .. MaxMade) /\ Len(Append(fifo, n)) <= FifoDepth
<1>1. fifo \in Seq(1 .. MaxMade) /\ Len(fifo) <= FifoDepth
  BY DEF TdcTypeOK
<1>2. FifoDepth \in Nat \ {0}
  BY TdcAssumption DEF TdcAssumption
<1>3. 1 .. MaxMade \subseteq 0 .. MaxMade /\ 1 .. MaxMade \subseteq Nat
  BY TdcAssumption DEF TdcAssumption
<1>4. \A n \in 1 .. MaxMade : Len(fifo) < FifoDepth =>
        Append(fifo, n) \in Seq(1 .. MaxMade) /\ Len(Append(fifo, n)) <= FifoDepth
  BY <1>1, <1>2
<1>5. ASSUME fifo # <<>>
      PROVE  /\ Head(fifo) \in 0 .. MaxMade
             /\ Tail(fifo) \in Seq(1 .. MaxMade) /\ Len(Tail(fifo)) <= FifoDepth
  <2>1. /\ Head(fifo) \in 1 .. MaxMade
        /\ Tail(fifo) \in Seq(1 .. MaxMade) /\ Len(Tail(fifo)) = Len(fifo) - 1
    BY <1>1, <1>5, HeadTailProperties, Zenon
  <2>2. Len(fifo) \in Nat
    BY <1>1
  <2> QED BY <1>1, <1>2, <1>3, <2>1, <2>2
<1>6. <<>> \in Seq(1 .. MaxMade) /\ Len(<<>>) <= FifoDepth
  BY <1>2
<1> QED BY <1>1, <1>4, <1>5, <1>6

LEMMA TdcTypesStep == TdcTypeOK /\ [TdcNext]_tdcVars => TdcTypeOK'
<1> SUFFICES ASSUME TdcTypeOK, [TdcNext]_tdcVars PROVE TdcTypeOK'
  OBVIOUS
<1> DEFINE FifoOK == fifo \in Seq(1 .. MaxMade) /\ Len(fifo) <= FifoDepth
<1>1. Fault => failures' \in 0 .. MaxFailures
  BY TdcAssumption DEF TdcAssumption, TdcTypeOK, Fault
<1> USE DEF TdcTypeOK, driverVars, deviceVars, requestVars, Modes, CONTINUOUS, ONE_SHOT
<1>2. CASE Bind
  <2>1. binds' \in 0 .. MaxBinds
    BY <1>2, TdcAssumption DEF Bind, TdcAssumption
  <2>2. 0 \in 0 .. MaxMade
    BY TdcAssumption DEF TdcAssumption
  <2>3. \/ firmware' = "none" /\ binding' = FALSE
           /\ step' = "idle" /\ measMode' = "CONTINUOUS"
        \/ firmware' \in {"complete", "without"} /\ binding' = TRUE
           /\ step' = "disable" /\ measMode' = Invalid
    BY <1>2 DEF Bind
  <2> QED BY <1>2, <2>1, <2>2, <2>3 DEF Bind
<1>3. CASE \E m \in Modes : rsmu_fc3_get_tdc_meas(m)
  <2>1. 0 \in 0 .. MaxMade
    BY TdcAssumption DEF TdcAssumption
  <2> QED BY <1>3, <2>1 DEF rsmu_fc3_get_tdc_meas
<1>4. CASE ReadTimeRef \/ ReadTdcApll
  BY <1>4 DEF ReadTimeRef, ReadTdcApll
<1>5. CASE Disable
  <2>1. fifo' = <<>> \/ fifo' = fifo
    BY <1>5 DEF Disable
  <2>2. FifoOK'
    BY <2>1, FifoTypes
  <2> HIDE DEF FifoOK
  <2> QED BY <1>5, <2>2 DEF Disable, FifoOK
<1>6. CASE Configure \/ Enable
  BY <1>6 DEF Configure, Enable, Cached, NextStep
<1>7. CASE CheckOverrun \/ StartMeasurement \/ FifoFilled \/ Timeout
  BY <1>7 DEF CheckOverrun, StartMeasurement, FifoFilled, Timeout
<1>8. CASE ReadMeasurement
  <2>1. \/ fifo' = fifo /\ result' = 0
        \/ fifo # <<>> /\ fifo' = Tail(fifo) /\ result' = Head(fifo)
    BY <1>8 DEF ReadMeasurement
  <2>2. 0 \in 0 .. MaxMade
    BY TdcAssumption DEF TdcAssumption
  <2>3. FifoOK' /\ result' \in 0 .. MaxMade
    BY <2>1, <2>2, FifoTypes
  <2> HIDE DEF FifoOK
  <2> QED BY <1>8, <2>3 DEF ReadMeasurement, FifoOK
<1>9. CASE StatusFails \/ (\E at \in {"disable", "configure", "enable", "time_ref", "tdc_apll",
                                      "overrun", "start"} : Fails(at))
  BY <1>1, <1>9 DEF StatusFails, Fails
<1>10. CASE ReadMeasurementFails
  <2>1. fifo' = fifo \/ (fifo # <<>> /\ fifo' = Tail(fifo))
    BY <1>10 DEF ReadMeasurementFails
  <2>2. FifoOK'
    BY <2>1, FifoTypes
  <2> HIDE DEF FifoOK
  <2> QED BY <1>1, <1>10, <2>2 DEF ReadMeasurementFails, FifoOK
<1>11. CASE Measure
  <2>1. made' \in 1 .. MaxMade /\ made' \in 0 .. MaxMade
    <3>1. made \in 0 .. MaxMade /\ made < MaxMade /\ made' = made + 1
      BY <1>11 DEF Measure
    <3>2. MaxMade \in Nat
      BY TdcAssumption DEF TdcAssumption
    <3> QED
      BY <3>1, <3>2
  <2>2. fifo' = fifo \/ (Len(fifo) < FifoDepth /\ fifo' = Append(fifo, made'))
    BY <1>11 DEF Measure
  <2>3. FifoOK'
    BY <2>1, <2>2, FifoTypes
  <2> HIDE DEF FifoOK
  <2> QED BY <1>11, <2>1, <2>3 DEF Measure, FifoOK
<1>12. CASE UNCHANGED tdcVars
  BY <1>12 DEF tdcVars
<1> QED
  BY <1>2, <1>3, <1>4, <1>5, <1>6, <1>7, <1>8, <1>9, <1>10, <1>11, <1>12 DEF TdcNext, DriverStep

(* TIME_REF is only known when a mode switch has succeeded, and from then  *)
(* on the cached mode is the one in force or none.                         *)
ModeInv ==
  timeRef \/ step \in {"enable", "time_ref", "tdc_apll"} => measMode \in {hwMode, Invalid}

LEMMA ModeStep == ModeInv /\ [TdcNext]_tdcVars => ModeInv'
<1> SUFFICES ASSUME ModeInv, [TdcNext]_tdcVars PROVE ModeInv'
  OBVIOUS
<1> USE DEF ModeInv, driverVars, deviceVars, requestVars
<1>1. CASE Bind \/ (\E m \in Modes : rsmu_fc3_get_tdc_meas(m))
  BY <1>1 DEF Bind, rsmu_fc3_get_tdc_meas
<1>2. CASE ReadTimeRef \/ ReadTdcApll \/ Disable
  BY <1>2 DEF ReadTimeRef, ReadTdcApll, Disable
<1>3. CASE Configure \/ Enable
  BY <1>3 DEF Configure, Enable, Cached, NextStep
<1>4. CASE CheckOverrun \/ StartMeasurement \/ FifoFilled \/ Timeout \/ ReadMeasurement
  BY <1>4 DEF CheckOverrun, StartMeasurement, FifoFilled, Timeout, ReadMeasurement
<1>5. CASE \/ StatusFails \/ ReadMeasurementFails
           \/ \E at \in {"disable", "configure", "enable", "time_ref", "tdc_apll",
                          "overrun", "start"} : Fails(at)
  BY <1>5 DEF StatusFails, ReadMeasurementFails, Fails
<1>6. CASE Measure \/ UNCHANGED tdcVars
  BY <1>6 DEF Measure, tdcVars
<1> QED BY <1>1, <1>2, <1>3, <1>4, <1>5, <1>6 DEF TdcNext, DriverStep

(* A driver that is being bound asks for one shot mode and no measurement. *)
BindingInv ==
  binding => /\ want = ONE_SHOT
             /\ \/ step \in {"disable", "configure", "time_ref", "tdc_apll"}
                \/ step = "idle" /\ binds = 0

(* Nothing is measured, and nothing waits to be read.                      *)
Still == ~running /\ ~started /\ fifo = <<>>

(* A measurement waits that was made after it was asked for.               *)
FreshWaits == ~running /\ ~started /\ Len(fifo) = 1 /\ Head(fifo) > askedAt

(* In one shot mode the device measures nothing between two requests, so   *)
(* that the only measurement a request finds is its own.                   *)
FreshInv ==
  ClearsOnDisable /\ ~late /\ failures = 0 =>
    /\ step \in {"configure", "time_ref", "tdc_apll"} => Still
    /\ step \in {"idle", "start"} /\ measMode = ONE_SHOT => Still
    /\ step = "start" => want = ONE_SHOT
    /\ step \in {"overrun", "enable"} => want = CONTINUOUS
    /\ step \in {"start", "enable", "overrun", "wait", "read"} => measMode = want
    /\ step = "wait" /\ want = ONE_SHOT =>
         FreshWaits \/ (~running /\ started /\ fifo = <<>>)
    /\ step = "read" /\ want = ONE_SHOT => FreshWaits
    /\ want = ONE_SHOT => result = 0 \/ result > askedAt

FInv == TdcTypeOK /\ BindingInv /\ askedAt <= made /\ FreshInv

LEMMA FreshInit == TdcInit => FInv
<1> SUFFICES ASSUME TdcInit PROVE FInv
  OBVIOUS
<1>1. BindingInv /\ askedAt <= made /\ FreshInv
  BY DEF TdcInit, BindingInv, FreshInv, CONTINUOUS, ONE_SHOT
<1> QED BY <1>1, TdcTypesInit DEF FInv

LEMMA BindingStep == BindingInv /\ [TdcNext]_tdcVars => BindingInv'
<1> SUFFICES ASSUME BindingInv, [TdcNext]_tdcVars PROVE BindingInv'
  OBVIOUS
<1> USE DEF BindingInv, driverVars, deviceVars, requestVars, CONTINUOUS, ONE_SHOT
<1>1. CASE Bind
  BY <1>1 DEF Bind
<1>2. CASE \E m \in Modes : rsmu_fc3_get_tdc_meas(m)
  BY <1>2 DEF rsmu_fc3_get_tdc_meas
<1>3. CASE ReadTimeRef \/ ReadTdcApll \/ Disable \/ Configure \/ Enable
  BY <1>3 DEF ReadTimeRef, ReadTdcApll, Disable, Configure, Enable, NextStep
<1>4. CASE CheckOverrun \/ StartMeasurement \/ FifoFilled \/ Timeout \/ ReadMeasurement
  BY <1>4 DEF CheckOverrun, StartMeasurement, FifoFilled, Timeout, ReadMeasurement
<1>5. CASE \/ StatusFails \/ ReadMeasurementFails
           \/ \E at \in {"disable", "configure", "enable", "time_ref", "tdc_apll",
                          "overrun", "start"} : Fails(at)
  BY <1>5 DEF StatusFails, ReadMeasurementFails, Fails
<1>6. CASE Measure \/ UNCHANGED tdcVars
  BY <1>6 DEF Measure, tdcVars
<1> QED BY <1>1, <1>2, <1>3, <1>4, <1>5, <1>6 DEF TdcNext, DriverStep

(* What is measured for the request that waits is new.                     *)
LEMMA MeasureKeepsFresh == FInv /\ Measure => FreshInv'
<1> SUFFICES ASSUME FInv, Measure, ClearsOnDisable, ~late', failures' = 0
             PROVE  FreshInv'
  BY DEF FreshInv
<1>1. /\ ~late /\ failures = 0
      /\ UNCHANGED <<step, want, measMode, askedAt, result, running>>
      /\ running \/ started
      /\ made' = made + 1 /\ started' = FALSE
      /\ fifo' = IF Len(fifo) < FifoDepth THEN Append(fifo, made') ELSE fifo
  BY DEF Measure, driverVars, requestVars
<1>2. /\ made \in Nat /\ askedAt \in Nat /\ askedAt <= made
      /\ fifo \in Seq(1 .. MaxMade) /\ FifoDepth \in Nat \ {0}
  BY TdcAssumption DEF FInv, TdcTypeOK, TdcAssumption
<1>3. FreshInv
  BY DEF FInv
<1>4. ~Still /\ ~FreshWaits
  BY <1>1 DEF Still, FreshWaits
<1>5. ~(step \in {"configure", "time_ref", "tdc_apll"})
      /\ ~(step \in {"idle", "start"} /\ measMode = ONE_SHOT)
  BY <1>1, <1>3, <1>4 DEF FreshInv
<1>6. ASSUME step = "wait", want = ONE_SHOT PROVE FreshWaits'
  <2>1. ~running /\ fifo = <<>>
    BY <1>1, <1>3, <1>4, <1>6 DEF FreshInv
  <2>2. fifo' = <<made + 1>>
    BY <1>1, <1>2, <2>1
  <2>3. Len(fifo') = 1 /\ Head(fifo') = made + 1
    BY <2>2
  <2> QED BY <1>1, <1>2, <2>1, <2>3 DEF FreshWaits
<1>7. ~(step = "read" /\ want = ONE_SHOT)
  BY <1>1, <1>3, <1>4 DEF FreshInv
<1> QED BY <1>1, <1>3, <1>5, <1>6, <1>7 DEF FreshInv

LEMMA FreshStep == FInv /\ [TdcNext]_tdcVars => FInv'
<1> SUFFICES ASSUME FInv, [TdcNext]_tdcVars PROVE FInv'
  OBVIOUS
<1>1. TdcTypeOK' /\ BindingInv'
  BY TdcTypesStep, BindingStep DEF FInv
<1>2. /\ made \in Nat /\ askedAt \in Nat /\ askedAt <= made /\ failures \in Nat
      /\ want \in {CONTINUOUS, ONE_SHOT} /\ CONTINUOUS # ONE_SHOT
  BY TdcAssumption DEF FInv, TdcTypeOK, TdcAssumption, Modes, CONTINUOUS, ONE_SHOT
<1>3. askedAt' <= made'
  BY <1>2 DEF TdcNext, DriverStep, Bind, rsmu_fc3_get_tdc_meas, ReadTimeRef, ReadTdcApll, Disable,
     Configure, Enable, CheckOverrun, StartMeasurement, FifoFilled, Timeout, ReadMeasurement,
     StatusFails, ReadMeasurementFails, Fails, Measure, tdcVars, driverVars, deviceVars, requestVars
<1>4. SUFFICES ASSUME ClearsOnDisable, ~late', failures' = 0, ~Measure PROVE FreshInv'
  BY <1>1, <1>3, MeasureKeepsFresh DEF FInv, FreshInv
<1>5. ~Fault
  BY <1>2, <1>4 DEF Fault
<1> USE DEF FreshInv, Still, FreshWaits, driverVars, deviceVars, requestVars
<1>6. CASE Bind
  BY <1>2, <1>4, <1>6 DEF Bind, FInv, Invalid, CONTINUOUS, ONE_SHOT
<1>7. CASE \E m \in Modes : rsmu_fc3_get_tdc_meas(m)
  BY <1>2, <1>4, <1>7 DEF rsmu_fc3_get_tdc_meas, FInv, Modes
<1>8. CASE ReadTimeRef \/ ReadTdcApll
  BY <1>2, <1>4, <1>8 DEF ReadTimeRef, ReadTdcApll, FInv
<1>9. CASE Disable
  BY <1>2, <1>4, <1>9 DEF Disable, FInv
<1>10. CASE Configure
  BY <1>2, <1>4, <1>10 DEF Configure, Cached, NextStep, FInv, BindingInv
<1>11. CASE Enable
  BY <1>2, <1>4, <1>11 DEF Enable, NextStep, FInv, BindingInv
<1>12. CASE CheckOverrun
  BY <1>2, <1>4, <1>12 DEF CheckOverrun, FInv
<1>13. CASE StartMeasurement
  BY <1>2, <1>4, <1>13 DEF StartMeasurement, FInv
<1>14. CASE FifoFilled
  BY <1>2, <1>4, <1>14 DEF FifoFilled, FInv
<1>15. CASE Timeout
  BY <1>4, <1>15 DEF Timeout
<1>16. CASE ReadMeasurement
  <2>1. ~late /\ failures = 0 /\ step = "read" /\ measMode = want
    BY <1>4, <1>16 DEF ReadMeasurement, FInv
  <2>2. CASE want = ONE_SHOT
    <3>1. FreshWaits
      BY <1>4, <2>1, <2>2 DEF FInv
    <3>2. fifo # <<>> /\ Tail(fifo) = <<>>
      <4>1. fifo \in Seq(1 .. MaxMade) /\ Len(fifo) = 1
        BY <3>1 DEF FInv, TdcTypeOK
      <4>2. fifo # <<>>
        BY <4>1, EmptySeq
      <4>3. Tail(fifo) \in Seq(1 .. MaxMade) /\ Len(Tail(fifo)) = Len(fifo) - 1
        BY <4>1, <4>2, HeadTailProperties, Zenon
      <4>4. Len(Tail(fifo)) = 0
        BY <4>1, <4>3
      <4>5. Tail(fifo) # <<>> => Len(Tail(fifo)) \in Nat \ {0}
        BY <4>3, EmptySeq, Zenon
      <4> QED BY <4>2, <4>4, <4>5
    <3> QED BY <1>4, <1>16, <2>1, <3>1, <3>2 DEF ReadMeasurement
  <2>3. CASE want # ONE_SHOT
    BY <1>4, <1>16, <2>1, <2>3 DEF ReadMeasurement
  <2> QED BY <2>2, <2>3
<1>17. CASE \/ StatusFails \/ ReadMeasurementFails
            \/ \E at \in {"disable", "configure", "enable", "time_ref", "tdc_apll",
                           "overrun", "start"} : Fails(at)
  BY <1>5, <1>17 DEF StatusFails, ReadMeasurementFails, Fails
<1>18. CASE UNCHANGED tdcVars
  BY <1>4, <1>18 DEF tdcVars, FInv
<1> QED
  BY <1>4, <1>6, <1>7, <1>8, <1>9, <1>10, <1>11, <1>12, <1>13, <1>14, <1>15, <1>16, <1>17, <1>18
     DEF TdcNext, DriverStep

LEMMA Fc3Steps == [Fc3Next]_<<tdcVars, refVars>> => [TdcNext]_tdcVars /\ [RefNext]_refVars
BY DEF Fc3Next, RefRequest

(* The driver knows the mode of the device, wherever mode switches failed. *)
THEOREM MeasurementModeKnown == Fc3Spec => []ModeIsKnown
<1>1. Fc3Init => ModeInv
  BY DEF Fc3Init, TdcInit, ModeInv
<1>2. ModeInv /\ [Fc3Next]_<<tdcVars, refVars>> => ModeInv'
  BY Fc3Steps, ModeStep
<1>3. ModeInv => ModeIsKnown
  BY DEF ModeInv, ModeIsKnown
<1> QED BY <1>1, <1>2, <1>3, PTL DEF Fc3Spec

(* One shot measurements are made after they were asked for.               *)
THEOREM OneShotsAreFresh == Fc3Spec => []OneShotIsFresh
<1>1. Fc3Init => FInv
  BY FreshInit DEF Fc3Init
<1>2. FInv /\ [Fc3Next]_<<tdcVars, refVars>> => FInv'
  BY Fc3Steps, FreshStep
<1>3. FInv => OneShotIsFresh
  BY DEF FInv, FreshInv, OneShotIsFresh
<1> QED BY <1>1, <1>2, <1>3, PTL DEF Fc3Spec

-----------------------------------------------------------------------------
(* References of a FemtoClock3 and their priorities.                       *)

LEMMA LeastIn ==
  ASSUME NEW S \in SUBSET Nat, S # {}
  PROVE  Min(S) \in S
<1> DEFINE less == {ss \in Nat \X Nat : ss[1] < ss[2]}
<1>1. IsWellFoundedOn(less, Nat)
  BY NatLessThanWellFounded DEF OpToRel
<1>2. PICK x \in S : \A y \in S : ~ (<<y, x>> \in less)
  <2> HIDE DEF less
  <2> QED BY <1>1, WFMin
<1>3. ASSUME NEW y \in S PROVE x <= y
  <2>1. <<y, x>> \in Nat \X Nat /\ <<y, x>>[1] = y /\ <<y, x>>[2] = x
    OBVIOUS
  <2>2. ~ (y < x)
    BY <1>2, <2>1
  <2> QED BY <2>2
<1> QED BY <1>3 DEF Min

LEMMA GreatestIn ==
  ASSUME NEW n \in Nat, NEW S \in SUBSET (1 .. n), S # {}
  PROVE  Max(S) \in S
<1> DEFINE less == {ss \in Nat \X Nat : ss[1] < ss[2]}
           T    == {n - x : x \in S}
<1>1. IsWellFoundedOn(less, Nat)
  BY NatLessThanWellFounded DEF OpToRel
<1>2. \A x \in S : n - x \in Nat
  OBVIOUS
<1>3. T \subseteq Nat /\ T # {}
  BY <1>2
<1>4. PICK z \in T : \A y \in T : ~ (<<y, z>> \in less)
  <2> HIDE DEF less, T
  <2> QED BY <1>1, <1>3, WFMin
<1>5. PICK x \in S : z = n - x
  OBVIOUS
<1>6. ASSUME NEW y \in S PROVE x >= y
  <2>1. <<n - y, z>> \in Nat \X Nat /\ <<n - y, z>>[1] = n - y /\ <<n - y, z>>[2] = z
    BY <1>2, <1>5
  <2>2. ~ (n - y < z)
    BY <1>4, <2>1
  <2> QED BY <1>5, <2>2
<1> QED BY <1>6 DEF Max

(* A reference that is found for a clock is connected to it.               *)
LEMMA FoundIsConnected ==
  ASSUME NEW c, clock_index_to_ref_index(c) \in Refs
  PROVE  mux[clock_index_to_ref_index(c)] = c
<1> DEFINE found == {r \in Refs : mux[r] = c}
<1>1. MaxRef \in Nat /\ MaxRef + 1 \notin Refs /\ found \cup {MaxRef + 1} \in SUBSET Nat
  BY ReferencesAssumption DEF ReferencesAssumption, Refs
<1>2. Min(found \cup {MaxRef + 1}) \in found \cup {MaxRef + 1}
  <2> HIDE DEF found
  <2> QED BY <1>1, LeastIn
<1> QED BY <1>1, <1>2 DEF clock_index_to_ref_index

(* The entries of a list that name a reference, and the last of them.      *)
Naming(list, r) == {i \in DOMAIN list : clock_index_to_ref_index(list[i].clock) = r}

LEMMA NamingEntries ==
  ASSUME NEW list \in ClockLists, Accepts(list), NEW r \in Refs, Naming(list, r) # {}
  PROVE  /\ Max(Naming(list, r)) \in Naming(list, r)
         /\ PriorityAfter(list, r) = list[Max(Naming(list, r))].prio
         /\ PriorityAfter(list, r) \in Priorities
         /\ Naming(list, r) = {i \in DOMAIN list : list[i].clock = mux[r]}
<1>1. list \in Seq([clock : Nat, prio : Nat])
  BY ReferencesAssumption DEF ReferencesAssumption
<1>2. DOMAIN list = 1 .. Len(list) /\ Len(list) \in Nat
  BY <1>1
<1>3. Naming(list, r) \in SUBSET (1 .. Len(list))
  BY <1>2 DEF Naming
<1>4. Max(Naming(list, r)) \in Naming(list, r)
  BY <1>2, <1>3, GreatestIn
<1>5. PriorityAfter(list, r) = list[Max(Naming(list, r))].prio
  BY DEF PriorityAfter, Naming
<1>6. \A i \in DOMAIN list : ~Refuses(list[i])
  BY DEF Accepts
<1>7. list[Max(Naming(list, r))].prio \in Priorities
  BY <1>4, <1>6 DEF Naming, Refuses
<1>8. ASSUME NEW i \in DOMAIN list
      PROVE  i \in Naming(list, r) <=> list[i].clock = mux[r]
  <2>1. ASSUME i \in Naming(list, r) PROVE list[i].clock = mux[r]
    BY <2>1, FoundIsConnected DEF Naming
  <2>2. ASSUME list[i].clock = mux[r] PROVE i \in Naming(list, r)
    <3>1. PICK j \in Naming(list, r) : TRUE
      OBVIOUS
    <3>2. list[j].clock = mux[r] /\ clock_index_to_ref_index(list[j].clock) = r
      BY <3>1, FoundIsConnected DEF Naming
    <3> QED BY <2>2, <3>2 DEF Naming
  <2> QED BY <2>1, <2>2
<1>9. Naming(list, r) = {i \in DOMAIN list : list[i].clock = mux[r]}
  <2>1. Naming(list, r) \subseteq DOMAIN list
    BY DEF Naming
  <2> QED BY <1>8, <2>1
<1> QED BY <1>4, <1>5, <1>7, <1>9

LEMMA PriorityType ==
  ASSUME NEW list \in ClockLists, Accepts(list), NEW r \in Refs
  PROVE  /\ PriorityAfter(list, r) \in Priorities \cup {RefDisabled}
         /\ PriorityAfter(list, r) = RefDisabled <=> Naming(list, r) = {}
<1>1. RefDisabled \notin Priorities
  BY ReferencesAssumption DEF ReferencesAssumption, RefDisabled, Priorities
<1>2. CASE Naming(list, r) = {}
  BY <1>2 DEF PriorityAfter, Naming, StartsAs
<1>3. CASE Naming(list, r) # {}
  BY <1>1, <1>3, NamingEntries
<1> QED BY <1>2, <1>3

(* The list that succeeded last is what the table holds.                   *)
RefInv ==
  /\ RefTypeOK
  /\ wanted # Unknown =>
       Accepts(wanted) /\ \A r \in Refs : refTable[r] = PriorityAfter(wanted, r)

LEMMA RefInvInit == RefInit => RefInv
BY ReferencesAssumption
   DEF ReferencesAssumption, RefInit, RefInv, RefTypeOK, Priorities

LEMMA RefStep == RefInv /\ [RefNext]_refVars => RefInv'
<1> SUFFICES ASSUME RefInv, [RefNext]_refVars PROVE RefInv'
  OBVIOUS
<1> USE DEF RefInv, RefTypeOK
<1>1. ASSUME mux' = mux
      PROVE  \A list : /\ Accepts(list)' <=> Accepts(list)
                       /\ \A r : PriorityAfter(list, r)' = PriorityAfter(list, r)
  BY <1>1 DEF Accepts, Refuses, PriorityAfter, StartsAs, clock_index_to_ref_index
<1>2. ASSUME NEW list \in ClockLists, rsmu_fc3_set_clock_priorities(list) PROVE RefInv'
  <2>1. /\ mux' = mux /\ wanted' = list /\ Accepts(list)
        /\ refTable' = [r \in Refs |-> PriorityAfter(list, r)]
    BY <1>2 DEF rsmu_fc3_set_clock_priorities
  <2>2. refTable' \in [Refs -> Priorities \cup {RefDisabled}]
    BY <2>1, PriorityType
  <2>3. Accepts(list)' /\ \A r \in Refs : PriorityAfter(list, r)' = PriorityAfter(list, r)
    BY <1>1, <2>1
  <2> QED BY <2>1, <2>2, <2>3
<1>3. ASSUME NEW list \in ClockLists, SetPrioritiesFails(list) PROVE RefInv'
  <2>1. PICK written \in SUBSET Refs :
          refTable' = [r \in Refs |-> IF r \in written THEN PriorityAfter(list, r) ELSE refTable[r]]
    BY <1>3 DEF SetPrioritiesFails
  <2>2. refTable' \in [Refs -> Priorities \cup {RefDisabled}]
    BY <1>3, <2>1, PriorityType DEF SetPrioritiesFails
  <2> QED BY <1>3, <2>2 DEF SetPrioritiesFails
<1>4. ASSUME NEW m \in Muxes, ConnectClocks(m) PROVE RefInv'
  <2>1. mux' \in [Refs -> InputClocks] /\ refTable' = refTable
    BY <1>4, ReferencesAssumption DEF ConnectClocks, ReferencesAssumption
  <2>2. wanted' = Unknown \/ (mux' = mux /\ wanted' = wanted)
    BY <1>4 DEF ConnectClocks
  <2> QED BY <1>1, <2>1, <2>2
<1>5. CASE UNCHANGED refVars
  <2>1. mux' = mux /\ refTable' = refTable /\ wanted' = wanted
    BY <1>5 DEF refVars
  <2> QED BY <1>1, <2>1
<1> QED BY <1>2, <1>3, <1>4, <1>5 DEF RefNext

LEMMA ListsAreFollowed == RefInv => FollowsAsAsked
<1> SUFFICES ASSUME RefInv, wanted # Unknown PROVE FollowsAsAsked
  BY DEF FollowsAsAsked
<1> DEFINE followed == {r \in Refs : refTable[r] # RefDisabled}
<1>1. wanted \in ClockLists /\ Accepts(wanted)
  BY DEF RefInv, RefTypeOK
<1>2. \A r \in Refs : refTable[r] = PriorityAfter(wanted, r)
  BY DEF RefInv
<1>3. followed = {r \in Refs : Naming(wanted, r) # {}}
  BY <1>1, <1>2, PriorityType
<1>4. ASSUME NEW r \in followed
      PROVE  /\ \E i \in DOMAIN wanted : wanted[i].clock = mux[r]
             /\ refTable[r] =
                  wanted[Max({i \in DOMAIN wanted : wanted[i].clock = mux[r]})].prio
  <2>1. r \in Refs /\ Naming(wanted, r) # {}
    BY <1>3, <1>4
  <2>2. /\ Naming(wanted, r) = {i \in DOMAIN wanted : wanted[i].clock = mux[r]}
        /\ PriorityAfter(wanted, r) = wanted[Max(Naming(wanted, r))].prio
    BY <1>1, <2>1, NamingEntries
  <2>3. \E i \in DOMAIN wanted : wanted[i].clock = mux[r]
    BY <2>1, <2>2
  <2> QED BY <1>2, <2>1, <2>2, <2>3
<1>5. ASSUME NEW i \in DOMAIN wanted
      PROVE  \E r \in followed : mux[r] = wanted[i].clock
  <2> DEFINE r == clock_index_to_ref_index(wanted[i].clock)
  <2>1. r \in Refs
    BY <1>1 DEF Accepts, Refuses
  <2>2. i \in Naming(wanted, r)
    BY DEF Naming
  <2>3. mux[r] = wanted[i].clock
    BY <2>1, FoundIsConnected
  <2> HIDE DEF r
  <2> QED BY <1>3, <2>1, <2>2, <2>3
<1>6. {mux[r] : r \in followed} = {wanted[i].clock : i \in DOMAIN wanted}
  <2> HIDE DEF followed
  <2>1. \A r \in followed : mux[r] \in {wanted[i].clock : i \in DOMAIN wanted}
    BY <1>4
  <2>2. \A i \in DOMAIN wanted : wanted[i].clock \in {mux[r] : r \in followed}
    BY <1>5
  <2> QED BY <2>1, <2>2
<1>7. \A r \in followed :
        refTable[r] = wanted[Max({i \in DOMAIN wanted : wanted[i].clock = mux[r]})].prio
  BY <1>4
<1> QED BY <1>6, <1>7 DEF FollowsAsAsked, rsmu_fc3_get_clock_index

(* The state of driver and device keeps its type.                          *)
THEOREM Fc3Types == Fc3Spec => [](TdcTypeOK /\ RefTypeOK)
<1>1. Fc3Init => TdcTypeOK /\ RefInv
  BY TdcTypesInit, RefInvInit DEF Fc3Init
<1>2. (TdcTypeOK /\ RefInv) /\ [Fc3Next]_<<tdcVars, refVars>> => (TdcTypeOK /\ RefInv)'
  BY Fc3Steps, TdcTypesStep, RefStep
<1>3. RefInv => RefTypeOK
  BY DEF RefInv
<1> QED BY <1>1, <1>2, <1>3, PTL DEF Fc3Spec

(* The clocks a DPLL can be reported to follow are those asked for, with   *)
(* the priorities asked for.                                               *)
THEOREM ClocksFollowed == Fc3Spec => []FollowsAsAsked
<1>1. Fc3Init => RefInv
  BY RefInvInit DEF Fc3Init
<1>2. RefInv /\ [Fc3Next]_<<tdcVars, refVars>> => RefInv'
  BY Fc3Steps, RefStep
<1> QED BY <1>1, <1>2, ListsAreFollowed, PTL DEF Fc3Spec
=============================================================================
