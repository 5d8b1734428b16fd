----------------------------- MODULE CmRequests -----------------------------
(***************************************************************************)
(* Requests of the character device to a ClockMatrix                       *)
(* (linux/drivers/misc/rsmu_cdev.c and rsmu_cm.c).  A request changes some *)
(* bits of a register by reading and writing it, or writes the priority    *)
(* table of a DPLL entry by entry.  The PTP driver changes other bits of   *)
(* the same registers from its own threads; all take one mutex, but for    *)
(* rsmu_probe, which loads a firmware image without it while the PTP       *)
(* driver may be at work.  Requests that only read are left out, and so    *)
(* are those refused before their first transfer.                          *)
(*                                                                         *)
(* A register is a record: the bits its request sets and the rest.         *)
(*   mode   own: state_mode, 0 automatic, 1 forced holdover, 2 any other   *)
(*          rest: pll_mode, which the PTP driver sets                      *)
(*   combo  own: COMBO_MASTER_HOLD                                         *)
(*   tdc    own: the go bit of an output TDC                               *)
(***************************************************************************)
EXTENDS Naturals, Sequences, FiniteSets

CONSTANTS
  Users,         \* threads that issue requests
  Clocks,        \* threads of the PTP driver
  Nobody,        \* owner of the free mutex
  Units,         \* DPLLs, and output TDCs, of the device
  Lists,         \* priority lists that are asked for
  ImageBytes,    \* what firmware images write to registers
  NumRefs,       \* MAX_ELECTRICAL_REFERENCES
  NumSlots,      \* MAX_REF_PRIORITIES
  MaxGroup,      \* MAX_PRIORITY_GROUP
  MaxRequests,   \* bound on requests
  MaxErrors      \* bound on failed transfers

Entries == [ref : Nat, priority : Nat]

ASSUME RequestAssumption ==
  /\ Nobody \notin Users \cup Clocks
  /\ \A l \in Lists : l \in Seq(Entries)
  /\ NumRefs \in Nat \ {0} /\ NumSlots \in Nat /\ MaxGroup \in Nat
  /\ MaxRequests \in Nat /\ MaxErrors \in Nat
  /\ ImageBytes \subseteq [own : 0 .. 2, rest : 0 .. 1]

Threads   == Users \cup Clocks
Bytes     == [own : 0 .. 2, rest : 0 .. 1]
Registers == {"mode", "combo", "tdc"} \X Units
Slots     == 1 .. NumSlots
SlotBytes == [enabled : BOOLEAN, ref : 0 .. NumRefs - 1, group : 0 .. MaxGroup]
Disabled  == [enabled |-> FALSE, ref |-> 0, group |-> 0]

CombomodeRequests == [kind : {"combomode"}, reg : {"combo"} \X Units, value : 0 .. 1]
HoldoverRequests  == [kind : {"holdover"}, reg : {"mode"} \X Units, value : 0 .. 1]
TdcGoRequests     == [kind : {"tdc_go"}, reg : {"tdc"} \X Units, value : 0 .. 1]
RegWriteRequests  == [kind : {"reg_write"}, reg : Registers, value : Bytes]
PriorityRequests  == [kind : {"priorities"}, reg : {"mode"} \X Units, value : Lists]
PllModeRequests   == [kind : {"pll_mode"}, reg : {"mode"} \X Units, value : 0 .. 1]

Requests ==
  CombomodeRequests \cup HoldoverRequests \cup TdcGoRequests \cup RegWriteRequests
    \cup PriorityRequests \cup PllModeRequests
NoRequest == [kind |-> "none"]

VARIABLES
  pc,        \* per thread: "idle", "table", "read" or "write"
  request,   \* per thread: its request
  byte,      \* per thread: the register it has read
  index,     \* per thread: entry of the table it is at
  group,     \* per thread: prev_priority_group
  lock,      \* owner of the mutex
  regs,      \* the registers
  table,     \* per DPLL: the priority table
  probe,     \* progress of rsmu_probe
  asked,     \* per register: what it may hold if requests were atomic
  promised,  \* per DPLL: the list whose request succeeded last, if it is in force
  crossed,   \* registers the image wrote while the PTP driver changed them
  requests,  \* requests so far
  errs       \* failed transfers so far

localVars == <<byte, index, group>>
ghostVars == <<asked, promised>>
probeVars == <<probe, crossed>>
vars == <<pc, request, localVars, lock, regs, table, ghostVars, probeVars, requests, errs>>

TypeOK ==
  /\ pc \in [Threads -> {"idle", "table", "read", "write"}]
  /\ request \in [Threads -> Requests \cup {NoRequest}]
  /\ byte \in [Threads -> Bytes]
  /\ index \in [Threads -> 1 .. NumSlots + 1]
  /\ group \in [Threads -> 0 .. MaxGroup]
  /\ lock \in Threads \cup {Nobody}
  /\ regs \in [Registers -> Bytes]
  /\ table \in [Units -> [Slots -> SlotBytes]]
  /\ asked \in [Registers -> SUBSET Bytes]
  /\ promised \in [Units -> SUBSET Lists]
  /\ probe \in {"loading", "checking", "ready", "failed"}
  /\ crossed \subseteq Registers
  /\ requests \in 0 .. MaxRequests
  /\ errs \in 0 .. MaxErrors

Reset == [own |-> 0, rest |-> 0]

Init ==
  /\ pc = [t \in Threads |-> "idle"]
  /\ request = [t \in Threads |-> NoRequest]
  /\ byte = [t \in Threads |-> Reset]
  /\ index = [t \in Threads |-> 1]
  /\ group = [t \in Threads |-> 0]
  /\ lock = Nobody
  /\ regs = [r \in Registers |-> Reset]
  /\ table = [u \in Units |-> [s \in Slots |-> Disabled]]
  /\ asked = [r \in Registers |-> {Reset}]
  /\ promised = [u \in Units |-> {}]
  /\ probe = "loading" /\ crossed = {}
  /\ requests = 0 /\ errs = 0

At(t, step) == pc[t] = step /\ UNCHANGED <<requests, probeVars>>
Goto(t, step) == pc' = [pc EXCEPT ![t] = step] /\ UNCHANGED request
Err == errs < MaxErrors /\ errs' = errs + 1

Unit(t) == request[t].reg[2]
List(t) == request[t].value

-----------------------------------------------------------------------------
(* rsmu_probe: rsmu_cm_init, which loads an image, if there is one, and    *)
(* reads the version of the firmware; the device can be opened when all of *)
(* it is over.                                                             *)

RegisterLoaded(r, b) == regs' = [regs EXCEPT ![r] = b]

Crosses(r) == \E t \in Clocks : pc[t] = "write" /\ request[t].reg = r

LoadRegister(r, b) ==
  /\ probe = "loading"
  /\ RegisterLoaded(r, b)
  /\ asked' = [asked EXCEPT ![r] = {b}]
  /\ crossed' = IF Crosses(r) THEN crossed \cup {r} ELSE crossed
  /\ UNCHANGED <<pc, request, localVars, lock, table, promised, probe, requests, errs>>

(* The rest of the image is not written, and the probe goes on.            *)
LoadRegisterFails(r, b) ==
  /\ probe = "loading"
  /\ Err
  /\ RegisterLoaded(r, b) \/ UNCHANGED regs
  /\ asked' = [asked EXCEPT ![r] = @ \cup {b}]
  /\ crossed' = IF Crosses(r) THEN crossed \cup {r} ELSE crossed
  /\ probe' = "checking"
  /\ UNCHANGED <<pc, request, localVars, lock, table, promised, requests>>

ImageLoaded ==
  /\ probe = "loading"
  /\ probe' = "checking"
  /\ UNCHANGED <<pc, request, localVars, lock, regs, table, ghostVars, crossed, requests, errs>>

get_fw_version ==
  /\ probe = "checking"
  /\ \/ probe' = "ready" /\ UNCHANGED errs
     \/ probe' = "failed" /\ Err
  /\ UNCHANGED <<pc, request, localVars, lock, regs, table, ghostVars, crossed, requests>>

-----------------------------------------------------------------------------
(* The mutex. *)

MutantLockFree == TRUE
LockFree == lock = Nobody

Accepted(r) == r.kind = "priorities" => Len(r.value) <= NumSlots

(* Users need the device, the clock does not.                              *)
IsFrom(r, t) ==
  /\ t \in Clocks <=> r.kind = "pll_mode"
  /\ t \in Users => probe = "ready"

Start(t, r) ==
  /\ pc[t] = "idle" /\ LockFree /\ requests < MaxRequests
  /\ IsFrom(r, t) /\ Accepted(r)
  /\ lock' = t
  /\ requests' = requests + 1
  /\ request' = [request EXCEPT ![t] = r]
  /\ pc' = [pc EXCEPT ![t] = CASE r.kind = "priorities" -> "table"
                               [] r.kind = "reg_write"  -> "write"
                               [] OTHER                 -> "read"]
  /\ UNCHANGED <<localVars, regs, table, ghostVars, probeVars, errs>>

Return(t) ==
  /\ pc' = [pc EXCEPT ![t] = "idle"]
  /\ request' = [request EXCEPT ![t] = NoRequest]
  /\ byte' = [byte EXCEPT ![t] = Reset]
  /\ index' = [index EXCEPT ![t] = 1]
  /\ group' = [group EXCEPT ![t] = 0]
  /\ lock' = Nobody

-----------------------------------------------------------------------------
(* Reading, changing and writing a register. *)

(* What a request makes of a register; priorities writes mode back as read.*)
Changed(r, b) ==
  CASE r.kind \in {"combomode", "holdover", "tdc_go"} -> [b EXCEPT !.own = r.value]
    [] r.kind = "pll_mode"   -> [b EXCEPT !.rest = r.value]
    [] r.kind = "reg_write"  -> r.value
    [] r.kind = "priorities" -> b

(* The register may hold what the request makes of it; has the write       *)
(* failed, also what it held before.                                       *)
Asked(t, kept) ==
  asked' = [asked EXCEPT ![request[t].reg] =
              {Changed(request[t], b) : b \in @} \cup (IF kept THEN @ ELSE {})]

Succeeded(t) ==
  promised' = IF request[t].kind = "priorities"
              THEN [promised EXCEPT ![Unit(t)] = {List(t)}] ELSE promised
Failed(t) ==
  promised' = IF request[t].kind = "priorities"
              THEN [promised EXCEPT ![Unit(t)] = {}] ELSE promised

(* Holdover that is as asked for is not written. *)
AlreadySet(r, b) == r.kind = "holdover" /\ b.own = r.value

Read(t) ==
  /\ At(t, "read")
  /\ ~AlreadySet(request[t], regs[request[t].reg])
  /\ byte' = [byte EXCEPT ![t] = regs[request[t].reg]]
  /\ Goto(t, "write")
  /\ UNCHANGED <<index, group, lock, regs, table, ghostVars, errs>>

ReadAlreadySet(t) ==
  /\ At(t, "read")
  /\ AlreadySet(request[t], regs[request[t].reg])
  /\ Asked(t, FALSE)
  /\ Return(t)
  /\ UNCHANGED <<regs, table, promised, errs>>

ReadFails(t) ==
  /\ At(t, "read") /\ request[t].kind # "tdc_go"
  /\ Err
  /\ Failed(t)
  /\ Return(t)
  /\ UNCHANGED <<regs, table, asked>>

(* rsmu_cm_set_output_tdc_go goes on with the byte it has not read.        *)
TdcReadFails(t) ==
  /\ At(t, "read") /\ request[t].kind = "tdc_go"
  /\ Err
  /\ \E b \in Bytes : byte' = [byte EXCEPT ![t] = b]
  /\ Goto(t, "write")
  /\ UNCHANGED <<index, group, lock, regs, table, ghostVars>>

Stored(t) == regs' = [regs EXCEPT ![request[t].reg] = Changed(request[t], byte[t])]

Write(t) ==
  /\ At(t, "write")
  /\ Stored(t)
  /\ Asked(t, FALSE)
  /\ Succeeded(t)
  /\ Return(t)
  /\ UNCHANGED <<table, errs>>

(* A failed write may have reached the register. *)
WriteFails(t) ==
  /\ At(t, "write")
  /\ Err
  /\ Stored(t) \/ UNCHANGED regs
  /\ Asked(t, TRUE)
  /\ Failed(t)
  /\ Return(t)
  /\ UNCHANGED table

-----------------------------------------------------------------------------
(* The priority table: rsmu_cm_set_clock_priorities. *)

SamePriority(l, i, j) == l[i].priority = l[j].priority

Valid(e) == e.ref < NumRefs /\ e.priority < NumSlots

NextGroup(g) == IF g < MaxGroup THEN g + 1 ELSE g

InGroup(l, i) == i > 1 /\ SamePriority(l, i, i - 1)
OpensGroup(l, i, g) ==
  ~InGroup(l, i) /\ i < Len(l) /\ SamePriority(l, i, i + 1) /\ g # NextGroup(g)

GroupAfter(l, i, g) == IF OpensGroup(l, i, g) THEN NextGroup(g) ELSE g
GroupOf(l, i, g) ==
  IF InGroup(l, i) \/ OpensGroup(l, i, g) THEN GroupAfter(l, i, g) ELSE 0

(* Entries are in the order of the list; the slots behind it are disabled. *)
MutantSlotByte(l, i, g, old) ==
  IF i > Len(l) THEN old
  ELSE [enabled |-> TRUE, ref |-> l[i].ref, group |-> GroupOf(l, i, g)]
SlotByte(l, i, g, old) ==
  IF i > Len(l) THEN Disabled
  ELSE [enabled |-> TRUE, ref |-> l[i].ref, group |-> GroupOf(l, i, g)]

SlotStored(t) ==
  table' = [table EXCEPT ![Unit(t)][index[t]] =
              SlotByte(List(t), index[t], group[t], @)]

(* Is a slot the next to be written, and its entry, if it has one, valid.  *)
AtSlot(t) == At(t, "table") /\ index[t] <= NumSlots
AtInvalid(t) == index[t] <= Len(List(t)) /\ ~Valid(List(t)[index[t]])

WriteSlot(t) ==
  /\ AtSlot(t) /\ ~AtInvalid(t)
  /\ SlotStored(t)
  /\ index' = [index EXCEPT ![t] = @ + 1]
  /\ group' = [group EXCEPT ![t] =
       IF index[t] <= Len(List(t)) THEN GroupAfter(List(t), index[t], @) ELSE @]
  /\ UNCHANGED <<pc, request, byte, lock, regs, ghostVars, errs>>

WriteSlotFails(t) ==
  /\ AtSlot(t) /\ ~AtInvalid(t)
  /\ Err
  /\ SlotStored(t) \/ UNCHANGED table
  /\ Failed(t)
  /\ Return(t)
  /\ UNCHANGED <<regs, asked>>

(* An entry out of range is found when those before it have been written.  *)
RefuseEntry(t) ==
  /\ AtSlot(t) /\ AtInvalid(t)
  /\ Failed(t)
  /\ Return(t)
  /\ UNCHANGED <<regs, table, asked, errs>>

TableWritten(t) ==
  /\ At(t, "table") /\ index[t] > NumSlots
  /\ Goto(t, "read")
  /\ UNCHANGED <<localVars, lock, regs, table, ghostVars, errs>>

Next ==
  \/ \E r \in Registers, b \in ImageBytes : LoadRegister(r, b) \/ LoadRegisterFails(r, b)
  \/ ImageLoaded \/ get_fw_version
  \/ \E t \in Threads :
       \/ \E r \in Requests : Start(t, r)
       \/ Read(t) \/ ReadAlreadySet(t) \/ ReadFails(t) \/ TdcReadFails(t)
       \/ Write(t) \/ WriteFails(t)
       \/ WriteSlot(t) \/ WriteSlotFails(t) \/ RefuseEntry(t) \/ TableWritten(t)

Spec == Init /\ [][Next]_vars

-----------------------------------------------------------------------------
Quiet == \A t \in Threads : pc[t] = "idle"

(* Two drivers that read, change and write the same registers lose no      *)
(* update of each other: a register holds what the requests so far make of *)
(* it one after the other, a failed write having happened or not.  The     *)
(* other bits of an output TDC are excepted when a read has failed, and a  *)
(* register when the image was loaded between its read and its write.      *)
AsAsked(r) ==
  \/ regs[r] \in asked[r]
  \/ r \in crossed
  \/ r[1] = "tdc" /\ errs > 0 /\ \E b \in asked[r] : regs[r].own = b.own
NoUpdateIsLost == Quiet => \A r \in Registers : AsAsked(r)

(* Entries of equal priority in a row share a group that nobody else is    *)
(* in, single entries have none.                                           *)
InOneRun(l, i, j) == \A k \in i .. j : SamePriority(l, i, k)
Runs(l) ==
  {i \in 1 .. Len(l) - 1 : SamePriority(l, i, i + 1) /\ (i > 1 => ~SamePriority(l, i, i - 1))}
GroupedAs(tab, l) ==
  \A i \in 1 .. Len(l) : \A j \in i + 1 .. Len(l) :
    InOneRun(l, i, j) <=> tab[i].group = tab[j].group /\ tab[i].group # 0

(* After a request to set priorities that succeeded the table is the list, *)
(* whatever an earlier request that failed half way or was refused had     *)
(* left in it: its references in its order, nothing behind them, and, as   *)
(* long as the device has groups enough, equal priorities grouped.         *)
PrioritiesAsAsked ==
  Quiet =>
    \A u \in Units : \A l \in promised[u] :
      /\ \A s \in Slots :
           /\ table[u][s].enabled <=> s <= Len(l)
           /\ s <= Len(l) => table[u][s].ref = l[s].ref
      /\ Cardinality(Runs(l)) <= MaxGroup => GroupedAs(table[u], l)
=============================================================================
