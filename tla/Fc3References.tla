--------------------------- MODULE Fc3References ---------------------------
(***************************************************************************)
(* The references of a DPLL of a FemtoClock3 W and their priorities        *)
(* (linux/drivers/misc/rsmu_fc3.c).  Users name input clocks; the device   *)
(* has references, each of which a register connects to one input clock,   *)
(* so a request for a clock is one for the first reference connected to it *)
(* and the reference a DPLL follows is reported as its clock.              *)
(*                                                                         *)
(* A request holds the mutex of the device from its first transfer to its  *)
(* last, and the device changes none of these registers: what a request    *)
(* does, which is at most one write and its last transfer, is one step,    *)
(* and so is one that fails.                                               *)
(***************************************************************************)
EXTENDS Naturals, Sequences, FiniteSetsExt

CONSTANTS
  MaxRef,      \* MAX_REF_INDEX
  MaxClock,    \* MAX_INPUT_CLOCK_INDEX
  MaxPrio,     \* priorities 0 .. MaxPrio; as many entries may be given
  Muxes,       \* settings of REF_SEL_CNFG that users write
  ClockLists,  \* lists of entries that users ask for
  Unknown      \* no list has succeeded since the clocks were connected

Refs        == 0 .. MaxRef
InputClocks == 0 .. MaxClock
RefDisabled == MaxPrio + 1
Priorities  == 0 .. MaxPrio

ASSUME ReferencesAssumption ==
  /\ {MaxRef, MaxClock, MaxPrio} \subseteq Nat
  /\ Muxes \subseteq [Refs -> InputClocks]
  /\ \A list \in ClockLists : list \in Seq([clock : Nat, prio : Nat])

VARIABLES
  mux,       \* REF_SEL_CNFG: the clock each reference is connected to
  refTable,  \* DPLL_REF_PRIORITY_CNFG: the priority of each reference
  wanted     \* history: the last list that succeeded, or Unknown

refVars == <<mux, refTable, wanted>>

RefTypeOK ==
  /\ mux \in [Refs -> InputClocks]
  /\ refTable \in [Refs -> Priorities \cup {RefDisabled}]
  /\ wanted \in ClockLists \cup {Unknown}

RefInit ==
  /\ mux \in Muxes
  /\ refTable = [r \in Refs |-> 0]
  /\ wanted = Unknown

-----------------------------------------------------------------------------
(* The first reference connected to clock c; one more than there are when  *)
(* none is, which every caller refuses.                                    *)
clock_index_to_ref_index(c) == Min({r \in Refs : mux[r] = c} \cup {MaxRef + 1})

Refuses(entry) ==
  \/ entry.clock \notin InputClocks
  \/ entry.prio \notin Priorities
  \/ clock_index_to_ref_index(entry.clock) \notin Refs

(* All references are disabled first; a later entry for a reference        *)
(* replaces an earlier one.                                                *)
MutantStartsAs(r) == refTable[r]
StartsAs(r) == RefDisabled

PriorityAfter(list, r) ==
  LET naming == {i \in DOMAIN list : clock_index_to_ref_index(list[i].clock) = r} IN
  IF naming = {} THEN StartsAs(r) ELSE list[Max(naming)].prio

(* A list with an entry that is refused, or for which REF_SEL_CNFG cannot  *)
(* be read, changes nothing.                                               *)
Accepts(list) == Len(list) <= MaxPrio + 1 /\ \A i \in DOMAIN list : ~Refuses(list[i])

rsmu_fc3_set_clock_priorities(list) ==
  /\ Accepts(list)
  /\ refTable' = [r \in Refs |-> PriorityAfter(list, r)]
  /\ wanted' = list
  /\ UNCHANGED mux

(* The write of the two bytes fails when any of them may have been written.*)
SetPrioritiesFails(list) ==
  /\ Accepts(list)
  /\ \E written \in SUBSET Refs :
       refTable' = [r \in Refs |-> IF r \in written THEN PriorityAfter(list, r) ELSE refTable[r]]
  /\ wanted' = Unknown
  /\ UNCHANGED mux

(* A user connects the references to other clocks.                         *)
ConnectClocks(m) ==
  /\ mux' = m
  /\ wanted' = IF m = mux THEN wanted ELSE Unknown
  /\ UNCHANGED refTable

RefNext ==
  \/ \E list \in ClockLists : rsmu_fc3_set_clock_priorities(list) \/ SetPrioritiesFails(list)
  \/ \E m \in Muxes : ConnectClocks(m)

-----------------------------------------------------------------------------
(* The clock reported for the reference the DPLL follows.                  *)
rsmu_fc3_get_clock_index(r) == mux[r]

(* After a list was accepted, and until clocks are connected otherwise,    *)
(* the clocks a DPLL can be reported to follow are those of the list, and  *)
(* each is followed with the priority its last entry gave it.              *)
FollowsAsAsked ==
  wanted # Unknown =>
    LET followed == {r \in Refs : refTable[r] # RefDisabled}
        lastOf(c) == Max({i \in DOMAIN wanted : wanted[i].clock = c}) IN
    /\ {rsmu_fc3_get_clock_index(r) : r \in followed}
         = {wanted[i].clock : i \in DOMAIN wanted}
    /\ \A r \in followed :
         refTable[r] = wanted[lastOf(rsmu_fc3_get_clock_index(r))].prio
=============================================================================
