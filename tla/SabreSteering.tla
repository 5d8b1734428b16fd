--------------------------- MODULE SabreSteering ---------------------------
(***************************************************************************)
(* Steering of one 82P33 DPLL by its PTP clock                             *)
(* (linux/drivers/ptp/ptp_idt82p33.c) and holdover of the same DPLL by the *)
(* character device (linux/drivers/misc/rsmu_sabre.c).  Both write the     *)
(* operating mode register, each with a memory of its own: the clock skips *)
(* the register when its cached pll_mode says so, and the character device *)
(* returns to the mode it found when holdover was enabled.                 *)
(*                                                                         *)
(* All transfers of an operation are made under one mutex, so an operation *)
(* is one step once it has the mutex; only the tests of ddco and           *)
(* current_freq come before, in a step of their own.  When the write of    *)
(* the frequency word fails some of its five bytes may have arrived: the   *)
(* word may be the old one, the new one or neither.  The mode is one byte, *)
(* and a byte whose own transfer fails has not been taken.                 *)
(***************************************************************************)
EXTENDS Naturals

CONSTANTS
  Callers,   \* threads in the operations of the PTP clock
  Freqs,     \* scaled_ppm values
  ZeroFreq,  \* scaled_ppm of 0
  TornBase,      \* base of a frequency word that was written in part
  KeepMode,  \* TRUE: holdover is enabled once at a time, and while it lasts
             \* the clock is only steered the way it was steered before
  MaxErrors  \* bound on failed bus transfers

ASSUME SabreAssumption ==
  /\ ZeroFreq \in Freqs
  /\ TornBase \notin Freqs
  /\ KeepMode \in BOOLEAN
  /\ MaxErrors \in Nat

(* enum pll_mode *)
DCO      == "PLL_MODE_DCO"
WPH      == "PLL_MODE_WPH"
Holdover == "PLL_MODE_FORCE_HOLDOVER"
Unset    == "0xff"

VARIABLES
  pc,           \* per caller: "idle" or "lock", waiting for the mutex
  req,          \* per caller: the operation and its frequency
  pllMode,      \* channel->pll_mode
  currentFreq,  \* channel->current_freq
  ddco,         \* channel->ddco: a phase pull-in is under way
  due,          \* is the worker that ends it queued
  prevMode,     \* dpll_operating_mode_cnfg_prev of the character device
  holding,      \* the last successful holdover request was to enable it
  hwMode,       \* operating mode in the device
  manual,       \* man_holdover bit in the device
  word,         \* frequency word: the dialed base, and whether a pull-in
                \* offsets it
  unsure,       \* history: did the last write of the word fail
  errs          \* failed bus transfers so far

vars == <<pc, req, pllMode, currentFreq, ddco, due, prevMode, holding,
          hwMode, manual, word, unsure, errs>>

Modes    == {DCO, WPH}
Requests == [kind : {"adjfine", "adjtime", "adjphase"}, freq : Freqs]

TypeOK ==
  /\ pc \in [Callers -> {"idle", "lock"}]
  /\ req \in [Callers -> Requests]
  /\ pllMode \in Modes
  /\ currentFreq \in Freqs
  /\ ddco \in BOOLEAN
  /\ due \in BOOLEAN
  /\ prevMode \in Modes \cup {Holdover, Unset}
  /\ holding \in BOOLEAN
  /\ hwMode \in Modes \cup {Holdover}
  /\ manual \in BOOLEAN
  /\ word \in [base : Freqs \cup {TornBase}, pull : BOOLEAN]
  /\ unsure \in BOOLEAN
  /\ errs \in 0 .. MaxErrors

(* An enabled channel: idt82p33_enable_channel has set PLL_MODE_DCO. *)
Init ==
  /\ pc = [c \in Callers |-> "idle"]
  /\ req = [c \in Callers |-> [kind |-> "adjfine", freq |-> ZeroFreq]]
  /\ pllMode = DCO
  /\ currentFreq = ZeroFreq
  /\ ddco = FALSE
  /\ due = FALSE
  /\ prevMode = Unset
  /\ holding = FALSE
  /\ hwMode = DCO
  /\ manual \in BOOLEAN
  /\ word = [base |-> ZeroFreq, pull |-> FALSE]
  /\ unsure = FALSE
  /\ errs = 0

Fault == errs < MaxErrors /\ errs' = errs + 1

wordVars    == <<word, unsure>>
clockVars   == <<pllMode, currentFreq, ddco, due>>
holdingVars == <<prevMode, holding, manual>>

-----------------------------------------------------------------------------
(* Calls of the clock, up to the mutex. *)

ModeOf(kind) == IF kind = "adjphase" THEN WPH ELSE DCO

Call(c, r) ==
  /\ pc[c] = "idle"
  /\ KeepMode /\ holding => ModeOf(r.kind) = pllMode
  /\ pc' = [pc EXCEPT ![c] = "lock"]
  /\ req' = [req EXCEPT ![c] = r]
  /\ UNCHANGED <<clockVars, holdingVars, hwMode, wordVars, errs>>

(* With a pull-in under way, or the frequency unchanged, the call returns  *)
(* without doing anything.                                                 *)
idt82p33_adjfine(c, f) ==
  ~ddco /\ f # currentFreq /\ Call(c, [kind |-> "adjfine", freq |-> f])

idt82p33_adjtime(c) == ~ddco /\ Call(c, [kind |-> "adjtime", freq |-> ZeroFreq])

idt82p33_adjwritephase(c) == Call(c, [kind |-> "adjphase", freq |-> ZeroFreq])

-----------------------------------------------------------------------------
(* ... and under the mutex. *)

(* idt82p33_dpll_set_mode *)
MutantSetMode(m) == pllMode' = m /\ hwMode' = m
SetMode(m) ==
  IF pllMode = m THEN UNCHANGED <<pllMode, hwMode>>
  ELSE pllMode' = m /\ hwMode' = m

Locked(c, kind) == pc[c] = "lock" /\ req[c].kind = kind
Return(c) == pc' = [pc EXCEPT ![c] = "idle"] /\ UNCHANGED req

MutantRemember(c) == UNCHANGED currentFreq
Remember(c) == currentFreq' = req[c].freq

(* A pull-in starts from the remembered frequency and returns to it. *)
Dialed(f) == [base |-> f, pull |-> FALSE]
PulledIn  == [base |-> currentFreq, pull |-> TRUE]
TornWord  == [base |-> TornBase, pull |-> FALSE]

(* _idt82p33_adjfine *)
WriteWord(w) == SetMode(DCO) /\ word' = w /\ unsure' = FALSE

Adjfine(c) ==
  /\ Locked(c, "adjfine")
  /\ WriteWord(Dialed(req[c].freq))
  /\ Remember(c)
  /\ Return(c)
  /\ UNCHANGED <<ddco, due, holdingVars, errs>>

(* idt82p33_start_ddco *)
StartDdco(c) ==
  /\ Locked(c, "adjtime")
  /\ WriteWord(PulledIn)
  /\ due' = TRUE
  /\ ddco' = TRUE
  /\ Return(c)
  /\ UNCHANGED <<currentFreq, holdingVars, errs>>

(* A correction too small to pull in, or so large that the time of day is  *)
(* written instead.                                                        *)
NoDdco(c) ==
  /\ Locked(c, "adjtime")
  /\ Return(c)
  /\ UNCHANGED <<clockVars, holdingVars, hwMode, wordVars, errs>>

Adjphase(c) ==
  /\ Locked(c, "adjphase")
  /\ SetMode(WPH)
  /\ Return(c)
  /\ UNCHANGED <<currentFreq, ddco, due, holdingVars, wordVars, errs>>

(* A transfer other than the write of the frequency word fails, before the *)
(* mode is switched or after.                                              *)
StopsAt(m) == UNCHANGED <<pllMode, hwMode>> \/ SetMode(m)

CallFails(c) ==
  /\ pc[c] = "lock"
  /\ Fault
  /\ StopsAt(ModeOf(req[c].kind))
  /\ Return(c)
  /\ UNCHANGED <<currentFreq, ddco, due, holdingVars, wordVars>>

(* The write of the word fails, of which some bytes may have arrived.      *)
WordFails(w) ==
  /\ Fault
  /\ SetMode(DCO)
  /\ word' \in {word, w, TornWord}
  /\ unsure' = TRUE

CallWordFails(c) ==
  /\ \/ Locked(c, "adjfine") /\ WordFails(Dialed(req[c].freq))
     \/ Locked(c, "adjtime") /\ WordFails(PulledIn)
  /\ Return(c)
  /\ UNCHANGED <<currentFreq, ddco, due, holdingVars>>

(* idt82p33_work_handler *)
StopDdco ==
  /\ due
  /\ due' = FALSE
  /\ WriteWord(Dialed(currentFreq))
  /\ ddco' = FALSE
  /\ UNCHANGED <<pc, req, currentFreq, holdingVars, errs>>

StopDdcoFails ==
  /\ due
  /\ due' = FALSE
  /\ \/ Fault /\ StopsAt(DCO) /\ UNCHANGED wordVars
     \/ WordFails(Dialed(currentFreq))
  /\ UNCHANGED <<pc, req, currentFreq, ddco, holdingVars>>

-----------------------------------------------------------------------------
(* RSMU_SET_HOLDOVER_MODE of the character device *)

MayEnable ==
  KeepMode =>
    /\ ~holding
    /\ ddco => pllMode = DCO
    /\ \A c \in Callers : pc[c] = "lock" => ModeOf(req[c].kind) = pllMode

(* The mode is read before it is overwritten. *)
MutantFound == Holdover
Found == hwMode

EnableHoldover ==
  /\ MayEnable
  /\ manual' \in BOOLEAN
  /\ prevMode' = Found
  /\ hwMode' = Holdover
  /\ holding' = TRUE
  /\ UNCHANGED <<pc, req, clockVars, wordVars, errs>>

(* Setting the man_holdover bit fails, or reading the operating mode, or   *)
(* writing it.                                                             *)
EnableHoldoverFails ==
  /\ MayEnable
  /\ Fault
  /\ UNCHANGED <<manual, prevMode>> \/ (manual' \in BOOLEAN /\ prevMode' \in {prevMode, Found})
  /\ UNCHANGED <<pc, req, clockVars, holding, hwMode, wordVars>>

MayDisable == KeepMode => holding

(* The mode found when holdover was enabled; no other mode is restored.    *)
MutantRestored == DCO
Restored == prevMode

DisableHoldover ==
  /\ MayDisable
  /\ prevMode \in Modes
  /\ hwMode' = Restored
  /\ manual' = (prevMode = DCO \/ manual)
  /\ holding' = FALSE
  /\ UNCHANGED <<pc, req, clockVars, prevMode, wordVars, errs>>

DisableHoldoverFails ==
  /\ MayDisable
  /\ prevMode \in Modes
  /\ Fault
  /\ UNCHANGED hwMode \/ (prevMode = DCO /\ hwMode' = Restored)
  /\ UNCHANGED <<pc, req, clockVars, prevMode, holding, manual, wordVars>>

Next ==
  \/ \E c \in Callers :
       \/ \E f \in Freqs : idt82p33_adjfine(c, f)
       \/ idt82p33_adjtime(c)
       \/ idt82p33_adjwritephase(c)
       \/ Adjfine(c) \/ StartDdco(c) \/ NoDdco(c) \/ Adjphase(c)
       \/ CallFails(c) \/ CallWordFails(c)
  \/ StopDdco \/ StopDdcoFails
  \/ EnableHoldover \/ EnableHoldoverFails
  \/ DisableHoldover \/ DisableHoldoverFails

Spec == Init /\ [][Next]_vars

-----------------------------------------------------------------------------
(* Whatever is called at once and whatever fails. *)

(* current_freq is the frequency in the device, unless the last write of   *)
(* the word failed: the pull-in that starts from it, the worker that       *)
(* returns to it and the adjfine that returns at once because of it are    *)
(* right.                                                                  *)
FrequencyRemembered == ~unsure => word.base = currentFreq

(* A DPLL at a pull-in frequency is flagged, with the same exception. *)
OffFrequencyIsFlagged == word.pull /\ ~unsure => ddco

(* A flagged pull-in has its worker queued unless a transfer failed. *)
DdcoHasCanceller == ddco /\ errs = 0 => due

(* Steering, with its worker, its failures and holdover, is a clock that   *)
(* is dialed and pulled in as SteeredClock says, but for one step: an      *)
(* adjfine whose test of ddco a pull-in has made stale.  A write of the    *)
(* word that fails leaves the clock at a frequency nobody knows; the next  *)
(* write that succeeds continues from the frequency dialed last.           *)
Clock == INSTANCE SteeredClock
  WITH dialed  <- IF unsure THEN currentFreq ELSE word.base,
       running <- IF unsure THEN "unknown" ELSE IF word.pull THEN "pulled in" ELSE "dialed"

StaleAdjfine ==
  ddco /\ \E c \in Callers : Locked(c, "adjfine") /\ pc'[c] = "idle"

ImplementsClock ==
  Clock!ClockInit /\ [][StaleAdjfine \/ Clock!ClockNext]_(Clock!clockVars)

-----------------------------------------------------------------------------
(* When the users keep the mode during holdover. *)

(* pll_mode, which lets the clock skip the mode register, is the mode of   *)
(* the device outside holdover, also after a holdover has come and gone.   *)
ModeIsKnown == hwMode # Holdover => pllMode = hwMode

(* Holdover lasts from the request that enables it to the one that         *)
(* disables it, also while the clock is steered, unless a transfer failed. *)
HoldoverLasts == holding /\ errs = 0 => hwMode = Holdover

(* Holdover that was enabled can be disabled: the mode to return to is one *)
(* that rsmu_sabre_set_holdover_mode accepts.                              *)
HoldoverCanBeDisabled == holding => prevMode \in Modes
=============================================================================
