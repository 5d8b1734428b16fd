------------------------------- MODULE PullIn -------------------------------
(***************************************************************************)
(* The arithmetic of software phase pull-ins in both PTP clock drivers:    *)
(* do_phase_pull_in_sw of linux/drivers/ptp/ptp_clockmatrix.c and          *)
(* idt82p33_start_ddco of linux/drivers/ptp/ptp_idt82p33.c.  A correction  *)
(* of some nanoseconds is made by running the clock fast or slow by so     *)
(* many ppb for one second; a correction that needs more ppb than the chip *)
(* allows is halved, and the time doubled, until it fits.  The frequency   *)
(* is added to the dialed one and the sum is limited.                      *)
(*                                                                         *)
(* Everything from the call to the write of the word happens under the     *)
(* mutex; a step of its own for each turn of the halving loop is what      *)
(* makes its invariant visible.  Which calls meet a pull-in, and what a    *)
(* failure leaves behind, is in IdtcmSteering and SabreSteering.           *)
(***************************************************************************)
EXTENDS Integers

CONSTANTS
  FfoLimits,       \* values of DPLL_MAX_FREQ_OFFSET a ClockMatrix is found with
  SnapThresholds,  \* values of the parameter phase_snap_threshold of the 82P33
  Dials,           \* scaled_ppm values users dial
  Deltas           \* corrections users ask for, in ns

ASSUME PullInAssumption ==
  /\ FfoLimits \subseteq 0 .. 255
  /\ SnapThresholds \subseteq Nat
  /\ Dials \subseteq Int
  /\ Deltas \subseteq Int

VARIABLES
  chip,      \* what the channel is limited to
  stage,     \* "idle", "halve" in the loop, or "pulling"
  current,   \* the dialed scaled_ppm
  delta,     \* the correction
  ppb,       \* what is left of it in the loop
  duration,  \* for so many seconds
  word       \* scaled_ppm in the DPLL's frequency word

pullVars == <<chip, stage, current, delta, ppb, duration, word>>

(* C's division, which rounds towards zero *)
Quotient(a, b) == IF a >= 0 THEN a \div b ELSE -((-a) \div b)
Abs(a) == IF a >= 0 THEN a ELSE -a

(* scaled_ppm = ppb * 2^13 / 125 *)
Scaled(n) == Quotient(n * 8192, 125)

(* Fixed limits, by chip: the ppb a user may dial, the ppb of a frequency  *)
(* word while a pull-in lasts, and the corrections that are pulled in.     *)
ClockMatrix(ffo, snap) ==
  [maxAdj  |-> IF ffo \in 1 .. 244 THEN ffo * 1000 ELSE 244000,
   maxPull |-> 144000, least |-> 2, snap |-> snap]

Idt82p33(snap) == [maxAdj |-> 92000, maxPull |-> 92000, least |-> 5, snap |-> snap]

(* 15000 ns, or 150000 ns with firmware before V487 *)
Chips ==
  {ClockMatrix(ffo, snap) : ffo \in FfoLimits, snap \in {15000, 150000}}
    \cup {Idt82p33(snap) : snap \in SnapThresholds}

PullInInit ==
  /\ chip \in Chips
  /\ stage = "idle"
  /\ current = 0 /\ word = 0
  /\ delta = 0 /\ ppb = 0 /\ duration = 1

-----------------------------------------------------------------------------
(* The PTP core refuses a frequency beyond max_adj, after converting it to *)
(* ppb with a shift.                                                       *)
MayDial(f) == ((1 + f) * 125) \div 8192 \in -chip.maxAdj .. chip.maxAdj

Dial(f) ==
  /\ stage = "idle"
  /\ MayDial(f)
  /\ current' = f /\ word' = f
  /\ UNCHANGED <<chip, stage, delta, ppb, duration>>

(* A smaller correction is skipped, a larger one written to the time of    *)
(* day.                                                                    *)
PullsIn(d) == chip.least <= Abs(d) /\ Abs(d) < chip.snap

Adjtime(d) ==
  /\ stage = "idle"
  /\ PullsIn(d)
  /\ stage' = "halve"
  /\ delta' = d /\ ppb' = d /\ duration' = 1
  /\ UNCHANGED <<chip, current, word>>

MaxFfo == IF chip.maxAdj > chip.maxPull THEN chip.maxPull ELSE chip.maxAdj

MutantHalf(n) == n \div 2
Half(n) == Quotient(n, 2)

Halve ==
  /\ stage = "halve"
  /\ Abs(ppb) > MaxFfo
  /\ ppb' = Half(ppb)
  /\ duration' = 2 * duration
  /\ UNCHANGED <<chip, stage, current, delta, word>>

Limit == Scaled(chip.maxPull)

Limited(n) == IF n > Limit THEN Limit ELSE IF n < -Limit THEN -Limit ELSE n

StartPulling ==
  /\ stage = "halve"
  /\ Abs(ppb) <= MaxFfo
  /\ word' = Limited(current + Scaled(ppb))
  /\ stage' = "pulling"
  /\ UNCHANGED <<chip, current, delta, ppb, duration>>

(* The write of the word fails: there is no pull-in. *)
StartPullingFails ==
  /\ stage = "halve"
  /\ Abs(ppb) <= MaxFfo
  /\ stage' = "idle"
  /\ UNCHANGED <<chip, current, delta, ppb, duration, word>>

StopPulling ==
  /\ stage = "pulling"
  /\ word' = current
  /\ stage' = "idle"
  /\ UNCHANGED <<chip, current, delta, ppb, duration>>

PullInNext ==
  \/ \E f \in Dials : Dial(f)
  \/ \E d \in Deltas : Adjtime(d)
  \/ Halve
  \/ StartPulling \/ StartPullingFails \/ StopPulling

PullInSpec == PullInInit /\ [][PullInNext]_pullVars

-----------------------------------------------------------------------------
PullInTypeOK ==
  /\ chip \in Chips
  /\ stage \in {"idle", "halve", "pulling"}
  /\ current \in Int /\ word \in Int
  /\ delta \in Int /\ ppb \in Int
  /\ duration \in Nat \ {0}

(* What the pull-in adds to the clock until it stops, and what was asked   *)
(* for, both in the unit of scaled_ppm times seconds.                      *)
Shift  == (word - current) * duration
Wanted == Scaled(delta)

Toward(a, b) == (0 <= a /\ a <= b) \/ (b <= a /\ a <= 0)

(* A pull-in moves the clock the way that was asked for and never too far, *)
(* whatever the halving and the conversion round away and although the     *)
(* frequency is limited, provided that the dialed frequency itself is      *)
(* within that limit (a ClockMatrix may be dialed beyond it).  Where the   *)
(* limit is not met all of the correction is made, but for about a         *)
(* nanosecond for each second it takes (67 units are a little more).       *)
PullsInAsAsked ==
  stage = "pulling" /\ current \in -Limit .. Limit =>
    /\ Toward(Shift, Wanted)
    /\ word > -Limit /\ word < Limit => Abs(Wanted - Shift) < 67 * duration
=============================================================================
