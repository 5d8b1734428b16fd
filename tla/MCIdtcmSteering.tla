-------------------------- MODULE MCIdtcmSteering --------------------------
(***************************************************************************)
(* IdtcmSteering and PullIn for TLC.  They share no state, and each is     *)
(* explored while the other has nothing to do.                             *)
(***************************************************************************)
EXTENDS IdtcmSteering, PullIn

CONSTANTS f0, f1

MCFreqs == {f0, f1}

BothSigns(S) == S \cup {-n : n \in S}

(* 0, an odd value, the limits of both chips with the values next to them, *)
(* and the largest frequency of a ClockMatrix that can be dialed.          *)
MCDials ==
  BothSigns({0, 12345, 6029311, 6029312, 6029313, 6029376,
             9437183, 9437184, 9437185, 15990848})

(* Corrections at the thresholds, at the limit of each chip, and odd ones  *)
(* that are halved several times.                                          *)
MCDeltas ==
  BothSigns({1, 2, 4, 5, 999, 1001, 7777, 9999, 10000, 14999, 15000, 92001,
             144000, 144001, 149999, 199999})

(* Nobody steers, and nothing is left to be done. *)
Unsteered ==
  /\ \A a \in Actors : pc[a] = "idle"
  /\ ~due /\ ~overlapped /\ errs = 0 /\ alive /\ ~oldFirmware

OneChip == CHOOSE c \in Chips : TRUE
Undialed == current = 0 /\ delta = 0 /\ chip = OneChip

SteeringStep == Next /\ Undialed /\ UNCHANGED pullVars
ArithmeticStep == PullInNext /\ Unsteered /\ UNCHANGED vars

(* Old firmware differs in the calls that meet a software pull-in. *)
MCInit == Init /\ (oldFirmware => manualRef) /\ PullInInit

MCSpec ==
  /\ MCInit
  /\ [][SteeringStep \/ ArithmeticStep]_<<vars, pullVars>>
  /\ Fairness
=============================================================================
