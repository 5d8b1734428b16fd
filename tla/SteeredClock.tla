--------------------------- MODULE SteeredClock ---------------------------
(***************************************************************************)
(* What the steering of one PTP hardware clock promises to its user,       *)
(* whatever registers, locks and workers produce it.  The clock runs at a  *)
(* dialed frequency, except while a phase pull-in is under way; a pull-in  *)
(* starts from the dialed frequency and returns to exactly that frequency, *)
(* and no frequency is dialed while it lasts.  When a write to the device  *)
(* fails the clock may run at any frequency, but the one that was dialed   *)
(* is not forgotten: what is done next starts from it.                     *)
(***************************************************************************)
CONSTANTS Freqs,      \* the frequency offsets a user may dial
          ZeroFreq    \* the offset of a clock nobody has steered

VARIABLES dialed,     \* the frequency that was dialed last
          running     \* "dialed": the clock runs at it; "pulled in": off it by
                      \* a phase pull-in; "unknown": a write has failed

clockVars == <<dialed, running>>

ClockInit == dialed = ZeroFreq /\ running = "dialed"

Dial(f) == running # "pulled in" /\ dialed' = f /\ running' = "dialed"

StartPullIn == running # "pulled in" /\ running' = "pulled in" /\ UNCHANGED dialed

EndPullIn == running # "dialed" /\ running' = "dialed" /\ UNCHANGED dialed

WriteFails == running' = "unknown" /\ UNCHANGED dialed

ClockNext == (\E f \in Freqs : Dial(f)) \/ StartPullIn \/ EndPullIn \/ WriteFails

ClockSpec == ClockInit /\ [][ClockNext]_clockVars
===========================================================================
