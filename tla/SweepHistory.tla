---------------------------- MODULE SweepHistory ----------------------------
(* Sweep with history variables for what was last calculated.                *)
EXTENDS Sweep

VARIABLES
    settled,   \* NR10 is as it was at the last calculation or trigger
    fell       \* the sweep has lowered the note since its trigger

sweepAll == <<sweepVars, settled, fell>>

SweepHInit == SweepInit /\ settled = FALSE /\ fell = FALSE

Triggers == dac_enabled /\ \E h \in 0 .. HighSize - 1 : WriteNR14(h, TRUE)
Calculates == ClockSweep /\ ~(sweep_timer > 1) /\ sweep_shift # 0

SweepHNext ==
    /\ SweepNext
    /\ settled' = IF nr10' # nr10 THEN FALSE
                  ELSE IF Triggers \/ Calculates THEN TRUE ELSE settled
    /\ fell' = (~Triggers /\ ~PowerOff /\ (fell \/ sweep_shadow' < sweep_shadow))

SweepHSpec == SweepHInit /\ [][SweepHNext]_sweepAll

-----------------------------------------------------------------------------
(* A channel that still sounds can take its next step: an overflow is found  *)
(* one step ahead, at the trigger or by the second calculation of            *)
(* clock_sweep, and silences the channel before it would play it.            *)
SoundsOnlyInRange ==
    active /\ settled /\ sweep_shift # 0 => InRange(Swept(sweep_shadow))

(* Once the sweep has lowered a note it never raises it again, however NR10  *)
(* is written before the next trigger: the write that turns the sweep round  *)
(* silences the channel (gb_audio_write8, NR10). The subtraction a trigger   *)
(* tries out ahead lowers nothing and is not latched by trigger_pulse: a     *)
(* note turned round before its first sweep clock plays on, and rises.       *)
NoteNeverTurns ==
    [][fell /\ fell' /\ active' => sweep_shadow' <= sweep_shadow]_sweepAll
=============================================================================
