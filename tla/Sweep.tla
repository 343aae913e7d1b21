------------------------------- MODULE Sweep -------------------------------
(* The frequency sweep of channel 1 (gb_audio.c): its clock, the trigger and *)
(* the writes of NR10, NR13 and NR14. The frequency is kept three times: in  *)
(* the channel, in the shadow of the sweep and in the registers. While the   *)
(* unit is off every write is ignored and nothing moves, so that time does   *)
(* not show: PowerOff leaves the state in which the next power-on finds it.  *)
EXTENDS Integers

CONSTANTS
    LowSize,     \* values of NR13, the low part of a frequency
    HighSize,    \* values of the high part, in NR14
    ShiftSize,   \* values of the shift of NR10
    SweepPeriods   \* values of the period of NR10; 0 reads as this many

ASSUME SweepAssumption ==
    /\ LowSize \in Nat \ {0} /\ HighSize \in Nat \ {0}
    /\ ShiftSize \in Nat \ {0} /\ SweepPeriods \in Nat \ {0}

VARIABLES
    active, dac_enabled,
    low, high,                       \* NR13, and the low bits of NR14
    frequency, sweep_shadow,
    sweep_period, sweep_negate, sweep_shift,   \* the fields of NR10
    sweep_enabled, sweep_timer, sweep_negate_used

nr10 == <<sweep_period, sweep_negate, sweep_shift>>
sweep == <<sweep_shadow, sweep_enabled, sweep_timer, sweep_negate_used>>
pitch == <<frequency, low, high>>
sweepVars == <<active, dac_enabled, pitch, nr10, sweep>>

FrequencySize == LowSize * HighSize
Shifts == 0 .. ShiftSize - 1
Pace == 0 .. SweepPeriods - 1

SweepInit ==
    /\ active = FALSE /\ dac_enabled = FALSE
    /\ low = 0 /\ high = 0 /\ frequency = 0 /\ sweep_shadow = 0
    /\ sweep_period = 0 /\ sweep_negate = FALSE /\ sweep_shift = 0
    /\ sweep_enabled = FALSE /\ sweep_timer = 0 /\ sweep_negate_used = FALSE

-----------------------------------------------------------------------------
Delta(shadow) == shadow \div (2 ^ sweep_shift)

\* What sweep_calculate returns. A delta never exceeds the shadow, so the
\* subtraction of the code cannot wrap.
Swept(shadow) == IF sweep_negate THEN shadow - Delta(shadow) ELSE shadow + Delta(shadow)

\* Mutant: off by one.
InRangeInclusive(f) == f <= FrequencySize

InRange(f) == f < FrequencySize

Paced(p) == IF p = 0 THEN SweepPeriods ELSE p

SetFrequency(f) ==
    /\ frequency' = f
    /\ low' = f % LowSize /\ high' = (f \div LowSize) % HighSize

\* Mutant: the frequency after next is not looked at.
SlideUnchecked ==
    LET next == Swept(sweep_shadow) IN
    /\ sweep_negate_used' = (sweep_negate_used \/ sweep_negate)
    /\ IF InRange(next)
       THEN sweep_shadow' = next /\ SetFrequency(next) /\ UNCHANGED active
       ELSE active' = FALSE /\ UNCHANGED <<sweep_shadow, pitch>>

\* The sweep moves: out of range, or about to leave it, the channel goes silent.
Slide ==
    LET next == Swept(sweep_shadow) IN
    /\ sweep_negate_used' = (sweep_negate_used \/ sweep_negate)
    /\ IF InRange(next)
       THEN /\ sweep_shadow' = next /\ SetFrequency(next)
            /\ active' = (active /\ InRange(Swept(next)))
       ELSE active' = FALSE /\ UNCHANGED <<sweep_shadow, pitch>>

\* clock_sweep.
ClockSweep ==
    /\ sweep_enabled
    /\ IF sweep_timer > 1
       THEN sweep_timer' = sweep_timer - 1 /\ UNCHANGED <<active, pitch, sweep_shadow, sweep_negate_used>>
       ELSE /\ sweep_timer' = Paced(sweep_period)
            /\ IF sweep_shift = 0 THEN UNCHANGED <<active, pitch, sweep_shadow, sweep_negate_used>>
               ELSE Slide
    /\ UNCHANGED <<dac_enabled, nr10, sweep_enabled>>

\* Mutant: the latch of a used subtraction is ignored.
WriteNR10Unlatched(period, negate, shift) ==
    /\ sweep_period' = period /\ sweep_negate' = negate /\ sweep_shift' = shift
    /\ UNCHANGED <<active, dac_enabled, pitch, sweep>>

WriteNR10(period, negate, shift) ==
    /\ sweep_period' = period /\ sweep_negate' = negate /\ sweep_shift' = shift
    /\ active' = (active /\ ~(~negate /\ sweep_negate_used))
    /\ UNCHANGED <<dac_enabled, pitch, sweep>>

WriteNR12(dac) ==
    /\ dac_enabled' = dac /\ active' = (active /\ dac)
    /\ UNCHANGED <<pitch, nr10, sweep>>

WriteNR13(l) ==
    /\ low' = l /\ frequency' = high * LowSize + l
    /\ UNCHANGED <<active, dac_enabled, high, nr10, sweep>>

\* The sweep part of trigger_pulse; f is the frequency just written.
Trigger(f) ==
    IF ~dac_enabled THEN active' = FALSE /\ UNCHANGED sweep
    ELSE /\ active' = (sweep_shift # 0 => InRange(Swept(f)))
         /\ sweep_shadow' = f
         /\ sweep_timer' = Paced(sweep_period)
         /\ sweep_enabled' = (sweep_period # 0 \/ sweep_shift # 0)
         /\ sweep_negate_used' = FALSE

WriteNR14(h, trigger) ==
    /\ high' = h /\ frequency' = h * LowSize + low
    /\ IF trigger THEN Trigger(h * LowSize + low) ELSE UNCHANGED <<active, sweep>>
    /\ UNCHANGED <<dac_enabled, low, nr10>>

\* The length of the channel runs out (Apu has lengths).
RunOut ==
    /\ active' = FALSE
    /\ UNCHANGED <<dac_enabled, pitch, nr10, sweep>>

\* NR52 turns the unit off: clear_audio_registers clears the channel as well.
PowerOff ==
    /\ active' = FALSE /\ dac_enabled' = FALSE
    /\ low' = 0 /\ high' = 0 /\ frequency' = 0 /\ sweep_shadow' = 0
    /\ sweep_period' = 0 /\ sweep_negate' = FALSE /\ sweep_shift' = 0
    /\ sweep_enabled' = FALSE /\ sweep_timer' = 0 /\ sweep_negate_used' = FALSE

SweepWrites ==
    \/ \E p \in Pace, n \in BOOLEAN, s \in Shifts : WriteNR10(p, n, s)
    \/ \E dac \in BOOLEAN : WriteNR12(dac)
    \/ \E l \in 0 .. LowSize - 1 : WriteNR13(l)
    \/ \E h \in 0 .. HighSize - 1, t \in BOOLEAN : WriteNR14(h, t)

SweepNext == ClockSweep \/ SweepWrites \/ RunOut \/ PowerOff

SweepSpec == SweepInit /\ [][SweepNext]_sweepVars

-----------------------------------------------------------------------------
(* Every variable stays in its range; for the shadow that means the sweep    *)
(* never stores a frequency the channel cannot play.                         *)
SweepTypeOK ==
    /\ active \in BOOLEAN /\ dac_enabled \in BOOLEAN
    /\ low \in 0 .. LowSize - 1 /\ high \in 0 .. HighSize - 1
    /\ frequency \in 0 .. FrequencySize - 1 /\ sweep_shadow \in 0 .. FrequencySize - 1
    /\ sweep_period \in Pace /\ sweep_negate \in BOOLEAN /\ sweep_shift \in Shifts
    /\ sweep_enabled \in BOOLEAN /\ sweep_timer \in 0 .. SweepPeriods
    /\ sweep_negate_used \in BOOLEAN
=============================================================================
