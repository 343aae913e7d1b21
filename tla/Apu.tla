-------------------------------- MODULE Apu --------------------------------
(* The frame sequencer of gb_audio.c and what it does to the channels:       *)
(* length counters, envelopes, power, and the two sources of its clock, the  *)
(* timer's callback and the audio unit's own fallback. The frequency sweep   *)
(* of channel 1 is in Sweep; here it may only silence that channel. Waveform *)
(* generation reads this state and changes none of it.                       *)
EXTENDS Integers

CONSTANTS
    Channels,       \* subset of 1..4: two pulses, wave, noise
    LengthSize,     \* values of the length register of each channel
    VolumeSize,     \* values of a volume
    PeriodSize,     \* values of an envelope period; 0 reads as this many
    FallbackPeriod  \* T-cycles between two clocks of the fallback

ASSUME ApuAssumption ==
    /\ Channels \subseteq 1 .. 4
    /\ LengthSize \in [Channels -> Nat \ {0}]
    /\ VolumeSize \in Nat \ {0} /\ PeriodSize \in Nat \ {0}
    /\ FallbackPeriod \in Nat \ {0}

VARIABLES
    powered_on,
    frame_step,
    chan,           \* the state of each channel
    fallback_frame_cycles,
    timer           \* audio->timer is set

apuVars == <<powered_on, frame_step, chan, fallback_frame_cycles, timer>>

Lengths(c) == 0 .. LengthSize[c]
Volumes == 0 .. VolumeSize - 1
Periods == 0 .. PeriodSize - 1

\* initial, add and period are the fields of NRx2 (of NR30 for the wave channel,
\* which has a DAC switch and no envelope).
Channel(c) ==
    [active : BOOLEAN, dac_enabled : BOOLEAN, length : Lengths(c), length_enabled : BOOLEAN,
     initial : Volumes, add : BOOLEAN, period : Periods, volume : Volumes,
     envelope_timer : 0 .. PeriodSize]

HasEnvelope(c) == c # 3

Cleared ==
    [active |-> FALSE, dac_enabled |-> FALSE, length |-> 0, length_enabled |-> FALSE,
     initial |-> 0, add |-> FALSE, period |-> 0, volume |-> 0, envelope_timer |-> 0]

Silent == [c \in Channels |-> Cleared]

\* gb_audio_init resets the unit, then gb_audio_attach_timer connects it.
ApuInit ==
    /\ powered_on = FALSE /\ frame_step = 0 /\ chan = Silent
    /\ fallback_frame_cycles = 0 /\ timer = TRUE

-----------------------------------------------------------------------------
LengthClocked(r) ==
    IF r.length_enabled /\ r.length > 0
    THEN [r EXCEPT !.length = @ - 1, !.active = @ /\ r.length > 1]
    ELSE r

Step(volume, add) ==
    IF add
    THEN IF volume < VolumeSize - 1 THEN volume + 1 ELSE volume
    ELSE IF volume > 0 THEN volume - 1 ELSE volume

EnvelopeClocked(r) ==
    IF r.period = 0 THEN r
    ELSE IF r.envelope_timer > 1 THEN [r EXCEPT !.envelope_timer = @ - 1]
    ELSE [r EXCEPT !.envelope_timer = r.period, !.volume = Step(@, r.add)]

Lengths4 == {0, 2, 4, 6}
Sweeps == {2, 6}

\* Mutant: length counters are clocked by every other length step only.
ClockSequencerHalf ==
    /\ frame_step' = (frame_step + 1) % 8
    /\ chan' = [c \in Channels |->
          IF frame_step \in {0, 4} THEN LengthClocked(chan[c])
          ELSE IF frame_step = 7 /\ HasEnvelope(c) THEN EnvelopeClocked(chan[c])
          ELSE chan[c]]

\* clock_frame_sequencer; at a sweep step channel 1 may be silenced.
ClockSequencer ==
    /\ frame_step' = (frame_step + 1) % 8
    /\ \E silenced \in BOOLEAN :
          /\ silenced => frame_step \in Sweeps
          /\ chan' = [c \in Channels |->
                IF frame_step \in Lengths4
                THEN [LengthClocked(chan[c]) EXCEPT !.active = @ /\ ~(silenced /\ c = 1)]
                ELSE IF frame_step = 7 /\ HasEnvelope(c) THEN EnvelopeClocked(chan[c])
                ELSE chan[c]]

\* gb_audio_timer_apu_clock, called by the timer.
TimerClock ==
    /\ powered_on
    /\ ClockSequencer
    /\ UNCHANGED <<powered_on, fallback_frame_cycles, timer>>

\* One T-cycle of gb_audio_tick with no timer attached.
FallbackTick ==
    /\ powered_on /\ ~timer
    /\ fallback_frame_cycles' = (fallback_frame_cycles + 1) % FallbackPeriod
    /\ IF fallback_frame_cycles' = 0 THEN ClockSequencer
       ELSE UNCHANGED <<frame_step, chan>>
    /\ UNCHANGED <<powered_on, timer>>

-----------------------------------------------------------------------------
\* Register writes other than NR52 are ignored while the unit is off.
Write == powered_on /\ UNCHANGED <<powered_on, frame_step, fallback_frame_cycles, timer>>

\* Mutant: NR52 leaves the channels as they are.
PowerKeepsChannels(on) ==
    /\ powered_on' = on
    /\ frame_step' = IF powered_on /\ ~on THEN 0 ELSE frame_step
    /\ UNCHANGED <<chan, fallback_frame_cycles, timer>>

Power(on) ==
    /\ powered_on' = on
    /\ IF powered_on /\ ~on
       THEN chan' = Silent /\ frame_step' = 0 /\ fallback_frame_cycles' = 0
       ELSE UNCHANGED <<chan, frame_step, fallback_frame_cycles>>
    /\ UNCHANGED timer

WriteLength(c, value) ==
    /\ Write
    /\ chan' = [chan EXCEPT ![c].length = LengthSize[c] - value]

\* NRx2 of a channel with an envelope.
WriteEnvelope(c, initial, add, period) ==
    LET dac == initial > 0 \/ add IN
    /\ Write /\ HasEnvelope(c)
    /\ chan' = [chan EXCEPT ![c].initial = initial, ![c].add = add, ![c].period = period,
                            ![c].dac_enabled = dac, ![c].active = @ /\ dac]

WriteDac(dac) ==
    /\ Write /\ 3 \in Channels
    /\ chan' = [chan EXCEPT ![3].dac_enabled = dac, ![3].active = @ /\ dac]

Triggered(c, r, silenced) ==
    [r EXCEPT !.length = IF @ = 0 THEN LengthSize[c] ELSE @,
              !.active = ~silenced,
              !.volume = IF HasEnvelope(c) THEN r.initial ELSE @,
              !.envelope_timer = IF ~HasEnvelope(c) THEN @
                                 ELSE IF r.period = 0 THEN PeriodSize ELSE r.period]

\* NRx4: the trigger of channel 1 may find the sweep out of range.
WriteControl(c, trigger, enable) ==
    LET r == [chan[c] EXCEPT !.length_enabled = enable] IN
    /\ Write
    /\ \E silenced \in BOOLEAN :
          /\ silenced => c = 1
          /\ chan' = [chan EXCEPT ![c] =
                IF ~trigger THEN r
                ELSE IF ~r.dac_enabled THEN [r EXCEPT !.active = FALSE]
                ELSE Triggered(c, r, silenced)]

\* NR10: leaving a negative sweep that has been used silences channel 1.
WriteSweep ==
    /\ Write /\ 1 \in Channels
    /\ chan' = [chan EXCEPT ![1].active = FALSE]

\* gb_audio_reset in gb_emulator_reset clears audio->timer as well, and nothing
\* attaches it again; the timer keeps the callback, so TimerClock goes on and
\* FallbackTick joins it.
Reset ==
    /\ powered_on' = FALSE /\ frame_step' = 0 /\ chan' = Silent
    /\ fallback_frame_cycles' = 0 /\ timer' = FALSE

Clocks == TimerClock \/ FallbackTick

Writes ==
    \/ \E on \in BOOLEAN : Power(on)
    \/ \E c \in Channels :
          \/ \E v \in 0 .. LengthSize[c] - 1 : WriteLength(c, v)
          \/ \E i \in Volumes, a \in BOOLEAN, p \in Periods : WriteEnvelope(c, i, a, p)
          \/ \E t \in BOOLEAN, e \in BOOLEAN : WriteControl(c, t, e)
    \/ \E dac \in BOOLEAN : WriteDac(dac)
    \/ WriteSweep

ApuNext == Clocks \/ Writes \/ Reset

ApuSpec == ApuInit /\ [][ApuNext]_apuVars

-----------------------------------------------------------------------------
(* Every variable stays in its range.                                        *)
ApuTypeOK ==
    /\ powered_on \in BOOLEAN /\ frame_step \in 0 .. 7
    /\ DOMAIN chan = Channels /\ \A c \in Channels : chan[c] \in Channel(c)
    /\ fallback_frame_cycles \in 0 .. FallbackPeriod - 1
    /\ timer \in BOOLEAN

(* A channel that NR52 reports as active has its DAC on and a length left to *)
(* play, and the unit is on, in whatever order registers are written, the    *)
(* power is switched, triggers come and lengths run out (clock_length, the   *)
(* triggers, gb_audio_power and gb_audio_write8).                            *)
ActiveMeansDriven ==
    \A c \in Channels :
        chan[c].active => powered_on /\ chan[c].dac_enabled /\ chan[c].length > 0
=============================================================================
