----------------------------- MODULE MCDevices -----------------------------
(* The clocked devices in one run: the channels, the sweep and the sample    *)
(* ring of the audio unit, the timer and the PPU. They share no variable in  *)
(* the model, so their steps commute and a behaviour may as well be all of   *)
(* one: `part` says which.                                                   *)
EXTENDS ApuHistory, SweepHistory, SampleRing, MCTimer, PpuHistory

\* A channel with an envelope and the wave channel, which has none.
McLengthSize == [c \in {1, 3} |-> 2]

VARIABLE part

audioVars == <<apuAll, sweepAll, ringVars>>
mcVars == <<audioVars, timerAll, ppuAll, part>>

McInit ==
    /\ ApuHInit /\ SweepHInit /\ RingInit /\ TimerHInit /\ PpuHInit
    /\ part \in {"channels", "sweep", "ring", "timer", "ppu"}

ChannelsStep ==
    part = "channels" /\ ApuHNext /\ UNCHANGED <<sweepAll, ringVars, timerAll, ppuAll, part>>
SweepStep ==
    part = "sweep" /\ SweepHNext /\ UNCHANGED <<apuAll, ringVars, timerAll, ppuAll, part>>
RingStep ==
    part = "ring" /\ RingNext /\ UNCHANGED <<apuAll, sweepAll, timerAll, ppuAll, part>>
TimerStep == part = "timer" /\ TimerHNext /\ UNCHANGED <<audioVars, ppuAll, part>>
PpuStep == part = "ppu" /\ PpuHNext /\ UNCHANGED <<audioVars, timerAll, part>>

McNext == ChannelsStep \/ SweepStep \/ RingStep \/ TimerStep \/ PpuStep

\* The hardware ticks, as in TimerHFairSpec.
McSpec == McInit /\ [][McNext]_mcVars /\ WF_mcVars(TimePasses /\ TimerStep)

(* The registers, counters and positions of every device keep their ranges;  *)
(* among them, no sweep step stores a frequency of 12 bits.                  *)
DevicesTypeOK == ApuTypeOK /\ SweepTypeOK /\ RingTypeOK /\ TimerTypeOK /\ PpuTypeOK
=============================================================================
