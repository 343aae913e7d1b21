---------------------------- MODULE TimerHistory ----------------------------
(* Timer with history variables that measure time, and the properties that   *)
(* relate what the timer does to the time that has passed.                   *)
EXTENDS Timer

CONSTANT MaxLost   \* bound on lost

ASSUME HistoryAssumption == MaxLost \in 0 .. DividerSize - 1

VARIABLES
    divAge,    \* clocks since DIV was last zero by a write or a reset
    lost,      \* of these, the clocks of a reload, up to MaxLost
    waited,    \* clocks since TIMA overflowed, -1 when no reload is owed
    divSteady, \* since the last audio clock nothing disturbed the divider
    sinceApu   \* half T-cycles of hardware time since then

timerHistVars == <<divAge, lost, waited, divSteady, sinceApu>>
timerAll == <<timerVars, timerHistVars>>

TimerHInit == TimerInit /\ divAge = 0 /\ lost = 0 /\ waited = -1 /\ divSteady = FALSE /\ sinceApu = 0

Clocked == clocks > 0
HalfCycles == IF double_speed THEN 1 ELSE 2
Overflowed == tima = TimaSize - 1 /\ tima' = 0 /\ (Advance \/ WriteDiv \/ WriteTac)

TimerHNext ==
    /\ TimerNext
    /\ divAge' = IF WriteDiv \/ ResetTimer THEN 0
              ELSE IF Clocked THEN After(divAge, 1) ELSE divAge
    /\ lost' = IF WriteDiv \/ ResetTimer THEN 0
               ELSE IF Reload /\ lost < MaxLost THEN lost + 1 ELSE lost
    /\ waited' = IF Overflowed THEN 0
                 ELSE IF WriteTima \/ ResetTimer \/ Reload THEN -1
                 ELSE IF Clocked /\ waited >= 0 THEN waited + 1 ELSE waited
    /\ divSteady' = IF WriteDiv \/ ResetTimer \/ Reload \/ SwitchSpeed THEN FALSE
                 ELSE IF "apu" \in calls' THEN TRUE ELSE divSteady
    /\ sinceApu' = IF ~divSteady' \/ "apu" \in calls' THEN 0
                   ELSE IF Clocked THEN sinceApu + HalfCycles ELSE sinceApu

TimerHSpec == TimerHInit /\ [][TimerHNext]_timerAll
TimerHFairSpec == TimerHSpec /\ WF_timerVars(TimePasses)

-----------------------------------------------------------------------------
(* An overflow of TIMA, natural or made by a write, requests one interrupt,  *)
(* on the ReloadDelay-th clock after it, unless TIMA is written or the timer *)
(* is reset first; nothing else requests one (timer_advance_one_clock).      *)
InterruptFollowsOverflow ==
    [][("interrupt" \in calls' /\ Clocked) <=> (Clocked /\ waited = ReloadDelay - 1)]_timerAll

(* From a write of DIV on, the divider counts every clock except those spent *)
(* on a reload, whatever the program writes and however the speed changes.   *)
DividerLagsByReloads == lost < MaxLost => After(divider, lost) = divAge

(* The audio clock has the same period in hardware time at both speeds       *)
(* ("the APU itself is not doubled", README.md:395; timer_apu_signal).       *)
ApuRateIsFixed ==
    [][divSteady /\ Advance /\ "apu" \in calls' => sinceApu + HalfCycles = 4 * ApuMask]_timerAll

(* The frame sequencer runs at 512 Hz (README.md:379): an undisturbed period *)
(* of its clock is 4194304 / 512 = 8192 T-cycles.                            *)
FrameSequencerAt512 ==
    [][divSteady /\ Advance /\ "apu" \in calls' => sinceApu + HalfCycles = 2 * 8192]_timerAll
=============================================================================
