------------------------------- MODULE Timer -------------------------------
(* The timer of gb_timer.c: a free-running divider whose selected bit clocks *)
(* TIMA on its falling edges, the delayed reload of TIMA after an overflow,  *)
(* and the falling edges that clock the audio unit. A falling edge may also  *)
(* be made by a write to DIV or TAC. One step of the loop of gb_timer_tick   *)
(* is one action; register accesses come between two ticks, at most one      *)
(* before each tick (cpu_bus_write8).                                        *)
EXTENDS Integers

CONSTANTS
    DividerSize,   \* number of values of the divider
    TimaSize,      \* number of values of TIMA and TMA
    TriggerMask,   \* divider bit, as a mask, for each clock select of TAC
    ApuMask,       \* divider bit of the audio clock at normal speed
    ReloadDelay,   \* clocks from an overflow of TIMA to the reload
    TickCycles,    \* T-cycles of hardware time one tick may have
    TacValues      \* values the program writes to TAC

ASSUME TimerAssumption ==
    /\ TimaSize \in Nat /\ TimaSize > 1
    /\ DividerSize \in Nat /\ ReloadDelay \in Nat
    /\ 0 < ReloadDelay /\ ReloadDelay < DividerSize
    /\ TriggerMask \in [0 .. 3 -> Nat \ {0}]
    /\ ApuMask \in Nat \ {0}
    /\ TickCycles \subseteq Nat
    /\ TacValues \subseteq 0 .. 7

Bit(value, mask) == (value \div mask) % 2 = 1

Signal(div, control) == control >= 4 /\ Bit(div, TriggerMask[control % 4])

\* The divider n clocks after it was div.
After(div, n) == IF div + n < DividerSize THEN div + n ELSE div + n - DividerSize

Falls(div, control) == Signal(div, control) /\ ~Signal(After(div, 1), control)

\* No falling edge in the next n clocks.
Quiet(div, control, n) == \A j \in 0 .. n - 1 : ~Falls(After(div, j), control)

\* The masks are powers of two above the reload delay: after a falling edge,
\* and from zero, no selectable bit falls during a reload delay; neither does
\* a bit that is low.
ASSUME EdgesAssumption ==
    \A c \in 0 .. 7 :
        /\ Quiet(0, c, ReloadDelay - 1)
        /\ \A d \in 0 .. DividerSize - 1 :
              /\ ~Signal(d, c) => Quiet(d, c, ReloadDelay - 1)
              /\ Falls(d, c) =>
                    /\ \A j \in 1 .. ReloadDelay : ~Signal(After(d, j), c)
                    /\ \A e \in 0 .. 7 : Quiet(After(d, 1), e, ReloadDelay - 1)

\* Every bit TAC can select falls within a period of the divider.
ASSUME PeriodAssumption ==
    \A c \in 4 .. 7 : \E d \in 0 .. DividerSize - 1 : Falls(d, c)

VARIABLES
    divider, tima, tma, tac,
    reload_delay,  \* clocks until the pending reload, 0 if none
    reload_tma,    \* the value it will load
    double_speed,
    clocks,        \* clocks left in the loop of gb_timer_tick
    accessed,      \* the program has used its access before the next tick
    calls         \* calls made by the last step: "interrupt", "apu"

timerRegisters == <<divider, tima, tma, tac, reload_delay, reload_tma, double_speed>>
timerVars == <<timerRegisters, clocks, accessed, calls>>

TimerInit ==
    /\ divider = 0 /\ tima = 0 /\ tma = 0 /\ tac = 0
    /\ reload_delay = 0 /\ reload_tma = 0 /\ double_speed = FALSE
    /\ clocks = 0 /\ accessed = FALSE /\ calls = {}

-----------------------------------------------------------------------------
\* Mutant: the bit does not follow the speed.
ApuSignalOneSpeed(div, double) == Bit(div, ApuMask)

ApuSignal(div, double) == Bit(div, IF double THEN 2 * ApuMask ELSE ApuMask)

Overflows == tima = TimaSize - 1

\* Mutant: TIMA stays at its maximum.
TimaEdgeSaturates(div, control, pending) ==
    IF Signal(divider, tac) /\ ~Signal(div, control)
    THEN /\ tima' = IF Overflows THEN tima ELSE tima + 1
         /\ reload_delay' = pending
         /\ UNCHANGED reload_tma
    ELSE /\ reload_delay' = pending
         /\ UNCHANGED <<tima, reload_tma>>

\* What a change of divider, control or speed does to TIMA and to the audio
\* unit; pending is the reload delay the change leaves alone.
TimaEdge(div, control, pending) ==
    IF Signal(divider, tac) /\ ~Signal(div, control)
    THEN /\ tima' = IF Overflows THEN 0 ELSE tima + 1
         /\ reload_delay' = IF Overflows THEN ReloadDelay ELSE pending
         /\ reload_tma' = IF Overflows THEN tma ELSE reload_tma
    ELSE /\ reload_delay' = pending
         /\ UNCHANGED <<tima, reload_tma>>

ApuEdge(div, double) ==
    calls' = IF ApuSignal(divider, double_speed) /\ ~ApuSignal(div, double)
              THEN {"apu"} ELSE {}

-----------------------------------------------------------------------------
StartTimerTick ==
    /\ clocks = 0
    /\ \E t \in TickCycles :
          /\ clocks' = IF double_speed THEN 2 * t ELSE t
          /\ clocks' >= ReloadDelay
    /\ accessed' = FALSE /\ calls' = {}
    /\ UNCHANGED timerRegisters

\* The clock that ends the delay reloads TIMA and does nothing else.
Reload ==
    /\ clocks > 0 /\ reload_delay = 1
    /\ clocks' = clocks - 1
    /\ reload_delay' = 0 /\ tima' = reload_tma
    /\ calls' = {"interrupt"}
    /\ UNCHANGED <<divider, tma, tac, reload_tma, double_speed, accessed>>

Advance ==
    /\ clocks > 0 /\ reload_delay # 1
    /\ clocks' = clocks - 1
    /\ divider' = After(divider, 1)
    /\ TimaEdge(divider', tac, IF reload_delay = 0 THEN 0 ELSE reload_delay - 1)
    /\ ApuEdge(divider', double_speed)
    /\ UNCHANGED <<tma, tac, double_speed, accessed>>

Access == clocks = 0 /\ ~accessed /\ accessed' = TRUE /\ UNCHANGED clocks

\* Mutant: a pending reload is dropped.
WriteDivDropsReload ==
    /\ Access
    /\ divider' = 0
    /\ TimaEdge(0, tac, 0)
    /\ ApuEdge(0, double_speed)
    /\ UNCHANGED <<tma, tac, double_speed>>

WriteDiv ==
    /\ Access
    /\ divider' = 0
    /\ TimaEdge(0, tac, reload_delay)
    /\ ApuEdge(0, double_speed)
    /\ UNCHANGED <<tma, tac, double_speed>>

WriteTac ==
    /\ Access
    /\ tac' \in TacValues
    /\ TimaEdge(divider, tac', reload_delay)
    /\ calls' = {}
    /\ UNCHANGED <<divider, tma, double_speed>>

WriteTima ==
    /\ Access
    /\ tima' \in 0 .. TimaSize - 1
    /\ reload_delay' = 0 /\ reload_tma' = tma
    /\ calls' = {}
    /\ UNCHANGED <<divider, tma, tac, double_speed>>

WriteTma ==
    /\ Access
    /\ tma' \in 0 .. TimaSize - 1
    /\ calls' = {}
    /\ UNCHANGED <<divider, tima, tac, reload_delay, reload_tma, double_speed>>

\* Mutant: the divider restarts.
SwitchSpeedClearsDivider ==
    /\ clocks = 0
    /\ double_speed' = ~double_speed
    /\ divider' = 0
    /\ ApuEdge(0, double_speed')
    /\ UNCHANGED <<tima, tma, tac, reload_delay, reload_tma, clocks, accessed>>

\* gb_timer_set_double_speed, called by the CGB unit between two instructions.
SwitchSpeed ==
    /\ clocks = 0
    /\ double_speed' = ~double_speed
    /\ ApuEdge(divider, double_speed')
    /\ UNCHANGED <<divider, tima, tma, tac, reload_delay, reload_tma, clocks, accessed>>

ResetTimer ==
    /\ clocks = 0
    /\ divider' = 0 /\ tima' = 0 /\ tma' = 0 /\ tac' = 0
    /\ reload_delay' = 0 /\ reload_tma' = 0 /\ double_speed' = FALSE
    /\ calls' = {}
    /\ UNCHANGED <<clocks, accessed>>

TimerProgram == WriteDiv \/ WriteTac \/ WriteTima \/ WriteTma \/ SwitchSpeed \/ ResetTimer
TimePasses == StartTimerTick \/ Reload \/ Advance
TimerNext == TimerProgram \/ TimePasses

TimerSpec == TimerInit /\ [][TimerNext]_timerVars
-----------------------------------------------------------------------------
TimerTypeOK ==
    /\ divider \in 0 .. DividerSize - 1
    /\ tima \in 0 .. TimaSize - 1
    /\ tma \in 0 .. TimaSize - 1
    /\ tac \in 0 .. 7
    /\ reload_delay \in 0 .. ReloadDelay
    /\ reload_tma \in 0 .. TimaSize - 1
    /\ double_speed \in BOOLEAN
    /\ clocks \in Nat
    /\ accessed \in BOOLEAN
    /\ calls \in {{}, {"interrupt"}, {"apu"}}

(* "Hardware exposes TIMA as zero during the delayed reload window"          *)
(* (timer_increment_tima): no edge can increment TIMA between an overflow    *)
(* and its reload, although the program may still write DIV or TAC there.    *)
ReloadWindowReadsZero == reload_delay # 0 => tima = 0

(* A timer left enabled and alone keeps requesting interrupts, whatever was  *)
(* pending when the program stopped touching it.                             *)
EnabledTimerInterrupts ==
    (<>[](tac >= 4) /\ <>[][TimePasses]_timerVars) => []<>("interrupt" \in calls)

=============================================================================
