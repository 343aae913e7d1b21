---------------------------- MODULE TimerProofs ----------------------------
(* Type correctness of Timer, what its reload does at any time the program   *)
(* may disturb it, and when the divider and the interrupts come.             *)
EXTENDS TimerHistory, TLAPS

\* The divider stays in its range and advances one clock at a time.
LEMMA AfterStep ==
    ASSUME NEW d \in 0 .. DividerSize - 1, NEW j \in 0 .. ReloadDelay
    PROVE  /\ After(d, j) \in 0 .. DividerSize - 1
           /\ After(d, 0) = d
           /\ After(After(d, 1), j) = After(d, j + 1)
BY TimerAssumption DEF After

\* What a change of the divider or of TAC can do to the timer.
LEMMA TimaEdgeTypes ==
    ASSUME TimerTypeOK, NEW div, NEW control, NEW pending \in 0 .. ReloadDelay,
           TimaEdge(div, control, pending)
    PROVE  /\ tima' \in 0 .. TimaSize - 1
           /\ reload_delay' \in 0 .. ReloadDelay
           /\ reload_tma' \in 0 .. TimaSize - 1
<1>1. CASE Signal(divider, tac) /\ ~Signal(div, control)
    BY <1>1, TimerAssumption DEF TimerTypeOK, TimaEdge, Overflows
<1>2. CASE ~(Signal(divider, tac) /\ ~Signal(div, control))
    BY <1>2, TimerAssumption DEF TimerTypeOK, TimaEdge
<1> QED BY <1>1, <1>2

LEMMA ClockTypes ==
    ASSUME TimerTypeOK
    PROVE  /\ After(divider, 1) \in 0 .. DividerSize - 1
           /\ clocks > 0 => clocks - 1 \in Nat
           /\ (IF reload_delay = 0 THEN 0 ELSE reload_delay - 1) \in 0 .. ReloadDelay
BY TimerAssumption DEF TimerTypeOK, After

LEMMA ZeroTypes ==
    /\ 0 \in 0 .. ReloadDelay /\ 0 \in 0 .. DividerSize - 1
    /\ 0 \in 0 .. TimaSize - 1 /\ 0 \in 0 .. 7 /\ 0 \in Nat
BY TimerAssumption

LEMMA ApuEdgeTypes ==
    ASSUME NEW div, NEW double, ApuEdge(div, double)
    PROVE  calls' \in {{}, {"interrupt"}, {"apu"}}
BY DEF ApuEdge

\* The type invariant is kept by every step.
LEMMA TypeStep == TimerTypeOK /\ [TimerNext]_timerVars => TimerTypeOK'
<1> SUFFICES ASSUME TimerTypeOK, [TimerNext]_timerVars PROVE TimerTypeOK'
    OBVIOUS
<1>0. USE ClockTypes, ZeroTypes DEF timerRegisters
<1>1. CASE StartTimerTick
    <2>1. clocks' \in Nat
        <3>1. PICK t \in TickCycles : clocks' = IF double_speed THEN 2 * t ELSE t
            BY <1>1 DEF StartTimerTick
        <3>2. t \in Nat /\ 2 * t \in Nat
            BY TimerAssumption
        <3> QED BY <3>1, <3>2
    <2> QED BY <1>1, <2>1 DEF TimerTypeOK, StartTimerTick
<1>2. CASE Reload
    BY <1>2 DEF TimerTypeOK, Reload
<1>3. CASE Advance
    <2>1. TimaEdge(divider', tac, IF reload_delay = 0 THEN 0 ELSE reload_delay - 1)
        BY <1>3 DEF Advance
    <2>2. /\ tima' \in 0 .. TimaSize - 1
          /\ reload_delay' \in 0 .. ReloadDelay
          /\ reload_tma' \in 0 .. TimaSize - 1
        BY <2>1, TimaEdgeTypes
    <2>3. calls' \in {{}, {"interrupt"}, {"apu"}}
        BY <1>3, ApuEdgeTypes DEF Advance
    <2> QED BY <1>3, <2>2, <2>3 DEF TimerTypeOK, Advance
<1>4. CASE WriteDiv
    <2>1. TimaEdge(0, tac, reload_delay) /\ reload_delay \in 0 .. ReloadDelay
        BY <1>4 DEF WriteDiv, TimerTypeOK
    <2>2. /\ tima' \in 0 .. TimaSize - 1
          /\ reload_delay' \in 0 .. ReloadDelay
          /\ reload_tma' \in 0 .. TimaSize - 1
        BY <2>1, TimaEdgeTypes
    <2>3. calls' \in {{}, {"interrupt"}, {"apu"}}
        BY <1>4, ApuEdgeTypes DEF WriteDiv
    <2> QED BY <1>4, <2>2, <2>3 DEF TimerTypeOK, WriteDiv, Access
<1>5. CASE WriteTac
    <2>1. TimaEdge(divider, tac', reload_delay) /\ reload_delay \in 0 .. ReloadDelay
        BY <1>5 DEF WriteTac, TimerTypeOK
    <2>2. /\ tima' \in 0 .. TimaSize - 1
          /\ reload_delay' \in 0 .. ReloadDelay
          /\ reload_tma' \in 0 .. TimaSize - 1
        BY <2>1, TimaEdgeTypes
    <2>3. tac' \in 0 .. 7
        BY <1>5, TimerAssumption DEF WriteTac
    <2> QED BY <1>5, <2>2, <2>3 DEF TimerTypeOK, WriteTac, Access
<1>6. CASE WriteTima
    BY <1>6 DEF TimerTypeOK, WriteTima, Access
<1>7. CASE WriteTma
    BY <1>7 DEF TimerTypeOK, WriteTma, Access
<1>8. CASE SwitchSpeed
    <2>1. calls' \in {{}, {"interrupt"}, {"apu"}}
        BY <1>8, ApuEdgeTypes DEF SwitchSpeed
    <2> QED BY <1>8, <2>1 DEF TimerTypeOK, SwitchSpeed
<1>9. CASE ResetTimer
    BY <1>9, ZeroTypes, Zenon DEF TimerTypeOK, ResetTimer
<1>10. CASE UNCHANGED timerVars
    BY <1>10 DEF TimerTypeOK, timerVars
<1> QED BY <1>1, <1>2, <1>3, <1>4, <1>5, <1>6, <1>7, <1>8, <1>9, <1>10
        DEF TimerNext, TimerProgram, TimePasses

\* Every register of the timer keeps its range.
THEOREM TypeCorrect == TimerSpec => []TimerTypeOK
<1>1. TimerInit => TimerTypeOK
    BY ZeroTypes, Zenon DEF TimerInit, TimerTypeOK
<1> QED BY <1>1, TypeStep, PTL DEF TimerSpec

-----------------------------------------------------------------------------
\* While a reload is pending no edge can reach TIMA before it. Until the
\* access of the window has been made, or when the window ends within the
\* running tick, this must hold for every control the program may select.
Window ==
    reload_delay # 0 =>
        /\ tima = 0
        /\ Quiet(divider, tac, reload_delay - 1)
        /\ accessed \/ clocks >= reload_delay \/
              /\ \A j \in 0 .. reload_delay - 1 : ~Signal(After(divider, j), tac)
              /\ \A c \in 0 .. 7 : Quiet(divider, c, reload_delay - 1)

\* One clock moves the quiet time on.
LEMMA QuietStep ==
    ASSUME NEW d \in 0 .. DividerSize - 1, NEW c, NEW n \in 2 .. ReloadDelay,
           Quiet(d, c, n - 1)
    PROVE  ~Falls(d, c) /\ Quiet(After(d, 1), c, n - 2)
<1>1. 0 \in 0 .. (n - 1) - 1
    BY TimerAssumption
<1>2. ~Falls(d, c)
    BY <1>1, AfterStep, TimerAssumption DEF Quiet
<1>3. ASSUME NEW j \in 0 .. (n - 2) - 1 PROVE ~Falls(After(After(d, 1), j), c)
    <2>1. j + 1 \in 0 .. (n - 1) - 1 /\ j \in 0 .. ReloadDelay
        BY TimerAssumption
    <2>2. After(After(d, 1), j) = After(d, j + 1)
        BY <2>1, AfterStep
    <2> QED BY <2>1, <2>2 DEF Quiet
<1> QED BY <1>2, <1>3 DEF Quiet

LEMMA WindowAdvance == TimerTypeOK /\ Window /\ Advance => Window'
<1> SUFFICES ASSUME TimerTypeOK, Window, Advance, reload_delay' # 0
             PROVE  /\ tima' = 0
                    /\ Quiet(divider', tac', reload_delay' - 1)
                    /\ accessed' \/ clocks' >= reload_delay' \/
                          /\ \A j \in 0 .. reload_delay' - 1 :
                                ~Signal(After(divider', j), tac')
                          /\ \A c \in 0 .. 7 : Quiet(divider', c, reload_delay' - 1)
    BY DEF Window
<1>1. /\ divider \in 0 .. DividerSize - 1 /\ tac \in 0 .. 7
      /\ reload_delay \in 0 .. ReloadDelay /\ clocks \in Nat
    BY DEF TimerTypeOK
<1>2. divider' = After(divider, 1) /\ tac' = tac
    BY DEF Advance
<1>3. CASE reload_delay = 0
    <2>1. Falls(divider, tac) /\ tima' = 0 /\ reload_delay' = ReloadDelay
        BY <1>2, <1>3 DEF Advance, TimaEdge, Falls, Overflows
    <2>2. /\ \A j \in 1 .. ReloadDelay : ~Signal(After(divider, j), tac)
          /\ \A e \in 0 .. 7 : Quiet(After(divider, 1), e, ReloadDelay - 1)
        BY <1>1, <2>1, EdgesAssumption
    <2>3. ASSUME NEW j \in 0 .. ReloadDelay - 1
          PROVE  ~Signal(After(After(divider, 1), j), tac)
        <3>1. j + 1 \in 1 .. ReloadDelay /\ j \in 0 .. ReloadDelay
            BY TimerAssumption
        <3>2. After(After(divider, 1), j) = After(divider, j + 1)
            BY <1>1, <3>1, AfterStep
        <3> QED BY <2>2, <3>1, <3>2
    <2> QED BY <1>1, <1>2, <2>1, <2>2, <2>3
<1>4. CASE reload_delay # 0
    <2>1. reload_delay \in 2 .. ReloadDelay
        BY <1>1, <1>4, TimerAssumption DEF Advance
    <2>2. ~Falls(divider, tac) /\ Quiet(divider', tac, reload_delay - 2)
        BY <1>1, <1>2, <1>4, <2>1, QuietStep DEF Window
    <2>3. tima' = tima /\ reload_delay' = reload_delay - 1
        BY <1>2, <1>4, <2>2 DEF Advance, TimaEdge, Falls
    <2>4. clocks' = clocks - 1 /\ accessed' = accessed
        BY DEF Advance
    <2>5. reload_delay' - 1 = reload_delay - 2
        BY <2>1, <2>3
    <2>6. CASE accessed
        BY <1>2, <1>4, <2>2, <2>3, <2>4, <2>5, <2>6 DEF Window
    <2>7. CASE clocks >= reload_delay
        <3>1. clocks' >= reload_delay'
            BY <1>1, <2>1, <2>3, <2>4, <2>7
        <3> QED BY <1>2, <1>4, <2>2, <2>3, <2>5, <3>1 DEF Window
    <2>8. CASE ~accessed /\ ~(clocks >= reload_delay)
        <3>1. /\ \A j \in 0 .. reload_delay - 1 : ~Signal(After(divider, j), tac)
              /\ \A c \in 0 .. 7 : Quiet(divider, c, reload_delay - 1)
            BY <1>4, <2>8 DEF Window
        <3>2. ASSUME NEW c \in 0 .. 7 PROVE Quiet(divider', c, reload_delay - 2)
            BY <1>1, <1>2, <2>1, <3>1, QuietStep
        <3>3. ASSUME NEW j \in 0 .. reload_delay - 2
              PROVE  ~Signal(After(divider', j), tac)
            <4>1. j + 1 \in 0 .. reload_delay - 1 /\ j \in 0 .. ReloadDelay
                BY <2>1, TimerAssumption
            <4>2. After(divider', j) = After(divider, j + 1)
                BY <1>1, <1>2, <4>1, AfterStep
            <4> QED BY <3>1, <4>1, <4>2
        <3> QED BY <1>2, <1>4, <2>2, <2>3, <2>5, <3>2, <3>3 DEF Window
    <2> QED BY <2>6, <2>7, <2>8
<1> QED BY <1>3, <1>4

\* The accesses of the program, at most one of which falls into the window.
LEMMA WindowAccess ==
    ASSUME TimerTypeOK, Window, ~accessed, clocks = 0, accessed',
           NEW div \in 0 .. DividerSize - 1, NEW control \in 0 .. 7,
           div = divider \/ (div = 0 /\ control = tac),
           TimaEdge(div, control, reload_delay),
           divider' = div, tac' = control
    PROVE  Window'
<1> SUFFICES ASSUME reload_delay' # 0
             PROVE  tima' = 0 /\ Quiet(div, control, reload_delay' - 1)
    BY DEF Window
<1>1. /\ divider \in 0 .. DividerSize - 1 /\ tac \in 0 .. 7
      /\ reload_delay \in 0 .. ReloadDelay
    BY DEF TimerTypeOK
<1>2. CASE reload_delay = 0
    <2>1. /\ Signal(divider, tac) /\ ~Signal(div, control)
          /\ tima' = 0 /\ reload_delay' = ReloadDelay
        BY <1>2, TimerAssumption DEF TimaEdge, Overflows
    <2>2. Quiet(div, control, ReloadDelay - 1)
        BY <2>1, EdgesAssumption
    <2> QED BY <2>1, <2>2
<1>3. CASE reload_delay # 0
    <2>1. /\ \A j \in 0 .. reload_delay - 1 : ~Signal(After(divider, j), tac)
          /\ \A c \in 0 .. 7 : Quiet(divider, c, reload_delay - 1)
          /\ tima = 0
        <3>1. ~(clocks >= reload_delay)
            BY <1>1, <1>3
        <3> QED BY <1>3, <3>1 DEF Window
    <2>2. ~Signal(divider, tac)
        <3>1. 0 \in 0 .. reload_delay - 1 /\ 0 \in 0 .. ReloadDelay
            BY <1>1, <1>3, TimerAssumption
        <3> QED BY <1>1, <2>1, <3>1, AfterStep
    <2>3. tima' = tima /\ reload_delay' = reload_delay
        BY <2>2 DEF TimaEdge
    <2>4. CASE div = divider
        BY <2>1, <2>3, <2>4
    <2>5. CASE div = 0 /\ control = tac
        <3>1. Quiet(0, tac, ReloadDelay - 1)
            BY <1>1, EdgesAssumption
        <3>2. ASSUME NEW j \in 0 .. (reload_delay - 1) - 1
              PROVE  j \in 0 .. (ReloadDelay - 1) - 1
            BY <1>1, TimerAssumption
        <3>3. Quiet(0, tac, reload_delay - 1)
            BY <3>1, <3>2 DEF Quiet
        <3> QED BY <2>1, <2>3, <2>5, <3>3
    <2> QED BY <2>4, <2>5
<1> QED BY <1>2, <1>3

LEMMA WindowStep == TimerTypeOK /\ Window /\ [TimerNext]_timerVars => Window'
<1> SUFFICES ASSUME TimerTypeOK, Window, [TimerNext]_timerVars PROVE Window'
    OBVIOUS
<1>1. CASE StartTimerTick
    <2>1. clocks' >= reload_delay \/ reload_delay = 0
        <3>1. clocks' >= ReloadDelay /\ reload_delay \in 0 .. ReloadDelay
            BY <1>1 DEF StartTimerTick, TimerTypeOK
        <3>2. clocks' \in Nat
            BY <1>1, TypeStep DEF TimerTypeOK
        <3> QED BY <3>1, <3>2, TimerAssumption
    <2> QED BY <1>1, <2>1 DEF Window, StartTimerTick, timerRegisters
<1>2. CASE Reload
    BY <1>2 DEF Window, Reload
<1>3. CASE Advance
    BY <1>3, WindowAdvance
<1>4. CASE WriteDiv
    <2>1. tac \in 0 .. 7 /\ 0 \in 0 .. DividerSize - 1
        BY TimerAssumption DEF TimerTypeOK
    <2> QED BY <1>4, <2>1, WindowAccess DEF WriteDiv, Access
<1>5. CASE WriteTac
    <2>1. tac' \in 0 .. 7 /\ divider \in 0 .. DividerSize - 1
        BY <1>5, TimerAssumption DEF TimerTypeOK, WriteTac
    <2>2. /\ TimaEdge(divider, tac', reload_delay) /\ divider' = divider
          /\ ~accessed /\ clocks = 0 /\ accessed'
        BY <1>5 DEF WriteTac, Access
    <2> QED BY <2>1, <2>2, WindowAccess
<1>6. CASE WriteTima
    BY <1>6 DEF Window, WriteTima
<1>7. CASE WriteTma
    BY <1>7 DEF Window, WriteTma, Access
<1>8. CASE SwitchSpeed
    BY <1>8 DEF Window, SwitchSpeed
<1>9. CASE ResetTimer
    BY <1>9 DEF Window, ResetTimer
<1>10. CASE UNCHANGED timerVars
    BY <1>10 DEF Window, timerVars, timerRegisters
<1> QED BY <1>1, <1>2, <1>3, <1>4, <1>5, <1>6, <1>7, <1>8, <1>9, <1>10
        DEF TimerNext, TimerProgram, TimePasses

\* TIMA reads as zero from an overflow until its reload.
THEOREM ReloadWindow == TimerSpec => []ReloadWindowReadsZero
<1>1. TimerInit => TimerTypeOK /\ Window
    BY ZeroTypes, Zenon DEF TimerInit, TimerTypeOK, Window
<1>2. TimerTypeOK /\ Window /\ [TimerNext]_timerVars => (TimerTypeOK /\ Window)'
    BY TypeStep, WindowStep
<1>3. Window => ReloadWindowReadsZero
    BY DEF Window, ReloadWindowReadsZero
<1> QED BY <1>1, <1>2, <1>3, PTL DEF TimerSpec
-----------------------------------------------------------------------------
\* Why an enabled timer interrupts, whatever state the program left it in.

\* The last value of the divider before the selected bit falls, and how many
\* clocks of the divider away it is.
LastBeforeEdge(c) == CHOOSE d \in 0 .. DividerSize - 1 : Falls(d, c)
ToEdge ==
    LET edge == LastBeforeEdge(tac) IN
    IF divider <= edge THEN edge - divider ELSE edge + DividerSize - divider

\* A clock brings the reload nearer that is pending, or TIMA its overflow, or
\* the divider the edge TIMA waits for.
ClockNears ==
    IF reload_delay # 0 THEN reload_delay' = reload_delay - 1
    ELSE \/ tima = TimaSize - 1 /\ reload_delay' = ReloadDelay
         \/ tima' = tima + 1 /\ reload_delay' = 0
         \/ tima' = tima /\ reload_delay' = 0 /\ ToEdge' \in 0 .. ToEdge - 1

TimerProgress ==
    TimePasses /\ tac >= 4 =>
        \/ "interrupt" \in calls'
        \/ clocks = 0 /\ clocks' > 0 /\ UNCHANGED timerRegisters
        \/ clocks' = clocks - 1 /\ ClockNears

\* As long as the bit does not fall, a clock brings its edge nearer.
LEMMA EdgeNears ==
    ASSUME NEW d \in 0 .. DividerSize - 1, NEW c \in 4 .. 7, ~Falls(d, c),
           divider = d, divider' = After(d, 1), tac = c, tac' = c
    PROVE  ToEdge' \in 0 .. ToEdge - 1
<1> DEFINE edge == LastBeforeEdge(c)
<1>1. edge \in 0 .. DividerSize - 1 /\ Falls(edge, c)
    BY PeriodAssumption DEF LastBeforeEdge
<1>2. edge # d
    BY <1>1
<1>3. ToEdge = IF d <= edge THEN edge - d ELSE edge + DividerSize - d
    BY DEF ToEdge
<1>4. ToEdge' = IF After(d, 1) <= edge THEN edge - After(d, 1)
                                       ELSE edge + DividerSize - After(d, 1)
    BY DEF ToEdge
<1> HIDE DEF edge
<1> QED BY <1>1, <1>2, <1>3, <1>4, TimerAssumption DEF After

\* An enabled timer that the program leaves alone keeps coming nearer to its
\* next interrupt: a clock counts the pending reload down, raises TIMA or
\* starts its reload, or moves the divider to the next falling edge; between
\* two clocks a tick only starts the next clocks. Each of these has an end, so
\* a timer whose clocks go on interrupts for ever (EnabledTimerInterrupts).
THEOREM InterruptNears == TimerSpec => [][TimerProgress]_timerVars
<1>1. TimerTypeOK /\ Window /\ [TimerNext]_timerVars => [TimerProgress]_timerVars
    <2> SUFFICES ASSUME TimerTypeOK, Window, TimePasses, tac >= 4,
                        ~("interrupt" \in calls')
                 PROVE  \/ clocks = 0 /\ clocks' > 0 /\ UNCHANGED timerRegisters
                        \/ clocks' = clocks - 1 /\ ClockNears
        BY DEF TimerProgress
    <2>0. /\ divider \in 0 .. DividerSize - 1 /\ tac \in 4 .. 7
          /\ reload_delay \in 0 .. ReloadDelay /\ tima \in 0 .. TimaSize - 1
        BY DEF TimerTypeOK
    <2>1. CASE StartTimerTick
        <3>1. clocks' \in Nat /\ clocks' >= ReloadDelay
            BY <2>1, TypeStep DEF TimerNext, TimePasses, StartTimerTick, TimerTypeOK
        <3> QED BY <2>1, <3>1, TimerAssumption DEF StartTimerTick
    <2>2. CASE Reload
        BY <2>2 DEF Reload
    <2>3. CASE Advance
        <3>1. /\ clocks' = clocks - 1 /\ reload_delay # 1
              /\ divider' = After(divider, 1) /\ tac' = tac
              /\ TimaEdge(divider', tac, IF reload_delay = 0 THEN 0 ELSE reload_delay - 1)
            BY <2>3 DEF Advance
        <3>2. CASE reload_delay # 0
            <4>1. reload_delay \in 2 .. ReloadDelay
                BY <2>0, <3>1, <3>2
            <4>2. ~Falls(divider, tac)
                BY <2>0, <3>2, <4>1, QuietStep DEF Window
            <4>3. reload_delay' = reload_delay - 1
                BY <3>1, <3>2, <4>2 DEF TimaEdge, Falls
            <4> QED BY <3>1, <3>2, <4>3 DEF ClockNears
        <3>3. CASE reload_delay = 0 /\ Falls(divider, tac)
            <4>1. IF tima = TimaSize - 1 THEN reload_delay' = ReloadDelay
                                         ELSE tima' = tima + 1 /\ reload_delay' = 0
                BY <3>1, <3>3 DEF TimaEdge, Falls, Overflows
            <4> QED BY <3>1, <3>3, <4>1 DEF ClockNears
        <3>4. CASE reload_delay = 0 /\ ~Falls(divider, tac)
            <4>1. tima' = tima /\ reload_delay' = 0
                BY <3>1, <3>4 DEF TimaEdge, Falls
            <4>2. ToEdge' \in 0 .. ToEdge - 1
                BY <2>0, <3>1, <3>4, EdgeNears
            <4> QED BY <3>1, <3>4, <4>1, <4>2 DEF ClockNears
        <3> QED BY <3>2, <3>3, <3>4
    <2> QED BY <2>1, <2>2, <2>3 DEF TimePasses
<1>2. TimerInit => TimerTypeOK /\ Window
    BY ZeroTypes, Zenon DEF TimerInit, TimerTypeOK, Window
<1>3. TimerTypeOK /\ Window /\ [TimerNext]_timerVars => (TimerTypeOK /\ Window)'
    BY TypeStep, WindowStep
<1> QED BY <1>1, <1>2, <1>3, PTL DEF TimerSpec

-----------------------------------------------------------------------------
\* The divider is behind the clocks counted since its last reset by those spent
\* on reloads, as long as they are counted.
LagInv ==
    /\ divAge \in 0 .. DividerSize - 1 /\ lost \in 0 .. MaxLost
    /\ DividerLagsByReloads

\* A reload that is owed comes ReloadDelay clocks after the overflow.
WaitInv ==
    \/ waited = -1 /\ reload_delay = 0
    \/ waited \in 0 .. ReloadDelay - 1 /\ reload_delay = ReloadDelay - waited

\* Counting a clock and counting a lag commute, and a lag of one more makes up
\* for a clock the divider missed.
LEMMA AfterLag ==
    ASSUME NEW d \in 0 .. DividerSize - 1, NEW l \in 0 .. MaxLost
    PROVE  /\ After(d, l) \in 0 .. DividerSize - 1
           /\ After(After(d, 1), l) = After(After(d, l), 1)
           /\ l < MaxLost => After(d, l + 1) = After(After(d, l), 1)
BY TimerAssumption, HistoryAssumption DEF After

\* Which of the timer's actions a step is, as far as the history can tell.
LEMMA StepKinds ==
    ASSUME TimerTypeOK, TimerNext
    PROVE  /\ Reload \/ Advance => Clocked /\ ~WriteDiv /\ ~ResetTimer /\ ~WriteTima /\ ~WriteTac
           /\ ~(Reload /\ Advance)
           /\ ~(Reload \/ Advance) => ~Clocked
           /\ WriteDiv \/ ResetTimer => divider' = 0
           /\ ~(WriteDiv \/ ResetTimer \/ Advance) => UNCHANGED divider
BY DEF TimerNext, TimerProgram, TimePasses, StartTimerTick, Reload, Advance, WriteDiv,
       WriteTac, WriteTima, WriteTma, SwitchSpeed, ResetTimer, Access, Clocked,
       timerRegisters, TimerTypeOK

LEMMA LagStep ==
    ASSUME TimerTypeOK, LagInv, [TimerHNext]_timerAll
    PROVE  LagInv'
<1>0. 0 \in 0 .. DividerSize - 1 /\ 0 \in 0 .. MaxLost /\ After(0, 0) = 0
    BY TimerAssumption, HistoryAssumption DEF After
<1>1. divider \in 0 .. DividerSize - 1 /\ divAge \in 0 .. DividerSize - 1
      /\ lost \in 0 .. MaxLost /\ MaxLost \in Nat
    BY HistoryAssumption DEF TimerTypeOK, LagInv
<1>2. CASE TimerHNext /\ (WriteDiv \/ ResetTimer)
    <2>1. divider' = 0 /\ divAge' = 0 /\ lost' = 0
        BY <1>2, StepKinds DEF TimerHNext
    <2> QED BY <1>0, <2>1 DEF LagInv, DividerLagsByReloads
<1>3. CASE TimerHNext /\ Reload
    <2>1. /\ divider' = divider /\ divAge' = After(divAge, 1)
          /\ lost' = IF lost < MaxLost THEN lost + 1 ELSE lost
        BY <1>3, StepKinds DEF TimerHNext, Reload
    <2>2. After(divAge, 1) \in 0 .. DividerSize - 1 /\ lost' \in 0 .. MaxLost
        BY <1>1, <2>1, TimerAssumption DEF After
    <2>3. lost' < MaxLost => lost' = lost + 1 /\ lost < MaxLost
        BY <1>1, <2>1
    <2> QED BY <1>1, <2>1, <2>2, <2>3, AfterLag DEF LagInv, DividerLagsByReloads
<1>4. CASE TimerHNext /\ Advance
    <2>1. divider' = After(divider, 1) /\ divAge' = After(divAge, 1) /\ lost' = lost
        BY <1>4, StepKinds DEF TimerHNext, Advance
    <2>2. After(divAge, 1) \in 0 .. DividerSize - 1
        BY <1>1, TimerAssumption DEF After
    <2> QED BY <1>1, <2>1, <2>2, AfterLag DEF LagInv, DividerLagsByReloads
<1>5. CASE TimerHNext /\ ~(WriteDiv \/ ResetTimer \/ Reload \/ Advance)
    <2>1. UNCHANGED <<divider, divAge, lost>>
        BY <1>5, StepKinds DEF TimerHNext
    <2> QED BY <2>1 DEF LagInv, DividerLagsByReloads
<1>6. CASE UNCHANGED timerAll
    BY <1>6 DEF timerAll, timerVars, timerRegisters, timerHistVars, LagInv, DividerLagsByReloads
<1> QED BY <1>2, <1>3, <1>4, <1>5, <1>6

\* What a step does to the reload that is owed: an overflow owes one, and can
\* only come when none is; a write of TIMA, a reset and the reload itself
\* settle it; a clock brings it nearer.
LEMMA OwedStep ==
    ASSUME TimerTypeOK, Window, TimerNext
    PROVE  /\ Overflowed => reload_delay' = ReloadDelay /\ ~Reload
           /\ WriteTima \/ ResetTimer \/ Reload => reload_delay' = 0
           /\ ~(Overflowed \/ WriteTima \/ ResetTimer \/ Reload) =>
                 reload_delay' = IF Clocked /\ reload_delay # 0 THEN reload_delay - 1
                                 ELSE reload_delay
           /\ Clocked /\ reload_delay = 1 <=> Reload
<1>1. tima \in 0 .. TimaSize - 1 /\ TimaSize > 1 /\ ReloadDelay > 0 /\ TimaSize \in Nat
    BY TimerAssumption DEF TimerTypeOK
<1>2. Overflowed => reload_delay' = ReloadDelay /\ ~Reload
    <2> SUFFICES ASSUME Overflowed PROVE reload_delay' = ReloadDelay /\ ~Reload
        OBVIOUS
    <2>1. tima = TimaSize - 1 /\ tima # 0 /\ tima' = 0
        BY <1>1 DEF Overflowed
    <2>2. ASSUME NEW div, NEW control, NEW pending, TimaEdge(div, control, pending)
          PROVE  reload_delay' = ReloadDelay
        BY <2>1, <2>2 DEF TimaEdge, Overflows
    <2>3. reload_delay' = ReloadDelay
        BY <2>1, <2>2 DEF Overflowed, Advance, WriteDiv, WriteTac
    <2>4. ~Reload
        BY <1>1, <2>3 DEF Reload
    <2> QED BY <2>3, <2>4
<1>3. WriteTima \/ ResetTimer \/ Reload => reload_delay' = 0
    BY DEF WriteTima, ResetTimer, Reload
<1>4. ASSUME ~(Overflowed \/ WriteTima \/ ResetTimer \/ Reload)
      PROVE  reload_delay' = IF Clocked /\ reload_delay # 0 THEN reload_delay - 1
                             ELSE reload_delay
    <2>1. ASSUME NEW div, NEW control, NEW pending, TimaEdge(div, control, pending),
                 Advance \/ WriteDiv \/ WriteTac
          PROVE  reload_delay' = pending
        BY <1>1, <1>4, <2>1 DEF TimaEdge, Overflows, Overflowed
    <2>2. CASE Advance
        <3>1. TimaEdge(divider', tac, IF reload_delay = 0 THEN 0 ELSE reload_delay - 1)
            BY <2>2 DEF Advance
        <3>2. reload_delay' = IF reload_delay = 0 THEN 0 ELSE reload_delay - 1
            BY <2>1, <2>2, <3>1
        <3>3. Clocked
            BY <2>2 DEF Advance, Clocked
        <3> QED BY <3>2, <3>3
    <2>3. CASE WriteDiv \/ WriteTac
        <3>1. ~Clocked
            BY <2>3 DEF WriteDiv, WriteTac, Access, Clocked
        <3>2. TimaEdge(0, tac, reload_delay) \/ TimaEdge(divider, tac', reload_delay)
            BY <2>3 DEF WriteDiv, WriteTac
        <3>3. reload_delay' = reload_delay
            BY <2>1, <2>3, <3>2
        <3> QED BY <3>1, <3>3
    <2>4. CASE StartTimerTick \/ WriteTma \/ SwitchSpeed
        BY <2>4 DEF StartTimerTick, WriteTma, SwitchSpeed, Access, Clocked, timerRegisters
    <2> QED BY <1>4, <2>2, <2>3, <2>4 DEF TimerNext, TimerProgram, TimePasses
<1>5. Clocked /\ reload_delay = 1 <=> Reload
    BY DEF TimerNext, TimerProgram, TimePasses, StartTimerTick, Reload, Advance, WriteDiv,
           WriteTac, WriteTima, WriteTma, SwitchSpeed, ResetTimer, Access, Clocked,
           TimerTypeOK
<1> QED BY <1>2, <1>3, <1>4, <1>5

LEMMA WaitStep ==
    ASSUME TimerTypeOK, Window, WaitInv, [TimerHNext]_timerAll
    PROVE  WaitInv'
<1>0. ReloadDelay \in Nat /\ ReloadDelay > 0
    BY TimerAssumption
<1>1. CASE TimerHNext /\ Overflowed
    <2>1. waited' = 0 /\ reload_delay' = ReloadDelay
        BY <1>1, OwedStep DEF TimerHNext
    <2> QED BY <1>0, <2>1 DEF WaitInv
<1>2. CASE TimerHNext /\ ~Overflowed /\ (WriteTima \/ ResetTimer \/ Reload)
    BY <1>2, OwedStep DEF TimerHNext, WaitInv
<1>3. CASE TimerHNext /\ ~(Overflowed \/ WriteTima \/ ResetTimer \/ Reload)
    <2>1. /\ waited' = IF Clocked /\ waited >= 0 THEN waited + 1 ELSE waited
          /\ reload_delay' = IF Clocked /\ reload_delay # 0 THEN reload_delay - 1
                             ELSE reload_delay
          /\ ~(Clocked /\ reload_delay = 1)
        BY <1>3, OwedStep DEF TimerHNext
    <2> QED BY <1>0, <2>1 DEF WaitInv
<1>4. CASE UNCHANGED timerAll
    BY <1>4 DEF timerAll, timerVars, timerRegisters, timerHistVars, WaitInv
<1> QED BY <1>1, <1>2, <1>3, <1>4

TimerHInv == TimerTypeOK /\ Window /\ LagInv /\ WaitInv

LEMMA TimerHistoryInvariant == TimerHSpec => []TimerHInv
<1>1. TimerHInit => TimerHInv
    <2>1. TimerInit => TimerTypeOK /\ Window
        BY ZeroTypes, Zenon DEF TimerInit, TimerTypeOK, Window
    <2>2. 0 \in 0 .. DividerSize - 1 /\ 0 \in 0 .. MaxLost /\ After(0, 0) = 0
        BY TimerAssumption, HistoryAssumption DEF After
    <2> QED BY <2>1, <2>2 DEF TimerHInit, TimerInit, TimerHInv, LagInv, WaitInv, DividerLagsByReloads
<1>2. [TimerHNext]_timerAll => [TimerNext]_timerVars
    BY DEF TimerHNext, timerAll
<1>3. TimerHInv /\ [TimerHNext]_timerAll => TimerHInv'
    BY <1>2, TypeStep, WindowStep, LagStep, WaitStep DEF TimerHInv
<1> QED BY <1>1, <1>3, PTL DEF TimerHSpec

\* DIV is behind the time since its last reset by exactly the clocks spent on
\* reloads, whatever the program writes and however the speed changes.
THEOREM DividerLag == TimerHSpec => []DividerLagsByReloads
<1>1. TimerHInv => DividerLagsByReloads
    BY DEF TimerHInv, LagInv
<1> QED BY <1>1, TimerHistoryInvariant, PTL

\* Every overflow of TIMA, natural or made by a write of DIV or TAC, interrupts
\* on the ReloadDelay-th clock after it unless it is called off.
THEOREM OverflowInterrupts == TimerHSpec => InterruptFollowsOverflow
<1>1. TimerHInv /\ [TimerHNext]_timerAll
      => [("interrupt" \in calls' /\ Clocked) <=> (Clocked /\ waited = ReloadDelay - 1)]_timerAll
    <2> SUFFICES ASSUME TimerHInv, TimerHNext, Clocked
                 PROVE  "interrupt" \in calls' <=> waited = ReloadDelay - 1
        OBVIOUS
    <2>1. Reload \/ Advance
        BY StepKinds DEF TimerHInv, TimerHNext
    <2>2. "interrupt" \in calls' <=> Reload
        <3>1. Reload => calls' = {"interrupt"}
            BY DEF Reload
        <3>2. Advance => calls' \in {{"apu"}, {}}
            BY DEF Advance, ApuEdge
        <3> QED BY <2>1, <3>1, <3>2, StepKinds DEF TimerHInv, TimerHNext
    <2>3. reload_delay = 1 <=> waited = ReloadDelay - 1
        BY TimerAssumption DEF TimerHInv, WaitInv
    <2> QED BY <2>2, <2>3, OwedStep DEF TimerHInv, TimerHNext
<1> QED BY <1>1, TimerHistoryInvariant, PTL DEF TimerHSpec, InterruptFollowsOverflow
-----------------------------------------------------------------------------
\* Quotient and remainder.
LEMMA Division ==
    ASSUME NEW x \in Nat, NEW y \in Nat \ {0}
    PROVE  /\ x \div y \in Nat /\ x % y \in 0 .. y - 1
           /\ x = (y * (x \div y)) + (x % y)
OBVIOUS

\* Two different multiples lie at least one unit apart.
LEMMA Multiples ==
    ASSUME NEW y \in Nat \ {0}, NEW a \in Int, NEW b \in Int, a < b
    PROVE  y * a + y <= y * b
<1>1. PICK k \in Nat : b = a + 1 + k
    <2>1. b - a - 1 \in Nat /\ b = a + 1 + (b - a - 1)
        OBVIOUS
    <2> QED BY <2>1
<1>2. y * b = y * a + y + y * k
    BY <1>1
<1>3. y * k \in Nat /\ y * a \in Int
    BY <1>1
<1> QED BY <1>2, <1>3

\* Quotient and remainder are determined by their sum.
LEMMA Unique ==
    ASSUME NEW y \in Nat \ {0}, NEW q \in Nat, NEW p \in Nat, NEW r \in 0 .. y - 1,
           NEW s \in 0 .. y - 1, y * q + r = y * p + s
    PROVE  q = p /\ r = s
<1>0. y * q \in Nat /\ y * p \in Nat
    OBVIOUS
<1>1. ~(q < p)
    <2> SUFFICES ASSUME q < p PROVE FALSE
        OBVIOUS
    <2>1. y * q + y <= y * p
        BY Multiples
    <2> QED BY <1>0, <2>1
<1>2. ~(p < q)
    <2> SUFFICES ASSUME p < q PROVE FALSE
        OBVIOUS
    <2>1. y * p + y <= y * q
        BY Multiples
    <2> QED BY <1>0, <2>1
<1> QED BY <1>0, <1>1, <1>2

\* What a sum of a multiple and a remainder divides into.
LEMMA Position ==
    ASSUME NEW y \in Nat \ {0}, NEW q \in Nat, NEW r \in 0 .. y - 1
    PROVE  (y * q + r) \div y = q /\ (y * q + r) % y = r
<1> DEFINE x == y * q + r
<1>1. x \in Nat
    OBVIOUS
<1> HIDE DEF x
<1>2. /\ x \div y \in Nat /\ x % y \in 0 .. y - 1
      /\ x = (y * (x \div y)) + (x % y)
    BY <1>1, Division
<1>3. x = y * q + r
    BY DEF x
<1>4. x \div y = q /\ x % y = r
    BY <1>2, <1>3, Unique
<1> QED BY <1>4 DEF x

\* A bit is set in the second half of its period.
LEMMA BitByPosition ==
    ASSUME NEW m \in Nat \ {0}, NEW d \in Nat
    PROVE  Bit(d, m) <=> d % (2 * m) >= m
<1> DEFINE y == 2 * m  q == d \div y  r == d % y
<1>1. y \in Nat \ {0}
    OBVIOUS
<1>2. q \in Nat /\ r \in 0 .. y - 1 /\ d = y * q + r
    BY <1>1, Division
<1>3. y * q = m * (2 * q) /\ m * (2 * q + 1) = m * (2 * q) + m
    BY <1>2
<1>4. CASE r < m
    <2>1. r \in 0 .. m - 1 /\ d = m * (2 * q) + r /\ 2 * q \in Nat
        BY <1>2, <1>3, <1>4
    <2>2. d \div m = 2 * q
        BY <2>1, Position
    <2>3. (2 * q) % 2 = 0
        BY <1>2
    <2> QED BY <1>2, <1>4, <2>2, <2>3 DEF Bit
<1>5. CASE r >= m
    <2>1. r - m \in 0 .. m - 1 /\ d = m * (2 * q + 1) + (r - m) /\ 2 * q + 1 \in Nat
        BY <1>2, <1>3, <1>5
    <2>2. d \div m = 2 * q + 1
        BY <2>1, Position
    <2>3. (2 * q + 1) % 2 = 1
        BY <1>2
    <2> QED BY <1>2, <1>5, <2>2, <2>3 DEF Bit
<1> QED BY <1>2, <1>4, <1>5

\* The position in a period that divides the divider moves on with the clock.
LEMMA NextPosition ==
    ASSUME NEW y \in Nat \ {0}, NEW k \in Nat, DividerSize = y * k,
           NEW d \in 0 .. DividerSize - 1
    PROVE  After(d, 1) % y = IF d % y = y - 1 THEN 0 ELSE (d % y) + 1
<1> DEFINE q == d \div y  r == d % y
<1>0. DividerSize \in Nat /\ d \in Nat
    OBVIOUS
<1>1. q \in Nat /\ r \in 0 .. y - 1 /\ d = y * q + r
    BY <1>0, Division
<1>2. q + 1 \in Nat /\ y * (q + 1) = y * q + y /\ y * q \in Nat
    BY <1>1
<1> HIDE DEF q, r
<1>3. CASE r = y - 1
    <2>1. d + 1 = y * (q + 1) + 0 /\ 0 \in 0 .. y - 1
        BY <1>1, <1>2, <1>3
    <2>2. (y * (q + 1) + 0) % y = 0 /\ (y * 0 + 0) % y = 0
        BY <1>2, <2>1, Position
    <2>3. (d + 1) % y = 0
        BY <2>1, <2>2
    <2>4. 0 % y = 0
        <3>1. y * 0 + 0 = 0
            OBVIOUS
        <3> QED BY <2>2, <3>1
    <2>5. After(d, 1) \in {d + 1, 0}
        BY <1>0 DEF After
    <2> QED BY <1>3, <2>3, <2>4, <2>5 DEF r
<1>4. CASE r # y - 1
    <2>1. r + 1 \in 0 .. y - 1 /\ d + 1 = y * q + (r + 1)
        BY <1>1, <1>2, <1>4
    <2>2. (y * q + (r + 1)) % y = r + 1
        BY <1>1, <2>1, Position
    <2>3. d + 1 # DividerSize
        <3> SUFFICES ASSUME d + 1 = DividerSize PROVE FALSE
            OBVIOUS
        <3>1. y * q + (r + 1) = y * k + 0 /\ 0 \in 0 .. y - 1
            BY <2>1, <1>2
        <3>2. r + 1 = 0
            BY <1>1, <2>1, <3>1, Unique
        <3> QED BY <1>1, <3>2
    <2>4. After(d, 1) = d + 1
        BY <1>0, <2>3 DEF After
    <2> QED BY <1>4, <2>1, <2>2, <2>4 DEF r
<1> QED BY <1>3, <1>4

-----------------------------------------------------------------------------
\* The period of the divider bit that clocks the audio unit, in clocks.
ApuPeriod == 2 * (IF double_speed THEN 2 * ApuMask ELSE ApuMask)

\* Undisturbed since an audio clock, the divider has counted its time.
RateInv ==
    divSteady => sinceApu = HalfCycles * (divider % ApuPeriod)

LEMMA PeriodTypes ==
    ASSUME TimerTypeOK
    PROVE  /\ ApuPeriod \in Nat \ {0} /\ HalfCycles \in Nat
           /\ HalfCycles * ApuPeriod = 4 * ApuMask
           /\ divider % ApuPeriod \in 0 .. ApuPeriod - 1
<1>1. ApuPeriod \in Nat \ {0} /\ HalfCycles \in Nat
    BY TimerAssumption DEF ApuPeriod, HalfCycles
<1>2. HalfCycles * ApuPeriod = 4 * ApuMask
    BY TimerAssumption DEF ApuPeriod, HalfCycles
<1>3. divider \in Nat
    BY TimerAssumption DEF TimerTypeOK
<1> QED BY <1>1, <1>2, <1>3, Division

\* The audio unit is clocked by the divider exactly at the end of a period.
LEMMA ApuAtPeriodEnd ==
    ASSUME TimerTypeOK, Advance, NEW k \in Nat, DividerSize = 4 * ApuMask * k
    PROVE  /\ "apu" \in calls' <=> divider % ApuPeriod = ApuPeriod - 1
           /\ divider' % ApuPeriod = IF divider % ApuPeriod = ApuPeriod - 1 THEN 0
                                     ELSE (divider % ApuPeriod) + 1
<1> DEFINE m == IF double_speed THEN 2 * ApuMask ELSE ApuMask
           here == divider % ApuPeriod  there == divider' % ApuPeriod
<1>1. m \in Nat \ {0} /\ ApuPeriod = 2 * m
    BY TimerAssumption DEF ApuPeriod
<1>2. divider \in Nat /\ divider \in 0 .. DividerSize - 1 /\ divider' \in Nat
      /\ divider' = After(divider, 1)
    BY TimerAssumption DEF Advance, After, TimerTypeOK
<1>3. PICK n \in Nat : DividerSize = ApuPeriod * n
    <2>1. CASE double_speed
        BY <2>1, TimerAssumption DEF ApuPeriod
    <2>2. CASE ~double_speed
        <3>1. 2 * k \in Nat /\ 4 * ApuMask * k = (2 * ApuMask) * (2 * k)
            BY TimerAssumption
        <3> QED BY <2>2, <3>1 DEF ApuPeriod
    <2> QED BY <2>1, <2>2
<1>4. there = IF here = ApuPeriod - 1 THEN 0 ELSE here + 1
    BY <1>1, <1>2, <1>3, NextPosition
<1>5. /\ Bit(divider, m) <=> here >= m
      /\ Bit(divider', m) <=> there >= m
    BY <1>1, <1>2, BitByPosition
<1>6. here \in 0 .. ApuPeriod - 1
    BY PeriodTypes
<1>7. "apu" \in calls' <=> Bit(divider, m) /\ ~Bit(divider', m)
    BY DEF Advance, ApuEdge, ApuSignal
<1> HIDE DEF m, here, there
<1>8. "apu" \in calls' <=> here = ApuPeriod - 1
    BY <1>1, <1>4, <1>5, <1>6, <1>7
<1> QED BY <1>4, <1>8 DEF here, there

LEMMA RateStep ==
    ASSUME TimerTypeOK, RateInv, [TimerHNext]_timerAll,
           NEW k \in Nat, DividerSize = 4 * ApuMask * k
    PROVE  RateInv'
<1> SUFFICES ASSUME divSteady' PROVE sinceApu' = HalfCycles' * (divider' % ApuPeriod')
    BY DEF RateInv
<1>1. CASE TimerHNext
    <2>1. ~(WriteDiv \/ ResetTimer \/ Reload \/ SwitchSpeed)
        BY <1>1 DEF TimerHNext
    <2>2. UNCHANGED double_speed
        BY <1>1, <2>1 DEF TimerHNext, TimerNext, TimerProgram, TimePasses, StartTimerTick,
            Advance, WriteTac, WriteTima, WriteTma, timerRegisters
    <2>3. ApuPeriod' = ApuPeriod /\ HalfCycles' = HalfCycles
        BY <2>2 DEF ApuPeriod, HalfCycles
    <2>4. CASE Advance
        <3>1. /\ "apu" \in calls' <=> divider % ApuPeriod = ApuPeriod - 1
              /\ divider' % ApuPeriod = IF divider % ApuPeriod = ApuPeriod - 1 THEN 0
                                        ELSE (divider % ApuPeriod) + 1
            BY <2>4, ApuAtPeriodEnd
        <3>2. CASE "apu" \in calls'
            <4>1. sinceApu' = 0 /\ divider' % ApuPeriod = 0 /\ HalfCycles * 0 = 0
                BY <1>1, <3>1, <3>2, PeriodTypes DEF TimerHNext
            <4> QED BY <2>3, <4>1
        <3>3. CASE "apu" \notin calls'
            <4>1. divSteady /\ sinceApu' = sinceApu + HalfCycles
                BY <1>1, <2>1, <2>4, <3>3 DEF TimerHNext, Advance, Clocked
            <4>2. divider' % ApuPeriod = (divider % ApuPeriod) + 1
                BY <3>1, <3>3
            <4>3. HalfCycles * ((divider % ApuPeriod) + 1)
                    = HalfCycles * (divider % ApuPeriod) + HalfCycles
                BY PeriodTypes
            <4> QED BY <2>3, <4>1, <4>2, <4>3 DEF RateInv
        <3> QED BY <3>2, <3>3
    <2>5. CASE ~Advance
        <3>1. calls' = {} /\ UNCHANGED divider /\ ~Clocked
            BY <1>1, <2>1, <2>5 DEF TimerHNext, TimerNext, TimerProgram, TimePasses,
                StartTimerTick, WriteTac, WriteTima, WriteTma, Access, Clocked, timerRegisters
        <3>2. divSteady /\ sinceApu' = sinceApu
            BY <1>1, <2>1, <3>1 DEF TimerHNext
        <3> QED BY <2>3, <3>1, <3>2 DEF RateInv
    <2> QED BY <2>4, <2>5
<1>2. CASE UNCHANGED timerAll
    <2>1. UNCHANGED <<divider, double_speed, divSteady, sinceApu>>
        BY <1>2 DEF timerAll, timerVars, timerRegisters, timerHistVars
    <2>2. ApuPeriod' = ApuPeriod /\ HalfCycles' = HalfCycles
        BY <2>1 DEF ApuPeriod, HalfCycles
    <2> QED BY <2>1, <2>2 DEF RateInv
<1> QED BY <1>1, <1>2

\* Undisturbed, the audio unit is clocked at one rate in hardware time at both
\* speeds, if the divider is a whole number of periods of its clock long.
THEOREM ApuRate ==
    ASSUME NEW k \in Nat, DividerSize = 4 * ApuMask * k
    PROVE  TimerHSpec => ApuRateIsFixed
<1>1. TimerHInit => RateInv
    BY DEF TimerHInit, RateInv
<1>2. TimerTypeOK /\ RateInv /\ [TimerHNext]_timerAll => RateInv'
    BY RateStep
<1>3. TimerTypeOK /\ RateInv /\ [TimerHNext]_timerAll
      => [divSteady /\ Advance /\ "apu" \in calls' => sinceApu + HalfCycles = 4 * ApuMask]_timerAll
    <2> SUFFICES ASSUME TimerTypeOK, RateInv, divSteady, Advance, "apu" \in calls'
                 PROVE  sinceApu + HalfCycles = 4 * ApuMask
        OBVIOUS
    <2>1. divider % ApuPeriod = ApuPeriod - 1
        BY ApuAtPeriodEnd
    <2>2. HalfCycles * (ApuPeriod - 1) + HalfCycles = HalfCycles * ApuPeriod
        BY PeriodTypes
    <2> QED BY <2>1, <2>2, PeriodTypes DEF RateInv
<1>4. TimerHInv => TimerTypeOK
    BY DEF TimerHInv
<1> QED BY <1>1, <1>2, <1>3, <1>4, TimerHistoryInvariant, PTL DEF TimerHSpec, ApuRateIsFixed
=============================================================================
