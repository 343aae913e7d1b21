----------------------------- MODULE TimeProofs -----------------------------
(* Time is kept: the CPU reports the T-cycles it has ticked the hardware     *)
(* for, and the main loop plays the host's time. Each is an equation that    *)
(* every step preserves. And calls return: what stands on the stack stays    *)
(* there, through half a push and half a pop.                                *)
EXTENDS MCCore, CpuProofs

Cycles == {"fetch", "read", "write", "idle", "pushHigh", "pushLow", "popLow", "popHigh"}

\* A list of len bus cycles.
Has(cs, len) == cs \in Seq(Cycles) /\ Len(cs) = len

\* A row reports four T-cycles for each of its cycles.
Timed(r) == Has(r.cycles, Len(r.cycles)) /\ r.time = 4 * Len(r.cycles) /\ r.effect # "idle"

LEMMA HasShort ==
    /\ Has(<<>>, 0)
    /\ \A x \in Cycles : Has(<<x>>, 1)
    /\ \A x, y \in Cycles : Has(<<x, y>>, 2)
BY DEF Has

LEMMA HasJoin ==
    ASSUME NEW s, NEW m \in Nat, Has(s, m), NEW t, NEW len \in Nat, Has(t, len)
    PROVE  Has(s \o t, m + len)
BY DEF Has

LEMMA HasPieces ==
    Has(Fetch8, 1) /\ Has(Fetch16, 2) /\ Has(Push16, 2) /\ Has(Pop16, 2)
BY HasShort DEF Fetch8, Fetch16, Push16, Pop16, Cycles

\* A row of n cycles after its opcode.
LEMMA OpcodeTimed ==
    ASSUME NEW cs, NEW len \in Nat, Has(cs, len), NEW end, end # "idle"
    PROVE  Timed(Row(Opcode(cs), 4 * (1 + len), end))
<1>1. Has(Opcode(cs), 1 + len)
    BY HasPieces, HasJoin DEF Opcode
<1> QED BY <1>1 DEF Timed, Row, Has

LEMMA LoadsTimed == \A r \in LoadRows : Timed(r)
<1>1. Has(Fetch8 \o <<"write">>, 2)
    BY HasShort, HasPieces, HasJoin DEF Cycles
<1> QED BY <1>1, HasShort, HasPieces, OpcodeTimed DEF LoadRows, Plain, Cycles

LEMMA WideLoadsTimed == \A r \in WideLoadRows : Timed(r)
<1>1. Has(<<"write", "write">>, 2) /\ Has(Fetch16 \o <<"write", "write">>, 4)
    BY HasShort, HasPieces, HasJoin DEF Cycles
<1> QED BY <1>1, HasShort, HasPieces, OpcodeTimed DEF WideLoadRows, Plain, Cycles

LEMMA HighLoadsTimed == \A r \in HighLoadRows : Timed(r)
<1> SUFFICES ASSUME NEW access \in {"read", "write"}
             PROVE  /\ Timed(Plain(Opcode(Fetch8 \o <<access>>), 12))
                    /\ Timed(Plain(Opcode(<<access>>), 8))
                    /\ Timed(Plain(Opcode(Fetch16 \o <<access>>), 16))
    BY DEF HighLoadRows
<1>1. Has(<<access>>, 1)
    BY HasShort DEF Cycles
<1>2. Has(Fetch8 \o <<access>>, 2) /\ Has(Fetch16 \o <<access>>, 3)
    BY <1>1, HasPieces, HasJoin
<1> QED BY <1>1, <1>2, OpcodeTimed DEF Plain

LEMMA AluTimed == \A r \in AluRows \union WideAluRows : Timed(r)
BY HasShort, HasPieces, OpcodeTimed DEF AluRows, WideAluRows, Plain, Cycles

LEMMA SpOffsetsTimed == \A r \in SpOffsetRows : Timed(r)
<1>1. Has(Fetch8 \o <<"idle", "idle">>, 3) /\ Has(Fetch8 \o <<"idle">>, 2)
    BY HasShort, HasPieces, HasJoin DEF Cycles
<1> QED BY <1>1, HasShort, OpcodeTimed DEF SpOffsetRows, Plain, Cycles

LEMMA CbTimed == \A r \in CbRows : Timed(r)
<1>1. Has(Fetch8 \o <<"read">>, 2) /\ Has(Fetch8 \o <<"read", "write">>, 3)
    BY HasShort, HasPieces, HasJoin DEF Cycles
<1> QED BY <1>1, HasPieces, OpcodeTimed DEF CbRows, Plain

LEMMA JumpsTimed == \A r \in RelativeRows \union JumpRows : Timed(r)
<1>1. Has(Fetch8 \o <<"idle">>, 2) /\ Has(Fetch16 \o <<"idle">>, 3)
    BY HasShort, HasPieces, HasJoin DEF Cycles
<1> QED BY <1>1, HasShort, HasPieces, OpcodeTimed DEF RelativeRows, JumpRows, Plain

LEMMA CallsTimed == \A r \in CallRows : Timed(r)
<1>1. Has(Fetch16 \o <<"idle">>, 3) /\ Has(<<"idle">> \o Push16, 3)
    BY HasShort, HasPieces, HasJoin DEF Cycles
<1>2. Has(Fetch16 \o <<"idle">> \o Push16, 5)
    BY <1>1, HasPieces, HasJoin
<1> QED BY <1>1, <1>2, HasPieces, OpcodeTimed DEF CallRows, Plain

LEMMA ReturnsTimed == \A r \in ReturnRows \union StackRows : Timed(r)
<1>1. Has(<<"idle", "idle">> \o Pop16, 4) /\ Has(<<"idle">> \o Pop16, 3)
      /\ Has(<<"idle">> \o Push16, 3)
    BY HasShort, HasPieces, HasJoin DEF Cycles
<1> QED BY <1>1, HasShort, HasPieces, OpcodeTimed DEF ReturnRows, StackRows, Plain, Cycles

LEMMA OthersTimed == \A r \in {EntryRow} \union PowerRows : Timed(r)
<1>1. Has(<<"idle", "idle">> \o Push16, 4)
    BY HasShort, HasPieces, HasJoin DEF Cycles
<1>2. Has(<<"idle", "idle">> \o Push16 \o <<"idle">>, 5)
    BY <1>1, HasShort, HasJoin DEF Cycles
<1>3. Timed(EntryRow)
    BY <1>2 DEF EntryRow, Timed, Row, Has
<1>4. Timed(Plain(<<"idle">>, 4))
    BY HasShort DEF Plain, Timed, Row, Has, Cycles
<1> QED BY <1>3, <1>4, HasShort, OpcodeTimed DEF PowerRows, Plain

LEMMA RowsTimed == \A r \in Rows : Timed(r)
BY LoadsTimed, WideLoadsTimed, HighLoadsTimed, AluTimed, SpOffsetsTimed, CbTimed, JumpsTimed,
   CallsTimed, ReturnsTimed, OthersTimed DEF Rows

-----------------------------------------------------------------------------
\* What has been ticked, with what is still to come, is what will be reported.
TimeInv ==
    /\ script \in Seq(Cycles) /\ time \in Int /\ drift \in Int
    /\ effect = "idle" => script = <<>> /\ drift = 0
    /\ effect # "idle" => drift + (4 * Len(script)) = time

LEMMA TimeInductive == TimeInv /\ [InstrNext]_instrVars => TimeInv'
<1> SUFFICES ASSUME TimeInv, [InstrNext]_instrVars PROVE TimeInv'
    OBVIOUS
<1>1. CASE BeginRow
    <2>1. PICK r \in Rows : script' = r.cycles /\ time' = r.time /\ effect' = r.effect
        BY <1>1 DEF BeginRow
    <2>2. Timed(r)
        BY RowsTimed
    <2>3. drift' = 0
        BY <1>1 DEF BeginRow, TimeInv
    <2> QED BY <2>1, <2>2, <2>3 DEF Timed, Has, TimeInv
<1>2. CASE BusCycle
    <2>1. script' = Tail(script) /\ drift' = drift + 4 /\ time' = time /\ effect' = effect
        BY <1>2 DEF BusCycle
    <2>2. Tail(script) \in Seq(Cycles) /\ Len(Tail(script)) = Len(script) - 1
        BY <1>2 DEF BusCycle, TimeInv
    <2>3. effect # "idle"
        BY <1>2 DEF BusCycle, TimeInv
    <2> QED BY <2>1, <2>2, <2>3 DEF TimeInv
<1>3. CASE RetireRow
    BY <1>3 DEF RetireRow, TimeInv
<1>4. CASE UNCHANGED instrVars
    BY <1>4 DEF instrVars, instruction, TimeInv
<1> QED BY <1>1, <1>2, <1>3, <1>4 DEF InstrNext

(* Between two steps the CPU has reported exactly the T-cycles it ticked the *)
(* hardware for (gb_cpu_step, gb_cpu_execute_opcode).                        *)
THEOREM ReportedIsTicked == InstrSpec => []TimeAgrees
<1>1. InstrInit => TimeInv
    BY HasShort DEF InstrInit, TimeInv, Has
<1>2. TimeInv => TimeAgrees
    BY DEF TimeInv, TimeAgrees
<1> QED BY <1>1, <1>2, TimeInductive, PTL DEF InstrSpec

-----------------------------------------------------------------------------
LEMMA Division ==
    ASSUME NEW x \in Nat, NEW y \in Nat \ {0}
    PROVE  /\ x \div y \in Nat /\ x % y \in 0 .. y - 1
           /\ x = (y * (x \div y)) + (x % y)
OBVIOUS

LEMMA ByOne == ASSUME NEW x \in Int PROVE x \div 1 = x
OBVIOUS

\* The types the equation needs; every speed is that of the base clock.
PaceInv ==
    /\ elapsed \in Nat /\ fractional_ns \in Nat /\ cycle_budget \in Int /\ owed \in Int
    /\ speed = 1
    /\ KeepsPace

LEMMA EarningKeepsPace ==
    ASSUME PaceInv, EarnBudget
    PROVE  PaceInv'
<1> DEFINE counted == Least(elapsed, MaxElapsed)
           scaled == counted + fractional_ns
           earned == cycle_budget + (scaled \div HostPerCycle)
<1>1. counted \in Nat /\ scaled \in Nat
    BY HostLoopAssumption DEF PaceInv, Least
<1>2. /\ scaled \div HostPerCycle \in Nat /\ scaled % HostPerCycle \in Nat
      /\ scaled = (HostPerCycle * (scaled \div HostPerCycle)) + (scaled % HostPerCycle)
    <2>1. \A len \in Nat :
              /\ len \div HostPerCycle \in Nat /\ len % HostPerCycle \in 0 .. HostPerCycle - 1
              /\ len = (HostPerCycle * (len \div HostPerCycle)) + (len % HostPerCycle)
        BY Division, HostLoopAssumption
    <2> HIDE DEF scaled
    <2>2. scaled % HostPerCycle \in 0 .. HostPerCycle - 1 => scaled % HostPerCycle \in Nat
        OBVIOUS
    <2> QED BY <1>1, <2>1, <2>2
<1>3. earned \in Int
    BY <1>2 DEF PaceInv
<1>4. /\ cycle_budget' = Least(earned, MaxBudget) /\ fractional_ns' = scaled % HostPerCycle
      /\ owed' = owed - (elapsed - counted) - (HostPerCycle * (earned - cycle_budget'))
      /\ elapsed' = 0 /\ speed' = speed
    BY DEF EarnBudget, session
<1>5. cycle_budget' \in Int
    BY <1>3, <1>4, HostLoopAssumption DEF Least
<1>6. /\ HostPerCycle * (earned - cycle_budget')
            = (HostPerCycle * cycle_budget) + (HostPerCycle * (scaled \div HostPerCycle))
              - (HostPerCycle * cycle_budget')
      /\ HostPerCycle * cycle_budget \in Int /\ HostPerCycle * cycle_budget' \in Int
      /\ HostPerCycle * (scaled \div HostPerCycle) \in Int
    BY <1>2, <1>5, HostLoopAssumption DEF PaceInv
<1> HIDE DEF counted, scaled, earned
<1>7. scaled = counted + fractional_ns
    BY DEF scaled
<1> QED BY <1>1, <1>2, <1>3, <1>4, <1>5, <1>6, <1>7, HostLoopAssumption DEF PaceInv, KeepsPace

LEMMA PlayingKeepsPace ==
    ASSUME PaceInv, StepGame
    PROVE  PaceInv'
<1>1. PICK consumed \in InstrTimes :
          /\ cycle_budget' = cycle_budget - consumed
          /\ owed' = owed - ((HostPerCycle * consumed) \div speed)
    BY DEF StepGame
<1>2. consumed \in Int /\ HostPerCycle \in Int
    BY HostLoopAssumption
<1>3. HostPerCycle * consumed \in Int
    BY <1>2
<1>4. (HostPerCycle * consumed) \div speed = HostPerCycle * consumed
    BY <1>3, ByOne DEF PaceInv
<1>5. HostPerCycle * (cycle_budget - consumed)
        = (HostPerCycle * cycle_budget) - (HostPerCycle * consumed)
    BY <1>2 DEF PaceInv
<1>6. elapsed' = elapsed /\ fractional_ns' = fractional_ns /\ speed' = speed
    BY DEF StepGame
<1> QED BY <1>1, <1>2, <1>3, <1>4, <1>5, <1>6 DEF PaceInv, KeepsPace

LEMMA ForgivingKeepsPace ==
    ASSUME Restarted, speed' = 1
    PROVE  PaceInv'
BY HostLoopAssumption DEF Restarted, PaceInv, KeepsPace

LEMMA PaceInductive ==
    ASSUME Speeds = {1}, PaceInv, [HostNext]_hostVars
    PROVE  PaceInv'
<1>1. CASE ClockRuns
    <2>1. HostPerCycle * cycle_budget \in Int
        BY HostLoopAssumption DEF PaceInv
    <2> QED BY <1>1, <2>1 DEF ClockRuns, session, PaceInv, KeepsPace
<1>2. CASE EarnBudget
    BY <1>2, EarningKeepsPace
<1>3. CASE StepGame
    BY <1>3, PlayingKeepsPace
<1>4. HandleEvents => speed' = 1
    BY DEF HandleEvents, NoEvent, OpenMenu, CloseMenu, DropGame, DropBadFile, WakeGame, PaceInv
<1>5. UNCHANGED pacing /\ speed' = 1 => PaceInv'
    BY DEF pacing, PaceInv, KeepsPace
<1>6. CASE ServeEvents
    BY <1>4, <1>5, <1>6, ForgivingKeepsPace DEF ServeEvents
<1>7. CASE ResetTiming \/ Launch
    BY <1>7, ForgivingKeepsPace DEF ResetTiming, Launch, PaceInv
<1>8. CASE \/ BeginBatch \/ BudgetSpent \/ StepStoppedGame \/ StepWithoutGame \/ StepFails
           \/ EndBatch \/ Quit \/ UNCHANGED hostVars
    BY <1>5, <1>8 DEF BeginBatch, BudgetSpent, StepStoppedGame, StepWithoutGame, StepFails,
       EndBatch, Quit, hostVars, session, PaceInv
<1>9. CASE ServeEventsInBatch
    BY <1>4, <1>5, <1>9 DEF ServeEventsInBatch
<1> QED BY <1>1, <1>2, <1>3, <1>6, <1>7, <1>8, <1>9 DEF HostNext, Loop

(* Games that run at the base clock keep the host's pace, for every length   *)
(* of a cycle, cap, batch and instruction, and however events come between   *)
(* the batches (gb_sdl3_run).                                                *)
THEOREM PaceKept ==
    ASSUME Speeds = {1}
    PROVE  HostSpec => []KeepsPace
<1>1. HostInit => PaceInv
    BY HostLoopAssumption DEF HostInit, PaceInv, KeepsPace
<1>2. PaceInv /\ [HostNext]_hostVars => PaceInv'
    BY PaceInductive
<1>3. PaceInv => KeepsPace
    BY DEF PaceInv
<1> QED BY <1>1, <1>2, <1>3, PTL DEF HostSpec

-----------------------------------------------------------------------------
(* What is left of a catch-up behind the menu: nothing is earned there, so   *)
(* what was played and what may still be played fit in one budget, and a     *)
(* batch never outlasts the budget it was cut from.                          *)
PauseInv ==
    /\ elapsed \in Nat /\ fractional_ns \in Nat
    /\ cycle_budget \in Int /\ batch_remaining \in Int /\ playedInMenu \in Nat
    /\ cycle_budget <= MaxBudget
    /\ ~inMenu => playedInMenu = 0
    /\ stage = "pace" => ~inMenu
    /\ stage = "batch" => batch_remaining <= cycle_budget
    /\ inMenu /\ stage \in {"run", "batch", "batchEvents"}
          => playedInMenu + cycle_budget <= MaxBudget
    /\ PauseTakesHold

\* Some instruction is the longest.
HasLongest == \E t \in InstrTimes : \A u \in InstrTimes : u <= t

LEMMA LongestBounds ==
    ASSUME HasLongest
    PROVE  LongestInstr \in Nat \ {0} /\ \A t \in InstrTimes : t \in Nat /\ t <= LongestInstr
BY HostLoopAssumption DEF HasLongest, LongestInstr

\* What an event does to the menu and to what was played behind it.
LEMMA EventsInMenu ==
    ASSUME HandleEvents, PauseInv
    PROVE  \/ UNCHANGED <<inMenu, playedInMenu>>
           \/ playedInMenu' = 0
BY DEF HandleEvents, NoEvent, OpenMenu, CloseMenu, DropGame, DropBadFile, WakeGame

LEMMA PauseInductive ==
    ASSUME HasLongest, PauseInv, [HostNext]_hostVars
    PROVE  PauseInv'
<1> USE HostLoopAssumption, LongestBounds DEF PauseInv, PauseTakesHold
<1>1. CASE ClockRuns
    BY <1>1 DEF ClockRuns, session
<1>2. CASE EarnBudget
    <2> DEFINE scaled == Least(elapsed, MaxElapsed) + fractional_ns
    <2>1. scaled \in Nat
        BY DEF Least
    <2>2. scaled \div HostPerCycle \in Int /\ scaled % HostPerCycle \in Nat
        <3> HIDE DEF scaled
        <3> QED BY <2>1, Division
    <2>3. /\ cycle_budget' = Least(cycle_budget + (scaled \div HostPerCycle), MaxBudget)
          /\ fractional_ns' = scaled % HostPerCycle
        BY <1>2 DEF EarnBudget
    <2>4. cycle_budget' \in Int /\ cycle_budget' <= MaxBudget
        BY <2>2, <2>3 DEF Least
    <2> HIDE DEF scaled
    <2> QED BY <1>2, <2>2, <2>3, <2>4 DEF EarnBudget, session
<1>3. CASE StepGame
    <2>1. PICK consumed \in InstrTimes :
              /\ cycle_budget' = cycle_budget - consumed
              /\ batch_remaining' = batch_remaining - consumed
              /\ playedInMenu' = IF inMenu THEN playedInMenu + consumed ELSE 0
        BY <1>3 DEF StepGame
    <2>2. /\ stage = "batch" /\ batch_remaining >= 1
          /\ UNCHANGED <<stage, elapsed, fractional_ns, inMenu>>
        BY <1>3 DEF StepGame
    <2>3. consumed \in Nat /\ consumed <= LongestInstr
        OBVIOUS
    <2> QED BY <2>1, <2>2, <2>3
<1>4. CASE ServeEvents
    <2>1. UNCHANGED <<inMenu, playedInMenu>> \/ playedInMenu' = 0
        BY <1>4, EventsInMenu DEF ServeEvents
    <2>2. /\ cycle_budget' \in {0, cycle_budget} /\ batch_remaining' = batch_remaining
          /\ elapsed' \in {0, elapsed} /\ fractional_ns' \in {0, fractional_ns}
        BY <1>4 DEF ServeEvents, Restarted, pacing
    <2>3. stage' = "events" \/ (stage' = "pace" /\ ~inMenu')
        BY <1>4 DEF ServeEvents
    <2>4. ~inMenu' => playedInMenu' = 0
        BY <1>4, <2>1 DEF ServeEvents, HandleEvents, NoEvent, OpenMenu, CloseMenu, DropGame,
              DropBadFile, WakeGame
    <2> QED BY <2>1, <2>2, <2>3, <2>4
<1>5. CASE ServeEventsInBatch
    <2>1. UNCHANGED <<inMenu, playedInMenu>> \/ playedInMenu' = 0
        BY <1>5, EventsInMenu DEF ServeEventsInBatch
    <2>2. UNCHANGED <<pacing, batch_remaining>> /\ stage' \in {"events", "run"}
        BY <1>5 DEF ServeEventsInBatch
    <2>3. ~inMenu' => playedInMenu' = 0
        BY <1>5, <2>1 DEF ServeEventsInBatch, HandleEvents, NoEvent, OpenMenu, CloseMenu,
              DropGame, DropBadFile, WakeGame
    <2>4. stage = "batchEvents"
        BY <1>5 DEF ServeEventsInBatch
    <2> QED BY <2>1, <2>2, <2>3, <2>4 DEF pacing
<1>6. CASE ResetTiming
    BY <1>6 DEF ResetTiming, Restarted
<1>7. CASE Launch
    BY <1>7 DEF Launch, Restarted
<1>8. CASE BeginBatch
    BY <1>8 DEF BeginBatch, pacing, session, Least
<1>9. CASE \/ BudgetSpent \/ StepStoppedGame \/ StepWithoutGame \/ StepFails
           \/ EndBatch \/ Quit \/ UNCHANGED hostVars
    BY <1>9 DEF BudgetSpent, StepStoppedGame, StepWithoutGame, StepFails, EndBatch, Quit,
          hostVars, pacing, session
<1> QED BY <1>1, <1>2, <1>3, <1>4, <1>5, <1>6, <1>7, <1>8, <1>9 DEF HostNext, Loop

(* Behind the menu less than a budget and an instruction is played, for      *)
(* every cap, batch size and set of instruction times with a longest, though *)
(* the catch-up loop of gb_sdl3_run does not look at the menu.               *)
THEOREM PauseHolds ==
    ASSUME HasLongest
    PROVE  HostSpec => []PauseTakesHold
<1>1. HostInit => PauseInv
    BY HostLoopAssumption, LongestBounds DEF HostInit, PauseInv, PauseTakesHold
<1>2. PauseInv /\ [HostNext]_hostVars => PauseInv'
    BY PauseInductive
<1>3. PauseInv => PauseTakesHold
    BY DEF PauseInv
<1> QED BY <1>1, <1>2, <1>3, PTL DEF HostSpec

-----------------------------------------------------------------------------
(* The budget and the batch are overdrawn by less than an instruction: a     *)
(* step is taken only while cycles are left of a batch, and a batch is cut   *)
(* from the budget.                                                          *)
BudgetInv ==
    /\ HostLoopTypeOK
    /\ stage = "batch" => batch_remaining <= cycle_budget

\* No event moves the clock or the budget.
LEMMA EventTypes ==
    ASSUME HandleEvents, HostLoopTypeOK
    PROVE  /\ inMenu' \in BOOLEAN /\ hasGame' \in BOOLEAN /\ cpuStopped' \in BOOLEAN
           /\ speed' \in Speeds /\ timing_reset_requested' \in BOOLEAN
<1>1. KeepTiming => timing_reset_requested' \in BOOLEAN
    BY Zenon DEF KeepTiming, HostLoopTypeOK
<1>2. /\ inMenu \in BOOLEAN /\ hasGame \in BOOLEAN /\ cpuStopped \in BOOLEAN
      /\ speed \in Speeds /\ timing_reset_requested \in BOOLEAN
    BY DEF HostLoopTypeOK
<1> QED BY <1>1, <1>2, Zenon
        DEF HandleEvents, NoEvent, OpenMenu, CloseMenu, DropGame, DropBadFile, WakeGame

LEMMA BudgetInductive ==
    ASSUME HasLongest, BudgetInv, [HostNext]_hostVars
    PROVE  BudgetInv'
<1> USE HostLoopAssumption, LongestBounds
<1>0. HostLoopTypeOK /\ (stage = "batch" => batch_remaining <= cycle_budget)
    BY DEF BudgetInv
<1> USE <1>0 DEF BudgetInv, HostLoopTypeOK
<1>a. 0 \in (1 - LongestInstr) .. MaxBudget /\ 0 \in (1 - LongestInstr) .. MaxBatch
      /\ 0 \in 0 .. HostPerCycle - 1
    OBVIOUS
<1>1. CASE ClockRuns
    BY <1>1 DEF ClockRuns, session
<1>2. CASE EarnBudget
    <2> DEFINE scaled == Least(elapsed, MaxElapsed) + fractional_ns
               earned == scaled \div HostPerCycle
               rest == scaled % HostPerCycle
    <2>1. scaled \in Nat
        BY DEF Least
    <2>2. earned \in Nat /\ rest \in 0 .. HostPerCycle - 1
        <3> HIDE DEF scaled
        <3> QED BY <2>1, Division
    <2>3. cycle_budget' = Least(cycle_budget + earned, MaxBudget) /\ fractional_ns' = rest
        BY <1>2 DEF EarnBudget
    <2> HIDE DEF earned, rest
    <2>4. cycle_budget' \in (1 - LongestInstr) .. MaxBudget
        BY <2>2, <2>3 DEF Least
    <2>5. /\ stage' = "run" /\ elapsed' = 0 /\ loopStopped' \in BOOLEAN
          /\ batch_remaining' = batch_remaining /\ UNCHANGED session
        BY <1>2 DEF EarnBudget
    <2> QED BY <2>2, <2>3, <2>4, <2>5 DEF session
<1>3. CASE StepGame
    <2>1. PICK consumed \in InstrTimes :
              /\ cycle_budget' = cycle_budget - consumed
              /\ batch_remaining' = batch_remaining - consumed
        BY <1>3 DEF StepGame
    <2>2. /\ stage = "batch" /\ batch_remaining >= 1 /\ cpuStopped' \in BOOLEAN
          /\ UNCHANGED <<stage, elapsed, fractional_ns, loopStopped, inMenu, hasGame, speed,
                         timing_reset_requested>>
        BY <1>3 DEF StepGame
    <2>3. consumed \in Nat /\ 1 <= consumed /\ consumed <= LongestInstr
        OBVIOUS
    <2> QED BY <2>1, <2>2, <2>3
<1>4. CASE ServeEvents
    <2>1. /\ cycle_budget' \in {0, cycle_budget} /\ batch_remaining' = batch_remaining
          /\ elapsed' \in {0, elapsed} /\ fractional_ns' \in {0, fractional_ns}
          /\ loopStopped' = loopStopped /\ stage' \in {"events", "pace"} /\ HandleEvents
        BY <1>4 DEF ServeEvents, Restarted, pacing
    <2> QED BY <1>a, <2>1, EventTypes
<1>5. CASE ServeEventsInBatch
    <2>1. /\ stage' \in {"events", "run"} /\ HandleEvents
          /\ UNCHANGED <<elapsed, fractional_ns, cycle_budget, batch_remaining, loopStopped>>
        BY <1>5 DEF ServeEventsInBatch, pacing
    <2> QED BY <2>1, EventTypes
<1>6. CASE ResetTiming
    <2>1. /\ elapsed' = 0 /\ fractional_ns' = 0 /\ cycle_budget' = 0 /\ stage' = stage
          /\ stage = "pace" /\ timing_reset_requested' \in BOOLEAN
          /\ UNCHANGED <<batch_remaining, loopStopped, inMenu, hasGame, cpuStopped, speed>>
        BY <1>6 DEF ResetTiming, Restarted
    <2> QED BY <1>a, <2>1
<1>7. CASE Launch
    <2>1. /\ elapsed' = 0 /\ fractional_ns' = 0 /\ cycle_budget' = 0 /\ batch_remaining' = 0
          /\ stage' = "events" /\ speed' \in Speeds /\ hasGame' \in BOOLEAN
          /\ loopStopped' \in BOOLEAN /\ timing_reset_requested' \in BOOLEAN
          /\ inMenu' \in BOOLEAN /\ cpuStopped' \in BOOLEAN
        BY <1>7 DEF Launch, Restarted
    <2> QED BY <1>a, <2>1
<1>8. CASE BeginBatch
    BY <1>8 DEF BeginBatch, pacing, session, Least
<1>9. CASE \/ BudgetSpent \/ StepStoppedGame \/ StepWithoutGame \/ StepFails
           \/ EndBatch \/ Quit \/ UNCHANGED hostVars
    BY <1>9, ZenonT(40) DEF BudgetSpent, StepStoppedGame, StepWithoutGame, StepFails, EndBatch, Quit,
          hostVars, pacing, session
<1> QED BY <1>1, <1>2, <1>3, <1>4, <1>5, <1>6, <1>7, <1>8, <1>9 DEF HostNext, Loop

(* The budgets keep their bounds, for every cap and batch size.              *)
THEOREM HostLoopTypeCorrect ==
    ASSUME HasLongest
    PROVE  HostSpec => []HostLoopTypeOK
<1>1. HostInit => BudgetInv
    <2> SUFFICES ASSUME HostInit PROVE BudgetInv
        OBVIOUS
    <2>1. /\ elapsed = 0 /\ fractional_ns = 0 /\ cycle_budget = 0 /\ batch_remaining = 0
          /\ stage = "events" /\ speed \in Speeds /\ hasGame \in BOOLEAN
          /\ loopStopped \in BOOLEAN /\ timing_reset_requested \in BOOLEAN
          /\ inMenu \in BOOLEAN /\ cpuStopped \in BOOLEAN
        BY DEF HostInit
    <2>2. /\ 0 \in (1 - LongestInstr) .. MaxBudget /\ 0 \in (1 - LongestInstr) .. MaxBatch
          /\ 0 \in 0 .. HostPerCycle - 1 /\ 0 \in 0 .. MaxLag
        BY HostLoopAssumption, LongestBounds
    <2> QED BY <2>1, <2>2 DEF BudgetInv, HostLoopTypeOK
<1>2. BudgetInv /\ [HostNext]_hostVars => BudgetInv'
    BY BudgetInductive
<1>3. BudgetInv => HostLoopTypeOK
    BY DEF BudgetInv
<1> QED BY <1>1, <1>2, <1>3, PTL DEF HostSpec

-----------------------------------------------------------------------------
(* Progress of the main loop: what EventsServed promises, without fairness.  *)
Serving == {"events", "batchEvents", "returned"}

\* The most steps of its own the loop takes before it serves events again.
ToEvents ==
    CASE stage = "pace" -> MaxBatch + (IF timing_reset_requested THEN 5 ELSE 4)
      [] stage = "run" -> MaxBatch + 3
      [] stage = "batch" -> (IF batch_remaining > 0 THEN batch_remaining ELSE 0) + 2
      [] OTHER -> 0

\* A step of the loop, or its end, comes nearer to the events; the clock does not.
NearsEvents == ToEvents' < ToEvents \/ (ClockRuns /\ ToEvents' = ToEvents)

LEMMA StepNearsEvents ==
    ASSUME HostLoopTypeOK, HostLoopTypeOK', HostNext, stage \notin Serving
    PROVE  NearsEvents
<1>1. /\ MaxBatch \in Nat \ {0} /\ batch_remaining \in Int /\ batch_remaining' \in Int
      /\ stage \in {"pace", "run", "batch"}
    BY HostLoopAssumption, SMTT(20) DEF HostLoopTypeOK, Serving
<1> USE <1>1 DEF NearsEvents, ToEvents
<1>2. CASE ClockRuns
    <2>1. UNCHANGED <<stage, batch_remaining, timing_reset_requested>>
        BY <1>2 DEF ClockRuns, session
    <2> QED BY <1>2, <2>1
<1>3. CASE ResetTiming
    BY <1>3 DEF ResetTiming
<1>4. CASE EarnBudget
    BY <1>4 DEF EarnBudget
<1>5. CASE BeginBatch
    <2>1. cycle_budget \in Int
        BY DEF HostLoopTypeOK
    <2> QED BY <1>5, <2>1 DEF BeginBatch, Least
<1>6. CASE StepGame
    <2>1. PICK consumed \in InstrTimes : batch_remaining' = batch_remaining - consumed
        BY <1>6 DEF StepGame
    <2>2. consumed \in Nat /\ consumed >= 1
        BY HostLoopAssumption
    <2>3. stage = "batch" /\ stage' = "batch" /\ batch_remaining >= 1
        BY <1>6 DEF StepGame
    <2> HIDE DEF NearsEvents
    <2>4. ToEvents = batch_remaining + 2 /\ ToEvents' < batch_remaining + 2
        BY <2>1, <2>2, <2>3
    <2> QED BY <2>4 DEF NearsEvents
<1>7. CASE StepStoppedGame \/ StepWithoutGame \/ StepFails \/ EndBatch \/ BudgetSpent
    <2>1. stage' \in Serving
        BY <1>7 DEF StepStoppedGame, StepWithoutGame, StepFails, EndBatch, BudgetSpent, Serving
    <2> QED BY <2>1 DEF Serving
<1>8. ~(ServeEvents \/ ServeEventsInBatch \/ Quit \/ Launch)
    BY DEF ServeEvents, ServeEventsInBatch, Quit, Launch, Serving
<1> QED BY <1>2, <1>3, <1>4, <1>5, <1>6, <1>7, <1>8 DEF HostNext, Loop

(* The loop is never more than MaxBatch + 5 steps of its own away from the   *)
(* event queue, and each of them brings it nearer, whatever the game does    *)
(* and however far the host is behind (gb_sdl3_run). So EventsServed needs   *)
(* no more of the scheduler than that the loop goes on.                      *)
THEOREM EventsAreNear ==
    ASSUME HasLongest
    PROVE  HostSpec => /\ [](ToEvents \in 0 .. MaxBatch + 5)
                       /\ [][stage \notin Serving => NearsEvents]_hostVars
<1>1. HostLoopTypeOK => ToEvents \in 0 .. MaxBatch + 5
    <2> SUFFICES ASSUME HostLoopTypeOK PROVE ToEvents \in 0 .. MaxBatch + 5
        OBVIOUS
    <2>1. MaxBatch \in Nat /\ batch_remaining \in Int /\ batch_remaining <= MaxBatch
        BY HostLoopAssumption DEF HostLoopTypeOK
    <2>2. MaxBatch + 5 \in Nat /\ MaxBatch + 4 \in 0 .. MaxBatch + 5
        BY <2>1
    <2> QED BY <2>1, <2>2 DEF ToEvents
<1>2. HostLoopTypeOK /\ HostLoopTypeOK' /\ [HostNext]_hostVars
        => [stage \notin Serving => NearsEvents]_hostVars
    BY StepNearsEvents
<1> QED BY <1>1, <1>2, HostLoopTypeCorrect, PTL DEF HostSpec

-----------------------------------------------------------------------------
\* The byte j places above the byte b of the ring that SP walks over.
At(b, j) == IF b + j < StackSize THEN b + j ELSE b + j - StackSize

Slots == 0 .. StackSize - 1
Half == StackSize \div 2

LEMMA StackHalves ==
    /\ StackSize \in Nat /\ StackSize > 1 /\ Half \in Nat \ {0} /\ StackSize = 2 * Half
BY InstructionsAssumption DEF Half

\* Moving SP is moving in the ring.
LEMMA RingSteps ==
    ASSUME NEW b \in Slots
    PROVE  /\ Up(b) = At(b, 1) /\ Down(b) = At(b, StackSize - 1)
           /\ Up(b) \in Slots /\ Down(b) \in Slots
<1>0. StackSize \in Nat \ {0} /\ StackSize > 1 /\ b \in Nat /\ b < StackSize
    BY StackHalves DEF Slots
<1>1. (b + 1) % StackSize = IF b + 1 = StackSize THEN 0 ELSE b + 1
    BY <1>0
<1>2. (b - 1) % StackSize = IF b = 0 THEN StackSize - 1 ELSE b - 1
    <2>1. CASE b = 0
        <3>1. (0 - 1) % StackSize = StackSize - 1
            BY <1>0
        <3> QED BY <2>1, <3>1
    <2>2. CASE b # 0
        BY <1>0, <2>2
    <2> QED BY <2>1, <2>2
<1> QED BY <1>0, <1>1, <1>2 DEF Up, Down, At, Slots

\* Places in the ring add up, and differ below its size.
LEMMA RingPlaces ==
    ASSUME NEW b \in Slots, NEW i \in Nat, NEW j \in Nat
    PROVE  /\ i < StackSize => At(b, i) \in Slots
           /\ i < StackSize /\ j < StackSize /\ i + j < StackSize => At(At(b, i), j) = At(b, i + j)
           /\ i < StackSize /\ j < StackSize /\ i + j >= StackSize =>
                 At(At(b, i), j) = At(b, i + j - StackSize)
           /\ i < StackSize /\ j < StackSize /\ i # j => At(b, i) # At(b, j)
           /\ At(b, 0) = b
BY StackHalves DEF At, Slots

-----------------------------------------------------------------------------
\* The words fr stand on the stack from the byte b on, low half first.
Stands(fr, b, memory) ==
    \A i \in 1 .. Len(fr) :
        /\ memory[At(b, 2 * (i - 1))] = <<"low", fr[i]>>
        /\ memory[At(b, 2 * (i - 1) + 1)] = <<"high", fr[i]>>

\* The same but for a word that reaches around to b again.
StandsBelow(fr, b, memory) ==
    \A i \in 1 .. Len(fr) :
        i < Half => /\ memory[At(b, 2 * (i - 1))] = <<"low", fr[i]>>
                    /\ memory[At(b, 2 * (i - 1) + 1)] = <<"high", fr[i]>>

Neutral == {"fetch", "read", "write", "idle"}
Ends == {"return", "pop"}

\* Where an instruction may stand with respect to the stack: it does not use
\* it any more, has yet to push or to pop, is half through, or has popped.
NoStack(cs) == cs \in Seq(Cycles) /\ \A i \in 1 .. Len(cs) : cs[i] \in Neutral
ToPush(cs) ==
    /\ cs \in Seq(Cycles)
    /\ \E k \in 1 .. Len(cs) - 1 :
          /\ cs[k] = "pushHigh" /\ cs[k + 1] = "pushLow"
          /\ \A i \in 1 .. Len(cs) : i \in {k, k + 1} \/ cs[i] \in Neutral
HalfPushed(cs) ==
    /\ cs \in Seq(Cycles) /\ Len(cs) >= 1 /\ cs[1] = "pushLow"
    /\ \A i \in 2 .. Len(cs) : cs[i] \in Neutral
ToPop(cs) ==
    /\ cs \in Seq(Cycles) /\ Len(cs) >= 2
    /\ cs[Len(cs) - 1] = "popLow" /\ cs[Len(cs)] = "popHigh"
    /\ \A i \in 1 .. Len(cs) - 2 : cs[i] \in Neutral

Unused == effect \notin Ends /\ NoStack(script) /\ word = <<>> /\ Stands(frames, sp, cell)
PushAhead == effect \notin Ends /\ ToPush(script) /\ word = <<>> /\ Stands(frames, sp, cell)
PushHalfway ==
    /\ effect \notin Ends /\ HalfPushed(script)
    /\ \E w \in Words : /\ word = <<w>> /\ cell[sp] = <<"high", w>>
                        /\ StandsBelow(frames, Up(sp), cell)
PopAhead == effect \in Ends /\ ToPop(script) /\ word = <<>> /\ Stands(frames, sp, cell)
PopHalfway ==
    /\ effect \in Ends
    /\ script \in Seq(Cycles) /\ Len(script) = 1 /\ script[1] = "popHigh"
    /\ \E b \in Slots, x \in Bytes :
          /\ sp = Up(b) /\ word = <<x>> /\ Stands(frames, b, cell)
          /\ frames # <<>> => x = <<"low", frames[1]>>
Popped ==
    /\ effect \in Ends /\ script = <<>>
    /\ \E b \in Slots, x, y \in Bytes :
          /\ sp = Up(Up(b)) /\ word = <<x, y>> /\ Stands(frames, b, cell)
          /\ frames # <<>> => x = <<"low", frames[1]>> /\ y = <<"high", frames[1]>>

Standing == Unused \/ PushAhead \/ PushHalfway \/ PopAhead \/ PopHalfway \/ Popped

StackInv ==
    /\ at \in Words /\ sp \in Slots /\ cell \in [Slots -> Bytes]
    /\ frames \in Seq(Words) /\ Len(frames) <= Half
    /\ effect = "idle" => script = <<>>
    /\ effect \in {"idle", "none", "jump", "call", "setSp", "operand"} \union Ends
    /\ Standing

-----------------------------------------------------------------------------
\* Neutral cycles before a script do not change what it is.
LEMMA Before ==
    ASSUME NEW p, NoStack(p), NEW cs \in Seq(Cycles)
    PROVE  /\ NoStack(cs) => NoStack(p \o cs)
           /\ ToPush(cs) => ToPush(p \o cs)
           /\ ToPop(cs) => ToPop(p \o cs)
           /\ p \o cs \in Seq(Cycles)
<1> DEFINE ds == p \o cs
           m == Len(p)
<1>1. /\ ds \in Seq(Cycles) /\ Len(ds) = m + Len(cs) /\ Len(cs) \in Nat /\ m \in Nat
      /\ \A i \in 1 .. m : ds[i] = p[i] /\ p[i] \in Neutral
      /\ \A i \in 1 .. Len(cs) : ds[m + i] = cs[i]
    BY DEF NoStack
<1> HIDE DEF ds, m
<1>3. \A i \in 1 .. Len(ds) : i \in 1 .. m \/ (i - m \in 1 .. Len(cs) /\ ds[i] = cs[i - m])
    <2> TAKE i \in 1 .. Len(ds)
    <2>1. i \notin 1 .. m => i - m \in 1 .. Len(cs) /\ m + (i - m) = i
        BY <1>1
    <2> QED BY <1>1, <2>1
<1>2. ASSUME NoStack(cs) PROVE NoStack(ds)
    <2>1. \A i \in 1 .. Len(ds) : ds[i] \in Neutral
        BY <1>1, <1>2, <1>3 DEF NoStack
    <2> QED BY <1>1, <2>1 DEF NoStack
<1>4. ASSUME ToPush(cs) PROVE ToPush(ds)
    <2>1. PICK k \in 1 .. Len(cs) - 1 :
              /\ cs[k] = "pushHigh" /\ cs[k + 1] = "pushLow"
              /\ \A i \in 1 .. Len(cs) : i \in {k, k + 1} \/ cs[i] \in Neutral
        BY <1>4 DEF ToPush
    <2>2. /\ m + k \in 1 .. Len(ds) - 1 /\ ds[m + k] = "pushHigh" /\ ds[(m + k) + 1] = "pushLow"
        BY <1>1, <2>1
    <2>3. ASSUME NEW i \in 1 .. Len(ds) PROVE i \in {m + k, (m + k) + 1} \/ ds[i] \in Neutral
        <3>1. CASE i \in 1 .. m
            BY <1>1, <3>1
        <3>2. CASE i \notin 1 .. m
            <4>1. i - m \in 1 .. Len(cs) /\ ds[i] = cs[i - m]
                BY <1>3, <3>2
            <4>2. i - m \in {k, k + 1} \/ cs[i - m] \in Neutral
                BY <2>1, <4>1
            <4> QED BY <1>1, <2>1, <4>1, <4>2
        <3> QED BY <3>1, <3>2
    <2> QED BY <1>1, <2>2, <2>3 DEF ToPush
<1>5. ASSUME ToPop(cs) PROVE ToPop(ds)
    <2>1. /\ Len(ds) >= 2 /\ ds[Len(ds) - 1] = "popLow" /\ ds[Len(ds)] = "popHigh"
        BY <1>1, <1>3, <1>5 DEF ToPop
    <2>2. ASSUME NEW i \in 1 .. Len(ds) - 2 PROVE ds[i] \in Neutral
        <3>1. CASE i \in 1 .. m
            BY <1>1, <3>1
        <3>2. CASE i \notin 1 .. m
            <4>1. i \in 1 .. Len(ds)
                BY <1>1
            <4>2. i - m \in 1 .. Len(cs) - 2 /\ ds[i] = cs[i - m]
                BY <1>1, <1>3, <3>2, <4>1
            <4> QED BY <1>5, <4>2 DEF ToPop
        <3> QED BY <3>1, <3>2
    <2> QED BY <1>1, <2>1, <2>2 DEF ToPop
<1> QED BY <1>1, <1>2, <1>4, <1>5 DEF ds

\* What the first cycle of each kind of script is, and what it leaves.
LEMMA NoStackHead ==
    ASSUME NEW cs, NoStack(cs), cs # <<>>
    PROVE  Head(cs) \in Neutral /\ NoStack(Tail(cs))
<1>1. /\ cs \in Seq(Cycles) /\ Head(cs) = cs[1] /\ Tail(cs) \in Seq(Cycles)
      /\ Len(Tail(cs)) = Len(cs) - 1 /\ Len(cs) \in Nat /\ Len(cs) >= 1
      /\ \A i \in 1 .. Len(cs) - 1 : Tail(cs)[i] = cs[i + 1]
    BY DEF NoStack
<1>2. Head(cs) \in Neutral /\ \A i \in 1 .. Len(Tail(cs)) : Tail(cs)[i] \in Neutral
    BY <1>1 DEF NoStack
<1> QED BY <1>1, <1>2 DEF NoStack

LEMMA ToPushHead ==
    ASSUME NEW cs, ToPush(cs)
    PROVE  \/ Head(cs) \in Neutral /\ ToPush(Tail(cs))
           \/ Head(cs) = "pushHigh" /\ HalfPushed(Tail(cs))
<1>1. PICK k \in 1 .. Len(cs) - 1 :
          /\ cs[k] = "pushHigh" /\ cs[k + 1] = "pushLow"
          /\ \A i \in 1 .. Len(cs) : i \in {k, k + 1} \/ cs[i] \in Neutral
    BY DEF ToPush
<1>2. /\ cs \in Seq(Cycles) /\ Len(cs) >= 2 /\ Head(cs) = cs[1] /\ Tail(cs) \in Seq(Cycles)
      /\ Len(Tail(cs)) = Len(cs) - 1 /\ Len(cs) \in Nat
      /\ \A i \in 1 .. Len(cs) - 1 : Tail(cs)[i] = cs[i + 1]
    BY DEF ToPush
<1>3. CASE k = 1
    <2>1. Head(cs) = "pushHigh" /\ Tail(cs)[1] = "pushLow" /\ Len(Tail(cs)) >= 1
        BY <1>1, <1>2, <1>3
    <2>2. \A i \in 2 .. Len(Tail(cs)) : Tail(cs)[i] \in Neutral
        BY <1>1, <1>2, <1>3
    <2> QED BY <1>2, <2>1, <2>2 DEF HalfPushed
<1>4. CASE k # 1
    <2>1. k - 1 \in 1 .. Len(Tail(cs)) - 1 /\ Head(cs) \in Neutral
        BY <1>1, <1>2, <1>4
    <2>2. Tail(cs)[k - 1] = "pushHigh" /\ Tail(cs)[(k - 1) + 1] = "pushLow"
        BY <1>1, <1>2, <1>4
    <2>3. \A i \in 1 .. Len(Tail(cs)) : i \in {k - 1, (k - 1) + 1} \/ Tail(cs)[i] \in Neutral
        BY <1>1, <1>2, <1>4
    <2> QED BY <1>2, <2>1, <2>2, <2>3 DEF ToPush
<1> QED BY <1>3, <1>4

LEMMA HalfPushedHead ==
    ASSUME NEW cs, HalfPushed(cs)
    PROVE  Head(cs) = "pushLow" /\ NoStack(Tail(cs))
<1>1. /\ cs \in Seq(Cycles) /\ Head(cs) = cs[1] /\ Tail(cs) \in Seq(Cycles)
      /\ Len(Tail(cs)) = Len(cs) - 1 /\ Len(cs) \in Nat /\ Len(cs) >= 1
      /\ \A i \in 1 .. Len(cs) - 1 : Tail(cs)[i] = cs[i + 1]
    BY DEF HalfPushed
<1>2. \A i \in 1 .. Len(Tail(cs)) : Tail(cs)[i] \in Neutral
    BY <1>1 DEF HalfPushed
<1> QED BY <1>1, <1>2 DEF HalfPushed, NoStack

LEMMA ToPopHead ==
    ASSUME NEW cs, ToPop(cs)
    PROVE  \/ Head(cs) \in Neutral /\ ToPop(Tail(cs))
           \/ /\ Head(cs) = "popLow" /\ Tail(cs) \in Seq(Cycles)
              /\ Len(Tail(cs)) = 1 /\ Tail(cs)[1] = "popHigh"
<1>1. /\ cs \in Seq(Cycles) /\ Head(cs) = cs[1] /\ Tail(cs) \in Seq(Cycles)
      /\ Len(Tail(cs)) = Len(cs) - 1 /\ Len(cs) \in Nat /\ Len(cs) >= 2
      /\ \A i \in 1 .. Len(cs) - 1 : Tail(cs)[i] = cs[i + 1]
    BY DEF ToPop
<1>2. CASE Len(cs) = 2
    <2>1. Len(Tail(cs)) = 1 /\ Tail(cs)[1] = "popHigh" /\ Head(cs) = "popLow"
        BY <1>1, <1>2, SMTT(30) DEF ToPop
    <2> QED BY <1>1, <2>1
<1>3. CASE Len(cs) # 2
    <2>1. Head(cs) \in Neutral /\ Len(Tail(cs)) >= 2
        BY <1>1, <1>3 DEF ToPop
    <2>2. Tail(cs)[Len(Tail(cs)) - 1] = "popLow" /\ Tail(cs)[Len(Tail(cs))] = "popHigh"
        BY <1>1, <1>3 DEF ToPop
    <2>3. \A i \in 1 .. Len(Tail(cs)) - 2 : Tail(cs)[i] \in Neutral
        BY <1>1, <1>3 DEF ToPop
    <2> QED BY <1>1, <2>1, <2>2, <2>3 DEF ToPop
<1> QED BY <1>2, <1>3

-----------------------------------------------------------------------------
\* How the cycles of a row use the stack goes with what it does in the end.
Fits(cs, end) ==
    IF end \in Ends THEN ToPop(cs) ELSE NoStack(cs) \/ ToPush(cs)

LEMMA StackPieces ==
    /\ NoStack(<<>>) /\ NoStack(Fetch8) /\ NoStack(Fetch16)
    /\ \A x \in Neutral : NoStack(<<x>>)
    /\ \A x, y \in Neutral : NoStack(<<x, y>>)
    /\ ToPush(Push16) /\ ToPush(Push16 \o <<"idle">>) /\ ToPop(Pop16)
<1>1. NoStack(<<>>)
    BY DEF NoStack
<1>2. \A x \in Neutral : NoStack(<<x>>)
    BY DEF NoStack, Neutral, Cycles
<1>3. \A x, y \in Neutral : NoStack(<<x, y>>)
    BY DEF NoStack, Neutral, Cycles
<1>4. NoStack(Fetch8) /\ NoStack(Fetch16)
    BY <1>2, <1>3 DEF Fetch8, Fetch16, Neutral
<1>5. ToPush(<<"pushHigh", "pushLow">>)
    BY DEF ToPush, Cycles
<1> DEFINE ds == Push16 \o <<"idle">>
<1>6. /\ ds \in Seq(Cycles) /\ Len(ds) = 3
      /\ ds[1] = "pushHigh" /\ ds[2] = "pushLow" /\ ds[3] = "idle"
    BY DEF Push16, Cycles
<1> HIDE DEF ds
<1>7. ToPush(ds)
    BY <1>6 DEF ToPush, Neutral
<1>8. ToPop(<<"popLow", "popHigh">>)
    BY DEF ToPop, Cycles
<1> QED BY <1>1, <1>2, <1>3, <1>4, <1>5, <1>7, <1>8 DEF Push16, Pop16, ds

\* The opcode in front changes nothing.
LEMMA OpcodeFits ==
    ASSUME NEW cs \in Seq(Cycles), NEW end, Fits(cs, end)
    PROVE  Fits(Opcode(cs), end)
BY StackPieces, Before DEF Opcode, Fits


Effects == {"none", "jump", "call", "setSp", "operand"} \union Ends
Usable(r) == Fits(r.cycles, r.effect) /\ r.effect \in Effects

LEMMA FreeUsable ==
    ASSUME NEW cs, NoStack(cs), NEW t, NEW end \in Effects \ Ends
    PROVE  Usable(Row(Opcode(cs), t, end))
<1>1. cs \in Seq(Cycles) /\ Fits(cs, end)
    BY DEF NoStack, Fits
<1> QED BY <1>1, OpcodeFits DEF Usable, Row

LEMMA FreeJoin ==
    ASSUME NEW p, NoStack(p), NEW cs, NoStack(cs)
    PROVE  NoStack(p \o cs)
BY Before DEF NoStack

LEMMA LoadsUsable ==
    \A r \in LoadRows \union WideLoadRows \union HighLoadRows : Usable(r)
<1>1. ASSUME NEW t PROVE \A cs : NoStack(cs) =>
          Usable(Plain(Opcode(cs), t)) /\ Usable(Row(Opcode(cs), t, "setSp"))
    BY FreeUsable DEF Plain, Effects, Ends
<1>2. \A x \in {"read", "write"} :
          NoStack(<<x>>) /\ NoStack(Fetch8 \o <<x>>) /\ NoStack(Fetch16 \o <<x>>)
    BY StackPieces, FreeJoin DEF Neutral
<1>3. NoStack(<<"write", "write">>) /\ NoStack(Fetch16 \o <<"write", "write">>)
    BY StackPieces, FreeJoin DEF Neutral
<1>4. \A r \in LoadRows : Usable(r)
    BY <1>1, <1>2, StackPieces DEF LoadRows
<1>5. \A r \in WideLoadRows : Usable(r)
    BY <1>1, <1>2, <1>3, StackPieces DEF WideLoadRows
<1>6. \A r \in HighLoadRows : Usable(r)
    BY <1>1, <1>2, StackPieces DEF HighLoadRows
<1> QED BY <1>4, <1>5, <1>6

LEMMA AlusUsable ==
    \A r \in AluRows \union WideAluRows \union SpOffsetRows \union CbRows : Usable(r)
<1>1. ASSUME NEW t PROVE \A cs : NoStack(cs) =>
          Usable(Plain(Opcode(cs), t)) /\ Usable(Row(Opcode(cs), t, "setSp"))
    BY FreeUsable DEF Plain, Effects, Ends
<1>2. /\ NoStack(<<"read">>) /\ NoStack(<<"idle">>) /\ NoStack(<<"read", "write">>)
      /\ NoStack(<<"idle", "idle">>)
    BY StackPieces DEF Neutral
<1>3. /\ NoStack(Fetch8 \o <<"idle", "idle">>) /\ NoStack(Fetch8 \o <<"idle">>)
      /\ NoStack(Fetch8 \o <<"read">>) /\ NoStack(Fetch8 \o <<"read", "write">>)
    BY <1>2, StackPieces, FreeJoin
<1>4. \A r \in AluRows \union WideAluRows : Usable(r)
    BY <1>1, <1>2, StackPieces DEF AluRows, WideAluRows
<1>5. \A r \in SpOffsetRows \union CbRows : Usable(r)
    BY <1>1, <1>2, <1>3, StackPieces DEF SpOffsetRows, CbRows
<1> QED BY <1>4, <1>5

LEMMA JumpsUsable ==
    \A r \in RelativeRows \union JumpRows \union PowerRows : Usable(r)
<1>1. ASSUME NEW t PROVE \A cs : NoStack(cs) =>
          /\ Usable(Plain(Opcode(cs), t)) /\ Usable(Row(Opcode(cs), t, "jump"))
          /\ Usable(Row(Opcode(cs), t, "operand"))
    BY FreeUsable DEF Plain, Effects, Ends
<1>2. NoStack(<<"idle">>) /\ NoStack(Fetch8 \o <<"idle">>) /\ NoStack(Fetch16 \o <<"idle">>)
    BY StackPieces, FreeJoin DEF Neutral
<1>3. Usable(Plain(<<"idle">>, 4))
    BY <1>2 DEF Usable, Plain, Row, Fits, Effects, Ends
<1> QED BY <1>1, <1>2, <1>3, StackPieces DEF RelativeRows, JumpRows, PowerRows

LEMMA CallsUsable ==
    \A r \in CallRows \union ReturnRows \union StackRows \union {EntryRow} : Usable(r)
<1>1. Push16 \in Seq(Cycles) /\ Pop16 \in Seq(Cycles)
    BY StackPieces DEF ToPush, ToPop
<1>2. /\ NoStack(<<"idle">>) /\ NoStack(<<"idle", "idle">>) /\ NoStack(Fetch16 \o <<"idle">>)
    BY StackPieces, FreeJoin DEF Neutral
<1>3. ASSUME NEW p, NoStack(p), NEW t
      PROVE  /\ \A end \in {"call", "none"} : Usable(Row(Opcode(p \o Push16), t, end))
             /\ \A end \in Ends : Usable(Row(Opcode(p \o Pop16), t, end))
    <2>1. ToPush(p \o Push16) /\ ToPop(p \o Pop16) /\ {p \o Push16, p \o Pop16} \subseteq Seq(Cycles)
        BY <1>1, <1>3, StackPieces, Before
    <2>2. \A end \in {"call", "none"} : Fits(p \o Push16, end) /\ end \in Effects
        BY <2>1 DEF Fits, Ends, Effects
    <2>3. \A end \in Ends : Fits(p \o Pop16, end) /\ end \in Effects
        BY <2>1 DEF Fits, Effects
    <2> QED BY <2>1, <2>2, <2>3, OpcodeFits DEF Usable, Row
<1>4. \A r \in CallRows : Usable(r)
    <2>1. /\ Usable(Row(Opcode(Fetch16 \o <<"idle">> \o Push16), 24, "call"))
          /\ Usable(Row(Opcode(<<"idle">> \o Push16), 16, "call"))
        BY <1>2, <1>3
    <2>2. Usable(Plain(Opcode(Fetch16), 12))
        BY StackPieces, FreeUsable DEF Plain, Effects, Ends
    <2> QED BY <2>1, <2>2 DEF CallRows
<1>5. \A r \in ReturnRows : Usable(r)
    <2>1. /\ Usable(Row(Opcode(<<"idle", "idle">> \o Pop16), 20, "return"))
          /\ Usable(Row(Opcode(<<"idle">> \o Pop16), 16, "return"))
        BY <1>2, <1>3 DEF Ends
    <2>2. Usable(Plain(Opcode(<<"idle">>), 8))
        BY <1>2, FreeUsable DEF Plain, Effects, Ends
    <2> QED BY <2>1, <2>2 DEF ReturnRows
<1>6. \A r \in StackRows : Usable(r)
    <2>1. Usable(Plain(Opcode(<<"idle">> \o Push16), 16))
        BY <1>2, <1>3 DEF Plain
    <2>2. Fits(Pop16, "pop")
        BY StackPieces DEF Fits, Ends
    <2>3. Usable(Row(Opcode(Pop16), 12, "pop"))
        BY <1>1, <2>2, OpcodeFits DEF Usable, Row, Effects, Ends
    <2> QED BY <2>1, <2>3 DEF StackRows
<1>7. Usable(EntryRow)
    <2> DEFINE ds == <<"idle", "idle">> \o Push16 \o <<"idle">>
    <2>1. /\ ds \in Seq(Cycles) /\ Len(ds) = 5 /\ ds[1] = "idle" /\ ds[2] = "idle"
          /\ ds[3] = "pushHigh" /\ ds[4] = "pushLow" /\ ds[5] = "idle"
        BY DEF Push16, Cycles
    <2> HIDE DEF ds
    <2>2. ToPush(ds)
        BY <2>1 DEF ToPush, Neutral
    <2> QED BY <2>2 DEF Usable, EntryRow, Row, Fits, Effects, Ends, ds
<1> QED BY <1>4, <1>5, <1>6, <1>7

LEMMA RowsUsable == \A r \in Rows : Usable(r)
BY LoadsUsable, AlusUsable, JumpsUsable, CallsUsable DEF Rows


-----------------------------------------------------------------------------
\* Down undoes Up, and two bytes up is a place of the ring as well.
LEMMA RingMoves ==
    ASSUME NEW b \in Slots
    PROVE  /\ Up(Down(b)) = b /\ Down(b) # b
           /\ \A j \in Nat : j + 2 < StackSize => At(Up(Up(b)), j) = At(b, j + 2)
           /\ \A j \in Nat : j + 1 < StackSize => At(Up(b), j) = At(b, j + 1)
<1> USE StackHalves
<1>1. Down(b) \in Slots /\ Up(b) \in Slots
    BY RingSteps
<1>2. Up(Down(b)) = b /\ Down(b) # b
    BY <1>1, RingSteps DEF At, Slots
<1>3. ASSUME NEW j \in Nat, j + 1 < StackSize
      PROVE  At(Up(b), j) = At(b, j + 1)
    <2> DEFINE u == Up(b)
    <2>1. u = (IF b + 1 < StackSize THEN b + 1 ELSE b + 1 - StackSize)
        BY RingSteps DEF At
    <2>2. b \in Nat /\ b < StackSize
        BY DEF Slots
    <2> HIDE DEF u
    <2>3. At(u, j) = At(b, j + 1)
        BY <1>3, <2>1, <2>2 DEF At
    <2> QED BY <2>3 DEF u
<1>4. ASSUME NEW j \in Nat, j + 2 < StackSize
      PROVE  At(Up(Up(b)), j) = At(b, j + 2)
    BY <1>1, <1>4, RingSteps, SMTT(30) DEF At, Slots
<1> QED BY <1>2, <1>3, <1>4

\* Taking the top word off leaves the others standing two bytes up.
LEMMA PoppedStands ==
    ASSUME NEW fr \in Seq(Words), fr # <<>>, Len(fr) <= Half,
           NEW b \in Slots, NEW memory, Stands(fr, b, memory)
    PROVE  Stands(Tail(fr), Up(Up(b)), memory)
<1>1. /\ Tail(fr) \in Seq(Words) /\ Len(Tail(fr)) = Len(fr) - 1 /\ Len(fr) \in Nat
      /\ \A i \in 1 .. Len(fr) - 1 : Tail(fr)[i] = fr[i + 1]
    OBVIOUS
<1> SUFFICES ASSUME NEW i \in 1 .. Len(fr) - 1
             PROVE  /\ memory[At(Up(Up(b)), 2 * (i - 1))] = <<"low", fr[i + 1]>>
                    /\ memory[At(Up(Up(b)), 2 * (i - 1) + 1)] = <<"high", fr[i + 1]>>
    BY <1>1 DEF Stands
<1>2. /\ memory[At(b, 2 * i)] = <<"low", fr[i + 1]>>
      /\ memory[At(b, 2 * i + 1)] = <<"high", fr[i + 1]>>
    <2>1. i + 1 \in 1 .. Len(fr) /\ 2 * ((i + 1) - 1) = 2 * i
        BY <1>1
    <2> QED BY <2>1 DEF Stands
<1>3. /\ 2 * (i - 1) \in Nat /\ 2 * (i - 1) + 1 \in Nat
      /\ 2 * (i - 1) + 2 < StackSize /\ (2 * (i - 1) + 1) + 2 < StackSize
      /\ 2 * (i - 1) + 2 = 2 * i /\ (2 * (i - 1) + 1) + 2 = 2 * i + 1
    BY <1>1, StackHalves
<1>4. /\ At(Up(Up(b)), 2 * (i - 1)) = At(b, 2 * i)
      /\ At(Up(Up(b)), 2 * (i - 1) + 1) = At(b, 2 * i + 1)
    BY <1>3, RingMoves
<1> QED BY <1>2, <1>4

\* The first half of a push spoils at most the word that reaches around.
LEMMA HalfPushStands ==
    ASSUME NEW fr \in Seq(Words), NEW b \in Slots, NEW memory \in [Slots -> Bytes],
           Stands(fr, b, memory), NEW x
    PROVE  StandsBelow(fr, Up(Down(b)), [memory EXCEPT ![Down(b)] = x])
<1> SUFFICES ASSUME NEW i \in 1 .. Len(fr), i < Half
             PROVE  /\ [memory EXCEPT ![Down(b)] = x][At(b, 2 * (i - 1))] = <<"low", fr[i]>>
                    /\ [memory EXCEPT ![Down(b)] = x][At(b, 2 * (i - 1) + 1)] = <<"high", fr[i]>>
    BY RingMoves DEF StandsBelow
<1>1. /\ 2 * (i - 1) \in Nat /\ 2 * (i - 1) + 1 \in Nat /\ StackSize - 1 \in Nat
      /\ 2 * (i - 1) < StackSize - 1 /\ 2 * (i - 1) + 1 < StackSize - 1
    BY StackHalves
<1>2. /\ At(b, 2 * (i - 1)) # Down(b) /\ At(b, 2 * (i - 1) + 1) # Down(b)
      /\ At(b, 2 * (i - 1)) \in Slots /\ At(b, 2 * (i - 1) + 1) \in Slots
    BY <1>1, RingSteps, RingPlaces, StackHalves
<1> QED BY <1>2 DEF Stands

\* What Remember keeps: the new word on top, and all that fit below it.
LEMMA Remembered ==
    ASSUME NEW w \in Words, frames \in Seq(Words), Len(frames) <= Half
    PROVE  /\ Remember(w) \in Seq(Words)
           /\ Len(Remember(w)) \in 1 .. Half /\ Len(Remember(w)) <= Len(frames) + 1
           /\ Remember(w)[1] = w
           /\ \A i \in 2 .. Len(Remember(w)) : Remember(w)[i] = frames[i - 1]
<1> DEFINE stack == <<w>> \o frames
           len == IF Len(stack) > Half THEN Half ELSE Len(stack)
<1>1. /\ stack \in Seq(Words) /\ Len(stack) = Len(frames) + 1 /\ Len(frames) \in Nat
      /\ stack[1] = w /\ \A i \in 1 .. Len(frames) : stack[i + 1] = frames[i]
    OBVIOUS
<1>2. Remember(w) = SubSeq(stack, 1, len)
    BY DEF Remember, Half
<1> HIDE DEF stack
<1>3. len \in 1 .. Half /\ len <= Len(stack)
    BY <1>1, StackHalves
<1> HIDE DEF len
<1>4. /\ SubSeq(stack, 1, len) \in Seq(Words) /\ Len(SubSeq(stack, 1, len)) = len
      /\ \A i \in 1 .. len : SubSeq(stack, 1, len)[i] = stack[i]
    BY <1>1, <1>3, StackHalves
<1>5. ASSUME NEW i \in 2 .. len PROVE SubSeq(stack, 1, len)[i] = frames[i - 1]
    <2>1. i - 1 \in 1 .. Len(frames) /\ (i - 1) + 1 = i /\ i \in 1 .. len
        BY <1>1, <1>3, StackHalves
    <2> QED BY <1>1, <1>4, <2>1
<1> QED BY <1>1, <1>2, <1>3, <1>4, <1>5, StackHalves

\* The second half puts the word on top of those below.
LEMMA PushedStands ==
    ASSUME NEW w \in Words, frames \in Seq(Words), Len(frames) <= Half,
           NEW b \in Slots, NEW memory \in [Slots -> Bytes],
           memory[b] = <<"high", w>>, StandsBelow(frames, Up(b), memory)
    PROVE  Stands(Remember(w), Down(b), [memory EXCEPT ![Down(b)] = <<"low", w>>])
<1> DEFINE after == [memory EXCEPT ![Down(b)] = <<"low", w>>]
           d == Down(b)
<1>1. d \in Slots /\ Up(d) = b /\ d # b /\ At(d, 0) = d /\ At(d, 1) = b
    BY RingSteps, RingMoves, RingPlaces
<1>2. after[d] = <<"low", w>> /\ \A s \in Slots \ {d} : after[s] = memory[s]
    BY <1>1
<1> HIDE DEF after, d
<1> SUFFICES ASSUME NEW i \in 1 .. Len(Remember(w))
             PROVE  /\ after[At(d, 2 * (i - 1))] = <<"low", Remember(w)[i]>>
                    /\ after[At(d, 2 * (i - 1) + 1)] = <<"high", Remember(w)[i]>>
    BY DEF Stands, after, d
<1>3. CASE i = 1
    BY <1>1, <1>2, <1>3, Remembered
<1>4. CASE i # 1
    <2> DEFINE len == Len(Remember(w))
    <2>0. /\ len \in 1 .. Half /\ len <= Len(frames) + 1 /\ Len(frames) \in Nat
          /\ \A j \in 2 .. len : Remember(w)[j] = frames[j - 1]
        <3>1. Len(frames) \in Nat
            OBVIOUS
        <3> QED BY <3>1, Remembered, Zenon
    <2>1. /\ i \in 2 .. len /\ i - 1 \in 1 .. Len(frames) /\ i - 1 < Half /\ i <= Half
          /\ Remember(w)[i] = frames[i - 1]
        <3> HIDE DEF len
        <3>1. i \in 1 .. len
            BY DEF len
        <3> QED BY <1>4, <2>0, <3>1, StackHalves, SMTT(30)
    <2>2. /\ memory[At(Up(b), 2 * ((i - 1) - 1))] = <<"low", frames[i - 1]>>
          /\ memory[At(Up(b), 2 * ((i - 1) - 1) + 1)] = <<"high", frames[i - 1]>>
        BY <2>1 DEF StandsBelow
    <2>3. /\ 2 * ((i - 1) - 1) \in Nat /\ 2 * ((i - 1) - 1) + 2 = 2 * (i - 1)
          /\ 2 * ((i - 1) - 1) + 1 \in Nat /\ (2 * ((i - 1) - 1) + 1) + 2 = 2 * (i - 1) + 1
          /\ 2 * (i - 1) + 1 < StackSize /\ 2 * (i - 1) < StackSize
          /\ 2 * (i - 1) \in Nat /\ 2 * (i - 1) + 1 \in Nat
          /\ 2 * (i - 1) # 0 /\ 2 * (i - 1) + 1 # 0
        BY <2>1, StackHalves
    <2>4. /\ At(Up(b), 2 * ((i - 1) - 1)) = At(d, 2 * (i - 1))
          /\ At(Up(b), 2 * ((i - 1) - 1) + 1) = At(d, 2 * (i - 1) + 1)
        BY <1>1, <2>3, RingMoves
    <2>5. /\ At(d, 2 * (i - 1)) \in Slots \ {d} /\ At(d, 2 * (i - 1) + 1) \in Slots \ {d}
        BY <1>1, <2>3, RingPlaces, StackHalves, SMTT(30)
    <2> QED BY <1>2, <2>1, <2>2, <2>4, <2>5
<1> QED BY <1>3, <1>4


-----------------------------------------------------------------------------
LEMMA StackInit == InstrInit => StackInv
<1> SUFFICES ASSUME InstrInit PROVE StackInv
    OBVIOUS
<1>1. at \in Words /\ sp \in Slots /\ cell \in [Slots -> Bytes]
    BY InstructionsAssumption DEF InstrInit, Words, Slots, Bytes
<1>2. frames \in Seq(Words) /\ Len(frames) <= Half /\ Stands(frames, sp, cell)
    BY StackHalves DEF InstrInit, Stands
<1>3. NoStack(script) /\ word = <<>> /\ effect = "idle" /\ script = <<>>
    BY StackPieces DEF InstrInit
<1> QED BY <1>1, <1>2, <1>3 DEF StackInv, Standing, Unused,
       PushAhead, PushHalfway, PopAhead, PopHalfway, Popped, Ends

LEMMA StackBegin == StackInv /\ BeginRow => StackInv'
<1> SUFFICES ASSUME StackInv, BeginRow PROVE StackInv'
    OBVIOUS
<1>1. Stands(frames, sp, cell)
    <2>1. script = <<>> /\ effect \notin Ends
        BY DEF StackInv, BeginRow, Ends
    <2>2. ~ToPush(script) /\ ~HalfPushed(script)
        BY <2>1 DEF ToPush, HalfPushed
    <2> QED BY <2>1, <2>2 DEF StackInv, Standing, Unused,
           PushAhead, PushHalfway, PopAhead, PopHalfway, Popped
<1>2. PICK r \in Rows : script' = r.cycles /\ effect' = r.effect
    BY DEF BeginRow
<1>3. Fits(script', effect') /\ effect' \in Effects
    BY <1>2, RowsUsable DEF Usable
<1>4. Standing'
    BY <1>1, <1>3 DEF BeginRow, Fits, Standing, Unused,
           PushAhead, PushHalfway, PopAhead, PopHalfway, Popped
<1> QED BY <1>3, <1>4 DEF BeginRow, StackInv, Effects, Ends

\* A word read back from the ring is one of the words.
LEMMA NextWordIsWord == ASSUME NEW w \in Words PROVE NextWord(w) \in Words
BY InstructionsAssumption DEF NextWord, Words

\* A cycle that is neither a push nor a pop leaves standing what it leaves.
LEMMA NeutralCycle ==
    ASSUME StackInv, BusCycle, Head(script) \in Neutral
    PROVE  /\ at' \in Words /\ sp' = sp /\ cell' \in [Slots -> Bytes] /\ word' = word
           /\ frames' \in Seq(Words) /\ Len(frames') <= Half
           /\ Stands(frames, sp, cell) => Stands(frames', sp, cell')
<1>1. /\ at \in Words /\ sp \in Slots /\ cell \in [Slots -> Bytes]
      /\ frames \in Seq(Words) /\ Len(frames) <= Half
    BY DEF StackInv
<1>2. CASE Head(script) = "fetch"
    BY <1>1, <1>2, NextWordIsWord DEF BusCycle, FetchCycle
<1>3. CASE Head(script) = "write"
    <2>1. WriteCycle
        BY <1>3 DEF BusCycle
    <2>2. CASE UNCHANGED <<cell, frames>>
        BY <1>1, <2>1, <2>2 DEF WriteCycle
    <2>3. CASE \E s \in 0 .. StackSize - 1 : cell' = [cell EXCEPT ![s] = Junk] /\ frames' = <<>>
        <3>1. frames' = <<>> /\ at' = at /\ sp' = sp /\ word' = word
            BY <2>1, <2>3 DEF WriteCycle
        <3>2. cell' \in [Slots -> Bytes]
            BY <1>1, <2>3 DEF Bytes, Slots
        <3>3. <<>> \in Seq(Words) /\ Len(<<>>) = 0 /\ Stands(<<>>, sp, cell')
            BY DEF Stands
        <3> QED BY <1>1, <3>1, <3>2, <3>3, StackHalves
    <2> QED BY <2>1, <2>2, <2>3 DEF WriteCycle
<1>4. CASE Head(script) \in {"read", "idle"}
    BY <1>1, <1>4 DEF BusCycle
<1> QED BY <1>2, <1>3, <1>4 DEF Neutral


LEMMA TwoBytes == \A x, y \in Bytes : Append(<<x>>, y) = <<x, y>>
<1> SUFFICES ASSUME NEW x \in Bytes, NEW y \in Bytes PROVE Append(<<x>>, y) = <<x, y>>
    OBVIOUS
<1> DEFINE s == Append(<<x>>, y)
<1>1. s \in Seq(Bytes) /\ Len(s) = 2 /\ s[1] = x /\ s[2] = y
    OBVIOUS
<1>2. \A t \in Seq(Bytes) : Len(t) = 2 => t = <<t[1], t[2]>>
    OBVIOUS
<1> HIDE DEF s
<1>3. s = <<x, y>>
    BY <1>1, <1>2
<1> QED BY <1>3 DEF s

\* What every cycle keeps, and the cases in which the stack is not in use.
LEMMA StackCycle == StackInv /\ BusCycle => StackInv'
<1> SUFFICES ASSUME StackInv, BusCycle PROVE StackInv'
    OBVIOUS
<1>1. /\ script # <<>> /\ script' = Tail(script) /\ effect' = effect
      /\ at \in Words /\ sp \in Slots /\ cell \in [Slots -> Bytes]
      /\ frames \in Seq(Words) /\ Len(frames) <= Half
      /\ effect # "idle" /\ effect \in Effects
    BY DEF BusCycle, StackInv, Effects
<1>2. ASSUME /\ at' \in Words /\ sp' \in Slots /\ cell' \in [Slots -> Bytes]
             /\ frames' \in Seq(Words) /\ Len(frames') <= Half,
             Standing'
      PROVE  StackInv'
    BY <1>1, <1>2 DEF StackInv, Effects
<1>3. CASE Unused
    <2>0. effect \notin Ends /\ NoStack(script) /\ word = <<>> /\ Stands(frames, sp, cell)
        BY <1>3 DEF Unused
    <2>1. Head(script) \in Neutral /\ NoStack(script')
        BY <1>1, <2>0, NoStackHead
    <2> QED BY <1>1, <1>2, <2>0, <2>1, NeutralCycle DEF Standing, Unused
<1>4. CASE PushAhead
    <2>0. effect \notin Ends /\ ToPush(script) /\ word = <<>> /\ Stands(frames, sp, cell)
        BY <1>4 DEF PushAhead
    <2>1. CASE Head(script) \in Neutral /\ ToPush(script')
        BY <1>1, <1>2, <2>0, <2>1, NeutralCycle DEF Standing, PushAhead
    <2>2. CASE Head(script) = "pushHigh" /\ HalfPushed(script')
        <3>1. PushHigh8
            BY <2>2 DEF BusCycle
        <3>2. PICK w \in Words : /\ cell' = [cell EXCEPT ![Down(sp)] = <<"high", w>>]
                                 /\ word' = <<w>>
            BY <1>1, <3>1 DEF PushHigh8
        <3>3. sp' = Down(sp) /\ sp' \in Slots /\ at' = at /\ frames' = frames
            BY <1>1, <3>1, RingSteps DEF PushHigh8
        <3>4. cell' \in [Slots -> Bytes] /\ cell'[sp'] = <<"high", w>>
            BY <1>1, <3>2, <3>3 DEF Bytes
        <3>5. StandsBelow(frames', Up(sp'), cell')
            BY <1>1, <2>0, <3>2, <3>3, HalfPushStands
        <3>6. Standing'
            BY <1>1, <2>0, <2>2, <3>2, <3>4, <3>5 DEF Standing, PushHalfway
        <3> QED BY <1>1, <1>2, <3>3, <3>4, <3>6
    <2> QED BY <1>1, <2>0, <2>1, <2>2, ToPushHead
<1>5. CASE PushHalfway
    <2>0. /\ effect \notin Ends /\ HalfPushed(script)
          /\ \E w \in Words : /\ word = <<w>> /\ cell[sp] = <<"high", w>>
                             /\ StandsBelow(frames, Up(sp), cell)
        BY <1>5 DEF PushHalfway
    <2>1. PICK w \in Words : /\ word = <<w>> /\ cell[sp] = <<"high", w>>
                             /\ StandsBelow(frames, Up(sp), cell)
        BY <2>0
    <2>2. PushLow8 /\ NoStack(script')
        BY <1>1, <2>0, HalfPushedHead DEF BusCycle
    <2>3. /\ sp' = Down(sp) /\ sp' \in Slots /\ at' = at /\ word' = <<>>
          /\ cell' = [cell EXCEPT ![Down(sp)] = <<"low", w>>] /\ frames' = Remember(w)
        BY <1>1, <2>1, <2>2, RingSteps DEF PushLow8
    <2>4. cell' \in [Slots -> Bytes]
        BY <1>1, <2>3 DEF Bytes
    <2>5. frames' \in Seq(Words) /\ Len(frames') <= Half
        BY <1>1, <2>3, Remembered, StackHalves
    <2>6. Stands(frames', sp', cell')
        BY <1>1, <2>1, <2>3, PushedStands
    <2> QED BY <1>1, <1>2, <2>0, <2>2, <2>3, <2>4, <2>5, <2>6 DEF Standing, Unused
<1>6. CASE PopAhead
    <2>0. effect \in Ends /\ ToPop(script) /\ word = <<>> /\ Stands(frames, sp, cell)
        BY <1>6 DEF PopAhead
    <2>1. CASE Head(script) \in Neutral /\ ToPop(script')
        BY <1>1, <1>2, <2>0, <2>1, NeutralCycle DEF Standing, PopAhead
    <2>2. CASE /\ Head(script) = "popLow" /\ script' \in Seq(Cycles)
               /\ Len(script') = 1 /\ script'[1] = "popHigh"
        <3>1. Pop8
            BY <2>2 DEF BusCycle
        <3>2. /\ word' = <<cell[sp]>> /\ sp' = Up(sp) /\ sp' \in Slots
              /\ at' = at /\ cell' = cell /\ frames' = frames
            BY <1>1, <2>0, <3>1, RingSteps DEF Pop8
        <3>3. frames # <<>> => cell[sp] = <<"low", frames[1]>>
            <4> SUFFICES ASSUME frames # <<>> PROVE cell[sp] = <<"low", frames[1]>>
                OBVIOUS
            <4>1. 1 \in 1 .. Len(frames)
                BY <1>1
            <4>2. cell[At(sp, 2 * (1 - 1))] = <<"low", frames[1]>>
                BY <2>0, <4>1 DEF Stands
            <4> QED BY <1>1, <4>2, RingPlaces
        <3>4. cell[sp] \in Bytes
            BY <1>1
        <3>5. Standing'
            BY <1>1, <2>0, <2>2, <3>2, <3>3, <3>4 DEF Standing, PopHalfway
        <3> QED BY <1>1, <1>2, <3>2, <3>5
    <2> QED BY <1>1, <2>0, <2>1, <2>2, ToPopHead
<1>7. CASE PopHalfway
    <2>0. /\ effect \in Ends
          /\ script \in Seq(Cycles) /\ Len(script) = 1 /\ script[1] = "popHigh"
          /\ \E b \in Slots, x \in Bytes :
               /\ sp = Up(b) /\ word = <<x>> /\ Stands(frames, b, cell)
               /\ frames # <<>> => x = <<"low", frames[1]>>
        BY <1>7 DEF PopHalfway
    <2>1. PICK b \in Slots, x \in Bytes :
                 /\ sp = Up(b) /\ word = <<x>> /\ Stands(frames, b, cell)
                 /\ frames # <<>> => x = <<"low", frames[1]>>
        BY <2>0
    <2>2. Pop8 /\ script' = <<>>
        BY <1>1, <2>0 DEF BusCycle
    <2>3. /\ word' = <<x, cell[sp]>> /\ sp' = Up(Up(b)) /\ sp' \in Slots
          /\ at' = at /\ cell' = cell /\ frames' = frames
        <3>1. sp' = Up(sp) /\ at' = at /\ cell' = cell /\ frames' = frames
            BY <2>2 DEF Pop8
        <3>2. word' = Append(<<x>>, cell[sp])
            BY <2>1, <2>2 DEF Pop8
        <3>3. Append(<<x>>, cell[sp]) = <<x, cell[sp]>>
            BY <1>1, TwoBytes
        <3> QED BY <1>1, <2>1, <3>1, <3>2, <3>3, RingSteps
    <2>4. frames # <<>> => cell[sp] = <<"high", frames[1]>>
        <3> SUFFICES ASSUME frames # <<>> PROVE cell[sp] = <<"high", frames[1]>>
            OBVIOUS
        <3>1. 1 \in 1 .. Len(frames)
            BY <1>1
        <3>2. cell[At(b, 2 * (1 - 1) + 1)] = <<"high", frames[1]>>
            BY <2>1, <3>1 DEF Stands
        <3> QED BY <2>1, <3>2, RingSteps
    <2>5. cell[sp] \in Bytes
        BY <1>1
    <2>6. Standing'
        <3>1. effect' \in Ends /\ script' = <<>>
            BY <1>1, <2>0, <2>2
        <3>2. \E y \in Bytes :
                 /\ sp' = Up(Up(b)) /\ word' = <<x, y>> /\ Stands(frames', b, cell')
                 /\ frames' # <<>> => x = <<"low", frames'[1]>> /\ y = <<"high", frames'[1]>>
            <4> DEFINE y == cell[sp]
            <4> WITNESS y \in Bytes
            <4> QED BY <2>1, <2>3, <2>4
        <3> QED BY <3>1, <3>2 DEF Standing, Popped
    <2> QED BY <1>1, <1>2, <2>3, <2>6
<1>8. Standing
    BY DEF StackInv
<1>9. ~(effect \in Ends /\ script = <<>>)
    BY <1>1
<1> QED BY <1>3, <1>4, <1>5, <1>6, <1>7, <1>8, <1>9 DEF Standing, Popped

\* What a finished instruction knows of the stack.
LEMMA Finished ==
    ASSUME StackInv, script = <<>>
    PROVE  \/ effect \notin Ends /\ Stands(frames, sp, cell)
           \/ /\ effect \in Ends
              /\ \E b \in Slots, x, y \in Bytes :
                    /\ sp = Up(Up(b)) /\ word = <<x, y>> /\ Stands(frames, b, cell)
                    /\ frames # <<>> => x = <<"low", frames[1]>> /\ y = <<"high", frames[1]>>
<1>1. Len(script) = 0
    OBVIOUS
<1>2. ~ToPush(script) /\ ~HalfPushed(script) /\ ~ToPop(script) /\ ~(Len(script) = 1)
    BY <1>1 DEF ToPush, HalfPushed, ToPop
<1> QED BY <1>2 DEF StackInv, Standing, Unused,
       PushAhead, PushHalfway, PopAhead, PopHalfway, Popped

LEMMA StackRetire == StackInv /\ RetireRow => StackInv'
<1> SUFFICES ASSUME StackInv, RetireRow PROVE StackInv'
    OBVIOUS
<1>1. /\ at \in Words /\ sp \in Slots /\ cell \in [Slots -> Bytes]
      /\ frames \in Seq(Words) /\ Len(frames) <= Half
      /\ script = <<>> /\ script' = <<>> /\ effect' = "idle" /\ word' = <<>> /\ cell' = cell
    BY DEF RetireRow, StackInv
<1>2. at' \in Words
    BY <1>1, NextWordIsWord DEF RetireRow, Landing, Assembled
<1>3. /\ sp' \in Slots /\ frames' \in Seq(Words) /\ Len(frames') <= Half
      /\ Stands(frames', sp', cell')
    <2>1. CASE effect = "setSp"
        <3>1. sp' \in Slots /\ frames' = <<>>
            BY <2>1 DEF RetireRow, Slots
        <3>2. <<>> \in Seq(Words) /\ Len(<<>>) = 0 /\ Stands(<<>>, sp', cell')
            BY DEF Stands
        <3> QED BY <3>1, <3>2, StackHalves
    <2>2. CASE effect # "setSp" /\ effect \notin Ends
        BY <1>1, <2>2, Finished DEF RetireRow, Ends
    <2>3. CASE effect \in Ends
        <3>1. PICK b \in Slots : sp = Up(Up(b)) /\ Stands(frames, b, cell)
            BY <1>1, <2>3, Finished
        <3>2. CASE frames # <<>>
            <4>1. sp' = Up(Up(b)) /\ frames' = Tail(frames)
                BY <2>3, <3>1, <3>2 DEF RetireRow, Ends
            <4>2. Tail(frames) \in Seq(Words) /\ Len(Tail(frames)) <= Half
                BY <1>1, <3>2, StackHalves
            <4> QED BY <1>1, <3>1, <3>2, <4>1, <4>2, RingSteps, PoppedStands
        <3>3. CASE frames = <<>>
            <4>1. sp' = sp /\ frames' = <<>>
                BY <2>3, <3>3 DEF RetireRow, Ends
            <4>2. <<>> \in Seq(Words) /\ Len(<<>>) = 0 /\ Stands(<<>>, sp, cell')
                BY DEF Stands
            <4> QED BY <1>1, <4>1, <4>2, StackHalves
        <3> QED BY <3>2, <3>3
    <2> QED BY <2>1, <2>2, <2>3
<1>4. Standing'
    BY <1>1, <1>3, StackPieces DEF Standing, Unused,
           PushAhead, PushHalfway, PopAhead, PopHalfway, Popped, Ends
<1> QED BY <1>1, <1>2, <1>3, <1>4 DEF StackInv

LEMMA StackInvariant == InstrSpec => []StackInv
<1>1. StackInv /\ UNCHANGED instrVars => StackInv'
    BY DEF StackInv, Standing, Unused,
           PushAhead, PushHalfway, PopAhead, PopHalfway, Popped, instrVars, instruction
<1>2. StackInv /\ [InstrNext]_instrVars => StackInv'
    BY <1>1, StackBegin, StackCycle, StackRetire DEF InstrNext
<1> QED BY <1>2, StackInit, PTL DEF InstrSpec

(* Program counter, stack pointer, stack and instruction keep their types.   *)
THEOREM InstrTypeCorrect == InstrSpec => []InstrTypeOK
<1>1. StackInv => InstrTypeOK
    BY DEF StackInv, InstrTypeOK, Slots, Half, Ends
<1> QED BY <1>1, StackInvariant, PTL

(* A return or POP gets the word its call or push left, for any number of    *)
(* words and any size of the stack, nested and wrapped as it may be.         *)
THEOREM ReturnsReachCaller == InstrSpec => []ReturnsToCaller
<1>1. StackInv => ReturnsToCaller
    <2> SUFFICES ASSUME StackInv, script = <<>>, effect \in Ends, frames # <<>>
                 PROVE  Assembled = {Head(frames)}
        BY DEF ReturnsToCaller, Ends
    <2>1. word = << <<"low", frames[1]>>, <<"high", frames[1]>> >>
        BY Finished
    <2>2. frames[1] \in Words /\ Head(frames) = frames[1]
        BY DEF StackInv
    <2>3. \A v \in Words : word = << <<"low", v>>, <<"high", v>> >> => v = frames[1]
        BY <2>1
    <2> QED BY <2>1, <2>2, <2>3 DEF Assembled
<1> QED BY <1>1, StackInvariant, PTL

-----------------------------------------------------------------------------
(* The core behaves as each of its parts does. *)
LEMMA CoreParts == McSpec => HSpec /\ Spec /\ InstrSpec /\ AluSpec /\ HostSpec
<1>1. McInit => HInit /\ Init /\ InstrInit /\ AluInit /\ HostInit
    BY DEF McInit, HInit
<1>2. [McNext]_mcVars => /\ [HNext]_allVars /\ [Next]_vars /\ [InstrNext]_instrVars
                         /\ [AluNext]_aluVars /\ [HostNext]_hostVars
    <2> SUFFICES ASSUME [McNext]_mcVars
                 PROVE  /\ [HNext]_allVars /\ [Next]_vars /\ [InstrNext]_instrVars
                        /\ [AluNext]_aluVars /\ [HostNext]_hostVars
        OBVIOUS
    <2>1. CASE ControlStep
        BY <2>1 DEF ControlStep, HNext
    <2>2. CASE InstructionStep
        BY <2>2 DEF InstructionStep, allVars
    <2>3. CASE AluStep
        BY <2>3 DEF AluStep, allVars
    <2>4. CASE LoopStep
        BY <2>4 DEF LoopStep, allVars
    <2>5. CASE UNCHANGED mcVars
        BY <2>5 DEF mcVars, allVars
    <2> QED BY <2>1, <2>2, <2>3, <2>4, <2>5 DEF McNext
<1> QED BY <1>1, <1>2, PTL DEF McSpec, HSpec, Spec, InstrSpec, AluSpec, HostSpec

(* The CPU, its instructions, its arithmetic and the loop that paces them    *)
(* keep their types.                                                         *)
THEOREM CoreTypeCorrect ==
    ASSUME HasLongest
    PROVE  McSpec => []CoreTypeOK
<1>1. CpuTypeOK /\ InstrTypeOK /\ AluTypeOK /\ HostLoopTypeOK => CoreTypeOK
    BY DEF CoreTypeOK
<1>2. HostSpec => []HostLoopTypeOK
    BY HostLoopTypeCorrect
<1> QED BY <1>1, <1>2, CoreParts, TypeCorrect, InstrTypeCorrect, AluTypeCorrect, PTL
=============================================================================
