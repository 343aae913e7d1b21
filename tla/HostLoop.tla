------------------------------ MODULE HostLoop ------------------------------
(* The main loop of the SDL3 host, gb_sdl3_run of platform/gb_sdl3.c: host   *)
(* time becomes a budget of T-cycles, which is spent in steps of the         *)
(* emulator, in batches between which the events are served. Cycles are      *)
(* counted in machine cycles, the 4 T-cycles that every test of the loop     *)
(* compares with. Joypad has what the events do to the input and the menu;   *)
(* here an event matters when it starts, stops or ends the emulation.        *)
EXTENDS Integers

CONSTANTS
    HostPerCycle,   \* host clock ticks in a machine cycle at the base clock
    MaxElapsed,     \* host time one reading of the clock may add (100 ms)
    MaxBudget,      \* three frames
    MaxBatch,       \* GB_SDL3_MAX_EMULATION_BATCH_T_CYCLES
    InstrTimes,     \* what one step of a running CPU consumes
    Speeds,         \* the CPU clocks of the games played: 1 base, 2 double
    MaxLag          \* bound of the model: how far the clock runs ahead

ASSUME HostLoopAssumption ==
    /\ HostPerCycle \in Nat \ {0} /\ MaxElapsed \in Nat \ {0}
    /\ MaxBudget \in Nat \ {0} /\ MaxBatch \in Nat \ {0}
    /\ InstrTimes \subseteq Nat \ {0} /\ Speeds \subseteq Nat \ {0}
    /\ MaxLag \in Nat

VARIABLES
    stage,              \* where gb_sdl3_run is
    elapsed,            \* host time since last_ns
    fractional_ns, cycle_budget, batch_remaining, loopStopped,   \* its locals
    timing_reset_requested,
    inMenu, hasGame, cpuStopped, speed,   \* of the platform and the emulator
    owed,               \* host time that is neither played nor forgiven
    playedInMenu        \* cycles played since the menu was opened

pacing == <<elapsed, fractional_ns, cycle_budget, owed>>
session == <<inMenu, hasGame, cpuStopped, speed, timing_reset_requested, playedInMenu>>
hostVars == <<stage, pacing, batch_remaining, loopStopped, session>>

Least(x, y) == IF x < y THEN x ELSE y

HostInit ==
    /\ stage = "events"
    /\ elapsed = 0 /\ fractional_ns = 0 /\ cycle_budget = 0 /\ batch_remaining = 0
    /\ loopStopped = FALSE /\ timing_reset_requested = FALSE
    /\ inMenu = FALSE /\ hasGame \in BOOLEAN /\ cpuStopped = FALSE
    /\ speed \in Speeds /\ owed = 0 /\ playedInMenu = 0

-----------------------------------------------------------------------------
\* Time passes anywhere; what is owed to the player grows with it.
ClockRuns ==
    /\ elapsed < MaxLag
    /\ elapsed' = elapsed + 1 /\ owed' = owed + 1
    /\ UNCHANGED <<stage, fractional_ns, cycle_budget, batch_remaining, loopStopped, session>>

\* The clock is read afresh and the time up to now is forgiven.
Restarted == elapsed' = 0 /\ fractional_ns' = 0 /\ cycle_budget' = 0 /\ owed' = 0

\* What one call of gb_sdl3_process_events can find in the queue. Without a
\* game the top of the loop also forgets a requested reset of the timing.
KeepTiming ==
    timing_reset_requested' = (timing_reset_requested /\ (hasGame' \/ stage # "events"))

NoEvent == UNCHANGED <<inMenu, hasGame, cpuStopped, speed, playedInMenu>> /\ KeepTiming

OpenMenu ==
    /\ hasGame /\ ~inMenu /\ inMenu' = TRUE /\ playedInMenu' = 0
    /\ UNCHANGED <<hasGame, cpuStopped, speed>> /\ KeepTiming

CloseMenu ==
    /\ inMenu /\ inMenu' = FALSE /\ playedInMenu' = 0
    /\ UNCHANGED <<hasGame, cpuStopped, speed>> /\ KeepTiming

DropGame ==
    /\ hasGame' = TRUE /\ cpuStopped' = FALSE /\ speed' \in Speeds
    /\ inMenu' = FALSE /\ playedInMenu' = 0 /\ timing_reset_requested' = TRUE

DropBadFile ==
    /\ hasGame' = FALSE /\ cpuStopped' = FALSE
    /\ UNCHANGED <<inMenu, speed, playedInMenu>> /\ KeepTiming

\* A key or button ends STOP.
WakeGame ==
    /\ cpuStopped /\ ~inMenu /\ cpuStopped' = FALSE
    /\ UNCHANGED <<inMenu, hasGame, speed, playedInMenu>> /\ KeepTiming

HandleEvents == NoEvent \/ OpenMenu \/ CloseMenu \/ DropGame \/ DropBadFile \/ WakeGame

\* The top of the loop. Without a game, and behind the menu, it only waits.
ServeEvents ==
    /\ stage = "events"
    /\ HandleEvents
    /\ \/ ~hasGame' /\ Restarted /\ UNCHANGED stage
       \/ hasGame' /\ inMenu' /\ UNCHANGED <<stage, pacing>>
       \/ hasGame' /\ ~inMenu' /\ stage' = "pace" /\ UNCHANGED pacing
    /\ UNCHANGED <<batch_remaining, loopStopped>>

ResetTiming ==
    /\ stage = "pace" /\ timing_reset_requested
    /\ Restarted /\ timing_reset_requested' = FALSE
    /\ UNCHANGED <<stage, batch_remaining, loopStopped, inMenu, hasGame, cpuStopped, speed,
                   playedInMenu>>

\* Mutant: the part of a cycle that is left over is dropped.
EarnWholeCycles ==
    /\ stage = "pace" /\ ~timing_reset_requested
    /\ LET counted == Least(elapsed, MaxElapsed)
           earned == cycle_budget + (counted \div HostPerCycle)
       IN  /\ cycle_budget' = Least(earned, MaxBudget)
           /\ owed' = owed - (elapsed - counted) - (HostPerCycle * (earned - cycle_budget'))
    /\ fractional_ns' = 0 /\ elapsed' = 0 /\ loopStopped' = FALSE
    /\ stage' = "run"
    /\ UNCHANGED <<batch_remaining, session>>

\* Mutant: the budget is not capped.
EarnUncapped ==
    /\ stage = "pace" /\ ~timing_reset_requested
    /\ LET counted == Least(elapsed, MaxElapsed)
           scaled == counted + fractional_ns
       IN  /\ cycle_budget' = cycle_budget + (scaled \div HostPerCycle)
           /\ owed' = owed - (elapsed - counted)
           /\ fractional_ns' = scaled % HostPerCycle
    /\ elapsed' = 0 /\ loopStopped' = FALSE
    /\ stage' = "run"
    /\ UNCHANGED <<batch_remaining, session>>

\* The time since the last reading becomes budget. What either cap takes away
\* is forgiven.
EarnBudget ==
    /\ stage = "pace" /\ ~timing_reset_requested
    /\ LET counted == Least(elapsed, MaxElapsed)
           scaled == counted + fractional_ns
           earned == cycle_budget + (scaled \div HostPerCycle)
       IN  /\ cycle_budget' = Least(earned, MaxBudget)
           /\ fractional_ns' = scaled % HostPerCycle
           /\ owed' = owed - (elapsed - counted) - (HostPerCycle * (earned - cycle_budget'))
    /\ elapsed' = 0 /\ loopStopped' = FALSE
    /\ stage' = "run"
    /\ UNCHANGED <<batch_remaining, session>>

BeginBatch ==
    /\ stage = "run" /\ cycle_budget >= 1
    /\ batch_remaining' = Least(cycle_budget, MaxBatch)
    /\ stage' = "batch"
    /\ UNCHANGED <<pacing, loopStopped, session>>

\* The budget is spent: audio is pumped, the loop sleeps and starts over.
BudgetSpent ==
    /\ stage = "run" /\ cycle_budget < 1
    /\ stage' = "events"
    /\ UNCHANGED <<pacing, batch_remaining, loopStopped, session>>

\* Mutant: a batch goes on until it has consumed its cycles.
StepStoppedGameSpins ==
    /\ stage = "batch" /\ batch_remaining >= 1 /\ hasGame /\ cpuStopped
    /\ loopStopped' = TRUE
    /\ UNCHANGED <<stage, pacing, batch_remaining, session>>

\* A step of a stopped CPU consumes nothing and ends the batch.
StepStoppedGame ==
    /\ stage = "batch" /\ batch_remaining >= 1 /\ hasGame /\ cpuStopped
    /\ loopStopped' = TRUE /\ stage' = "batchEvents"
    /\ UNCHANGED <<pacing, batch_remaining, session>>

\* One instruction, which may be STOP. In double speed a CPU cycle plays half
\* a cycle of the hardware, and of the player's time.
StepGame ==
    /\ stage = "batch" /\ batch_remaining >= 1 /\ hasGame /\ ~cpuStopped
    /\ \E consumed \in InstrTimes :
          /\ cycle_budget' = cycle_budget - consumed
          /\ batch_remaining' = batch_remaining - consumed
          /\ owed' = owed - ((HostPerCycle * consumed) \div speed)
          /\ playedInMenu' = IF inMenu THEN playedInMenu + consumed ELSE 0
    /\ cpuStopped' \in BOOLEAN
    /\ UNCHANGED <<stage, elapsed, fractional_ns, loopStopped, inMenu, hasGame, speed,
                   timing_reset_requested>>

\* A step without a game is an error, which the loop returns: a file dropped
\* between two batches failed to load.
StepWithoutGame ==
    /\ stage = "batch" /\ batch_remaining >= 1 /\ ~hasGame
    /\ stage' = "returned"
    /\ UNCHANGED <<pacing, batch_remaining, loopStopped, session>>

\* So is a fault of the game; and the debugger may break.
StepFails ==
    /\ stage = "batch" /\ batch_remaining >= 1 /\ hasGame
    /\ stage' = "returned"
    /\ UNCHANGED <<pacing, batch_remaining, loopStopped, session>>

EndBatch ==
    /\ stage = "batch" /\ batch_remaining < 1
    /\ stage' = "batchEvents"
    /\ UNCHANGED <<pacing, batch_remaining, loopStopped, session>>

\* Events between two batches: only quitting and STOP leave the catch-up.
ServeEventsInBatch ==
    /\ stage = "batchEvents"
    /\ HandleEvents
    /\ stage' = IF loopStopped THEN "events" ELSE "run"
    /\ UNCHANGED <<pacing, batch_remaining, loopStopped>>

Quit ==
    /\ stage \in {"events", "batchEvents"}
    /\ stage' = "returned"
    /\ UNCHANGED <<pacing, batch_remaining, loopStopped, session>>

\* The program is started again, with or without a game.
Launch ==
    /\ stage = "returned"
    /\ stage' = "events" /\ Restarted
    /\ batch_remaining' = 0 /\ loopStopped' = FALSE /\ timing_reset_requested' = FALSE
    /\ inMenu' = FALSE /\ hasGame' \in BOOLEAN /\ cpuStopped' = FALSE
    /\ speed' \in Speeds /\ playedInMenu' = 0

\* What the loop does of its own accord.
Loop ==
    \/ ServeEvents \/ ResetTiming \/ EarnBudget \/ BeginBatch \/ BudgetSpent
    \/ StepStoppedGame \/ StepGame \/ StepWithoutGame \/ EndBatch \/ ServeEventsInBatch

HostNext == ClockRuns \/ Loop \/ StepFails \/ Quit \/ Launch

HostSpec == HostInit /\ [][HostNext]_hostVars

-----------------------------------------------------------------------------
LongestInstr == CHOOSE t \in InstrTimes : \A u \in InstrTimes : u <= t

HostLoopTypeOK ==
    /\ stage \in {"events", "pace", "run", "batch", "batchEvents", "returned"}
    /\ elapsed \in 0 .. MaxLag /\ fractional_ns \in 0 .. HostPerCycle - 1
    /\ cycle_budget \in (1 - LongestInstr) .. MaxBudget
    /\ batch_remaining \in (1 - LongestInstr) .. MaxBatch
    /\ loopStopped \in BOOLEAN /\ timing_reset_requested \in BOOLEAN
    /\ inMenu \in BOOLEAN /\ hasGame \in BOOLEAN /\ cpuStopped \in BOOLEAN
    /\ speed \in Speeds

(* The game keeps pace: host time is played, or forgiven by one of the two   *)
(* caps or a timing reset, or still to be played: not read yet, left over by *)
(* the conversion, or in the budget, which an instruction may overdraw. So   *)
(* the emulated clock neither gains nor loses on the host's.                 *)
KeepsPace == owed = elapsed + fractional_ns + (HostPerCycle * cycle_budget)

(* A pause takes hold: the menu may open between two batches of a catch-up,  *)
(* which goes on behind it, but no further than its budget, three frames and *)
(* an instruction; the menu is not a state in which the game plays on.       *)
PauseTakesHold == playedInMenu < MaxBudget + LongestInstr

(* Events are always served again: whatever the game does, and however far   *)
(* the host has fallen behind, the loop comes back to the event queue (so a  *)
(* key that ends STOP, or a request to quit, is seen) or returns.            *)
EventsServed == []<>(stage \in {"events", "batchEvents", "returned"})
=============================================================================
