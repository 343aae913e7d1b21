-------------------------------- MODULE Rtc --------------------------------
(* The clock of MBC3 cartridges (gb_cartridge.c): the registers the select   *)
(* value puts in place of cartridge RAM, the two writes that latch the       *)
(* clock, and the cascade of counters that the bus tick advances. Sizes are  *)
(* constants: <<60, 60, 24, 256, 2>> in the code.                            *)
EXTENDS Integers

CONSTANTS
    SecondLength, Sizes,
    TickLengths,        \* cycles one tick of the bus may bring
    Bytes               \* values a game writes

ASSUME RtcAssumption ==
    /\ SecondLength \in Nat \ {0} /\ Sizes \in [1..5 -> Nat \ {0}]
    /\ TickLengths \subseteq 0..SecondLength /\ Bytes \subseteq Nat

VARIABLES
    present,            \* has_rtc: other MBC3 cartridges never tick it
    ramEnabled,         \* ram_enabled
    rtcSelect,          \* mbc3_ram_rtc_select
    armed,              \* mbc3_latch_state
    seconds, minutes, hours, days,  \* days in two parts, as the game sees them
    halted, rtcCarry,
    remainder,          \* rtc_cycle_remainder
    latched             \* the rtc_latched_ fields

clock == <<seconds, minutes, hours, days, halted, rtcCarry, remainder>>
rtcVars == <<present, ramEnabled, rtcSelect, armed, clock, latched>>

RtcRegisters == 8..12
NoSelect == 0

Now == [seconds |-> seconds, minutes |-> minutes, hours |-> hours, days |-> days,
        halted |-> halted, carry |-> rtcCarry]

DayCount == Sizes[4] * Sizes[5]

\* reset_mbc_state
RtcInit ==
    /\ present \in BOOLEAN
    /\ ramEnabled = FALSE /\ rtcSelect = NoSelect /\ armed = FALSE
    /\ seconds = 0 /\ minutes = 0 /\ hours = 0 /\ days = 0
    /\ halted = FALSE /\ rtcCarry = FALSE /\ remainder = 0
    /\ latched = Now

\* Mutant: the day does not wait for the minutes to wrap.
OneSecondEarlyDay ==
    LET minute == seconds + 1 = Sizes[1]
        hour == minute /\ minutes + 1 = Sizes[2]
        day == minute /\ hours + 1 = Sizes[3]
    IN  /\ seconds' = (seconds + 1) % Sizes[1]
        /\ minutes' = IF minute THEN (minutes + 1) % Sizes[2] ELSE minutes
        /\ hours' = IF hour THEN (hours + 1) % Sizes[3] ELSE hours
        /\ days' = IF day THEN (days + 1) % DayCount ELSE days
        /\ rtcCarry' = (rtcCarry \/ (day /\ days + 1 = DayCount))

\* rtc_advance_one_second, called at most once per tick: a tick is shorter
\* than a second. Each counter that wraps moves the next one.
OneSecond ==
    LET minute == seconds + 1 = Sizes[1]
        hour == minute /\ minutes + 1 = Sizes[2]
        day == hour /\ hours + 1 = Sizes[3]
    IN  /\ seconds' = (seconds + 1) % Sizes[1]
        /\ minutes' = IF minute THEN (minutes + 1) % Sizes[2] ELSE minutes
        /\ hours' = IF hour THEN (hours + 1) % Sizes[3] ELSE hours
        /\ days' = IF day THEN (days + 1) % DayCount ELSE days
        /\ rtcCarry' = (rtcCarry \/ (day /\ days + 1 = DayCount))

RtcTick(n) ==
    /\ present /\ ~halted
    /\ remainder' = (remainder + n) % SecondLength
    /\ IF remainder + n >= SecondLength THEN OneSecond
          ELSE UNCHANGED <<seconds, minutes, hours, days, rtcCarry>>
    /\ UNCHANGED <<present, ramEnabled, rtcSelect, armed, halted, latched>>

-----------------------------------------------------------------------------
(* What the game writes.                                                     *)

EnableRam(on) ==
    /\ ramEnabled' = on
    /\ UNCHANGED <<present, rtcSelect, armed, clock, latched>>

SelectRegister(v) ==
    /\ rtcSelect' = v
    /\ UNCHANGED <<present, ramEnabled, armed, clock, latched>>

\* 6000-7FFF: 0 arms the latch, 1 fires it, anything else disarms it.
WriteLatch(v) ==
    /\ armed' = (v = 0)
    /\ latched' = IF armed /\ v = 1 THEN Now ELSE latched
    /\ UNCHANGED <<present, ramEnabled, rtcSelect, clock>>

\* rtc_write_live_register; the remainder of the second runs on.
SetField(v) ==
    /\ seconds' = IF rtcSelect = 8 THEN v % Sizes[1] ELSE seconds
    /\ minutes' = IF rtcSelect = 9 THEN v % Sizes[2] ELSE minutes
    /\ hours' = IF rtcSelect = 10 THEN v % Sizes[3] ELSE hours
    /\ days' = CASE rtcSelect = 11 -> days - (days % Sizes[4]) + (v % Sizes[4])
                 [] rtcSelect = 12 -> (days % Sizes[4]) + (v % Sizes[5]) * Sizes[4]
                 [] OTHER -> days
    /\ IF rtcSelect = 12 THEN halted' \in BOOLEAN /\ rtcCarry' \in BOOLEAN
                         ELSE UNCHANGED <<halted, rtcCarry>>
    /\ UNCHANGED remainder

\* A write to A000-BFFF with a clock register selected.
WriteRtc(v) ==
    /\ ramEnabled /\ rtcSelect \in RtcRegisters
    /\ SetField(v)
    /\ UNCHANGED <<present, ramEnabled, rtcSelect, armed, latched>>

RtcNext ==
    \/ \E n \in TickLengths : RtcTick(n)
    \/ \E on \in BOOLEAN : EnableRam(on)
    \/ \E v \in RtcRegisters \union {NoSelect} : SelectRegister(v)
    \/ \E v \in Bytes : WriteLatch(v) \/ WriteRtc(v)

RtcSpec == RtcInit /\ [][RtcNext]_rtcVars

-----------------------------------------------------------------------------

(* Every counter stays below its size, whatever the game writes into it     *)
(* (rtc_write_live_register, rtc_advance_one_second).                        *)
RtcTypeOK ==
    /\ present \in BOOLEAN /\ ramEnabled \in BOOLEAN /\ armed \in BOOLEAN
    /\ rtcSelect \in RtcRegisters \union {NoSelect}
    /\ seconds \in 0..(Sizes[1] - 1) /\ minutes \in 0..(Sizes[2] - 1)
    /\ hours \in 0..(Sizes[3] - 1) /\ days \in 0..(DayCount - 1)
    /\ halted \in BOOLEAN /\ rtcCarry \in BOOLEAN
    /\ remainder \in 0..(SecondLength - 1)

\* A reading of the counters as one number.
InSeconds(c) ==
    c.seconds + Sizes[1] * (c.minutes + Sizes[2] * (c.hours + Sizes[3] * c.days))

Promise == INSTANCE RealTimeClock WITH
    time <- remainder + SecondLength * InSeconds(Now),
    running <- ~halted,
    carry <- rtcCarry,
    snapshot <- <<InSeconds(latched), ~latched.halted, latched.carry>>

(* The cascade of counters, the writes to single registers, halting in the   *)
(* middle of a second and the two writes of the latch together implement the *)
(* clock of RealTimeClock: no carry between digits is lost, a write disturbs *)
(* no other digit, the day carry stays until the game clears it, and what    *)
(* the game reads is one moment, whenever the tick falls.                    *)
IsRealTimeClock == Promise!ClockSpec
=============================================================================
