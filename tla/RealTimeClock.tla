--------------------------- MODULE RealTimeClock ---------------------------
(* What the clock of an MBC3 cartridge promises: a count of time that wraps  *)
(* after the last day, raising a carry that stays, and a snapshot of it that *)
(* only a latch moves. A game may set one digit of the count at a time.      *)
EXTENDS Integers

CONSTANTS
    SecondLength,   \* cycles in a second
    Sizes,          \* seconds, minutes, hours, low and high part of the days
    TickLengths     \* cycles that pass in one step

VARIABLES time, running, carry, snapshot

clockVars == <<time, running, carry, snapshot>>

Digits == 1..5

\* The cycles that one unit of each digit is worth.
Unit == [i \in Digits |->
    CASE i = 1 -> SecondLength
      [] i = 2 -> SecondLength * Sizes[1]
      [] i = 3 -> SecondLength * Sizes[1] * Sizes[2]
      [] i = 4 -> SecondLength * Sizes[1] * Sizes[2] * Sizes[3]
      [] i = 5 -> SecondLength * Sizes[1] * Sizes[2] * Sizes[3] * Sizes[4]]

Period == Unit[5] * Sizes[5]

Digit(i) == (time \div Unit[i]) % Sizes[i]

Reading == <<time \div SecondLength, running, carry>>

ClockInit ==
    /\ time = 0 /\ running = TRUE /\ carry = FALSE
    /\ snapshot = Reading

Run ==
    \E cycles \in TickLengths :
        /\ running
        /\ time' = (time + cycles) % Period
        /\ carry' = (carry \/ time + cycles >= Period)
        /\ UNCHANGED <<running, snapshot>>

Set ==
    \E i \in Digits : \E v \in 0..(Sizes[i] - 1) :
        /\ time' = time + (v - Digit(i)) * Unit[i]
        /\ IF i = 5 THEN running' \in BOOLEAN /\ carry' \in BOOLEAN
                    ELSE UNCHANGED <<running, carry>>
        /\ UNCHANGED snapshot

Latch ==
    /\ snapshot' = Reading
    /\ UNCHANGED <<time, running, carry>>

ClockNext == Run \/ Set \/ Latch

ClockSpec == ClockInit /\ [][ClockNext]_clockVars
=============================================================================
