---------------------------- MODULE AudioProofs ----------------------------
(* The audio unit: what a sounding channel may rely on, for every size of    *)
(* frequency, shift and period, and that the ring of samples implements the  *)
(* queue of DropOldest, for any capacity. At the end, the devices together.  *)
EXTENDS MCDevices, TimerProofs, PpuProofs, SequenceTheorems, FiniteSetTheorems

-----------------------------------------------------------------------------
(* A step that leaves the last calculation valid leaves NR10 and the shadow  *)
(* alone; any other calculates afresh or clears settled.                     *)
LEMMA InRangeStep ==
    ASSUME SoundsOnlyInRange, [SweepHNext]_sweepAll
    PROVE  SoundsOnlyInRange'
<1> USE DEF SoundsOnlyInRange, nr10, sweep, pitch
<1>d. ASSUME UNCHANGED nr10, NEW f
      PROVE  Swept(f)' = Swept(f)
    BY <1>d DEF Swept, Delta
<1>k. ASSUME UNCHANGED <<nr10, sweep_shadow>>, active' => active, settled' => settled
      PROVE  SoundsOnlyInRange'
    BY <1>k DEF Swept, Delta, InRange
<1>1. CASE UNCHANGED sweepAll
    BY <1>1, <1>k DEF sweepAll, sweepVars
<1>2. CASE SweepHNext
    <2>0. ASSUME Triggers PROVE SoundsOnlyInRange'
        <3>1. PICK h \in 0 .. HighSize - 1 : WriteNR14(h, TRUE)
            BY <2>0 DEF Triggers
        <3>2. UNCHANGED nr10 /\ sweep_shadow' = h * LowSize + low
            BY <2>0, <3>1 DEF WriteNR14, Trigger, Triggers
        <3>3. active' => (sweep_shift # 0 => InRange(Swept(h * LowSize + low)))
            BY <2>0, <3>1 DEF WriteNR14, Trigger, Triggers
        <3> QED BY <3>2, <3>3 DEF Swept, Delta, InRange
    <2>1. CASE ClockSweep
        <3>1. UNCHANGED nr10
            BY <2>1 DEF ClockSweep
        <3>2. CASE Calculates
            <4>1. Slide
                BY <2>1, <3>2 DEF ClockSweep, Calculates
            <4> QED BY <3>1, <4>1 DEF Slide, Swept, Delta, InRange
        <3>3. CASE ~Calculates
            <4>1. (settled' => settled \/ Triggers)
                BY <1>2, <3>3 DEF SweepHNext
            <4>2. UNCHANGED <<active, pitch, sweep_shadow>>
                BY <2>1, <3>3 DEF ClockSweep, Calculates
            <4> QED BY <2>0, <3>1, <4>1, <4>2, <1>k
        <3> QED BY <3>2, <3>3
    <2>2. ASSUME NEW h \in 0 .. HighSize - 1, NEW t \in BOOLEAN, WriteNR14(h, t)
          PROVE  SoundsOnlyInRange'
        <3>1. CASE t /\ dac_enabled
            BY <2>2, <3>1 DEF WriteNR14, Trigger, Swept, Delta, InRange
        <3>2. CASE ~(t /\ dac_enabled)
            <4>1. UNCHANGED <<nr10, sweep_shadow>> /\ (active' => active)
                BY <2>2, <3>2 DEF WriteNR14, Trigger
            <4>2. ClockSweep \/ Triggers \/ (settled' => settled)
                BY <1>2 DEF SweepHNext, Calculates
            <4> QED BY <2>0, <2>1, <4>1, <4>2, <1>k
        <3> QED BY <3>1, <3>2
    <2>3. ASSUME ~ClockSweep, ~(\E h \in 0 .. HighSize - 1, t \in BOOLEAN : WriteNR14(h, t))
          PROVE  SoundsOnlyInRange'
        <3>1. settled' => settled /\ nr10' = nr10
            BY <1>2, <2>3 DEF SweepHNext, Calculates, Triggers
        <3>2. CASE PowerOff
            BY <3>2 DEF PowerOff
        <3>3. ASSUME NEW p \in Pace, NEW n \in BOOLEAN, NEW s \in Shifts, WriteNR10(p, n, s)
              PROVE  SoundsOnlyInRange'
            <4>1. UNCHANGED sweep_shadow /\ (active' => active)
                BY <3>3 DEF WriteNR10
            <4> QED BY <3>1, <4>1, <1>k
        <3>4. ASSUME NEW dac \in BOOLEAN, WriteNR12(dac) PROVE SoundsOnlyInRange'
            BY <3>1, <3>4, <1>k DEF WriteNR12
        <3>5. ASSUME NEW l \in 0 .. LowSize - 1, WriteNR13(l) PROVE SoundsOnlyInRange'
            BY <3>1, <3>5, <1>k DEF WriteNR13
        <3>6. CASE RunOut
            BY <3>1, <3>6, <1>k DEF RunOut
        <3> QED BY <1>2, <2>3, <3>2, <3>3, <3>4, <3>5, <3>6 DEF SweepHNext, SweepNext, SweepWrites
    <2> QED BY <2>1, <2>2, <2>3
<1> QED BY <1>1, <1>2

(* A channel that sounds can always take its next step.                      *)
THEOREM StepAheadInRange == SweepHSpec => []SoundsOnlyInRange
<1>1. SweepHInit => SoundsOnlyInRange
    BY DEF SweepHInit, SweepInit, SoundsOnlyInRange
<1>2. SoundsOnlyInRange /\ [SweepHNext]_sweepAll => SoundsOnlyInRange'
    BY InRangeStep
<1> QED BY <1>1, <1>2, PTL DEF SweepHSpec

-----------------------------------------------------------------------------
\* A power of two counts the subsets of a set, so it is not zero.
LEMMA PowerPositive == ASSUME NEW k \in Nat PROVE 2 ^ k \in Nat \ {0}
<1>1. IsFiniteSet(1 .. k) /\ Cardinality(1 .. k) = k
    BY FS_Interval
<1>2. IsFiniteSet(SUBSET (1 .. k)) /\ Cardinality(SUBSET (1 .. k)) = 2 ^ k
    BY <1>1, FS_SUBSET
<1>3. SUBSET (1 .. k) # {}
    OBVIOUS
<1>4. Cardinality(SUBSET (1 .. k)) \in Nat /\ Cardinality(SUBSET (1 .. k)) # 0
    BY <1>2, <1>3, FS_CardinalityType, FS_EmptySet
<1> QED BY <1>2, <1>4

\* A positive divisor makes nothing greater.
LEMMA QuotientBelow == ASSUME NEW x \in Nat, NEW y \in Nat \ {0} PROVE x \div y \in 0 .. x
<1> DEFINE q == x \div y
<1>1. q \in Nat /\ x % y \in Nat /\ x = (y * q) + (x % y)
    <2>1. x % y \in 0 .. y - 1
        BY Division
    <2>2. x % y \in Nat
        BY <2>1
    <2> QED BY <2>2, Division
<1> HIDE DEF q
<1>2. PICK k \in Nat : y = 1 + k
    <2>1. y - 1 \in Nat /\ y = 1 + (y - 1)
        OBVIOUS
    <2> QED BY <2>1
<1>3. y * q = q + k * q /\ k * q \in Nat
    BY <1>1, <1>2
<1>4. q \in 0 .. x
    BY <1>1, <1>3
<1> QED BY <1>4 DEF q

LEMMA FrequencySizes ==
    /\ LowSize \in Nat \ {0} /\ HighSize \in Nat \ {0} /\ FrequencySize \in Nat \ {0}
    /\ ShiftSize \in Nat \ {0} /\ SweepPeriods \in Nat \ {0}
<1>1. \A x, y \in Nat \ {0} : x * y \in Nat \ {0}
    OBVIOUS
<1> QED BY <1>1, SweepAssumption DEF FrequencySize

LEMMA SweepZero ==
    /\ 0 \in 0 .. LowSize - 1 /\ 0 \in 0 .. HighSize - 1 /\ 0 \in 0 .. FrequencySize - 1
    /\ 0 \in Pace /\ 0 \in Shifts /\ 0 \in 0 .. SweepPeriods
BY FrequencySizes DEF Pace, Shifts

\* The two registers of a frequency hold one the channel can play.
LEMMA JoinedInRange ==
    ASSUME NEW l \in 0 .. LowSize - 1, NEW hi \in 0 .. HighSize - 1
    PROVE  hi * LowSize + l \in 0 .. FrequencySize - 1
<1>1. LowSize * hi + LowSize <= LowSize * HighSize
    <2>1. hi \in Int /\ HighSize \in Int /\ hi < HighSize
        BY FrequencySizes
    <2> QED BY <2>1, FrequencySizes, Multiples
<1>2. LowSize * hi \in Nat /\ hi * LowSize = LowSize * hi /\ LowSize * HighSize \in Nat
    BY FrequencySizes
<1> QED BY <1>1, <1>2, FrequencySizes DEF FrequencySize

\* A delta never exceeds the frequency it is taken of.
LEMMA DeltaType ==
    ASSUME SweepTypeOK, NEW f \in Nat
    PROVE  Delta(f) \in 0 .. f
<1>1. 2 ^ sweep_shift \in Nat \ {0}
    BY PowerPositive, FrequencySizes DEF SweepTypeOK, Shifts
<1>2. f \div (2 ^ sweep_shift) \in 0 .. f
    <2> DEFINE p == 2 ^ sweep_shift
    <2> HIDE DEF p
    <2>1. f \div p \in 0 .. f
        BY <1>1, QuotientBelow DEF p
    <2> QED BY <2>1 DEF p
<1> QED BY <1>2 DEF Delta

\* A sweep calculation does not wrap below zero.
LEMMA SweptType ==
    ASSUME SweepTypeOK, NEW f \in Nat
    PROVE  Swept(f) \in Nat
<1>1. Delta(f) \in 0 .. f
    BY DeltaType
<1> QED BY <1>1 DEF Swept

LEMMA SlideTypes ==
    ASSUME SweepTypeOK, Slide
    PROVE  /\ frequency' \in 0 .. FrequencySize - 1 /\ sweep_shadow' \in 0 .. FrequencySize - 1
           /\ low' \in 0 .. LowSize - 1 /\ high' \in 0 .. HighSize - 1
           /\ active' \in BOOLEAN /\ sweep_negate_used' \in BOOLEAN
<1> DEFINE f == Swept(sweep_shadow)
<1>1. f \in Nat
    BY SweptType, FrequencySizes DEF SweepTypeOK
<1>2. sweep_negate_used' \in BOOLEAN
    BY Zenon DEF Slide, SweepTypeOK
<1>3. CASE InRange(f)
    <2>1. /\ sweep_shadow' = f /\ frequency' = f
          /\ low' = f % LowSize /\ high' = (f \div LowSize) % HighSize
          /\ active' = (active /\ InRange(Swept(f)))
        BY <1>3 DEF Slide, SetFrequency
    <2>2. active' \in BOOLEAN
        BY <2>1, Zenon DEF SweepTypeOK
    <2> HIDE DEF f
    <2>3. f \div LowSize \in Nat /\ f % LowSize \in 0 .. LowSize - 1
        BY <1>1, Division, FrequencySizes
    <2>4. (f \div LowSize) % HighSize \in 0 .. HighSize - 1
        BY <2>3, Division, FrequencySizes
    <2>5. f \in 0 .. FrequencySize - 1
        BY <1>1, <1>3, FrequencySizes DEF InRange
    <2> QED BY <1>2, <2>1, <2>2, <2>3, <2>4, <2>5
<1>4. CASE ~InRange(f)
    BY <1>2, <1>4 DEF Slide, SweepTypeOK, pitch
<1> QED BY <1>3, <1>4

LEMMA PacedType == ASSUME SweepTypeOK PROVE Paced(sweep_period) \in 0 .. SweepPeriods
BY FrequencySizes DEF SweepTypeOK, Paced, Pace

LEMMA SweepTypeStep == SweepTypeOK /\ [SweepNext]_sweepVars => SweepTypeOK'
<1> SUFFICES ASSUME SweepTypeOK, [SweepNext]_sweepVars PROVE SweepTypeOK'
    OBVIOUS
<1>1. CASE ClockSweep
    <2>1. sweep_timer' \in 0 .. SweepPeriods
        BY <1>1, PacedType, FrequencySizes DEF ClockSweep, SweepTypeOK
    <2>2. /\ frequency' \in 0 .. FrequencySize - 1 /\ sweep_shadow' \in 0 .. FrequencySize - 1
          /\ low' \in 0 .. LowSize - 1 /\ high' \in 0 .. HighSize - 1
          /\ active' \in BOOLEAN /\ sweep_negate_used' \in BOOLEAN
        <3>1. CASE Slide
            BY <3>1, SlideTypes
        <3>2. CASE UNCHANGED <<active, pitch, sweep_shadow, sweep_negate_used>>
            BY <3>2 DEF SweepTypeOK, pitch
        <3> QED BY <1>1, <3>1, <3>2 DEF ClockSweep
    <2> QED BY <1>1, <2>1, <2>2 DEF ClockSweep, SweepTypeOK, nr10
<1>2. ASSUME NEW p \in Pace, NEW neg \in BOOLEAN, NEW s \in Shifts, WriteNR10(p, neg, s)
      PROVE  SweepTypeOK'
    <2>1. active' \in BOOLEAN
        BY <1>2, Zenon DEF WriteNR10, SweepTypeOK
    <2> QED BY <1>2, <2>1 DEF WriteNR10, SweepTypeOK, pitch, sweep
<1>3. ASSUME NEW dac \in BOOLEAN, WriteNR12(dac) PROVE SweepTypeOK'
    <2>1. active' \in BOOLEAN
        BY <1>3, Zenon DEF WriteNR12, SweepTypeOK
    <2> QED BY <1>3, <2>1 DEF WriteNR12, SweepTypeOK, pitch, nr10, sweep
<1>4. ASSUME NEW l \in 0 .. LowSize - 1, WriteNR13(l) PROVE SweepTypeOK'
    BY <1>4, JoinedInRange DEF WriteNR13, SweepTypeOK, nr10, sweep
<1>5. ASSUME NEW hi \in 0 .. HighSize - 1, NEW t \in BOOLEAN, WriteNR14(hi, t)
      PROVE  SweepTypeOK'
    <2>1. hi * LowSize + low \in 0 .. FrequencySize - 1
        BY JoinedInRange DEF SweepTypeOK
    <2>2. /\ sweep_shadow' \in 0 .. FrequencySize - 1 /\ sweep_timer' \in 0 .. SweepPeriods
          /\ active' \in BOOLEAN /\ sweep_enabled' \in BOOLEAN
          /\ sweep_negate_used' \in BOOLEAN
        <3> DEFINE f == hi * LowSize + low
        <3>1. Trigger(f) \/ UNCHANGED <<active, sweep>>
            BY <1>5 DEF WriteNR14
        <3> HIDE DEF f
        <3>2. CASE UNCHANGED <<active, sweep>> \/ (Trigger(f) /\ ~dac_enabled)
            BY <3>2 DEF Trigger, SweepTypeOK, sweep
        <3>3. CASE Trigger(f) /\ dac_enabled
            <4>1. active' \in BOOLEAN /\ sweep_enabled' \in BOOLEAN
                BY <3>3, Zenon DEF Trigger
            <4>2. /\ sweep_shadow' = f /\ sweep_timer' = Paced(sweep_period)
                  /\ sweep_negate_used' = FALSE
                BY <3>3 DEF Trigger
            <4> QED BY <2>1, <4>1, <4>2, PacedType DEF f
        <3> QED BY <3>1, <3>2, <3>3
    <2> QED BY <1>5, <2>1, <2>2 DEF WriteNR14, SweepTypeOK, nr10
<1>6. CASE RunOut
    BY <1>6 DEF RunOut, SweepTypeOK, pitch, nr10, sweep
<1>7. CASE PowerOff
    <2>1. /\ active' \in BOOLEAN /\ dac_enabled' \in BOOLEAN /\ sweep_negate' \in BOOLEAN
          /\ sweep_enabled' \in BOOLEAN /\ sweep_negate_used' \in BOOLEAN
        BY <1>7 DEF PowerOff
    <2>2. /\ low' = 0 /\ high' = 0 /\ frequency' = 0 /\ sweep_shadow' = 0
          /\ sweep_period' = 0 /\ sweep_shift' = 0 /\ sweep_timer' = 0
        BY <1>7 DEF PowerOff
    <2> QED BY <2>1, <2>2, SweepZero DEF SweepTypeOK
<1>8. CASE UNCHANGED sweepVars
    BY <1>8 DEF sweepVars, SweepTypeOK, pitch, nr10, sweep
<1> QED BY <1>1, <1>2, <1>3, <1>4, <1>5, <1>6, <1>7, <1>8 DEF SweepNext, SweepWrites

(* The sweep never stores a frequency the channel cannot play, whatever the  *)
(* widths of its registers: no subtraction wraps, and no sum is kept that    *)
(* does not fit.                                                             *)
THEOREM SweepTypeCorrect == SweepSpec => []SweepTypeOK
<1>1. SweepInit => SweepTypeOK
    <2> SUFFICES ASSUME SweepInit PROVE SweepTypeOK
        OBVIOUS
    <2>1. /\ active \in BOOLEAN /\ dac_enabled \in BOOLEAN /\ sweep_negate \in BOOLEAN
          /\ sweep_enabled \in BOOLEAN /\ sweep_negate_used \in BOOLEAN
        BY DEF SweepInit
    <2>2. /\ low = 0 /\ high = 0 /\ frequency = 0 /\ sweep_shadow = 0
          /\ sweep_period = 0 /\ sweep_shift = 0 /\ sweep_timer = 0
        BY DEF SweepInit
    <2> QED BY <2>1, <2>2, SweepZero DEF SweepTypeOK
<1> QED BY <1>1, SweepTypeStep, PTL DEF SweepSpec

-----------------------------------------------------------------------------
(* A calculation moves the shadow the way NR10 points, or not at all.        *)
LEMMA SlideDirection ==
    ASSUME SweepTypeOK, Slide
    PROVE  IF sweep_negate THEN sweep_shadow' <= sweep_shadow
                           ELSE ~(sweep_shadow' < sweep_shadow)
<1> DEFINE f == Swept(sweep_shadow)
<1>1. sweep_shadow \in Nat /\ Delta(sweep_shadow) \in Nat
    BY DeltaType, FrequencySizes DEF SweepTypeOK
<1>2. sweep_shadow' \in {f, sweep_shadow}
    BY DEF Slide
<1>3. CASE sweep_negate
    <2>1. f = sweep_shadow - Delta(sweep_shadow)
        BY <1>3 DEF Swept
    <2>2. f <= sweep_shadow
        BY <1>1, <2>1
    <2> HIDE DEF f
    <2> QED BY <1>1, <1>2, <1>3, <2>2
<1>4. CASE ~sweep_negate
    <2>1. f = sweep_shadow + Delta(sweep_shadow)
        BY <1>4 DEF Swept
    <2>2. f \in Nat /\ ~(f < sweep_shadow)
        BY <1>1, <2>1
    <2> HIDE DEF f
    <2> QED BY <1>1, <1>2, <1>4, <2>2
<1> QED BY <1>3, <1>4

(* Between a trigger and the next, only a calculation moves the shadow.      *)
LEMMA ShadowSteps ==
    ASSUME [SweepHNext]_sweepAll, ~Triggers, ~PowerOff
    PROVE  sweep_shadow' = sweep_shadow \/ (ClockSweep /\ Slide)
<1> USE DEF sweep
<1>1. CASE UNCHANGED sweepAll
    BY <1>1 DEF sweepAll, sweepVars
<1>2. CASE SweepHNext
    <2>1. CASE ClockSweep
        BY <2>1 DEF ClockSweep
    <2>2. ASSUME NEW h \in 0 .. HighSize - 1, NEW t \in BOOLEAN, WriteNR14(h, t)
          PROVE  sweep_shadow' = sweep_shadow
        <3>1. ~(t /\ dac_enabled)
            BY <2>2 DEF Triggers
        <3> QED BY <2>2, <3>1 DEF WriteNR14, Trigger
    <2>3. ASSUME NEW p \in Pace, NEW n \in BOOLEAN, NEW s \in Shifts, WriteNR10(p, n, s)
          PROVE  sweep_shadow' = sweep_shadow
        BY <2>3 DEF WriteNR10
    <2>4. ASSUME NEW dac \in BOOLEAN, WriteNR12(dac) PROVE sweep_shadow' = sweep_shadow
        BY <2>4 DEF WriteNR12
    <2>5. ASSUME NEW l \in 0 .. LowSize - 1, WriteNR13(l) PROVE sweep_shadow' = sweep_shadow
        BY <2>5 DEF WriteNR13
    <2>6. CASE RunOut
        BY <2>6 DEF RunOut
    <2> QED BY <1>2, <2>1, <2>2, <2>3, <2>4, <2>5, <2>6 DEF SweepHNext, SweepNext, SweepWrites
<1> QED BY <1>1, <1>2

(* A sweep that lowered the note has set the latch of the code, and a        *)
(* channel that sounds with the latch set is still subtracting.              *)
Latched ==
    /\ fell => sweep_negate_used
    /\ active /\ sweep_negate_used => sweep_negate

(* What lowers the note is a calculation, which sets the latch with it.      *)
LEMMA FellStep ==
    ASSUME SweepTypeOK, [SweepHNext]_sweepAll, fell'
    PROVE  \/ ~Triggers /\ ~PowerOff /\ (fell \/ (ClockSweep /\ Slide /\ sweep_negate))
           \/ UNCHANGED sweepAll
<1>1. CASE SweepHNext
    <2>1. ~Triggers /\ ~PowerOff /\ (fell \/ sweep_shadow' < sweep_shadow)
        BY <1>1 DEF SweepHNext
    <2>2. ~fell => ClockSweep /\ Slide
        <3>1. sweep_shadow \in Int
            BY DEF SweepTypeOK
        <3>2. sweep_shadow' = sweep_shadow => ~(sweep_shadow' < sweep_shadow)
            BY <3>1
        <3> QED BY <2>1, <3>2, ShadowSteps
    <2>3. ~fell => sweep_negate
        BY <2>1, <2>2, SlideDirection
    <2> QED BY <2>1, <2>2, <2>3
<1> QED BY <1>1

LEMMA LatchedStep ==
    ASSUME SweepTypeOK, Latched, [SweepHNext]_sweepAll
    PROVE  Latched'
<1> USE DEF Latched, nr10, sweep, pitch
<1>1. CASE UNCHANGED sweepAll
    BY <1>1 DEF sweepAll, sweepVars
<1>2. CASE SweepHNext
    <2>0. fell' => ~Triggers /\ ~PowerOff
        BY <1>2 DEF SweepHNext
    <2>1. CASE ClockSweep
        <3>1. sweep_negate' = sweep_negate
            BY <2>1 DEF ClockSweep
        <3>2. (sweep_negate_used' /\ active' => sweep_negate) /\ (sweep_negate_used => sweep_negate_used')
            BY <2>1 DEF ClockSweep, Slide
        <3>3. Slide /\ sweep_negate => sweep_negate_used'
            BY DEF Slide
        <3>4. fell' => fell \/ (Slide /\ sweep_negate)
            <4>1. UNCHANGED sweepAll => (fell' => fell)
                BY DEF sweepAll
            <4> QED BY <4>1, FellStep
        <3> QED BY <3>1, <3>2, <3>3, <3>4
    <2>2. CASE ~ClockSweep
        <3>1. fell' => fell
            <4>1. UNCHANGED sweepAll => (fell' => fell)
                BY DEF sweepAll
            <4> QED BY <2>2, <4>1, FellStep
        <3>2. ASSUME NEW h \in 0 .. HighSize - 1, NEW t \in BOOLEAN, WriteNR14(h, t)
              PROVE  Latched'
            <4>1. CASE t /\ dac_enabled
                <5>1. Triggers
                    BY <3>2, <4>1 DEF Triggers
                <5> QED BY <2>0, <3>2, <4>1, <5>1 DEF WriteNR14, Trigger
            <4>2. CASE ~(t /\ dac_enabled)
                BY <3>1, <3>2, <4>2 DEF WriteNR14, Trigger
            <4> QED BY <4>1, <4>2
        <3>3. CASE PowerOff
            BY <2>0, <3>3 DEF PowerOff
        <3>4. ASSUME NEW p \in Pace, NEW n \in BOOLEAN, NEW s \in Shifts, WriteNR10(p, n, s)
              PROVE  Latched'
            BY <3>1, <3>4 DEF WriteNR10
        <3>5. ASSUME NEW dac \in BOOLEAN, WriteNR12(dac) PROVE Latched'
            BY <3>1, <3>5 DEF WriteNR12
        <3>6. ASSUME NEW l \in 0 .. LowSize - 1, WriteNR13(l) PROVE Latched'
            BY <3>1, <3>6 DEF WriteNR13
        <3>7. CASE RunOut
            BY <3>1, <3>7 DEF RunOut
        <3> QED BY <1>2, <2>2, <3>2, <3>3, <3>4, <3>5, <3>6, <3>7 DEF SweepHNext, SweepNext, SweepWrites
    <2> QED BY <2>1, <2>2
<1> QED BY <1>1, <1>2

LEMMA NoteStep ==
    ASSUME SweepTypeOK, Latched, [SweepHNext]_sweepAll, fell, fell', active'
    PROVE  sweep_shadow' <= sweep_shadow
<1>1. sweep_shadow \in Int
    BY DEF SweepTypeOK
<1>2. CASE UNCHANGED sweepAll
    BY <1>1, <1>2 DEF sweepAll, sweepVars, sweep
<1>3. CASE ~Triggers /\ ~PowerOff /\ sweep_shadow' = sweep_shadow
    BY <1>1, <1>3
<1>4. CASE ClockSweep /\ Slide
    <2>1. active' = (active /\ InRange(Swept(Swept(sweep_shadow)))) \/ active' = FALSE
        BY <1>4 DEF Slide
    <2>2. active
        BY <2>1, Zenon
    <2> QED BY <1>4, <2>2, SlideDirection DEF Latched
<1> QED BY <1>2, <1>3, <1>4, FellStep, ShadowSteps

(* A note the sweep has lowered is never raised again before the next        *)
(* trigger, for any sizes.                                                   *)
THEOREM NoteKeepsDirection == SweepHSpec => NoteNeverTurns
<1>1. SweepHInit => Latched
    BY DEF SweepHInit, SweepInit, Latched
<1>2. SweepTypeOK /\ Latched /\ [SweepHNext]_sweepAll => Latched'
    BY LatchedStep
<1>3. SweepTypeOK /\ Latched /\ [SweepHNext]_sweepAll
        => [fell /\ fell' /\ active' => sweep_shadow' <= sweep_shadow]_sweepAll
    BY NoteStep
<1>4. SweepHSpec => []SweepTypeOK
    <2>1. SweepHInit => SweepInit
        BY DEF SweepHInit
    <2>2. [SweepHNext]_sweepAll => [SweepNext]_sweepVars
        BY DEF SweepHNext, sweepAll
    <2>3. SweepHSpec => SweepSpec
        BY <2>1, <2>2, PTL DEF SweepHSpec, SweepSpec
    <2> QED BY <2>3, SweepTypeCorrect
<1> QED BY <1>1, <1>2, <1>3, <1>4, PTL DEF SweepHSpec, NoteNeverTurns

-----------------------------------------------------------------------------

Contents == Samples \cup {Silence}

\* The write position follows from the other two.
RingInv == RingTypeOK /\ ring_write = Ahead(ring_read, ring_count)

LEMMA AheadTypes ==
    ASSUME NEW i \in Slots, NEW n \in 0 .. Capacity
    PROVE  Ahead(i, n) \in Slots
BY RingAssumption DEF Slots, Ahead

\* Steps around the ring add up.
LEMMA AheadAdds ==
    ASSUME NEW i \in Slots, NEW m \in 0 .. Capacity, NEW n \in 0 .. Capacity,
           m + n <= Capacity
    PROVE  Ahead(Ahead(i, m), n) = Ahead(i, m + n)
BY RingAssumption DEF Slots, Ahead

\* Two distances below the capacity lead to two slots.
LEMMA AheadInjective ==
    ASSUME NEW i \in Slots, NEW m \in 0 .. Capacity - 1, NEW n \in 0 .. Capacity - 1,
           Ahead(i, m) = Ahead(i, n)
    PROVE  m = n
BY RingAssumption DEF Slots, Ahead

LEMMA AheadFull == ASSUME NEW i \in Slots PROVE Ahead(i, Capacity) = i /\ Ahead(i, 0) = i
BY RingAssumption DEF Slots, Ahead

\* A view of the ring is a sequence of its slots.
LEMMA ViewIsSeq ==
    ASSUME NEW slots \in [Slots -> Contents], NEW first \in Slots,
           NEW count \in 0 .. Capacity
    PROVE  /\ View(slots, first, count) \in Seq(Contents)
           /\ Len(View(slots, first, count)) = count
           /\ \A i \in 1 .. count :
                View(slots, first, count)[i] = slots[Ahead(first, i - 1)]
<1> DEFINE v == View(slots, first, count)
<1>0. count \in Nat
    BY RingAssumption
<1>1. ASSUME NEW i \in 1 .. count PROVE slots[Ahead(first, i - 1)] \in Contents
    <2>1. i - 1 \in 0 .. Capacity
        BY <1>0, RingAssumption
    <2> QED BY <2>1, AheadTypes
<1>2. v \in [1 .. count -> Contents]
    BY <1>1 DEF View
<1>3. v \in Seq(Contents)
    BY <1>0, <1>2, SeqDef
<1>4. Len(v) \in Nat /\ 1 .. Len(v) = 1 .. count
    BY <1>2, <1>3, LenProperties
<1>5. Len(v) = count
    BY <1>0, <1>4
<1> QED BY <1>3, <1>5 DEF View

LEMMA InvInit == RingInit => RingInv
BY RingAssumption DEF RingInit, RingInv, RingTypeOK, Slots, Ahead

LEMMA InvRender ==
    ASSUME RingInv, NEW s \in Samples, Render(s)
    PROVE  RingInv'
<1>1. /\ ring_read \in Slots /\ ring_write \in Slots /\ ring_count \in 0 .. Capacity
      /\ ring \in [Slots -> Contents] /\ dropped_frames \in 0 .. MaxDropped
      /\ ring_write = Ahead(ring_read, ring_count)
    BY DEF RingInv, RingTypeOK, Contents
<1>2. 1 \in 0 .. Capacity
    BY RingAssumption
<1>3. ring' \in [Slots -> Contents] /\ ring_write' \in Slots
    BY <1>1, <1>2, AheadTypes DEF Render, Contents
<1>4. dropped_frames' \in 0 .. MaxDropped
    BY <1>1, RingAssumption DEF Render
<1>5. CASE Full
    <2>1. ring_count' = Capacity /\ ring_count = Capacity /\ ring_read' = Ahead(ring_read, 1)
        BY <1>5 DEF Render, Full
    <2>2. ring_read' \in Slots
        BY <1>1, <1>2, <2>1, AheadTypes
    <2>3. ring_write' = Ahead(ring_read', ring_count')
        BY <1>1, <2>1, <2>2, AheadFull DEF Render
    <2>4. ring_count' \in 0 .. Capacity
        BY <1>1, <2>1
    <2> QED BY <1>3, <1>4, <2>2, <2>3, <2>4 DEF RingInv, RingTypeOK, Contents
<1>6. CASE ~Full
    <2>1. ring_count' = ring_count + 1 /\ ring_read' = ring_read
        BY <1>6 DEF Render
    <2>2. ring_count + 1 \in 0 .. Capacity
        BY <1>1, <1>6, RingAssumption DEF Full
    <2>3. Ahead(Ahead(ring_read, ring_count), 1) = Ahead(ring_read, ring_count + 1)
        BY <1>1, <1>2, <2>2, AheadAdds
    <2> QED BY <1>1, <1>3, <1>4, <2>1, <2>2, <2>3 DEF RingInv, RingTypeOK, Contents, Render
<1> QED BY <1>5, <1>6

LEMMA InvRead ==
    ASSUME RingInv, NEW n \in Batches, ReadSamples(n)
    PROVE  /\ RingInv'
           /\ \E k \in 0 .. ring_count :
                ring_count' = ring_count - k /\ ring_read' = Ahead(ring_read, k)
<1> DEFINE k == IF ring_count < n THEN ring_count ELSE n
<1>1. /\ ring_read \in Slots /\ ring_count \in 0 .. Capacity
      /\ ring_write = Ahead(ring_read, ring_count)
    BY DEF RingInv, RingTypeOK
<1>2. k \in 0 .. ring_count /\ k \in 0 .. Capacity /\ ring_count - k \in 0 .. Capacity
    BY <1>1, RingAssumption
<1>3. ring_read' = Ahead(ring_read, k) /\ ring_count' = ring_count - k
    BY DEF ReadSamples
<1> HIDE DEF k
<1>4. k + (ring_count - k) = ring_count
    BY <1>1, <1>2
<1>5. Ahead(Ahead(ring_read, k), ring_count - k) = Ahead(ring_read, ring_count)
    BY <1>1, <1>2, <1>4, AheadAdds
<1>6. Ahead(ring_read, k) \in Slots
    BY <1>1, <1>2, AheadTypes
<1> QED BY <1>1, <1>2, <1>3, <1>5, <1>6 DEF RingInv, RingTypeOK, ReadSamples

\* The invariant is kept by every step.
LEMMA InvStep == RingInv /\ [RingNext]_ringVars => RingInv'
<1> SUFFICES ASSUME RingInv, [RingNext]_ringVars PROVE RingInv'
    OBVIOUS
<1>1. CASE \E s \in Samples : Render(s)
    BY <1>1, InvRender
<1>2. CASE \E n \in Batches : ReadSamples(n)
    BY <1>2, InvRead
<1>3. CASE ResetRing
    BY <1>3, RingAssumption DEF ResetRing, RingInv, RingTypeOK, Slots, Ahead
<1>4. CASE UNCHANGED ringVars
    BY <1>4 DEF RingInv, RingTypeOK, ringVars
<1> QED BY <1>1, <1>2, <1>3, <1>4 DEF RingNext

\* The positions and counters of the ring keep their ranges.
THEOREM RingTypeCorrect == RingSpec => []RingTypeOK
<1>1. RingInv => RingTypeOK
    BY DEF RingInv
<1> QED BY InvInit, InvStep, <1>1, PTL DEF RingSpec

-----------------------------------------------------------------------------
\* The views before and after a step, as sequences.
LEMMA Views ==
    ASSUME RingInv, RingInv'
    PROVE  /\ Queued \in Seq(Contents) /\ Len(Queued) = ring_count
           /\ \A i \in 1 .. ring_count : Queued[i] = ring[Ahead(ring_read, i - 1)]
           /\ Queued' \in Seq(Contents) /\ Len(Queued') = ring_count'
           /\ \A i \in 1 .. ring_count' : Queued'[i] = ring'[Ahead(ring_read', i - 1)]
BY ViewIsSeq DEF RingInv, RingTypeOK, Contents, Queued

\* A slot other than the one written keeps its sample.
LEMMA RenderKeeps ==
    ASSUME RingInv, NEW s \in Samples, Render(s), NEW d \in 0 .. Capacity - 1
    PROVE  ring'[Ahead(ring_read, d)] =
               IF d = (IF Full THEN 0 ELSE ring_count) THEN s
               ELSE ring[Ahead(ring_read, d)]
<1> DEFINE w == IF Full THEN 0 ELSE ring_count
<1>1. ring_read \in Slots /\ ring_count \in 0 .. Capacity /\ ring \in [Slots -> Contents]
      /\ ring_write = Ahead(ring_read, ring_count)
    BY DEF RingInv, RingTypeOK, Contents
<1>2. w \in 0 .. Capacity - 1 /\ ring_write = Ahead(ring_read, w)
    BY <1>1, AheadFull, RingAssumption DEF Full
<1>3. d \in 0 .. Capacity
    BY RingAssumption
<1>4. Ahead(ring_read, d) \in Slots
    BY <1>1, <1>3, AheadTypes
<1>5. ring' = [ring EXCEPT ![ring_write] = s]
    BY DEF Render
<1> HIDE DEF w
<1>6. Ahead(ring_read, d) = ring_write <=> d = w
    BY <1>1, <1>2, AheadInjective
<1>7. ring'[Ahead(ring_read, d)] = IF d = w THEN s ELSE ring[Ahead(ring_read, d)]
    BY <1>1, <1>4, <1>5, <1>6
<1> QED BY <1>7 DEF w

\* Rendering a sample is Put of the abstract queue.
LEMMA RenderPuts ==
    ASSUME RingInv, NEW s \in Samples, Render(s)
    PROVE  Queue!Put(s)
<1>1. RingInv'
    BY InvRender
<1>2. /\ ring_read \in Slots /\ ring_count \in 0 .. Capacity
      /\ Capacity \in Nat /\ Capacity > 0 /\ s \in Contents
    BY RingAssumption DEF RingInv, RingTypeOK, Contents
<1>3. CASE ~Full
    <2>1. ring_count' = ring_count + 1 /\ ring_read' = ring_read /\ ring_count < Capacity
        BY <1>2, <1>3 DEF Render, Full
    <2> DEFINE q == Append(Queued, s)
    <2>2. q \in Seq(Contents) /\ Len(q) = ring_count + 1
          /\ (\A i \in 1 .. ring_count : q[i] = Queued[i]) /\ q[ring_count + 1] = s
        BY <1>1, <1>2, Views, AppendProperties
    <2>3. ASSUME NEW i \in 1 .. ring_count + 1 PROVE Queued'[i] = q[i]
        <3>1. i - 1 \in 0 .. Capacity - 1
            BY <1>2, <2>1
        <3>2. Queued'[i] = ring'[Ahead(ring_read, i - 1)]
            BY <1>1, <2>1, Views
        <3>3. CASE i = ring_count + 1
            BY <1>2, <1>3, <2>2, <3>1, <3>2, <3>3, RenderKeeps
        <3>4. CASE i # ring_count + 1
            <4>1. i \in 1 .. ring_count /\ i - 1 # ring_count
                BY <1>2, <3>4
            <4>2. Queued'[i] = ring[Ahead(ring_read, i - 1)]
                BY <1>3, <3>1, <3>2, <4>1, RenderKeeps
            <4> QED BY <1>1, <2>2, <4>1, <4>2, Views
        <3> QED BY <3>3, <3>4
    <2> HIDE DEF q
    <2>4. Queued' \in Seq(Contents) /\ Len(Queued') = ring_count + 1
        BY <1>1, <2>1, Views
    <2>5. Queued' = q
        BY <2>2, <2>3, <2>4, SeqEqual
    <2>6. Len(Queued) = ring_count /\ dropped_frames' = dropped_frames
        BY <1>1, <1>3, Views DEF Render
    <2> QED BY <2>1, <2>5, <2>6 DEF Queue!Put, q
<1>4. CASE Full
    <2>1. ring_count' = Capacity /\ ring_read' = Ahead(ring_read, 1) /\ ring_count = Capacity
        BY <1>4 DEF Render, Full
    <2> DEFINE q == Append(Tail(Queued), s)
    <2>2. Queued \in Seq(Contents) /\ Len(Queued) = Capacity
        BY <1>1, <2>1, Views
    <2>3. Queued # << >>
        BY <1>2, <2>2, EmptySeq
    <2>4. /\ Tail(Queued) \in Seq(Contents) /\ Len(Tail(Queued)) = Capacity - 1
          /\ \A i \in 1 .. Capacity - 1 : Tail(Queued)[i] = Queued[i + 1]
        BY <2>2, <2>3, HeadTailProperties
    <2>5. q \in Seq(Contents) /\ Len(q) = Capacity
          /\ (\A i \in 1 .. Capacity - 1 : q[i] = Queued[i + 1]) /\ q[Capacity] = s
        BY <1>2, <2>4, AppendProperties
    <2>6. ASSUME NEW i \in 1 .. Capacity PROVE Queued'[i] = q[i]
        <3>1. i - 1 \in 0 .. Capacity /\ 1 \in 0 .. Capacity /\ 1 + (i - 1) = i
              /\ 1 + (i - 1) <= Capacity
            BY <1>2
        <3>2. Queued'[i] = ring'[Ahead(ring_read', i - 1)]
            BY <1>1, <2>1, Views
        <3>3. Queued'[i] = ring'[Ahead(ring_read, i)]
            BY <1>2, <2>1, <3>1, <3>2, AheadAdds
        <3>4. CASE i = Capacity
            <4>1. Ahead(ring_read, i) = Ahead(ring_read, 0) /\ 0 \in 0 .. Capacity - 1
                BY <1>2, <3>4, AheadFull
            <4>2. ring'[Ahead(ring_read, 0)] = s
                BY <1>4, <4>1, RenderKeeps
            <4> QED BY <2>5, <3>3, <3>4, <4>1, <4>2
        <3>5. CASE i # Capacity
            <4>1. i \in 1 .. Capacity - 1 /\ i \in 0 .. Capacity - 1 /\ i # 0
                  /\ i + 1 \in 1 .. Capacity /\ (i + 1) - 1 = i
                BY <1>2, <3>5
            <4>2. Queued'[i] = ring[Ahead(ring_read, i)]
                BY <1>4, <3>3, <4>1, RenderKeeps
            <4>3. Queued[i + 1] = ring[Ahead(ring_read, (i + 1) - 1)]
                BY <1>1, <2>1, <4>1, Views
            <4> QED BY <2>5, <4>1, <4>2, <4>3
        <3> QED BY <3>4, <3>5
    <2> HIDE DEF q
    <2>7. Queued' \in Seq(Contents) /\ Len(Queued') = Capacity
        BY <1>1, <2>1, Views
    <2>8. Queued' = q
        BY <2>5, <2>6, <2>7, SeqEqual
    <2>9. dropped_frames' = dropped_frames + 1
        BY <1>4 DEF Render
    <2>10. ~(Len(Queued) < Capacity)
        BY <1>2, <2>2
    <2> QED BY <2>8, <2>9, <2>10 DEF Queue!Put, q
<1> QED BY <1>3, <1>4

\* Reading a batch is Take of the abstract queue, or changes nothing.
LEMMA ReadTakes ==
    ASSUME RingInv, NEW n \in Batches, ReadSamples(n)
    PROVE  (\E k \in 1 .. Len(Queued) : Queue!Take(k)) \/ UNCHANGED <<Queued, dropped_frames>>
<1>1. RingInv'
    BY InvRead
<1>2. PICK k \in 0 .. ring_count :
          ring_count' = ring_count - k /\ ring_read' = Ahead(ring_read, k)
    BY InvRead
<1>3. /\ ring_read \in Slots /\ ring_count \in 0 .. Capacity /\ Capacity \in Nat
      /\ ring' = ring /\ dropped_frames' = dropped_frames
    BY RingAssumption DEF RingInv, RingTypeOK, ReadSamples
<1> DEFINE q == SubSeq(Queued, k + 1, ring_count)
<1>4. Queued \in Seq(Contents) /\ Len(Queued) = ring_count
    BY <1>1, Views
<1>5. ASSUME NEW i \in (k + 1) .. ring_count PROVE Queued[i] \in Contents
    <2>1. i \in 1 .. Len(Queued)
        BY <1>3, <1>4
    <2> QED BY <1>4, <2>1, ElementOfSeq
<1>6. q \in Seq(Contents) /\ Len(q) = ring_count - k
      /\ \A i \in 1 .. ring_count - k : q[i] = Queued[k + i]
    <2>1. k + 1 \in Int /\ ring_count \in Int
        BY <1>3
    <2>2. /\ q \in Seq(Contents)
          /\ Len(q) = IF k + 1 <= ring_count THEN ring_count - (k + 1) + 1 ELSE 0
          /\ \A i \in 1 .. ring_count - (k + 1) + 1 : q[i] = Queued[(k + 1) + i - 1]
        BY <1>5, <2>1, SubSeqProperties
    <2>3. ring_count - (k + 1) + 1 = ring_count - k
        BY <1>3
    <2>4. ASSUME NEW i \in 1 .. ring_count - k PROVE (k + 1) + i - 1 = k + i
        BY <1>3
    <2>5. Len(q) = ring_count - k
        BY <1>3, <2>2
    <2> QED BY <2>2, <2>3, <2>4, <2>5
<1> HIDE DEF q
<1>7. ASSUME NEW i \in 1 .. ring_count - k PROVE Queued'[i] = q[i]
    <2>1. /\ k \in 0 .. Capacity /\ i - 1 \in 0 .. Capacity /\ k + (i - 1) <= Capacity
          /\ k + i \in 1 .. ring_count /\ k + (i - 1) = (k + i) - 1
        BY <1>3
    <2>2. Queued'[i] = ring[Ahead(Ahead(ring_read, k), i - 1)]
        BY <1>1, <1>2, <1>3, Views
    <2>3. Queued'[i] = ring[Ahead(ring_read, (k + i) - 1)]
        BY <1>3, <2>1, <2>2, AheadAdds
    <2>4. Queued[k + i] = ring[Ahead(ring_read, (k + i) - 1)]
        BY <1>1, <2>1, Views
    <2> QED BY <1>6, <2>3, <2>4
<1>8. Queued' \in Seq(Contents) /\ Len(Queued') = ring_count - k
    BY <1>1, <1>2, Views
<1>9. Queued' = q
    BY <1>6, <1>7, <1>8, SeqEqual
<1>10. CASE k = 0
    <2>1. q = SubSeq(Queued, 1, Len(Queued))
        BY <1>4, <1>10 DEF q
    <2>2. q = Queued
        BY <1>4, <2>1, SubSeqFull
    <2> QED BY <1>3, <1>9, <2>2
<1>11. CASE k # 0
    <2>1. k \in 1 .. Len(Queued)
        BY <1>3, <1>4, <1>11
    <2>2. Queue!Take(k)
        BY <1>3, <1>4, <1>9 DEF Queue!Take, q
    <2> QED BY <2>1, <2>2
<1> QED BY <1>10, <1>11

\* Nothing queued is the empty sequence.
LEMMA EmptyView == ASSUME RingInv, RingInv', ring_count' = 0 PROVE Queued' = << >>
<1>1. Queued' \in Seq(Contents) /\ Len(Queued') = 0
    BY Views
<1> QED BY <1>1, EmptySeq

\* The ring is a queue that drops its oldest sample.
THEOREM RingIsQueue == RingSpec => IsDropOldest
<1>1. RingInit => Queue!Init
    <2> SUFFICES ASSUME RingInit PROVE Queued = << >> /\ dropped_frames = 0
        BY DEF Queue!Init
    <2>1. Queued \in Seq(Contents) /\ Len(Queued) = 0
        <3>1. RingInv
            BY InvInit
        <3>2. ring \in [Slots -> Contents] /\ ring_read \in Slots /\ ring_count \in 0 .. Capacity
            BY <3>1 DEF RingInv, RingTypeOK, Contents
        <3> QED BY <3>2, ViewIsSeq DEF Queued, RingInit
    <2> QED BY <2>1, EmptySeq DEF RingInit
<1>2. RingInv /\ RingInv' /\ [RingNext]_ringVars => [Queue!Next]_<<Queued, dropped_frames>>
    <2> SUFFICES ASSUME RingInv, RingInv', [RingNext]_ringVars
                 PROVE  Queue!Next \/ UNCHANGED <<Queued, dropped_frames>>
        OBVIOUS
    <2>1. CASE \E s \in Samples : Render(s)
        BY <2>1, RenderPuts DEF Queue!Next
    <2>2. CASE \E n \in Batches : ReadSamples(n)
        BY <2>2, ReadTakes DEF Queue!Next
    <2>3. CASE ResetRing
        <3>1. Queued' = << >> /\ dropped_frames' = 0
            BY <2>3, EmptyView DEF ResetRing
        <3> QED BY <3>1 DEF Queue!Next, Queue!Clear
    <2>4. CASE UNCHANGED ringVars
        BY <2>4 DEF ringVars, Queued
    <2> QED BY <2>1, <2>2, <2>3, <2>4 DEF RingNext
<1> QED BY InvInit, InvStep, <1>1, <1>2, PTL DEF RingSpec, IsDropOldest, Queue!Spec

-----------------------------------------------------------------------------
(* A channel in its ranges that sounds only with its DAC on and a length     *)
(* left.                                                                     *)
Driven(r) == r.active => r.dac_enabled /\ r.length > 0
Sound(c, r) == r \in Channel(c) /\ Driven(r)

ApuInv ==
    /\ ApuTypeOK
    /\ chan = [c \in Channels |-> chan[c]]
    /\ \A c \in Channels : Sound(c, chan[c])
    /\ ~powered_on => chan = Silent

LEMMA ApuTypes ==
    /\ \A c \in Channels : LengthSize[c] \in Nat \ {0}
    /\ VolumeSize \in Nat \ {0} /\ PeriodSize \in Nat \ {0} /\ FallbackPeriod \in Nat \ {0}
BY ApuAssumption

\* Nothing sounds after a reset or without power.
LEMMA ClearedIsSound ==
    ASSUME NEW c \in Channels
    PROVE  Sound(c, Cleared)
BY ApuTypes DEF Sound, Driven, Cleared, Channel, Lengths, Volumes, Periods

\* A length that runs out silences its channel.
LEMMA LengthKeepsSound ==
    ASSUME NEW c \in Channels, NEW r, Sound(c, r), NEW on \in BOOLEAN
    PROVE  Sound(c, [LengthClocked(r) EXCEPT !.active = @ /\ on])
<1>1. CASE r.length_enabled /\ r.length > 0
    <2>1. [LengthClocked(r) EXCEPT !.active = @ /\ on]
            = [r EXCEPT !.length = r.length - 1, !.active = (r.active /\ r.length > 1) /\ on]
        BY <1>1 DEF LengthClocked, Sound, Channel
    <2>2. r.length - 1 \in Lengths(c)
        BY <1>1, ApuTypes DEF Sound, Channel, Lengths
    <2>3. CASE r.length > 1
        <3>1. (r.active /\ r.length > 1) /\ on <=> (r.active /\ on)
            BY <2>3
        <3>2. ((r.active /\ r.length > 1) /\ on) \in BOOLEAN
            OBVIOUS
        <3>3. r \in Channel(c) /\ r.length - 1 > 0
            BY <1>1, <2>3, ApuTypes DEF Sound, Channel, Lengths
        <3>4. (r.active => r.dac_enabled)
            BY DEF Sound, Driven
        <3> DEFINE sounds == (r.active /\ r.length > 1) /\ on
        <3> HIDE DEF sounds
        <3>5. [r EXCEPT !.length = r.length - 1, !.active = sounds] \in Channel(c)
            BY <2>2, <3>2, <3>3 DEF Channel, sounds
        <3> QED BY <2>1, <3>1, <3>3, <3>4, <3>5 DEF Sound, Driven, Channel, sounds
    <2>4. CASE ~(r.length > 1)
        BY <2>1, <2>2, <2>4 DEF Sound, Driven, Channel
    <2> QED BY <2>3, <2>4
<1>2. CASE ~(r.length_enabled /\ r.length > 0)
    BY <1>2, ApuTypes DEF LengthClocked, Sound, Driven, Channel, Lengths
<1> QED BY <1>1, <1>2

LEMMA EnvelopeKeepsSound ==
    ASSUME NEW c \in Channels, NEW r, Sound(c, r)
    PROVE  Sound(c, EnvelopeClocked(r))
<1> USE ApuTypes DEF Sound, Driven, Channel, Volumes, Periods
<1>1. Step(r.volume, r.add) \in Volumes
    BY DEF Step
<1>2. CASE r.period = 0
    BY <1>2 DEF EnvelopeClocked
<1>3. CASE r.period # 0 /\ r.envelope_timer > 1
    BY <1>3 DEF EnvelopeClocked
<1>4. CASE r.period # 0 /\ ~(r.envelope_timer > 1)
    <2>1. EnvelopeClocked(r) = [r EXCEPT !.envelope_timer = r.period,
                                         !.volume = Step(r.volume, r.add)]
        BY <1>4 DEF EnvelopeClocked
    <2>2. r.period \in 0 .. PeriodSize
        OBVIOUS
    <2> QED BY <1>1, <2>1, <2>2
<1> QED BY <1>2, <1>3, <1>4

\* A trigger reloads a length of zero.
LEMMA TriggerKeepsSound ==
    ASSUME NEW c \in Channels, NEW r \in Channel(c), r.dac_enabled, NEW silenced \in BOOLEAN
    PROVE  Sound(c, Triggered(c, r, silenced))
<1> USE ApuTypes DEF Channel, Lengths, Volumes, Periods
<1> DEFINE t == Triggered(c, r, silenced)
<1> DEFINE len == IF r.length = 0 THEN LengthSize[c] ELSE r.length
           vol == IF HasEnvelope(c) THEN r.initial ELSE r.volume
           env == IF ~HasEnvelope(c) THEN r.envelope_timer
                  ELSE IF r.period = 0 THEN PeriodSize ELSE r.period
           on == ~silenced
<1>1. t = [r EXCEPT !.length = len, !.active = on, !.volume = vol, !.envelope_timer = env]
    BY DEF Triggered
<1>2. len \in 0 .. LengthSize[c] /\ len > 0 /\ vol \in Volumes /\ env \in 0 .. PeriodSize
    OBVIOUS
<1>3. on \in BOOLEAN
    OBVIOUS
<1> HIDE DEF len, vol, env, on
<1> QED BY <1>1, <1>2, <1>3 DEF Sound, Driven

-----------------------------------------------------------------------------
LEMMA SequencerKeepsSound ==
    ASSUME ApuInv, ClockSequencer
    PROVE  /\ frame_step' \in 0 .. 7
           /\ chan' = [c \in Channels |-> chan'[c]]
           /\ \A c \in Channels : Sound(c, chan'[c])
<1>1. PICK silenced \in BOOLEAN :
          chan' = [c \in Channels |->
              IF frame_step \in Lengths4
              THEN [LengthClocked(chan[c]) EXCEPT !.active = @ /\ ~(silenced /\ c = 1)]
              ELSE IF frame_step = 7 /\ HasEnvelope(c) THEN EnvelopeClocked(chan[c])
              ELSE chan[c]]
    BY DEF ClockSequencer
<1>2. ASSUME NEW c \in Channels PROVE Sound(c, chan'[c])
    <2>1. Sound(c, chan[c])
        BY DEF ApuInv
    <2>2. (~(silenced /\ c = 1)) \in BOOLEAN
        OBVIOUS
    <2>3. CASE frame_step \in Lengths4
        BY <1>1, <2>1, <2>2, <2>3, LengthKeepsSound
    <2>4. CASE frame_step \notin Lengths4 /\ frame_step = 7 /\ HasEnvelope(c)
        BY <1>1, <2>1, <2>4, EnvelopeKeepsSound
    <2>5. CASE frame_step \notin Lengths4 /\ ~(frame_step = 7 /\ HasEnvelope(c))
        BY <1>1, <2>1, <2>5
    <2> QED BY <2>3, <2>4, <2>5
<1>3. frame_step' \in 0 .. 7
    BY DEF ClockSequencer, ApuInv, ApuTypeOK
<1> QED BY <1>1, <1>2, <1>3

\* A write that leaves one channel sound leaves the unit so.
LEMMA OneChannelWritten ==
    ASSUME ApuInv, Write, NEW w \in Channels, NEW r, Sound(w, r), chan' = [chan EXCEPT ![w] = r]
    PROVE  ApuInv'
<1>1. chan' = [c \in Channels |-> chan'[c]] /\ \A c \in Channels : Sound(c, chan'[c])
    BY DEF ApuInv
<1>2. /\ powered_on' \in BOOLEAN /\ frame_step' \in 0 .. 7 /\ timer' \in BOOLEAN
      /\ fallback_frame_cycles' \in 0 .. FallbackPeriod - 1 /\ powered_on'
    BY DEF Write, ApuInv, ApuTypeOK
<1> QED BY <1>1, <1>2 DEF ApuInv, ApuTypeOK, Sound

LEMMA ApuInductive ==
    ASSUME ApuInv, [ApuNext]_apuVars
    PROVE  ApuInv'
<1> USE ApuTypes
<1>0. \A c \in Channels : Sound(c, chan[c]) /\ chan[c] \in Channel(c)
    BY DEF ApuInv, Sound
<1>s. Silent = [c \in Channels |-> Silent[c]] /\ \A c \in Channels : Sound(c, Silent[c])
    BY ClearedIsSound DEF Silent
<1>1. CASE TimerClock
    <2>1. /\ powered_on' \in BOOLEAN /\ powered_on' /\ timer' \in BOOLEAN
          /\ fallback_frame_cycles' \in 0 .. FallbackPeriod - 1
        BY <1>1 DEF TimerClock, ApuInv, ApuTypeOK
    <2>2. ClockSequencer
        BY <1>1 DEF TimerClock
    <2> QED BY <2>1, <2>2, SequencerKeepsSound DEF ApuInv, ApuTypeOK, Sound
<1>2. CASE FallbackTick
    <2>1. /\ powered_on' \in BOOLEAN /\ powered_on' /\ timer' \in BOOLEAN
          /\ fallback_frame_cycles' \in 0 .. FallbackPeriod - 1
        BY <1>2 DEF FallbackTick, ApuInv, ApuTypeOK
    <2>2. CASE ClockSequencer
        BY <2>1, <2>2, SequencerKeepsSound DEF ApuInv, ApuTypeOK, Sound
    <2>3. CASE UNCHANGED <<frame_step, chan>>
        BY <2>1, <2>3 DEF ApuInv, ApuTypeOK, Sound
    <2> QED BY <1>2, <2>2, <2>3 DEF FallbackTick
<1>3. ASSUME NEW on \in BOOLEAN, Power(on) PROVE ApuInv'
    <2>1. CASE powered_on /\ ~on
        BY <1>3, <1>s, <2>1 DEF Power, ApuInv, ApuTypeOK, Sound
    <2>2. CASE ~(powered_on /\ ~on)
        <3>1. UNCHANGED <<frame_step, chan, fallback_frame_cycles, timer>> /\ powered_on' = on
            BY <1>3, <2>2 DEF Power
        <3>2. ~on => chan = Silent
            BY <2>2 DEF ApuInv
        <3> QED BY <3>1, <3>2 DEF ApuInv, ApuTypeOK, Sound
    <2> QED BY <2>1, <2>2
<1>4. ASSUME NEW c \in Channels, NEW v \in 0 .. LengthSize[c] - 1, WriteLength(c, v)
      PROVE  ApuInv'
    <2>1. Sound(c, [chan[c] EXCEPT !.length = LengthSize[c] - v])
        BY <1>0 DEF Sound, Driven, Channel, Lengths
    <2>2. chan' = [chan EXCEPT ![c] = [chan[c] EXCEPT !.length = LengthSize[c] - v]]
        BY <1>4 DEF WriteLength
    <2> QED BY <1>4, <2>1, <2>2, OneChannelWritten DEF WriteLength
<1>5. ASSUME NEW c \in Channels, NEW i \in Volumes, NEW a \in BOOLEAN, NEW p \in Periods,
             WriteEnvelope(c, i, a, p)
      PROVE  ApuInv'
    <2> DEFINE dac == i > 0 \/ a
               r == [chan[c] EXCEPT !.initial = i, !.add = a, !.period = p,
                                    !.dac_enabled = dac, !.active = @ /\ dac]
    <2>1. dac \in BOOLEAN
        OBVIOUS
    <2>2. chan' = [chan EXCEPT ![c] = r] /\ Write
        BY <1>5 DEF WriteEnvelope, ApuInv
    <2> HIDE DEF dac
    <2>3. Sound(c, r)
        BY <1>0, <2>1, ZenonT(60) DEF Sound, Driven, Channel
    <2> HIDE DEF r
    <2> QED BY <2>2, <2>3, OneChannelWritten
<1>6. ASSUME NEW c \in Channels, NEW t \in BOOLEAN, NEW e \in BOOLEAN, WriteControl(c, t, e)
      PROVE  ApuInv'
    <2> DEFINE r == [chan[c] EXCEPT !.length_enabled = e]
    <2>1. Sound(c, r) /\ r \in Channel(c)
        BY <1>0 DEF Sound, Driven, Channel
    <2>2. Sound(c, [r EXCEPT !.active = FALSE])
        BY <2>1 DEF Sound, Driven, Channel
    <2>3. PICK silenced \in BOOLEAN :
              chan' = [chan EXCEPT ![c] = IF ~t THEN r
                                          ELSE IF ~r.dac_enabled THEN [r EXCEPT !.active = FALSE]
                                          ELSE Triggered(c, r, silenced)]
        BY <1>6 DEF WriteControl
    <2>4. Write
        BY <1>6 DEF WriteControl
    <2> HIDE DEF r
    <2>5. CASE ~t
        BY <2>1, <2>3, <2>4, <2>5, OneChannelWritten
    <2>6. CASE t /\ ~r.dac_enabled
        BY <2>2, <2>3, <2>4, <2>6, OneChannelWritten
    <2>7. CASE t /\ r.dac_enabled
        <3>1. Sound(c, Triggered(c, r, silenced))
            BY <2>1, <2>7, TriggerKeepsSound
        <3> QED BY <2>3, <2>4, <2>7, <3>1, OneChannelWritten
    <2> QED BY <2>5, <2>6, <2>7
<1>7. ASSUME NEW dac \in BOOLEAN, WriteDac(dac) PROVE ApuInv'
    <2> DEFINE r == [chan[3] EXCEPT !.dac_enabled = dac, !.active = @ /\ dac]
    <2>1. chan' = [chan EXCEPT ![3] = r] /\ Write /\ 3 \in Channels
        BY <1>7 DEF WriteDac, ApuInv
    <2>2. Sound(3, r)
        BY <1>0, <2>1, ZenonT(60) DEF Sound, Driven, Channel
    <2> HIDE DEF r
    <2> QED BY <2>1, <2>2, OneChannelWritten
<1>8. CASE WriteSweep
    <2> DEFINE r == [chan[1] EXCEPT !.active = FALSE]
    <2>1. chan' = [chan EXCEPT ![1] = r] /\ Write /\ 1 \in Channels
        BY <1>8 DEF WriteSweep, ApuInv
    <2>2. Sound(1, r)
        BY <1>0, <2>1, ZenonT(60) DEF Sound, Driven, Channel
    <2> HIDE DEF r
    <2> QED BY <2>1, <2>2, OneChannelWritten
<1>9. CASE Reset
    <2>1. /\ powered_on' \in BOOLEAN /\ ~powered_on' /\ timer' \in BOOLEAN
          /\ chan' = Silent /\ frame_step' = 0 /\ fallback_frame_cycles' = 0
        BY <1>9, Zenon DEF Reset
    <2>2. DOMAIN Silent = Channels
        BY DEF Silent
    <2> QED BY <1>s, <2>1, <2>2 DEF ApuInv, ApuTypeOK, Sound
<1>10. CASE UNCHANGED apuVars
    BY <1>10 DEF apuVars, ApuInv, ApuTypeOK, Sound
<1> QED
    BY <1>1, <1>2, <1>3, <1>4, <1>5, <1>6, <1>7, <1>8, <1>9, <1>10
    DEF ApuNext, Clocks, Writes

LEMMA ApuInvariant == ApuSpec => []ApuInv
<1>1. ApuInit => ApuInv
    <2>1. Silent = [c \in Channels |-> Silent[c]] /\ \A c \in Channels : Sound(c, Silent[c])
        BY ClearedIsSound DEF Silent
    <2>2. DOMAIN Silent = Channels
        BY DEF Silent
    <2>3. ApuInit => powered_on \in BOOLEAN /\ ~powered_on /\ timer \in BOOLEAN
        BY Zenon DEF ApuInit
    <2>4. ApuInit => chan = Silent /\ frame_step = 0 /\ fallback_frame_cycles = 0
        BY DEF ApuInit
    <2> QED BY <2>1, <2>2, <2>3, <2>4, ApuTypes DEF ApuInv, ApuTypeOK, Sound
<1>2. ApuInv /\ [ApuNext]_apuVars => ApuInv'
    BY ApuInductive
<1> QED BY <1>1, <1>2, PTL DEF ApuSpec

(* Every register of every channel stays in its range.                       *)
THEOREM ApuTypeCorrect == ApuSpec => []ApuTypeOK
<1>1. ApuInv => ApuTypeOK
    BY DEF ApuInv
<1> QED BY <1>1, ApuInvariant, PTL

(* A channel reported as active has power, DAC and a length left, for every  *)
(* order of writes, clocks, power switches and resets.                       *)
THEOREM ActiveIsDriven == ApuSpec => []ActiveMeansDriven
<1>1. ApuInv => ActiveMeansDriven
    <2>1. \A c \in Channels : ~Silent[c].active
        BY DEF Silent, Cleared
    <2> QED BY <2>1 DEF ApuInv, ActiveMeansDriven, Sound, Driven
<1> QED BY <1>1, ApuInvariant, PTL

-----------------------------------------------------------------------------
(* A note under way: what is left of its length and the phase of the frame   *)
(* sequencer leave two possible counts of the clocks heard.                  *)
NoteInv ==
    /\ note \in Nat /\ heard \in Nat
    /\ note > 0 =>
          LET r == chan[who]
              gone == 2 * (note - r.length)
          IN  IF r.length > 0
              THEN /\ r.length_enabled
                   /\ heard \in IF frame_step % 2 = 0 THEN {gone, gone + 1} ELSE {gone - 1, gone}
              ELSE heard \in {gone - 1, gone} /\ ~r.active

\* What one clock of the frame sequencer does to the channel followed.
LEMMA ClockedChannel ==
    ASSUME ApuInv, ClockSequencer
    PROVE  LET r == chan[who]
               s == chan'[who]
           IN  /\ frame_step' = (frame_step + 1) % 8
               /\ s.length_enabled = r.length_enabled
               /\ s.active => r.active
               /\ s.length = IF frame_step % 2 = 0 /\ Runs(r) THEN r.length - 1 ELSE r.length
               /\ s.length = 0 /\ Runs(r) => ~s.active
<1>1. PICK silenced \in BOOLEAN :
          chan' = [c \in Channels |->
              IF frame_step \in Lengths4
              THEN [LengthClocked(chan[c]) EXCEPT !.active = @ /\ ~(silenced /\ c = 1)]
              ELSE IF frame_step = 7 /\ HasEnvelope(c) THEN EnvelopeClocked(chan[c])
              ELSE chan[c]]
    BY DEF ClockSequencer
<1>2. frame_step' = (frame_step + 1) % 8
    BY DEF ClockSequencer
<1>3. who \in Channels /\ chan[who] \in Channel(who) /\ frame_step \in 0 .. 7
    BY WhoAssumption DEF ApuInv, ApuTypeOK
<1>4. frame_step \in Lengths4 <=> frame_step % 2 = 0
    BY <1>3 DEF Lengths4
<1> DEFINE r == chan[who]
           on == ~(silenced /\ who = 1)
<1>5. CASE frame_step \in Lengths4 /\ Runs(r)
    <2>1. chan'[who] = [[r EXCEPT !.length = @ - 1, !.active = @ /\ r.length > 1]
                           EXCEPT !.active = @ /\ on]
        BY <1>1, <1>3, <1>5 DEF LengthClocked, Runs
    <2> HIDE DEF on
    <2>2. /\ chan'[who].length = r.length - 1 /\ chan'[who].length_enabled = r.length_enabled
          /\ chan'[who].active => r.active /\ r.length > 1
        BY <1>3, <2>1 DEF Channel
    <2>3. r.length \in Nat
        BY <1>3, ApuTypes DEF Channel, Lengths
    <2> QED BY <1>2, <1>4, <1>5, <2>2, <2>3, SMTT(30)
<1>6. CASE frame_step \in Lengths4 /\ ~Runs(r)
    <2>1. chan'[who] = [r EXCEPT !.active = @ /\ on]
        BY <1>1, <1>3, <1>6 DEF LengthClocked, Runs
    <2> HIDE DEF on
    <2>2. /\ chan'[who].length = r.length /\ chan'[who].length_enabled = r.length_enabled
          /\ chan'[who].active => r.active
        BY <1>3, <2>1 DEF Channel
    <2> QED BY <1>2, <1>4, <1>6, <2>2, SMTT(30)
<1>7. CASE frame_step \notin Lengths4
    <2>1. chan'[who] = r \/ chan'[who] = EnvelopeClocked(r)
        BY <1>1, <1>3, <1>7
    <2>2. /\ EnvelopeClocked(r).length = r.length /\ EnvelopeClocked(r).active = r.active
          /\ EnvelopeClocked(r).length_enabled = r.length_enabled
        BY <1>3 DEF EnvelopeClocked, Channel
    <2>3. Runs(r) => r.length # 0
        BY <1>3, ApuTypes DEF Runs, Channel, Lengths
    <2> QED BY <1>2, <1>4, <1>7, <2>1, <2>2, <2>3
<1> QED BY <1>5, <1>6, <1>7

\* A clock of the frame sequencer is heard by a note under way, and by none that
\* has run out.
LEMMA ClockKeepsNote ==
    ASSUME ApuInv, NoteInv, ClockSequencer, UNCHANGED note,
           heard' = IF note > 0 /\ Runs(chan[who]) /\ frame_step' # frame_step
                    THEN heard + 1 ELSE heard
    PROVE  NoteInv'
<1> DEFINE r == chan[who]
           s == chan'[who]
<1>1. /\ frame_step' = (frame_step + 1) % 8 /\ s.length_enabled = r.length_enabled
      /\ s.active => r.active
      /\ s.length = (IF frame_step % 2 = 0 /\ Runs(r) THEN r.length - 1 ELSE r.length)
      /\ s.length = 0 /\ Runs(r) => ~s.active
    BY ClockedChannel
<1>2. frame_step \in 0 .. 7 /\ r.length \in Nat
    BY WhoAssumption, ApuTypes DEF ApuInv, ApuTypeOK, Channel, Lengths
<1>3. frame_step' # frame_step /\ (frame_step' % 2 = 0 <=> frame_step % 2 # 0)
    BY <1>1, <1>2
<1>4. Runs(r) <=> r.length_enabled /\ r.length > 0
    BY DEF Runs
<1> HIDE DEF r, s
<1>5. CASE note > 0 /\ Runs(r)
    <2>1. heard' = heard + 1 /\ note' = note /\ note \in Nat /\ heard \in Nat
        BY <1>3, <1>5 DEF NoteInv, r
    <2>2. heard \in IF frame_step % 2 = 0 THEN {2 * (note - r.length), 2 * (note - r.length) + 1}
                    ELSE {2 * (note - r.length) - 1, 2 * (note - r.length)}
        BY <1>4, <1>5 DEF NoteInv, r
    <2>3. CASE frame_step % 2 = 0
        <3>1. s.length = r.length - 1 /\ frame_step' % 2 # 0
            BY <1>1, <1>3, <1>5, <2>3
        <3>2. heard' \in {2 * (note - s.length) - 1, 2 * (note - s.length)}
            BY <1>2, <2>1, <2>2, <2>3, <3>1
        <3> QED BY <1>1, <1>2, <1>4, <1>5, <2>1, <3>1, <3>2 DEF NoteInv, s
    <2>4. CASE frame_step % 2 # 0
        <3>1. s.length = r.length /\ frame_step' % 2 = 0
            BY <1>1, <1>3, <2>4
        <3>2. heard' \in {2 * (note - s.length), 2 * (note - s.length) + 1}
            BY <1>2, <2>1, <2>2, <2>4, <3>1
        <3> QED BY <1>1, <1>2, <1>4, <1>5, <2>1, <3>1, <3>2 DEF NoteInv, s
    <2> QED BY <2>3, <2>4
<1>6. CASE note > 0 /\ ~Runs(r)
    <2>1. r.length = 0 /\ s.length = 0 /\ UNCHANGED <<note, heard>>
        BY <1>1, <1>2, <1>4, <1>6 DEF NoteInv, r
    <2>2. ~s.active
        BY <1>1, <1>6, <2>1 DEF NoteInv, r
    <2> QED BY <1>6, <2>1, <2>2 DEF NoteInv, r, s
<1>7. CASE ~(note > 0)
    BY <1>7 DEF NoteInv
<1> QED BY <1>5, <1>6, <1>7

LEMMA NoteInductive ==
    ASSUME ApuInv, ApuInv', NoteInv, [ApuHNext]_apuAll
    PROVE  NoteInv'
<1>t. chan[who].length \in Nat /\ chan'[who].length \in Nat
    BY WhoAssumption, ApuTypes DEF ApuInv, ApuTypeOK, Channel, Lengths
<1>1. ASSUME Clocks, UNCHANGED note,
             heard' = IF note > 0 /\ Runs(chan[who]) /\ frame_step' # frame_step
                      THEN heard + 1 ELSE heard
      PROVE  NoteInv'
    <2>1. CASE ClockSequencer
        BY <1>1, <2>1, ClockKeepsNote
    <2>2. CASE ~ClockSequencer
        <3>1. UNCHANGED <<frame_step, chan>>
            BY <1>1, <2>2 DEF Clocks, TimerClock, FallbackTick
        <3>2. heard' = heard
            BY <1>1, <3>1
        <3> QED BY <1>1, <3>1, <3>2 DEF NoteInv
    <2> QED BY <2>1, <2>2
<1>2. ASSUME Writes \/ Reset,
             note' = IF ~Runs(chan'[who]) THEN 0
                     ELSE IF note = 0 \/ chan'[who].length # chan[who].length
                          THEN chan'[who].length
                     ELSE note,
             heard' = IF Runs(chan'[who]) /\ note > 0 /\ chan'[who].length = chan[who].length
                      THEN heard ELSE 0
      PROVE  NoteInv'
    <2>1. CASE ~Runs(chan'[who])
        BY <1>2, <2>1 DEF NoteInv
    <2>2. CASE Runs(chan'[who]) /\ (note = 0 \/ chan'[who].length # chan[who].length)
        <3>1. note' = chan'[who].length /\ heard' = 0
            BY <1>2, <2>2 DEF NoteInv
        <3>2. 2 * (note' - chan'[who].length) = 0
            BY <1>t, <3>1
        <3>3. chan'[who].length_enabled /\ chan'[who].length > 0
            BY <2>2 DEF Runs
        <3> QED BY <1>t, <3>1, <3>2, <3>3 DEF NoteInv
    <2>3. CASE Runs(chan'[who]) /\ note # 0 /\ chan'[who].length = chan[who].length
        <3>1. note' = note /\ heard' = heard
            BY <1>2, <2>3 DEF NoteInv
        <3>2. frame_step' = frame_step
            <4>1. ASSUME NEW on \in BOOLEAN, Power(on) PROVE frame_step' = frame_step
                <5>1. ~(powered_on /\ ~on)
                    <6>1. ~Runs(Silent[who])
                        BY WhoAssumption DEF Silent, Cleared, Runs
                    <6> QED BY <2>3, <4>1, <6>1 DEF Power
                <5> QED BY <4>1, <5>1 DEF Power
            <4>2. CASE Reset
                <5>1. ~Runs(Silent[who])
                    BY WhoAssumption DEF Silent, Cleared, Runs
                <5> QED BY <2>3, <4>2, <5>1 DEF Reset
            <4>3. CASE Write
                BY <4>3 DEF Write
            <4>4. Writes => Write \/ \E on \in BOOLEAN : Power(on)
                <5>1. ASSUME NEW c \in Channels, NEW v, WriteLength(c, v) PROVE Write
                    BY <5>1 DEF WriteLength
                <5>2. ASSUME NEW c \in Channels, NEW i, NEW a, NEW p, WriteEnvelope(c, i, a, p)
                      PROVE  Write
                    BY <5>2 DEF WriteEnvelope
                <5>3. ASSUME NEW c \in Channels, NEW t, NEW e, WriteControl(c, t, e)
                      PROVE  Write
                    BY <5>3 DEF WriteControl
                <5>4. ASSUME NEW dac, WriteDac(dac) PROVE Write
                    BY <5>4 DEF WriteDac
                <5>5. WriteSweep => Write
                    BY DEF WriteSweep
                <5> QED BY <5>1, <5>2, <5>3, <5>4, <5>5, Zenon DEF Writes
            <4> QED BY <1>2, <4>1, <4>2, <4>3, <4>4
        <3>3. chan'[who].length_enabled /\ chan'[who].length > 0
            BY <2>3 DEF Runs
        <3> QED BY <2>3, <3>1, <3>2, <3>3 DEF NoteInv
    <2> QED BY <2>1, <2>2, <2>3
<1>3. CASE UNCHANGED apuAll
    BY <1>3 DEF apuAll, apuVars, NoteInv
<1> QED BY <1>1, <1>2, <1>3 DEF ApuHNext

(* A note lasts its length, for every length and whatever the game writes to *)
(* the other channels or, without changing this one's length, to this one.   *)
THEOREM NotesLast == ApuHSpec => []NoteLasts
<1>1. ApuHInit => NoteInv
    BY DEF ApuHInit, NoteInv
<1>2. ApuHSpec => ApuSpec
    <2>1. ApuHInit => ApuInit
        BY DEF ApuHInit
    <2>2. [ApuHNext]_apuAll => [ApuNext]_apuVars
        BY DEF ApuHNext, ApuNext, apuAll
    <2> QED BY <2>1, <2>2, PTL DEF ApuHSpec, ApuSpec
<1>3. ApuInv /\ ApuInv' /\ NoteInv /\ [ApuHNext]_apuAll => NoteInv'
    BY NoteInductive
<1>4. ApuInv /\ NoteInv => NoteLasts
    <2>1. ApuInv => chan[who].length \in Nat
        BY WhoAssumption, ApuTypes DEF ApuInv, ApuTypeOK, Channel, Lengths
    <2>2. ASSUME ApuInv, NoteInv, note > 0 PROVE NoteLasts
        <3>1. CASE chan[who].length > 0
            BY <2>1, <2>2, <3>1 DEF NoteInv, NoteLasts
        <3>2. CASE ~(chan[who].length > 0)
            BY <2>1, <2>2, <3>2 DEF NoteInv, NoteLasts
        <3> QED BY <3>1, <3>2
    <2> QED BY <2>2 DEF NoteLasts
<1> QED BY <1>1, <1>2, <1>3, <1>4, ApuInvariant, PTL DEF ApuHSpec

-----------------------------------------------------------------------------
(* The devices together behave as each of them does. *)
LEMMA DeviceParts ==
    McSpec => /\ ApuHSpec /\ SweepHSpec /\ RingSpec /\ TimerHSpec /\ PpuHSpec
              /\ ApuSpec /\ SweepSpec /\ TimerSpec
<1>1. McInit => /\ ApuHInit /\ SweepHInit /\ RingInit /\ TimerHInit /\ PpuHInit
                /\ ApuInit /\ SweepInit /\ TimerInit
    BY DEF McInit, ApuHInit, SweepHInit, TimerHInit
<1>2. [McNext]_mcVars => /\ [ApuHNext]_apuAll /\ [SweepHNext]_sweepAll /\ [RingNext]_ringVars
                         /\ [TimerHNext]_timerAll /\ [PpuHNext]_ppuAll
    BY DEF McNext, mcVars, audioVars, ChannelsStep, SweepStep, RingStep, TimerStep, PpuStep
<1>3. [ApuHNext]_apuAll => [ApuNext]_apuVars
    BY DEF ApuHNext, ApuNext, apuAll
<1>4. [SweepHNext]_sweepAll => [SweepNext]_sweepVars
    BY DEF SweepHNext, sweepAll
<1>5. [TimerHNext]_timerAll => [TimerNext]_timerVars
    BY DEF TimerHNext, timerAll
<1> QED BY <1>1, <1>2, <1>3, <1>4, <1>5, PTL
        DEF McSpec, ApuHSpec, SweepHSpec, RingSpec, TimerHSpec, PpuHSpec,
            ApuSpec, SweepSpec, TimerSpec

(* The registers, counters and positions of every device keep their ranges.  *)
THEOREM DevicesTypeCorrect == McSpec => []DevicesTypeOK
<1>1. ApuTypeOK /\ SweepTypeOK /\ RingTypeOK /\ TimerTypeOK /\ PpuTypeOK => DevicesTypeOK
    BY DEF DevicesTypeOK
<1> QED BY <1>1, DeviceParts, ApuTypeCorrect, SweepTypeCorrect, RingTypeCorrect, TypeCorrect,
           PpuTypeCorrect, PTL
=============================================================================
