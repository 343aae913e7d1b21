----------------------------- MODULE CpuProofs -----------------------------
(* What holds of Cpu and of its history variables for every set of sources,  *)
(* address space and vector table, and of Alu for every set of operands.     *)
EXTENDS CpuHistory, Alu, TLAPS

\* Sets of phases and tuples of variables, expanded in every proof.
USE DEF Addr, Ops, Phases, ServicePhases, irqVars, powerVars, Pending, HasTail

(* A machine cycle leaves IF a set of sources. *)
LEMMA TickType ==
    ASSUME NEW F \in SUBSET Sources, Tick(F)
    PROVE  iflag' \subseteq Sources
BY DEF Tick

(* A push through the stack pointer leaves IF and IE sets of sources, even   *)
(* when it lands on one of them.                                             *)
LEMMA StackWriteType ==
    ASSUME CpuTypeOK, StackWrite
    PROVE  iflag' \subseteq Sources /\ ie' \subseteq Sources
BY DEF CpuTypeOK, StackWrite, Tick

(* The type invariant of the CPU and interrupt latches (gb_cpu.h,            *)
(* gb_interrupt.h) is inductive.                                             *)
LEMMA TypeInductive == CpuTypeOK /\ [Next]_vars => CpuTypeOK'
<1> SUFFICES ASSUME CpuTypeOK, [Next]_vars PROVE CpuTypeOK'
    OBVIOUS
<1> USE SourcesAssumption, PcSizeAssumption, VectorAssumption
<1>a. \A x \in Addr : NextAddr(x) \in Addr
    BY DEF NextAddr
<1>b. {0, 2} \subseteq 0 .. 2 /\ 0 \in Addr
    OBVIOUS
<1>1. CASE IdleHalted
    BY <1>1 DEF IdleHalted, CpuTypeOK, Tick, CanStep
<1>2. CASE BeginService
    <2>1. PICK s \in Sources : mask' = {s} /\ Tick(iflag \ {s})
        BY <1>2 DEF BeginService
    <2>2. iflag' \subseteq Sources
        <3>1. iflag \ {s} \subseteq Sources
            BY DEF CpuTypeOK
        <3> QED BY <2>1, <3>1, TickType
    <2>3. mask' \subseteq Sources
        BY <2>1
    <2>4. UNCHANGED <<op, pc, haltBug, stopped, faulted, ie>>
        BY <1>2 DEF BeginService
    <2>5. imeDelay' \in 0 .. 2
        BY <1>2, <1>b DEF BeginService
    <2>6. ime' = FALSE /\ halted' = FALSE /\ phase' = "pushHigh"
        BY <1>2 DEF BeginService
    <2> QED BY <2>2, <2>3, <2>4, <2>5, <2>6, Zenon DEF CpuTypeOK
<1>3. CASE PushHigh
    BY <1>3, StackWriteType DEF PushHigh, CpuTypeOK
<1>4. CASE PushLow
    BY <1>4, StackWriteType DEF PushLow, CpuTypeOK
<1>5. CASE EnterVector
    BY <1>5 DEF EnterVector, CpuTypeOK, Tick
<1>6. CASE Fetch
    BY <1>6, <1>a DEF Fetch, CpuTypeOK, Tick, CanStep
<1>7. CASE Execute
    <2>1. CASE ExecOther
        BY <2>1 DEF ExecOther, CpuTypeOK
    <2>2. CASE ExecEI
        BY <2>2, <1>b DEF ExecEI, CpuTypeOK
    <2>3. CASE ExecDI
        BY <2>3, <1>b, Zenon DEF ExecDI, CpuTypeOK
    <2>4. CASE ExecHalt
        BY <2>4 DEF ExecHalt, CpuTypeOK
    <2>5. CASE ExecStop
        BY <2>5, <1>a DEF ExecStop, CpuTypeOK
    <2>6. CASE ExecReti
        BY <2>6, <1>b, Zenon DEF ExecReti, CpuTypeOK
    <2>7. CASE ExecWriteIF \/ ExecWriteIE
        BY <2>7 DEF ExecWriteIF, ExecWriteIE, CpuTypeOK
    <2>8. CASE ExecInvalid
        BY <2>8 DEF ExecInvalid, CpuTypeOK
    <2> QED
        BY <1>7, <2>1, <2>2, <2>3, <2>4, <2>5, <2>6, <2>7, <2>8 DEF Execute
<1>8. CASE Retire
    <2>1. imeDelay' \in 0 .. 2
        BY <1>8 DEF Retire, CpuTypeOK
    <2>2. iflag' \subseteq Sources
        BY <1>8 DEF Retire, CpuTypeOK, Tick
    <2> QED BY <1>8, <2>1, <2>2 DEF Retire, CpuTypeOK
<1>9. CASE BusError
    BY <1>9 DEF BusError, CpuTypeOK
<1>10. CASE WakeFromStop
    BY <1>10 DEF WakeFromStop, CpuTypeOK
<1>11. CASE ResetCpu
    BY <1>11, <1>b, Zenon DEF ResetCpu, CpuTypeOK
<1>12. CASE UNCHANGED vars
    BY <1>12 DEF vars, CpuTypeOK
<1> QED
    BY <1>1, <1>2, <1>3, <1>4, <1>5, <1>6, <1>7, <1>8, <1>9, <1>10, <1>11, <1>12
    DEF Next, StepCpu, Service

(* After gb_cpu_reset and gb_interrupt_reset every field is in its type.     *)
LEMMA InitType == Init => CpuTypeOK
<1>1. 0 \in Addr
    BY PcSizeAssumption
<1>2. 0 \in 0 .. 2
    OBVIOUS
<1> SUFFICES ASSUME Init PROVE CpuTypeOK
    OBVIOUS
<1>3. pc \in Addr /\ imeDelay \in 0 .. 2
    BY <1>1, <1>2 DEF Init
<1>4. phase \in Phases /\ op \in Ops /\ mask \subseteq Sources
    BY DEF Init
<1>5. ime \in BOOLEAN /\ haltBug \in BOOLEAN
    BY DEF Init
<1>6. halted \in BOOLEAN /\ stopped \in BOOLEAN /\ faulted \in BOOLEAN
    BY DEF Init
<1>7. iflag \subseteq Sources /\ ie \subseteq Sources
    BY DEF Init
<1> QED BY <1>3, <1>4, <1>5, <1>6, <1>7 DEF CpuTypeOK

(* The types of the CPU's control state and of IF and IE, for any number of  *)
(* sources.                                                                  *)
THEOREM TypeCorrect == Spec => []CpuTypeOK
<1>1. Init => CpuTypeOK
    BY InitType
<1> QED BY <1>1, TypeInductive, PTL DEF Spec

-----------------------------------------------------------------------------
(* The strengthening of EntryIsMasked and OneSleepState: an instruction is   *)
(* executed only by a CPU that is awake and has consumed the HALT bug.       *)
AwakeWhenExecuting ==
    phase = "exec" => ~halted /\ ~stopped /\ ~faulted /\ ~haltBug

ControlInv == CpuTypeOK /\ EntryIsMasked /\ OneSleepState /\ AwakeWhenExecuting

(* Every step of the CPU keeps the strengthened invariant.                   *)
LEMMA ControlInductive == ControlInv /\ [Next]_vars => ControlInv'
<1> SUFFICES ASSUME ControlInv, [Next]_vars PROVE ControlInv'
    OBVIOUS
<1> USE DEF EntryIsMasked, OneSleepState, AwakeWhenExecuting, CanStep
<1>t. CpuTypeOK /\ CpuTypeOK'
    BY TypeInductive DEF ControlInv
<1>i. EntryIsMasked /\ OneSleepState /\ AwakeWhenExecuting
    BY DEF ControlInv
<1> SUFFICES EntryIsMasked' /\ OneSleepState' /\ AwakeWhenExecuting'
    BY <1>t DEF ControlInv
<1> USE <1>i
<1>1. CASE IdleHalted
    BY <1>1 DEF IdleHalted
<1>2. CASE BeginService
    BY <1>2 DEF BeginService
<1>3. CASE PushHigh \/ PushLow \/ EnterVector
    BY <1>3 DEF PushHigh, PushLow, EnterVector
<1>4. CASE Fetch
    BY <1>4 DEF Fetch
<1>5. CASE Execute
    <2>1. CASE ExecHalt
        BY <2>1 DEF ExecHalt
    <2>2. CASE ExecStop \/ ExecInvalid
        BY <2>2 DEF ExecStop, ExecInvalid
    <2>3. CASE \/ ExecOther \/ ExecEI \/ ExecDI \/ ExecReti
               \/ ExecWriteIF \/ ExecWriteIE
        BY <2>3 DEF ExecOther, ExecEI, ExecDI, ExecReti, ExecWriteIF, ExecWriteIE
    <2> QED BY <1>5, <2>1, <2>2, <2>3 DEF Execute
<1>6. CASE Retire
    BY <1>6 DEF Retire
<1>7. CASE BusError
    BY <1>7 DEF BusError
<1>8. CASE WakeFromStop \/ ResetCpu
    BY <1>8 DEF WakeFromStop, ResetCpu
<1>9. CASE UNCHANGED vars
    BY <1>9 DEF vars
<1> QED
    BY <1>1, <1>2, <1>3, <1>4, <1>5, <1>6, <1>7, <1>8, <1>9
    DEF Next, StepCpu, Service

(* The strengthened invariant holds in every reachable state.                *)
LEMMA ControlInvariant == Spec => []ControlInv
<1>1. Init => ControlInv
    <2>1. Init => EntryIsMasked /\ OneSleepState /\ AwakeWhenExecuting
        BY DEF Init, EntryIsMasked, OneSleepState, AwakeWhenExecuting
    <2> QED BY <2>1, InitType DEF ControlInv
<1> QED BY <1>1, ControlInductive, PTL DEF Spec

(* Interrupt entry cannot be interrupted, and finds the CPU awake.           *)
THEOREM EntryMasked == Spec => []EntryIsMasked
<1>1. ControlInv => EntryIsMasked
    BY DEF ControlInv
<1> QED BY <1>1, ControlInvariant, PTL

(* HALT, STOP and the locked state exclude each other, and the HALT bug is   *)
(* only armed in a running CPU.                                              *)
THEOREM SleepStatesExclusive == Spec => []OneSleepState
<1>1. ControlInv => OneSleepState
    BY DEF ControlInv
<1> QED BY <1>1, ControlInvariant, PTL

\* A halted CPU is between two steps, or at the end of HALT itself.
SleepsBetweenSteps ==
    halted /\ phase # "failed" => phase \in {"tail", "step"} /\ ~stopped /\ ~faulted

(* A halted CPU is never stuck in a state from which gb_cpu_step does not    *)
(* look at IF and IE: unless a callback failed it is at the end of HALT or   *)
(* between two steps, neither stopped nor locked.                            *)
THEOREM SleepIsShallow == Spec => []SleepsBetweenSteps
<1>1. ControlInv => SleepsBetweenSteps
    BY DEF ControlInv, CpuTypeOK, Phases, ServicePhases, EntryIsMasked, OneSleepState,
           AwakeWhenExecuting, SleepsBetweenSteps
<1> QED BY <1>1, ControlInvariant, PTL

\* The one step a halted CPU may take with a request pending and stay halted:
\* the end of HALT, after which the request is still there.
WakesNext ==
    halted /\ Pending # {} /\ halted' =>
        \/ "failed" \in {phase, phase'}
        \/ phase = "tail" /\ phase' = "step" /\ Pending' # {}

(* HALT ends as soon as an enabled request is there, with interrupts on or   *)
(* off: such a CPU stays halted for at most the rest of HALT itself, which   *)
(* cannot lose the request, and the next gb_cpu_step wakes it. So a fair     *)
(* host loop wakes it after at most two steps, which is what the runs' leads *)
(* to property asks for.                                                     *)
THEOREM SleepIsBrief == Spec => [][WakesNext]_vars
<1>1. ControlInv /\ [Next]_vars => [WakesNext]_vars
    <2> SUFFICES ASSUME ControlInv, Next, halted, Pending # {}, halted',
                        phase # "failed", phase' # "failed"
                 PROVE  phase = "tail" /\ phase' = "step" /\ Pending' # {}
        BY DEF WakesNext
    <2>1. phase \in {"tail", "step"} /\ ~stopped
        BY DEF ControlInv, CpuTypeOK, Phases, ServicePhases, EntryIsMasked, OneSleepState,
               AwakeWhenExecuting
    <2>2. ~(IdleHalted \/ BeginService \/ Fetch)
        BY DEF IdleHalted, BeginService, Fetch
    <2>3. ~(PushHigh \/ PushLow \/ EnterVector \/ Execute)
        BY <2>1 DEF PushHigh, PushLow, EnterVector, Execute, ExecOther, ExecEI, ExecDI,
                    ExecHalt, ExecStop, ExecReti, ExecWriteIF, ExecWriteIE, ExecInvalid
    <2>4. ~(BusError \/ WakeFromStop \/ ResetCpu)
        BY <2>1 DEF BusError, WakeFromStop, ResetCpu
    <2>5. Retire
        BY <2>2, <2>3, <2>4 DEF Next, StepCpu, Service
    <2>6. iflag \subseteq iflag' /\ ie' = ie
        BY <2>5 DEF Retire, Tick
    <2>7. Pending' # {}
        BY <2>6 DEF Pending
    <2> QED BY <2>5, <2>7 DEF Retire
<1> QED BY <1>1, ControlInvariant, PTL DEF Spec

-----------------------------------------------------------------------------
\* While an EI waits for its next instruction: between the two interrupts are
\* off and the countdown stands at one, and at the end of the second it either
\* is about to expire or that instruction decided on IME itself.
ShadowInv ==
    shadow =>
        \/ phase \in {"step", "exec"} /\ ~ime /\ imeDelay = 1
        \/ /\ phase = "tail"
           /\ \/ op = "ei" /\ ~ime /\ imeDelay = 2
              \/ op = "di"
              \/ op = "reti" /\ ime
              \/ op \notin {"ei", "di", "reti"} /\ imeDelay = 1

\* The local of cpu_interrupt_service holds what was acknowledged.
MaskIsAcked == phase \in ServicePhases => mask = acked

(* The two halves of the bookkeeping of interrupt entry hold from the start. *)
LEMMA HistoryInit == HInit => ControlInv /\ ShadowInv /\ MaskIsAcked
<1>1. Init => ControlInv
    <2>1. Init => EntryIsMasked /\ OneSleepState /\ AwakeWhenExecuting
        BY DEF Init, EntryIsMasked, OneSleepState, AwakeWhenExecuting
    <2> QED BY <2>1, InitType DEF ControlInv
<1> QED BY <1>1 DEF HInit, Init, ShadowInv, MaskIsAcked

(* Every step keeps what is known while EI waits.                            *)
LEMMA ShadowStep ==
    ASSUME CpuTypeOK, ShadowInv, [HNext]_allVars
    PROVE  ShadowInv'
<1> SUFFICES ASSUME shadow', HNext PROVE ShadowInv'
    BY DEF ShadowInv, allVars, histVars, vars
<1>1. phase' # "failed" /\ ~ResetCpu
    BY DEF HNext
<1>2. CASE ExecEI
    BY <1>1, <1>2 DEF HNext, ExecEI, ShadowInv
<1>3. CASE ~ExecEI
    <2>1. shadow /\ ~(Retires /\ op # "ei")
        BY <1>1, <1>3 DEF HNext
    <2> USE <2>1 DEF ShadowInv
    <2>2. CASE IdleHalted
        BY <2>2 DEF IdleHalted, CanStep
    <2>3. CASE Service
        BY <2>3 DEF Service, BeginService, PushHigh, PushLow, EnterVector, CanStep
    <2>4. CASE Fetch
        BY <2>4 DEF Fetch, CanStep
    <2>5. CASE Execute
        <3>1. CASE ExecDI
            BY <3>1 DEF ExecDI
        <3>2. CASE ExecReti
            BY <3>2 DEF ExecReti
        <3>3. CASE ExecOther \/ ExecWriteIF \/ ExecWriteIE
            BY <3>3 DEF ExecOther, ExecWriteIF, ExecWriteIE
        <3>4. CASE ExecHalt \/ ExecStop \/ ExecInvalid
            BY <1>1, <3>4 DEF ExecHalt, ExecStop, ExecInvalid
        <3> QED BY <1>3, <2>5, <3>1, <3>2, <3>3, <3>4 DEF Execute
    <2>6. CASE Retire
        BY <2>6 DEF Retire, Retires, CpuTypeOK
    <2>7. CASE BusError \/ WakeFromStop
        BY <1>1, <2>7 DEF BusError, WakeFromStop
    <2> QED BY <1>1, <2>2, <2>3, <2>4, <2>5, <2>6, <2>7 DEF HNext, Next, StepCpu
<1> QED BY <1>2, <1>3

(* A step into an interrupt is the acknowledgement; one through it keeps the *)
(* mask; nothing else leads there.                                           *)
LEMMA ServiceSteps ==
    ASSUME Next, phase' \in ServicePhases
    PROVE  \/ BeginService
           \/ phase \in {"pushHigh", "pushLow"} /\ phase' \in {"pushLow", "enter"} /\ UNCHANGED mask
BY DEF Next, StepCpu, Service, Execute, IdleHalted, BeginService, PushHigh,
       PushLow, EnterVector, Fetch, ExecOther, ExecEI, ExecDI, ExecHalt, ExecStop,
       ExecReti, ExecWriteIF, ExecWriteIE, ExecInvalid, Retire, BusError,
       WakeFromStop, ResetCpu, CanStep

(* The source acknowledged is the most urgent one pending, and the only one. *)
LEMMA OneAcknowledged ==
    ASSUME CpuTypeOK, BeginService, HNext
    PROVE  /\ mask' = acked'
           /\ \A s \in iflag \ iflag' : s \in acked'
<1>1. PICK s \in Sources : IsHighest(s, Pending) /\ mask' = {s} /\ Tick(iflag \ {s})
    BY DEF BeginService
<1>2. acked' = {u \in Pending : \A t \in Pending : u <= t}
    BY DEF HNext, BeginService
<1>3. Pending \subseteq Nat
    BY SourcesAssumption DEF CpuTypeOK
<1>4. acked' = {s}
    BY <1>1, <1>2, <1>3 DEF IsHighest
<1>5. iflag \ {s} \subseteq iflag'
    BY <1>1 DEF Tick
<1> QED BY <1>1, <1>4, <1>5

LEMMA MaskStep ==
    ASSUME CpuTypeOK, MaskIsAcked, [HNext]_allVars
    PROVE  MaskIsAcked'
<1>1. CASE HNext
    <2> SUFFICES ASSUME phase' \in ServicePhases PROVE mask' = acked'
        BY DEF MaskIsAcked
    <2>1. CASE BeginService
        BY <1>1, <2>1, OneAcknowledged
    <2>2. CASE phase \in {"pushHigh", "pushLow"} /\ phase' \in {"pushLow", "enter"}
               /\ UNCHANGED mask
        BY <1>1, <2>2 DEF HNext, MaskIsAcked
    <2> QED BY <1>1, <2>1, <2>2, ServiceSteps DEF HNext
<1>2. CASE UNCHANGED allVars
    BY <1>2 DEF allVars, histVars, vars, MaskIsAcked
<1> QED BY <1>1, <1>2

LEMMA HistoryInvariant == HSpec => [](ControlInv /\ ShadowInv /\ MaskIsAcked)
<1>1. [HNext]_allVars => [Next]_vars
    BY DEF HNext, allVars
<1>2. ControlInv /\ ShadowInv /\ MaskIsAcked /\ [HNext]_allVars
      => (ControlInv /\ ShadowInv /\ MaskIsAcked)'
    BY <1>1, ControlInductive, ShadowStep, MaskStep DEF ControlInv
<1> QED BY <1>2, HistoryInit, PTL DEF HSpec

(* EI takes effect at the end of the instruction after it, no sooner and no  *)
(* later, for every program and whatever the devices request meanwhile.      *)
THEOREM EiIsDelayed == HSpec => EiDelaysOneInstruction
<1>1. ControlInv /\ ShadowInv /\ [HNext]_allVars
      => [/\ phase' = "pushHigh" => ~shadow
          /\ shadow /\ Retires /\ op \notin {"ei", "di"} => ime']_allVars
    <2> SUFFICES ASSUME ControlInv, ShadowInv, HNext
                 PROVE  /\ phase' = "pushHigh" => ~shadow
                        /\ shadow /\ Retires /\ op \notin {"ei", "di"} => ime'
        OBVIOUS
    <2>1. phase' = "pushHigh" => ~shadow
        <3> SUFFICES ASSUME phase' = "pushHigh" PROVE ~shadow
            OBVIOUS
        <3>1. BeginService
            BY ServiceSteps DEF HNext
        <3> QED BY <3>1 DEF BeginService, CanStep, ShadowInv
    <2>2. ASSUME shadow, Retires, op \notin {"ei", "di"} PROVE ime'
        <3>1. Retire
            BY <2>2 DEF Retires, HNext, Next, StepCpu, Service, Execute, IdleHalted,
                BeginService, PushHigh, PushLow, EnterVector, Fetch, ExecOther, ExecEI,
                ExecDI, ExecHalt, ExecStop, ExecReti, ExecWriteIF, ExecWriteIE,
                ExecInvalid, BusError, WakeFromStop, ResetCpu, CanStep
        <3> QED BY <2>2, <3>1 DEF Retire, Retires, ShadowInv
    <2> QED BY <2>1, <2>2
<1> QED BY <1>1, HistoryInvariant, PTL DEF HSpec, EiDelaysOneInstruction

(* No request latched in IF is lost: only its acknowledgement, a write that  *)
(* lands on IF, or a reset takes it away.                                    *)
THEOREM NoRequestLost == HSpec => RequestsAreKept
<1>1. ControlInv /\ [HNext]_allVars
      => [\A s \in iflag \ iflag' :
              \/ phase' = "pushHigh" /\ s \in acked'
              \/ phase = "exec" /\ op = "writeIF"
              \/ phase \in {"pushHigh", "pushLow"}
              \/ ResetCpu]_allVars
    <2> SUFFICES ASSUME ControlInv, HNext, NEW s \in iflag \ iflag'
                 PROVE  \/ phase' = "pushHigh" /\ s \in acked'
                        \/ phase = "exec" /\ op = "writeIF"
                        \/ phase \in {"pushHigh", "pushLow"}
                        \/ ResetCpu
        OBVIOUS
    <2>1. CASE BeginService
        BY <2>1, OneAcknowledged DEF ControlInv, BeginService
    <2>2. CASE IdleHalted \/ EnterVector \/ Fetch \/ Retire
        BY <2>2 DEF IdleHalted, EnterVector, Fetch, Retire, Tick
    <2>3. CASE PushHigh \/ PushLow \/ ResetCpu \/ ExecWriteIF
        BY <2>3 DEF PushHigh, PushLow, ExecWriteIF
    <2>4. CASE Execute /\ ~ExecWriteIF
        BY <2>4 DEF Execute, ExecOther, ExecEI, ExecDI, ExecHalt, ExecStop, ExecReti,
                    ExecWriteIE, ExecInvalid
    <2>5. CASE BusError \/ WakeFromStop
        BY <2>5 DEF BusError, WakeFromStop
    <2> QED BY <2>1, <2>2, <2>3, <2>4, <2>5 DEF HNext, Next, StepCpu, Service
<1> QED BY <1>1, HistoryInvariant, PTL DEF HSpec, RequestsAreKept

(* The handler entered is that of the source acknowledged, whatever the two  *)
(* pushes and the devices did to IF and IE in between.                       *)
THEOREM VectorIsAcknowledged == HSpec => EntersAcknowledgedVector
<1>1. MaskIsAcked /\ [HNext]_allVars
      => [phase = "enter" /\ phase' = "step" /\ ~ResetCpu =>
              \E s \in acked : pc' = Vector[s]]_allVars
    <2> SUFFICES ASSUME MaskIsAcked, HNext, phase = "enter", phase' = "step"
                 PROVE  \E s \in acked : pc' = Vector[s]
        OBVIOUS
    <2>1. EnterVector
        BY DEF HNext, Next, StepCpu, Service, Execute, IdleHalted, BeginService, PushHigh,
               PushLow, Fetch, ExecOther, ExecEI, ExecDI, ExecHalt, ExecStop, ExecReti,
               ExecWriteIF, ExecWriteIE, ExecInvalid, Retire, BusError, WakeFromStop,
               ResetCpu, CanStep
    <2> QED BY <2>1 DEF EnterVector, MaskIsAcked
<1> QED BY <1>1, HistoryInvariant, PTL DEF HSpec, EntersAcknowledgedVector

-----------------------------------------------------------------------------
\* The arithmetic of Alu. The bits first: a bit is zero or one.
HIDE DEF Addr, Ops, Phases, ServicePhases, irqVars, powerVars, Pending, HasTail

LEMMA BitIsOneOrZero == \A x \in Byte, i \in 0 .. 7 : Bit(x, i) \in {0, 1}
<1> SUFFICES ASSUME NEW x \in Byte, NEW i \in 0 .. 7 PROVE Bit(x, i) \in {0, 1}
    OBVIOUS
<1>1. \A y \in Nat : y % 2 \in {0, 1}
    OBVIOUS
<1>2. x \div Weight(i) \in Nat
    BY DEF Weight, Byte
<1> QED BY <1>1, <1>2 DEF Bit

\* A set bit is in the byte, and there is room for a clear one.
LEMMA BitHasRoom ==
    ASSUME NEW x \in Byte, NEW i \in 0 .. 7
    PROVE  /\ Weight(i) \in 1 .. 128
           /\ Bit(x, i) = 1 => x >= Weight(i)
           /\ Bit(x, i) = 0 => x + Weight(i) <= 255
<1>1. \A w \in {1, 2, 4, 8, 16, 32, 64, 128} :
        /\ (x \div w) % 2 = 1 => x >= w
        /\ (x \div w) % 2 = 0 => x + w <= 255
    <2>1. /\ (x \div 1) % 2 = 1 => x >= 1
          /\ (x \div 1) % 2 = 0 => x + 1 <= 255
        BY DEF Byte
    <2>2. /\ (x \div 2) % 2 = 1 => x >= 2
          /\ (x \div 2) % 2 = 0 => x + 2 <= 255
        BY DEF Byte
    <2>3. /\ (x \div 4) % 2 = 1 => x >= 4
          /\ (x \div 4) % 2 = 0 => x + 4 <= 255
        BY DEF Byte
    <2>4. /\ (x \div 8) % 2 = 1 => x >= 8
          /\ (x \div 8) % 2 = 0 => x + 8 <= 255
        BY DEF Byte
    <2>5. /\ (x \div 16) % 2 = 1 => x >= 16
          /\ (x \div 16) % 2 = 0 => x + 16 <= 255
        BY DEF Byte
    <2>6. /\ (x \div 32) % 2 = 1 => x >= 32
          /\ (x \div 32) % 2 = 0 => x + 32 <= 255
        BY DEF Byte
    <2>7. /\ (x \div 64) % 2 = 1 => x >= 64
          /\ (x \div 64) % 2 = 0 => x + 64 <= 255
        BY DEF Byte
    <2>8. /\ (x \div 128) % 2 = 1 => x >= 128
          /\ (x \div 128) % 2 = 0 => x + 128 <= 255
        BY DEF Byte
    <2> QED BY <2>1, <2>2, <2>3, <2>4, <2>5, <2>6, <2>7, <2>8
<1>2. Weight(i) \in {1, 2, 4, 8, 16, 32, 64, 128}
    BY DEF Weight
<1> QED BY <1>1, <1>2 DEF Bit

LEMMA BitOpcodesStay ==
    ASSUME NEW x \in Byte, NEW i \in 0 .. 7
    PROVE  /\ x - (Bit(x, i) * Weight(i)) \in Byte
           /\ x + ((1 - Bit(x, i)) * Weight(i)) \in Byte
<1> DEFINE b == Bit(x, i)  w == Weight(i)
<1>0. b \in {0, 1} /\ x \in 0 .. 255
    BY BitIsOneOrZero DEF Byte
<1>1. w \in 1 .. 128 /\ (b = 1 => x >= w) /\ (b = 0 => x + w <= 255)
    BY BitHasRoom
<1> SUFFICES x - (b * w) \in 0 .. 255 /\ x + ((1 - b) * w) \in 0 .. 255
    BY DEF Byte
<1> HIDE DEF b, w
<1>2. CASE b = 0
    BY <1>0, <1>1, <1>2
<1>3. CASE b = 1
    BY <1>0, <1>1, <1>3
<1> QED BY <1>0, <1>2, <1>3

\* The digits of a byte.
LEMMA TwoDigits ==
    ASSUME NEW p \in 0 .. 15, NEW q \in 0 .. 15
    PROVE  ((16 * p) + q) % 16 = q /\ ((16 * p) + q) \div 16 = p
OBVIOUS

LEMMA DigitsOf ==
    ASSUME NEW x \in Byte, IsBcd(x)
    PROVE  \E p, q \in 0 .. 9 : x = (16 * p) + q /\ Digits(x) = (10 * p) + q /\ x % 16 = q
<1>1. x \div 16 \in 0 .. 9 /\ x % 16 \in 0 .. 9 /\ x = (16 * (x \div 16)) + (x % 16)
    BY DEF IsBcd, Byte
<1> QED BY <1>1 DEF Digits

LEMMA IsDigits ==
    ASSUME NEW p \in 0 .. 9, NEW q \in 0 .. 9
    PROVE  IsBcd((16 * p) + q) /\ Digits((16 * p) + q) = (10 * p) + q
BY TwoDigits DEF IsBcd, Digits

\* What DAA adds after an addition and takes away after a subtraction.
Carries(x, cy) == cy \/ x > 153
AddAdjust(x, hf, cy) ==
    (IF hf \/ x % 16 > 9 THEN 6 ELSE 0) + (IF Carries(x, cy) THEN 96 ELSE 0)
SubAdjust(hf, cy) == (IF hf THEN 6 ELSE 0) + (IF cy THEN 96 ELSE 0)

\* A holds y, which is r in decimal, without its carry.
DecimalOf(y, r) == \E p, q \in 0 .. 9 : y = (16 * p) + q /\ (10 * p) + q = r % 100

\* What an addition or a subtraction of decimal bytes leaves in A, H and C: s and t
\* are the sums, or differences, of the low digits and the carry and of the high ones.
SumLeft(r, x, hf, cy) ==
    \E s \in 0 .. 19, t \in 0 .. 18 :
        /\ r = (10 * t) + s /\ x = ((16 * t) + s) % 256
        /\ hf <=> s > 15
        /\ cy <=> (16 * t) + s > 255

DifferenceLeft(r, x, hf, cy) ==
    \E s \in -10 .. 9, t \in -9 .. 9 :
        /\ r = (10 * t) + s /\ x = ((16 * t) + s) % 256
        /\ hf <=> s < 0
        /\ cy <=> (16 * t) + s < 0

\* DAA after an addition.
LEMMA AdjustsSum ==
    ASSUME NEW r, NEW x, NEW hf \in BOOLEAN, NEW cy \in BOOLEAN, SumLeft(r, x, hf, cy)
    PROVE  /\ DecimalOf((x + AddAdjust(x, hf, cy)) % 256, r)
           /\ Carries(x, cy) <=> (r < 0 \/ r > 99)
<1> PICK s \in 0 .. 19, t \in 0 .. 18 :
        /\ r = (10 * t) + s /\ x = ((16 * t) + s) % 256
        /\ hf <=> s > 15
        /\ cy <=> (16 * t) + s > 255
    BY DEF SumLeft
<1> DEFINE low == IF s > 9 THEN 6 ELSE 0
           q == IF s > 9 THEN s - 10 ELSE s
           u == IF s > 9 THEN t + 1 ELSE t
           p == IF r > 99 THEN u - 10 ELSE u
           high == IF r > 99 THEN 96 ELSE 0
<1>1. x \in 0 .. 255 /\ x = IF (16 * t) + s > 255 THEN (16 * t) + s - 256 ELSE (16 * t) + s
    OBVIOUS
<1>2. x % 16 = IF s > 15 THEN s - 16 ELSE s
    BY <1>1
<1>3. (hf \/ x % 16 > 9) <=> s > 9
    BY <1>2
<1>4. ~(r < 0) /\ ((cy \/ x > 153) <=> r > 99)
    BY <1>1
<1>5. AddAdjust(x, hf, cy) = low + high
    BY <1>3, <1>4 DEF AddAdjust, Carries
<1>6. /\ p \in 0 .. 9 /\ q \in 0 .. 9 /\ low \in Int /\ high \in Int
      /\ (16 * t) + s + low + high = (16 * p) + q \/ (16 * t) + s + low + high = (16 * p) + q + 256
      /\ r % 100 = (10 * p) + q
    OBVIOUS
<1>7. \A y \in Int : (x + y) % 256 = ((16 * t) + s + y) % 256
    BY <1>1
<1>8. (x + (low + high)) % 256 = (16 * p) + q
    <2>1. (x + (low + high)) % 256 = ((16 * t) + s + (low + high)) % 256
        BY <1>6, <1>7
    <2> HIDE DEF low, high, p, q
    <2> QED BY <1>1, <1>6, <2>1
<1> HIDE DEF p, q, low, high, u
<1>9. (x + AddAdjust(x, hf, cy)) % 256 = (16 * p) + q
    BY <1>5, <1>8
<1>10. Carries(x, cy) <=> (r < 0 \/ r > 99)
    BY <1>4 DEF Carries
<1> QED BY <1>6, <1>9, <1>10 DEF DecimalOf

\* And after a subtraction.
LEMMA AdjustsDifference ==
    ASSUME NEW r, NEW x, NEW hf \in BOOLEAN, NEW cy \in BOOLEAN, DifferenceLeft(r, x, hf, cy)
    PROVE  /\ DecimalOf((x - SubAdjust(hf, cy)) % 256, r)
           /\ cy <=> (r < 0 \/ r > 99)
<1> PICK s \in -10 .. 9, t \in -9 .. 9 :
        /\ r = (10 * t) + s /\ x = ((16 * t) + s) % 256
        /\ hf <=> s < 0
        /\ cy <=> (16 * t) + s < 0
    BY DEF DifferenceLeft
<1> DEFINE low == IF s < 0 THEN 6 ELSE 0
           q == IF s < 0 THEN s + 10 ELSE s
           u == IF s < 0 THEN t - 1 ELSE t
           p == IF r < 0 THEN u + 10 ELSE u
           high == IF r < 0 THEN 96 ELSE 0
<1>1. x \in 0 .. 255 /\ x = IF (16 * t) + s < 0 THEN (16 * t) + s + 256 ELSE (16 * t) + s
    OBVIOUS
<1>2. (cy <=> r < 0) /\ ~(r > 99)
    OBVIOUS
<1>3. SubAdjust(hf, cy) = low + high
    BY <1>2 DEF SubAdjust
<1>4. /\ p \in 0 .. 9 /\ q \in 0 .. 9 /\ low \in Int /\ high \in Int
      /\ (16 * t) + s - (low + high) = (16 * p) + q \/ (16 * t) + s - (low + high) = (16 * p) + q - 256
      /\ r % 100 = (10 * p) + q
    OBVIOUS
<1>5. \A y \in Int : (x - y) % 256 = ((16 * t) + s - y) % 256
    BY <1>1
<1>6. /\ p \in 0 .. 9 /\ q \in 0 .. 9
      /\ (x - SubAdjust(hf, cy)) % 256 = (16 * p) + q /\ (10 * p) + q = r % 100
    <2>1. (x - (low + high)) % 256 = ((16 * t) + s - (low + high)) % 256
        BY <1>4, <1>5
    <2> HIDE DEF p, q, low, high
    <2>2. (x - (low + high)) % 256 = (16 * p) + q
        BY <1>4, <2>1
    <2> QED BY <1>3, <1>4, <2>2
<1> HIDE DEF p, q
<1> QED BY <1>2, <1>6 DEF DecimalOf

-----------------------------------------------------------------------------
\* While an addition or subtraction waits for its DAA, A, H and C are what it left.
AluInv ==
    /\ AluTypeOK
    /\ \A r \in decimal : (~n /\ SumLeft(r, a, h, c)) \/ (n /\ DifferenceLeft(r, a, h, c))
    /\ BcdExact

\* All steps but additions, subtractions and DAA only have to keep the types.
LEMMA OtherSteps == ASSUME NotDecimal, AluTypeOK' PROVE AluInv'
BY DEF NotDecimal, AluInv, BcdExact

\* The low digits and the carry add up to at most 19, the high ones to 18.
LEMMA AdditionKeeps ==
    ASSUME AluInv, NEW v \in Byte, NEW k \in {0, 1}, Add8(v, k)
    PROVE  AluInv'
<1> DEFINE s == (a % 16) + (v % 16) + k
           t == (a \div 16) + (v \div 16)
<1>1. a \in 0 .. 255 /\ v \in 0 .. 255
    BY DEF AluInv, AluTypeOK, Byte
<1>2. AluTypeOK'
    <2>1. a' \in Byte
        BY <1>1 DEF Add8, Byte
    <2>2. SetFlags(a' = 0, FALSE, s > 15, a + v + k > 255)
        BY DEF Add8
    <2>3. (a' = 0) \in BOOLEAN /\ (s > 15) \in BOOLEAN /\ (a + v + k > 255) \in BOOLEAN
        BY <1>1
    <2> HIDE DEF s
    <2>4. z' \in BOOLEAN /\ n' \in BOOLEAN /\ h' \in BOOLEAN /\ c' \in BOOLEAN
        BY <2>2, <2>3, Zenon DEF SetFlags
    <2> QED BY <2>1, <2>4 DEF AluTypeOK
<1>3. ASSUME NEW r \in decimal' PROVE ~n' /\ SumLeft(r, a', h', c')
    <2>1. /\ IsBcd(a) /\ IsBcd(v) /\ r = Digits(a) + Digits(v) + k
        BY <1>3 DEF Add8, Computed
    <2>2. /\ s \in 0 .. 19 /\ t \in 0 .. 18
          /\ r = (10 * t) + s /\ a + v + k = (16 * t) + s
        BY <1>1, <2>1 DEF IsBcd, Digits
    <2>3. a' = ((16 * t) + s) % 256 /\ ~n' /\ (h' <=> s > 15) /\ (c' <=> a + v + k > 255)
        BY <2>2 DEF Add8, SetFlags
    <2> HIDE DEF s, t
    <2>4. c' <=> (16 * t) + s > 255
        BY <2>2, <2>3
    <2> QED BY <2>2, <2>3, <2>4 DEF SumLeft
<1>4. BcdExact'
    BY DEF Add8, Computed, BcdExact
<1> QED BY <1>2, <1>3, <1>4 DEF AluInv

\* The flags of SUB, SBC and CP are flags.
LEMMA SubFlagTypes ==
    ASSUME NEW v, NEW k, SubFlags(v, k)
    PROVE  z' \in BOOLEAN /\ n' \in BOOLEAN /\ h' \in BOOLEAN /\ c' \in BOOLEAN
BY DEF SubFlags, SetFlags

LEMMA SubtractionKeeps ==
    ASSUME AluInv, NEW v \in Byte, NEW k \in {0, 1}, Sub8(v, k)
    PROVE  AluInv'
<1> DEFINE s == (a % 16) - (v % 16) - k
           t == (a \div 16) - (v \div 16)
<1>1. a \in 0 .. 255 /\ v \in 0 .. 255
    BY DEF AluInv, AluTypeOK, Byte
<1>2. AluTypeOK'
    <2>1. a' \in Byte
        BY <1>1 DEF Sub8, Byte
    <2> QED BY <2>1, SubFlagTypes DEF Sub8, AluTypeOK
<1>3. ASSUME NEW r \in decimal' PROVE n' /\ DifferenceLeft(r, a', h', c')
    <2>1. /\ IsBcd(a) /\ IsBcd(v) /\ r = Digits(a) - Digits(v) - k
        BY <1>3 DEF Sub8, Computed
    <2>2. /\ s \in -10 .. 9 /\ t \in -9 .. 9
          /\ r = (10 * t) + s /\ a - v - k = (16 * t) + s
        BY <1>1, <2>1 DEF IsBcd, Digits
    <2>3. a' = (a - v - k) % 256 /\ n' /\ (h' <=> a % 16 < (v % 16) + k) /\ (c' <=> a < v + k)
        BY DEF Sub8, SubFlags, SetFlags
    <2>4. (a % 16 < (v % 16) + k <=> s < 0) /\ (a < v + k <=> a - v - k < 0)
        BY <1>1
    <2> HIDE DEF s, t
    <2> QED BY <2>2, <2>3, <2>4 DEF DifferenceLeft
<1>4. BcdExact'
    BY DEF Sub8, Computed, BcdExact
<1> QED BY <1>2, <1>3, <1>4 DEF AluInv

\* DAA turns what an addition or a subtraction left into its result in decimal.
LEMMA DaaKeeps == ASSUME AluInv, Daa PROVE AluInv'
<1> DEFINE carry == c \/ (~n /\ a > 153)
           adjust == IF n THEN SubAdjust(h, c) ELSE AddAdjust(a, h, c)
<1>1. a \in 0 .. 255 /\ n \in BOOLEAN /\ h \in BOOLEAN /\ c \in BOOLEAN
    BY DEF AluInv, AluTypeOK, Byte
<1>2. /\ a' = (IF n THEN a - adjust ELSE a + adjust) % 256
      /\ SetFlags(a' = 0, n, FALSE, carry)
      /\ answer' = decimal /\ decimal' = {}
    <2> DEFINE low == IF h \/ (~n /\ a % 16 > 9) THEN 6 ELSE 0
               high == IF carry THEN 96 ELSE 0
    <2>1. /\ a' = (IF n THEN a - (low + high) ELSE a + (low + high)) % 256
          /\ SetFlags(a' = 0, n, FALSE, carry)
          /\ answer' = decimal /\ decimal' = {}
        BY Zenon DEF Daa
    <2>2. n => low + high = SubAdjust(h, c)
        BY DEF SubAdjust
    <2>3. ~n => low + high = AddAdjust(a, h, c)
        BY DEF AddAdjust, Carries
    <2> HIDE DEF low, high, carry
    <2> QED BY <2>1, <2>2, <2>3
<1>3. AluTypeOK'
    <2>1. adjust \in Int
        BY DEF SubAdjust, AddAdjust
    <2> HIDE DEF adjust
    <2>2. a' \in Byte
        BY <1>1, <1>2, <2>1 DEF Byte
    <2>3. z' \in BOOLEAN /\ n' \in BOOLEAN /\ h' \in BOOLEAN /\ c' \in BOOLEAN
        BY <1>1, <1>2 DEF SetFlags
    <2> QED BY <2>2, <2>3 DEF AluTypeOK
<1>4. ASSUME NEW r \in decimal
      PROVE  DecimalOf(a', r) /\ (c' <=> (r < 0 \/ r > 99))
    <2>1. CASE ~n /\ SumLeft(r, a, h, c)
        <3>1. a' = (a + AddAdjust(a, h, c)) % 256 /\ (c' <=> Carries(a, c))
            BY <1>1, <1>2, <2>1 DEF SetFlags, Carries
        <3>2. /\ DecimalOf((a + AddAdjust(a, h, c)) % 256, r)
              /\ Carries(a, c) <=> (r < 0 \/ r > 99)
            BY <1>1, <2>1, AdjustsSum
        <3> QED BY <3>1, <3>2
    <2>2. CASE n /\ DifferenceLeft(r, a, h, c)
        <3>1. a' = (a - SubAdjust(h, c)) % 256 /\ (c' <=> c)
            BY <1>1, <1>2, <2>2 DEF SetFlags
        <3> QED BY <1>1, <2>2, <3>1, AdjustsDifference
    <2> QED BY <2>1, <2>2 DEF AluInv
<1>5. BcdExact'
    <2> SUFFICES ASSUME NEW r \in decimal
                 PROVE  IsBcd(a') /\ Digits(a') = r % 100 /\ c' = (r < 0 \/ r > 99)
        BY <1>2 DEF BcdExact
    <2> QED BY <1>3, <1>4, IsDigits DEF DecimalOf, AluTypeOK
<1> QED BY <1>2, <1>3, <1>5 DEF AluInv

-----------------------------------------------------------------------------
LEMMA RotatedKeeps ==
    ASSUME NEW result \in Byte, NEW out, NEW zeroFlag \in BOOLEAN, Rotated(result, out, zeroFlag)
    PROVE  AluInv'
<1>1. z' \in BOOLEAN /\ n' \in BOOLEAN /\ h' \in BOOLEAN /\ c' \in BOOLEAN
    BY DEF Rotated, SetFlags
<1> QED BY <1>1, OtherSteps DEF Rotated, AluTypeOK

\* Rotations and shifts leave a byte.
LEMMA ShiftedBytes ==
    ASSUME AluInv
    PROVE  /\ \A in \in {0, 1} : Left(in) \in Byte /\ Right(in) \in Byte
           /\ (16 * (a % 16)) + (a \div 16) \in Byte
           /\ \A i \in 0 .. 7 : Bit(a, i) \in {0, 1}
           /\ One(c) \in {0, 1}
<1>1. a \in 0 .. 255 /\ a \in Byte
    BY DEF AluInv, AluTypeOK, Byte
<1> QED BY <1>1, BitIsOneOrZero, SMTT(30) DEF Left, Right, Byte, One

LEMMA RotateKeeps == ASSUME AluInv, NEW zeroFlag \in BOOLEAN, Rotate(zeroFlag) PROVE AluInv'
BY ShiftedBytes, RotatedKeeps DEF Rotate

LEMMA ShiftKeeps == ASSUME AluInv, Shift PROVE AluInv'
<1>1. CASE Rotated(Left(0), Bit(a, 7), TRUE)
    BY <1>1, ShiftedBytes, RotatedKeeps
<1>2. ASSUME NEW in \in {Bit(a, 7), 0}, Rotated(Right(in), Bit(a, 0), TRUE) PROVE AluInv'
    <2>1. in \in {0, 1}
        BY ShiftedBytes
    <2>2. Right(in) \in Byte
        BY <2>1, ShiftedBytes
    <2> QED BY <1>2, <2>2, RotatedKeeps
<1>3. CASE Rotated((16 * (a % 16)) + (a \div 16), 0, TRUE)
    BY <1>3, ShiftedBytes, RotatedKeeps
<1> QED BY <1>1, <1>2, <1>3 DEF Shift

LEMMA FromBitsIsByte == \A S : FromBits(S) \in Byte
BY DEF FromBits, Weight, Byte

LEMMA LogicKeeps ==
    ASSUME NEW S, NEW half \in BOOLEAN, Logic(FromBits(S), half)
    PROVE  AluInv'
<1> DEFINE result == FromBits(S)
<1>1. result \in Byte
    BY FromBitsIsByte
<1> HIDE DEF result
<1>2. a' = result /\ SetFlags(result = 0, FALSE, half, FALSE) /\ NotDecimal
    BY DEF Logic, result
<1>3. z' \in BOOLEAN /\ n' \in BOOLEAN /\ h' \in BOOLEAN /\ c' \in BOOLEAN
    BY <1>2 DEF SetFlags
<1> QED BY <1>1, <1>2, <1>3, OtherSteps DEF AluTypeOK

LEMMA AluAKeeps == ASSUME AluInv, ExecuteAluA PROVE AluInv'
<1> PICK v \in Operands :
        \/ Add8(v, 0) \/ Add8(v, One(c))
        \/ Sub8(v, 0) \/ Sub8(v, One(c))
        \/ Compare(v)
        \/ Logic(FromBits(Bits(a) \cap Bits(v)), TRUE)
        \/ Logic(FromBits((Bits(a) \union Bits(v)) \ (Bits(a) \cap Bits(v))), FALSE)
        \/ Logic(FromBits(Bits(a) \union Bits(v)), FALSE)
    BY DEF ExecuteAluA
<1>1. v \in Byte /\ One(c) \in {0, 1}
    BY OperandsAssumption DEF Byte, One
<1>2. CASE Add8(v, 0) \/ Add8(v, One(c))
    BY <1>1, <1>2, AdditionKeeps
<1>3. CASE Sub8(v, 0) \/ Sub8(v, One(c))
    BY <1>1, <1>3, SubtractionKeeps
<1>4. CASE Compare(v)
    <2>1. z' \in BOOLEAN /\ n' \in BOOLEAN /\ h' \in BOOLEAN /\ c' \in BOOLEAN
        BY <1>4, SubFlagTypes DEF Compare
    <2> QED BY <1>4, <2>1, OtherSteps DEF Compare, AluInv, AluTypeOK
<1>5. CASE \/ Logic(FromBits(Bits(a) \cap Bits(v)), TRUE)
           \/ Logic(FromBits((Bits(a) \union Bits(v)) \ (Bits(a) \cap Bits(v))), FALSE)
           \/ Logic(FromBits(Bits(a) \union Bits(v)), FALSE)
    BY <1>5, LogicKeeps
<1> QED BY <1>2, <1>3, <1>4, <1>5

LEMMA CountingKeeps == ASSUME AluInv, Inc8 \/ Dec8 \/ LoadA \/ CplScfCcf PROVE AluInv'
<1>1. a \in 0 .. 255 /\ c \in BOOLEAN /\ z \in BOOLEAN /\ n \in BOOLEAN /\ h \in BOOLEAN
    BY DEF AluInv, AluTypeOK, Byte
<1>2. CASE Inc8
    <2>1. a' \in Byte
        BY <1>1, <1>2 DEF Inc8, Byte
    <2>2. ((a % 16) + 1 > 15) \in BOOLEAN
        BY <1>1
    <2>3. z' \in BOOLEAN /\ n' \in BOOLEAN /\ h' \in BOOLEAN /\ c' \in BOOLEAN
        BY <1>1, <1>2, <2>2, Zenon DEF Inc8, SetFlags
    <2> QED BY <1>2, <2>1, <2>3, OtherSteps DEF Inc8, AluTypeOK
<1>3. CASE Dec8
    <2>1. a' \in Byte
        BY <1>1, <1>3 DEF Dec8, Byte
    <2>2. z' \in BOOLEAN /\ n' \in BOOLEAN /\ h' \in BOOLEAN /\ c' \in BOOLEAN
        BY <1>1, <1>3 DEF Dec8, SetFlags
    <2> QED BY <1>3, <2>1, <2>2, OtherSteps DEF Dec8, AluTypeOK
<1>4. CASE LoadA
    <2>1. a' \in Byte
        BY <1>4, OperandsAssumption DEF LoadA, Byte
    <2> QED BY <1>1, <1>4, <2>1, OtherSteps DEF LoadA, AluTypeOK, flags
<1>5. CASE CplScfCcf
    <2>1. a' = 255 - a \/ a' = a
        BY <1>5, Zenon DEF CplScfCcf
    <2>2. a' \in Byte
        BY <1>1, <2>1 DEF Byte
    <2>3. z' \in BOOLEAN /\ n' \in BOOLEAN /\ h' \in BOOLEAN /\ c' \in BOOLEAN
        BY <1>1, <1>5 DEF CplScfCcf
    <2> QED BY <1>5, <2>2, <2>3, OtherSteps DEF CplScfCcf, AluTypeOK
<1> QED BY <1>2, <1>3, <1>4, <1>5

LEMMA BitOpcodeKeeps == ASSUME AluInv, BitOpcode PROVE AluInv'
<1>1. a \in Byte /\ c \in BOOLEAN /\ z \in BOOLEAN /\ n \in BOOLEAN /\ h \in BOOLEAN
    BY DEF AluInv, AluTypeOK
<1> PICK i \in 0 .. 7 :
        \/ UNCHANGED <<a, c>> /\ z' = (Bit(a, i) = 0) /\ n' = FALSE /\ h' = TRUE
        \/ a' = a - (Bit(a, i) * Weight(i)) /\ UNCHANGED flags
        \/ a' = a + ((1 - Bit(a, i)) * Weight(i)) /\ UNCHANGED flags
    BY DEF BitOpcode
<1>2. a' \in Byte
    BY <1>1, BitOpcodesStay
<1>3. z' \in BOOLEAN /\ n' \in BOOLEAN /\ h' \in BOOLEAN /\ c' \in BOOLEAN
    BY <1>1 DEF flags
<1> QED BY <1>2, <1>3, OtherSteps DEF BitOpcode, AluTypeOK

LEMMA AluInvariant == AluSpec => []AluInv
<1>1. AluInit => AluInv
    BY OperandsAssumption DEF AluInit, AluInv, AluTypeOK, BcdExact, Byte
<1>2. AluInv /\ [AluNext]_aluVars => AluInv'
    <2> SUFFICES ASSUME AluInv, [AluNext]_aluVars PROVE AluInv'
        OBVIOUS
    <2>1. CASE AluNext
        BY <2>1, AluAKeeps, CountingKeeps, DaaKeeps, RotateKeeps, ShiftKeeps, BitOpcodeKeeps DEF AluNext
    <2>2. CASE UNCHANGED aluVars
        BY <2>2 DEF AluInv, AluTypeOK, BcdExact, aluVars, flags
    <2> QED BY <2>1, <2>2
<1> QED BY <1>1, <1>2, PTL DEF AluSpec

(* A stays a byte and the flags flags, whatever the opcodes of gb_cpu_opcodes.c *)
(* that compute in A are applied to.                                            *)
THEOREM AluTypeCorrect == AluSpec => []AluTypeOK
<1>1. AluInv => AluTypeOK
    BY DEF AluInv
<1> QED BY <1>1, AluInvariant, PTL

(* DAA leaves the exact decimal result and carry after every addition and      *)
(* subtraction of decimal bytes.                                               *)
THEOREM DecimalExact == AluSpec => []BcdExact
<1>1. AluInv => BcdExact
    BY DEF AluInv
<1> QED BY <1>1, AluInvariant, PTL
=============================================================================
