-------------------------------- MODULE Cpu --------------------------------
(* The control part of the CPU: gb_cpu_step and cpu_interrupt_service of     *)
(* cpu/gb_cpu.c, the opcodes of cpu/gb_cpu_opcodes.c that change interrupt   *)
(* or power state (EI, DI, HALT, STOP, RETI and the invalid ones), and the   *)
(* IF/IE latches of interrupt/gb_interrupt.c they work on.                   *)
(*                                                                           *)
(* One gb_cpu_step is several actions, cut where the code calls out of the   *)
(* CPU: every bus access and every machine cycle ticks the devices, and a    *)
(* device may request an interrupt in any of them.  Registers, flags and     *)
(* memory are not modelled: an ordinary instruction is "other", and what the *)
(* stack holds is the running program's choice.                              *)
EXTENDS Naturals

CONSTANTS
    Sources,       \* the interrupt sources, numbered by their bit in IF/IE
    PcSize,        \* the number of program addresses; pc wraps at PcSize
    Vector         \* the handler address of each source

ASSUME SourcesAssumption == Sources \subseteq Nat
ASSUME PcSizeAssumption == PcSize \in Nat \ {0}
ASSUME VectorAssumption == Vector \in [Sources -> 0 .. PcSize - 1]

Addr == 0 .. PcSize - 1

\* What the instruction being executed does to the state modelled here.
Ops == {"other", "ei", "di", "halt", "stop", "reti", "writeIF", "writeIE",
        "invalid"}

VARIABLES
    phase,         \* where gb_cpu_step is
    op,            \* the opcode fetched last
    mask,          \* interrupt_mask, the local of cpu_interrupt_service:
                   \* the bits being serviced
    pc,
    ime, imeDelay, halted, stopped, faulted, haltBug,
    iflag, ie      \* IF and IE, as sets of sources

irqVars == <<iflag, ie>>
powerVars == <<halted, stopped, faulted>>
vars == <<phase, op, mask, pc, ime, imeDelay, halted, stopped,
          faulted, haltBug, iflag, ie>>

ServicePhases == {"pushHigh", "pushLow", "enter"}
Phases == {"step", "exec", "tail", "failed"} \union ServicePhases

CpuTypeOK ==
    /\ phase \in Phases
    /\ op \in Ops
    /\ mask \subseteq Sources
    /\ pc \in Addr
    /\ ime \in BOOLEAN /\ imeDelay \in 0 .. 2
    /\ halted \in BOOLEAN /\ stopped \in BOOLEAN /\ faulted \in BOOLEAN
    /\ haltBug \in BOOLEAN
    /\ iflag \subseteq Sources /\ ie \subseteq Sources

-----------------------------------------------------------------------------
Pending == iflag \intersect ie

\* Bit 0 has the highest priority.
IsHighest(s, P) == s \in P /\ \A t \in P : s <= t

\* Mutant: PC does not wrap.
NextAddrNoWrap(a) == a + 1

NextAddr(a) == (a + 1) % PcSize

\* One or more machine cycles: the devices may request any sources.
Tick(flags) == \E requested \in SUBSET Sources : iflag' = flags \union requested

\* A byte written through the stack pointer lands in RAM, or on IE or IF when
\* SP points there; a byte of the return address then sets any bits.
StackWrite ==
    \/ UNCHANGED ie /\ Tick(iflag)
    \/ UNCHANGED ie /\ \E byte \in SUBSET Sources : Tick(byte)
    \/ ie' \in SUBSET Sources /\ Tick(iflag)

\* Address 0 stands for the cartridge entry point.
Init ==
    /\ phase = "step" /\ op = "other" /\ mask = {}
    /\ pc = 0
    /\ ime = FALSE /\ imeDelay = 0 /\ haltBug = FALSE
    /\ halted = FALSE /\ stopped = FALSE /\ faulted = FALSE
    /\ iflag = {} /\ ie = {}

-----------------------------------------------------------------------------
CanStep == phase = "step" /\ ~faulted /\ ~stopped

\* The halted CPU idles one machine cycle while nothing is pending.
IdleHalted ==
    /\ CanStep /\ halted /\ Pending = {}
    /\ Tick(iflag)
    /\ UNCHANGED <<phase, op, mask, pc, ime, imeDelay, haltBug,
                   halted, stopped, faulted, ie>>

\* Mutant: the acknowledgement clears all of IF.
BeginServiceClearsAll ==
    /\ CanStep /\ ime /\ Pending # {}
    /\ \E s \in Sources : IsHighest(s, Pending) /\ mask' = {s}
    /\ Tick({})
    /\ ime' = FALSE /\ imeDelay' = 0 /\ halted' = FALSE
    /\ phase' = "pushHigh"
    /\ UNCHANGED <<op, pc, haltBug, stopped, faulted, ie>>

\* cpu_interrupt_service up to its two wait cycles: the source is chosen and
\* acknowledged before the pushes, which may still change IF and IE.
BeginService ==
    /\ CanStep /\ ime /\ Pending # {}
    /\ \E s \in Sources :
          /\ IsHighest(s, Pending)
          /\ mask' = {s}
          /\ Tick(iflag \ {s})
    /\ ime' = FALSE /\ imeDelay' = 0 /\ halted' = FALSE
    /\ phase' = "pushHigh"
    /\ UNCHANGED <<op, pc, haltBug, stopped, faulted, ie>>

PushHigh ==
    /\ phase = "pushHigh"
    /\ StackWrite
    /\ phase' = "pushLow"
    /\ UNCHANGED <<op, mask, pc, ime, imeDelay, haltBug, halted, stopped, faulted>>

PushLow ==
    /\ phase = "pushLow"
    /\ StackWrite
    /\ phase' = "enter"
    /\ UNCHANGED <<op, mask, pc, ime, imeDelay, haltBug, halted, stopped, faulted>>

\* Mutant: the vector is chosen from what is pending after the pushes.
EnterVectorLate ==
    /\ phase = "enter"
    /\ Tick(iflag)
    /\ pc' \in IF Pending = {} THEN {Vector[s] : s \in mask}
              ELSE {Vector[s] : s \in {t \in Pending : IsHighest(t, Pending)}}
    /\ phase' = "step"
    /\ UNCHANGED <<op, mask, ime, imeDelay, haltBug, halted, stopped,
                   faulted, ie>>

EnterVector ==
    /\ phase = "enter"
    /\ Tick(iflag)
    /\ \E s \in mask : pc' = Vector[s]
    /\ phase' = "step"
    /\ UNCHANGED <<op, mask, ime, imeDelay, haltBug, halted, stopped,
                   faulted, ie>>

\* Mutant: a request wakes HALT only with interrupts enabled.
FetchOnlyAwake ==
    /\ CanStep /\ ~(ime /\ Pending # {}) /\ ~halted
    /\ op' \in Ops
    /\ Tick(iflag)
    /\ pc' = IF haltBug THEN pc ELSE NextAddr(pc)
    /\ haltBug' = FALSE
    /\ phase' = "exec"
    /\ UNCHANGED <<mask, ime, imeDelay, powerVars, ie>>

\* The opcode fetch: a pending interrupt wakes HALT, the read and its machine
\* cycle, and the increment of PC, which the HALT bug suppresses once.
Fetch ==
    /\ CanStep /\ ~(ime /\ Pending # {}) /\ ~(halted /\ Pending = {})
    /\ op' \in Ops
    /\ Tick(iflag)
    /\ pc' = IF haltBug THEN pc ELSE NextAddr(pc)
    /\ haltBug' = FALSE /\ halted' = FALSE
    /\ phase' = "exec"
    /\ UNCHANGED <<mask, ime, imeDelay, stopped, faulted, ie>>

ExecOther ==
    /\ phase = "exec" /\ op = "other"
    /\ phase' = "tail"
    /\ UNCHANGED <<op, mask, pc, ime, imeDelay, haltBug, powerVars, irqVars>>

\* Mutant: EI enables interrupts at the end of EI itself.
ExecEIAtOnce ==
    /\ phase = "exec" /\ op = "ei"
    /\ imeDelay' = 1
    /\ phase' = "tail"
    /\ UNCHANGED <<op, mask, pc, ime, haltBug, powerVars, irqVars>>

ExecEI ==
    /\ phase = "exec" /\ op = "ei"
    /\ imeDelay' = 2
    /\ phase' = "tail"
    /\ UNCHANGED <<op, mask, pc, ime, haltBug, powerVars, irqVars>>

ExecDI ==
    /\ phase = "exec" /\ op = "di"
    /\ ime' = FALSE /\ imeDelay' = 0
    /\ phase' = "tail"
    /\ UNCHANGED <<op, mask, pc, haltBug, powerVars, irqVars>>

\* HALT asks for the pending interrupts again, after its own fetch cycle.
ExecHalt ==
    /\ phase = "exec" /\ op = "halt"
    /\ IF ~ime /\ Pending # {}
       THEN haltBug' = TRUE /\ halted' = FALSE
       ELSE halted' = TRUE /\ UNCHANGED haltBug
    /\ phase' = "tail"
    /\ UNCHANGED <<op, mask, pc, ime, imeDelay, stopped, faulted, irqVars>>

\* STOP skips its operand byte.
ExecStop ==
    /\ phase = "exec" /\ op = "stop"
    /\ stopped' = TRUE /\ pc' = NextAddr(pc)
    /\ phase' = "tail"
    /\ UNCHANGED <<op, mask, ime, imeDelay, haltBug, halted, faulted, irqVars>>

\* RETI pops whatever address the program left on the stack.
ExecReti ==
    /\ phase = "exec" /\ op = "reti"
    /\ pc' \in Addr
    /\ ime' = TRUE /\ imeDelay' = 0
    /\ phase' = "tail"
    /\ UNCHANGED <<op, mask, haltBug, powerVars, irqVars>>

ExecWriteIF ==
    /\ phase = "exec" /\ op = "writeIF"
    /\ iflag' \in SUBSET Sources
    /\ phase' = "tail"
    /\ UNCHANGED <<op, mask, pc, ime, imeDelay, haltBug, powerVars, ie>>

ExecWriteIE ==
    /\ phase = "exec" /\ op = "writeIE"
    /\ ie' \in SUBSET Sources
    /\ phase' = "tail"
    /\ UNCHANGED <<op, mask, pc, ime, imeDelay, haltBug, powerVars, iflag>>

\* An undocumented opcode locks the CPU; gb_cpu_step returns the error.
ExecInvalid ==
    /\ phase = "exec" /\ op = "invalid"
    /\ faulted' = TRUE
    /\ phase' = "failed"
    /\ UNCHANGED <<op, mask, pc, ime, imeDelay, haltBug, halted, stopped, irqVars>>

\* The machine cycles an instruction has after its effect, and the countdown
\* EI started, which the end of every instruction advances.
HasTail == {"other", "reti", "writeIF", "writeIE"}
Retire ==
    /\ phase = "tail"
    /\ IF op \in HasTail THEN Tick(iflag) ELSE UNCHANGED iflag
    /\ imeDelay' = IF imeDelay = 0 THEN 0 ELSE imeDelay - 1
    /\ ime' = (ime \/ imeDelay = 1)
    /\ phase' = "step"
    /\ UNCHANGED <<op, mask, pc, haltBug, powerVars, ie>>

\* A bus callback fails: gb_cpu_step returns at once with what it did so far,
\* and the host loop gives up.  EI and DI call nothing after their fetch.
CallsBus == \/ phase \in ServicePhases
            \/ phase = "exec" /\ op \notin {"ei", "di"}
            \/ phase = "tail" /\ op \in HasTail

BusError ==
    /\ CanStep \/ CallsBus
    /\ phase' = "failed"
    /\ halted' = (halted /\ ~(CanStep /\ Pending # {}))
    /\ UNCHANGED <<op, mask, pc, ime, imeDelay, haltBug, stopped, faulted, irqVars>>

\* gb_cpu_wake_from_stop, called for a host input event or a speed switch.
WakeFromStop ==
    /\ phase = "step" /\ stopped
    /\ stopped' = FALSE
    /\ UNCHANGED <<phase, op, mask, pc, ime, imeDelay, haltBug, halted,
                   faulted, irqVars>>

\* gb_cpu_reset and gb_interrupt_reset, both called by gb_emulator_reset.
ResetCpu ==
    /\ phase \in {"step", "failed"}
    /\ phase' = "step"
    /\ pc' = 0
    /\ ime' = FALSE /\ imeDelay' = 0 /\ haltBug' = FALSE
    /\ halted' = FALSE /\ stopped' = FALSE /\ faulted' = FALSE
    /\ iflag' = {} /\ ie' = {}
    /\ UNCHANGED <<op, mask>>

Execute == \/ ExecOther \/ ExecEI \/ ExecDI \/ ExecHalt \/ ExecStop \/ ExecReti
           \/ ExecWriteIF \/ ExecWriteIE \/ ExecInvalid
Service == BeginService \/ PushHigh \/ PushLow \/ EnterVector

\* What gb_cpu_step does when nothing fails.
StepCpu == IdleHalted \/ Service \/ Fetch \/ Execute \/ Retire

Next == StepCpu \/ BusError \/ WakeFromStop \/ ResetCpu

Spec == Init /\ [][Next]_vars

\* The host loop calls gb_cpu_step again and again.
FairSpec == Spec /\ WF_vars(StepCpu)

-----------------------------------------------------------------------------
(* While an interrupt is being entered the CPU cannot be interrupted again   *)
(* and none of its sleep states is on.                                       *)
EntryIsMasked ==
    phase \in ServicePhases => /\ ~ime /\ imeDelay = 0
                               /\ ~halted /\ ~stopped /\ ~faulted

(* The CPU is in at most one of the HALT, STOP and locked states, and an     *)
(* armed HALT bug means it is running.                                       *)
OneSleepState ==
    /\ ~(halted /\ stopped) /\ ~(halted /\ faulted) /\ ~(stopped /\ faulted)
    /\ haltBug => ~halted /\ phase # "exec"
=============================================================================
