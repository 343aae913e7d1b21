------------------------------- MODULE MCCore -------------------------------
(* The CPU and the loop that paces it, in one run: the control of the CPU,   *)
(* with two interrupt sources and four addresses, one of them each source's  *)
(* handler; the bus cycles and times of its instructions; its arithmetic;    *)
(* and the main loop. The four share no variable in the model, so their      *)
(* steps commute and a behaviour may as well be all of one: `part` says      *)
(* which, and the states add up instead of multiplying.                      *)
EXTENDS CpuHistory, Instructions, Alu, HostLoop, TLC

McSources == {0, 1}
McVector == (0 :> 2) @@ (1 :> 3)

VARIABLE part

mcVars == <<allVars, instrVars, aluVars, hostVars, part>>

\* The other parts start in one state only.
McInit ==
    /\ part \in {"control", "instructions", "alu", "loop"}
    /\ HInit /\ InstrInit /\ AluInit /\ HostInit
    /\ part = "alu" \/ a = 0
    /\ part = "loop" \/ ~hasGame

ControlStep == part = "control" /\ HNext /\ UNCHANGED <<instrVars, aluVars, hostVars, part>>
InstructionStep ==
    part = "instructions" /\ InstrNext /\ UNCHANGED <<allVars, aluVars, hostVars, part>>
AluStep == part = "alu" /\ AluNext /\ UNCHANGED <<allVars, instrVars, hostVars, part>>
LoopStep == part = "loop" /\ HostNext /\ UNCHANGED <<allVars, instrVars, aluVars, part>>

McNext == ControlStep \/ InstructionStep \/ AluStep \/ LoopStep

\* The caller keeps calling gb_cpu_step, as FairSpec of Cpu has it; the loop of
\* gb_sdl3_run takes the steps that are its own.
McSpec ==
    /\ McInit /\ [][McNext]_mcVars
    /\ WF_mcVars(StepCpu /\ ControlStep)
    /\ WF_mcVars(Loop /\ LoopStep)

(* The registers and budgets of all four keep their types and widths: the    *)
(* program counter and the stack pointer wrap, and the budget is overdrawn   *)
(* by less than an instruction.                                              *)
CoreTypeOK == CpuTypeOK /\ InstrTypeOK /\ AluTypeOK /\ HostLoopTypeOK
=============================================================================
