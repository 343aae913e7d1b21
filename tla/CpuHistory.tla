---------------------------- MODULE CpuHistory ----------------------------
(* Cpu with history variables, and the properties of interrupt handling that *)
(* relate a step to earlier ones.                                            *)
EXTENDS Cpu

VARIABLES
    shadow,        \* EI ran with interrupts off; its next instruction has not
    acked          \* the sources acknowledged and not yet entered

histVars == <<shadow, acked>>
allVars == <<vars, histVars>>

HInit == Init /\ shadow = FALSE /\ acked = {}

Retires == phase = "tail" /\ phase' = "step"

HNext ==
    /\ Next
    /\ shadow' = IF phase' \in {"failed"} \/ ResetCpu THEN FALSE
                 ELSE IF ExecEI THEN ~ime
                 ELSE IF Retires /\ op # "ei" THEN FALSE
                 ELSE shadow
    /\ acked' = IF phase' = "pushHigh" THEN {s \in Pending : \A t \in Pending : s <= t}
                ELSE IF phase' \in {"step", "failed"} THEN {} ELSE acked

HSpec == HInit /\ [][HNext]_allVars
HFairSpec == HSpec /\ WF_allVars(StepCpu /\ HNext)

-----------------------------------------------------------------------------
(* EI takes effect one instruction late, neither earlier nor later: no       *)
(* interrupt is entered between an EI and the end of the instruction after   *)
(* it, and at that end IME is on, unless that instruction is EI or DI        *)
(* (cpu->ime_enable_delay in gb_cpu_step).                                    *)
EiDelaysOneInstruction ==
    [][/\ phase' = "pushHigh" => ~shadow
       /\ shadow /\ Retires /\ op \notin {"ei", "di"} => ime']_allVars

(* A request latched in IF is dropped only by the acknowledgement of that    *)
(* very source, by a write of the program to IF (through an instruction or   *)
(* through a stack pointer aimed at it), or by a reset.                      *)
RequestsAreKept ==
    [][\A s \in iflag \ iflag' :
          \/ phase' = "pushHigh" /\ s \in acked'
          \/ phase = "exec" /\ op = "writeIF"
          \/ phase \in {"pushHigh", "pushLow"}
          \/ ResetCpu]_allVars

(* The handler entered is the one of the source that was acknowledged, the   *)
(* most urgent at that moment, although the pushes in between may rewrite IE *)
(* or IF and devices may raise more urgent requests.                         *)
EntersAcknowledgedVector ==
    [][phase = "enter" /\ phase' = "step" /\ ~ResetCpu =>
          \E s \in acked : pc' = Vector[s]]_allVars

(* A halted CPU wakes up once an enabled request is pending, interrupts      *)
(* enabled or not, unless the bus fails first.                               *)
HaltWakes == (halted /\ Pending # {}) ~> (~halted \/ phase = "failed")
=============================================================================
