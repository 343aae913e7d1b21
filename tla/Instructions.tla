---------------------------- MODULE Instructions ----------------------------
(* What every opcode of cpu/gb_cpu_opcodes.c does with the bus, the program  *)
(* counter and the stack. An instruction is the sequence of machine cycles   *)
(* it ticks the hardware for, each one bus access or an idle cycle, and a    *)
(* time in T-cycles that it reports. The two are written down apart: the     *)
(* devices are driven by the ticks, while the emulator's cycle counters and  *)
(* the host's budget are driven by the reported times.                       *)
(*                                                                           *)
(* A byte on the stack is one half of a word, or junk; that is all the stack *)
(* needs. Cpu has what happens between the cycles; Alu the computed values.  *)
EXTENDS Integers, Sequences

CONSTANTS
    WordCount,   \* the words a program counter or a register pair can hold
    StackSize    \* the bytes the stack pointer walks over before it wraps

ASSUME InstructionsAssumption ==
    /\ WordCount \in Nat \ {0}
    /\ StackSize \in Nat \ {0} /\ StackSize % 2 = 0

VARIABLES
    at, sp,          \* the program counter and the stack pointer
    cell,            \* the bytes the stack pointer walks over
    script, time, effect,   \* of the instruction: the cycles to come, the
                            \* time it reports, and what it does in the end
    word,            \* the word being pushed, or the bytes popped
    drift,           \* T-cycles ticked and not yet reported
    frames           \* the words on the stack that still stand there

instruction == <<script, time, effect>>
instrVars == <<at, sp, cell, instruction, word, drift, frames>>

Words == 0 .. WordCount - 1
NextWord(w) == (w + 1) % WordCount
Junk == <<"junk", 0>>
Bytes == ({"high", "low"} \X Words) \union {Junk}

-----------------------------------------------------------------------------
\* An instruction ends by doing nothing more, jumping, returning, loading what
\* it popped, loading SP or stepping over the operand of STOP.
Row(cycles, t, end) == [cycles |-> cycles, time |-> t, effect |-> end]
Plain(cycles, t) == Row(cycles, t, "none")

Fetch8 == <<"fetch">>
Fetch16 == <<"fetch", "fetch">>
Push16 == <<"pushHigh", "pushLow">>
Pop16 == <<"popLow", "popHigh">>
Opcode(cycles) == Fetch8 \o cycles

LoadRows ==
    {Plain(Opcode(<<>>), 4), Plain(Opcode(<<"read">>), 8), Plain(Opcode(<<"write">>), 8),
     Plain(Opcode(Fetch8), 8), Plain(Opcode(Fetch8 \o <<"write">>), 12)}

WideLoadRows ==
    {Plain(Opcode(Fetch16), 12), Row(Opcode(Fetch16), 12, "setSp"),
     Plain(Opcode(<<"read">>), 8), Plain(Opcode(<<"write">>), 8),
     Plain(Opcode(Fetch16 \o <<"write", "write">>), 20)}

HighLoadRows ==
    {Plain(Opcode(Fetch8 \o <<access>>), 12) : access \in {"read", "write"}}
    \union {Plain(Opcode(<<access>>), 8) : access \in {"read", "write"}}
    \union {Plain(Opcode(Fetch16 \o <<access>>), 16) : access \in {"read", "write"}}

AluRows ==
    {Plain(Opcode(<<>>), 4), Plain(Opcode(<<"read">>), 8), Plain(Opcode(Fetch8), 8),
     Plain(Opcode(<<"read", "write">>), 12)}

WideAluRows == {Plain(Opcode(<<"idle">>), 8), Row(Opcode(<<"idle">>), 8, "setSp")}

SpOffsetRows ==
    {Row(Opcode(Fetch8 \o <<"idle", "idle">>), 16, "setSp"), Plain(Opcode(Fetch8 \o <<"idle">>), 12),
     Row(Opcode(<<"idle">>), 8, "setSp")}

\* The CB group adds its time to the 8 T-cycles of prefix and opcode.
CbRows ==
    {Plain(Opcode(Fetch8), 8), Plain(Opcode(Fetch8 \o <<"read">>), 4 + 8),
     Plain(Opcode(Fetch8 \o <<"read", "write">>), 8 + 8)}

\* Mutant: a jump that is not taken reports the time of one that is.
RelativeRowsAlwaysTaken ==
    {Row(Opcode(Fetch8 \o <<"idle">>), 12, "jump"), Plain(Opcode(Fetch8), 12)}

RelativeRows == {Row(Opcode(Fetch8 \o <<"idle">>), 12, "jump"), Plain(Opcode(Fetch8), 8)}

JumpRows ==
    {Row(Opcode(Fetch16 \o <<"idle">>), 16, "jump"), Plain(Opcode(Fetch16), 12),
     Row(Opcode(<<>>), 4, "jump")}

CallRows ==
    {Row(Opcode(Fetch16 \o <<"idle">> \o Push16), 24, "call"), Plain(Opcode(Fetch16), 12),
     Row(Opcode(<<"idle">> \o Push16), 16, "call")}

ReturnRows ==
    {Row(Opcode(<<"idle", "idle">> \o Pop16), 20, "return"), Plain(Opcode(<<"idle">>), 8),
     Row(Opcode(<<"idle">> \o Pop16), 16, "return")}

StackRows ==
    {Plain(Opcode(<<"idle">> \o Push16), 16), Row(Opcode(Pop16), 12, "pop")}

\* Interrupt entry fetches nothing.
EntryRow == Row(<<"idle", "idle">> \o Push16 \o <<"idle">>, 20, "call")

\* HALT, STOP, and the steps in which the CPU is halted or held by a VRAM DMA.
PowerRows == {Plain(Opcode(<<>>), 4), Row(Opcode(<<>>), 4, "operand"), Plain(<<"idle">>, 4)}

Rows ==
    LoadRows \union WideLoadRows \union HighLoadRows \union AluRows \union WideAluRows
    \union SpOffsetRows \union CbRows \union RelativeRows \union JumpRows \union CallRows
    \union ReturnRows \union StackRows \union {EntryRow} \union PowerRows

-----------------------------------------------------------------------------
InstrInit ==
    /\ at = 0 /\ sp = 0 /\ cell = [s \in 0 .. StackSize - 1 |-> Junk]
    /\ script = <<>> /\ time = 0 /\ effect = "idle"
    /\ word = <<>> /\ drift = 0 /\ frames = <<>>

BeginRow ==
    /\ effect = "idle"
    /\ \E r \in Rows : script' = r.cycles /\ time' = r.time /\ effect' = r.effect
    /\ word' = <<>>
    /\ UNCHANGED <<at, sp, cell, drift, frames>>

Up(s) == (s + 1) % StackSize
Down(s) == (s - 1) % StackSize

Remember(w) ==
    LET stack == <<w>> \o frames IN
    SubSeq(stack, 1, IF Len(stack) > StackSize \div 2 THEN StackSize \div 2 ELSE Len(stack))

FetchCycle == at' = NextWord(at) /\ UNCHANGED <<sp, cell, word, frames>>

\* A write elsewhere, or one that hits the stack.
WriteCycle ==
    /\ \/ UNCHANGED <<cell, frames>>
       \/ \E s \in 0 .. StackSize - 1 : cell' = [cell EXCEPT ![s] = Junk] /\ frames' = <<>>
    /\ UNCHANGED <<at, sp, word>>

\* Mutant: the high half is written before SP moves.
PushHighPostDecrement ==
    /\ \E w \in IF effect = "call" THEN {at} ELSE Words :
          cell' = [cell EXCEPT ![sp] = <<"high", w>>] /\ word' = <<w>>
    /\ sp' = Down(sp)
    /\ UNCHANGED <<at, frames>>

\* A call and an interrupt push the program counter, PUSH any word.
PushHigh8 ==
    /\ \E w \in IF effect = "call" THEN {at} ELSE Words :
          cell' = [cell EXCEPT ![Down(sp)] = <<"high", w>>] /\ word' = <<w>>
    /\ sp' = Down(sp)
    /\ UNCHANGED <<at, frames>>

PushLow8 ==
    /\ cell' = [cell EXCEPT ![Down(sp)] = <<"low", word[1]>>]
    /\ sp' = Down(sp)
    /\ frames' = Remember(word[1]) /\ word' = <<>>
    /\ UNCHANGED at

Pop8 ==
    /\ word' = Append(word, cell[sp])
    /\ sp' = Up(sp)
    /\ UNCHANGED <<at, cell, frames>>

BusCycle ==
    /\ script # <<>>
    /\ CASE Head(script) = "fetch" -> FetchCycle
         [] Head(script) = "write" -> WriteCycle
         [] Head(script) = "pushHigh" -> PushHigh8
         [] Head(script) = "pushLow" -> PushLow8
         [] Head(script) \in {"popLow", "popHigh"} -> Pop8
         [] OTHER -> UNCHANGED <<at, sp, cell, word, frames>>
    /\ script' = Tail(script) /\ drift' = drift + 4
    /\ UNCHANGED <<time, effect>>

\* The word two popped bytes make: a mixture of two words can be any.
Assembled ==
    {w \in Words : word = << <<"low", w>>, <<"high", w>> >>
                   \/ ~\E v \in Words : word = << <<"low", v>>, <<"high", v>> >>}

Landing ==
    CASE effect \in {"jump", "call"} -> Words
      [] effect = "return" -> Assembled
      [] effect = "operand" -> {NextWord(at)}
      [] OTHER -> {at}

\* The instruction retires: the control transfer, and the time it reports.
RetireRow ==
    /\ script = <<>> /\ effect # "idle"
    /\ at' \in Landing
    /\ IF effect = "setSp"
       THEN sp' \in 0 .. StackSize - 1 /\ frames' = <<>>
       ELSE /\ UNCHANGED sp
            /\ frames' = IF effect \in {"return", "pop"} /\ frames # <<>> THEN Tail(frames)
                                                                        ELSE frames
    /\ effect' = "idle" /\ time' = 0 /\ word' = <<>>
    /\ drift' = drift - time
    /\ UNCHANGED <<cell, script>>

InstrNext == BeginRow \/ BusCycle \/ RetireRow

InstrSpec == InstrInit /\ [][InstrNext]_instrVars

-----------------------------------------------------------------------------
InstrTypeOK ==
    /\ at \in Words /\ sp \in 0 .. StackSize - 1
    /\ cell \in [0 .. StackSize - 1 -> Bytes]
    /\ effect \in {"idle", "none", "jump", "call", "return", "pop", "setSp", "operand"}
    /\ Len(frames) <= StackSize \div 2

(* Time agrees: between two steps the T-cycles the CPU has reported are the  *)
(* ones the hardware was ticked for, whatever was executed, taken or not. A  *)
(* difference would not show in one instruction; it would make the emulated  *)
(* machine and the counters and the host budget run apart for good.          *)
TimeAgrees == effect = "idle" => drift = 0

(* Returns go to the caller: a RET or POP gets the word that the matching    *)
(* CALL, RST, interrupt entry or PUSH left, through any nesting of them and  *)
(* across the wrap of SP, as long as nothing else moved SP or wrote there.   *)
ReturnsToCaller ==
    script = <<>> /\ effect \in {"return", "pop"} /\ frames # <<>>
        => Assembled = {Head(frames)}
=============================================================================
