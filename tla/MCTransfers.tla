---------------------------- MODULE MCTransfers ----------------------------
(* What copies in many steps and must look like one: both DMA units, and the *)
(* saving of cartridge RAM under the faults it is meant to survive. What the *)
(* DMA units share, the WRAM and VRAM one of them changes under the other,   *)
(* is among the steps of OamDma; otherwise the three share no variable.      *)
EXTENDS MCHdma, MCOamDma, MCSaveRam

VARIABLE part

mcVars == <<hdmaVars, oamDmaVars, vars, part>>

\* The other parts start in one state only.
McInit ==
    /\ part \in {"vram", "oam", "save"}
    /\ HdmaInit /\ OamDmaInit /\ Init
    /\ part = "oam" \/ (~cgb /\ oam = [i \in Index |-> Zero] /\ \A r \in Regions : mem[r] = oam)
    /\ part = "save" \/ (next = "g1" /\ \A g \in Games : disk[g] = NoFile)

VramStep == part = "vram" /\ HdmaNext /\ UNCHANGED <<oamDmaVars, vars, part>>
OamStep == part = "oam" /\ OamDmaNext /\ UNCHANGED <<hdmaVars, vars, part>>
SaveStep == part = "save" /\ Next /\ UNCHANGED <<hdmaVars, oamDmaVars, part>>

McNext == VramStep \/ OamStep \/ SaveStep

\* The host loop keeps calling gb_emulator_step, and an instruction ends.
McSpec ==
    /\ McInit /\ [][McNext]_mcVars
    /\ WF_mcVars(StalledStep /\ VramStep)
    /\ WF_mcVars(MachineCycle /\ VramStep)
    /\ WF_mcVars(EndInstruction /\ VramStep)
=============================================================================
