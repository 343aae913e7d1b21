---------------------------- MODULE MCCartridge ----------------------------
(* The cartridge and its save file in one run: saving under every fault, the *)
(* banks of every mapper and the clock of MBC3, which share no variable in   *)
(* the model. Registers are two or three bits narrower than the hardware's,  *)
(* with ROM and RAM in proportion.                                           *)
EXTENDS MCSaveRam, Mapper, Rtc

\* Carries after two seconds, two minutes and a single hour, and days of two
\* by two values.
McSizes == <<2, 2, 1, 2, 2>>

VARIABLE part

mcVars == <<vars, mapperVars, rtcVars, part>>

\* The other parts start in one state only.
McInit ==
    /\ part \in {"save", "mapper", "clock"}
    /\ Init /\ MapperInit /\ RtcInit
    /\ part = "save" \/ (next = "g1" /\ \A g \in Games : disk[g] = NoFile)
    /\ part = "clock" \/ ~present

SaveStep == part = "save" /\ Next /\ UNCHANGED <<mapperVars, rtcVars, part>>
MapperStep == part = "mapper" /\ MapperNext /\ UNCHANGED <<vars, rtcVars, part>>
ClockStep == part = "clock" /\ RtcNext /\ UNCHANGED <<vars, mapperVars, part>>

McNext == SaveStep \/ MapperStep \/ ClockStep

McSpec == McInit /\ [][McNext]_mcVars

(* The RAM, the bank registers and the clock registers keep their ranges,    *)
(* and memory behind an attached game is always filled.                      *)
CartridgeTypeOK == SaveRamTypeOK /\ MapperTypeOK /\ RtcTypeOK
=============================================================================
