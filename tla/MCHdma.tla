------------------------------- MODULE MCHdma -------------------------------
(* Six source blocks, the fourth and the last outside the valid ranges,      *)
(* three blocks of VRAM and two visible lines out of three.                  *)
EXTENDS Hdma

McSourceBlocks == {0, 1, 2, 4}
=============================================================================
