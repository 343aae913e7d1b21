------------------------------ MODULE MCOamDma ------------------------------
(* Pages of two bytes, each one of two values.                               *)
EXTENDS OamDma

McBytes == {"ff", "00"}
=============================================================================
