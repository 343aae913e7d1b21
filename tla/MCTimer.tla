------------------------------ MODULE MCTimer ------------------------------
(* A divider of 32 values and clock selects of two lengths, and the masks of  *)
(* the code for a divider of 16 bits.                                        *)
EXTENDS TimerHistory, TLC

McTriggerMask == 0 :> 16 @@ 1 :> 8 @@ 2 :> 16 @@ 3 :> 16
RealTriggerMask == 0 :> 512 @@ 1 :> 8 @@ 2 :> 32 @@ 3 :> 128
=============================================================================
