------------------------------- MODULE MCHost -------------------------------
(* The joypad with its menu and gamepads, and the building of the hardware,  *)
(* in one run; they share no variable in the model.                          *)
EXTENDS Joypad, Lifecycle, TLC

\* A button of each column, one of them on the gamepad too; the keys are those
\* of the menu, one of which is START's by default.
McButtonOrder == << <<"action", 3>>, <<"dpad", 3>> >>
McDefaultBindings == <<"action", 3>> :> "return" @@ <<"dpad", 3>> :> "down"
McPadButtons == {<<"action", 3>>}

VARIABLE part

mcVars == <<joypadVars, lifeVars, part>>

McInit ==
    /\ part \in {"joypad", "life"}
    /\ JoypadInit /\ LifeInit
    /\ part = "life" \/ requested_mode = "auto"

JoypadStep == part = "joypad" /\ JoypadNext /\ UNCHANGED <<lifeVars, part>>
LifeStep == part = "life" /\ LifeNext /\ UNCHANGED <<joypadVars, part>>

McNext == JoypadStep \/ LifeStep

McSpec == McInit /\ [][McNext]_mcVars

(* The button masks, the select lines and the menu, the device table and the *)
(* calls in progress keep their ranges.                                      *)
HostTypeOK == JoypadTypeOK /\ LifeTypeOK
=============================================================================
