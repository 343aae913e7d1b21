---------------------------- MODULE DurableStore ----------------------------
(* What Save RAM promises a player: each game has one saved value, which a   *)
(* save replaces in one step, which nothing else changes, and which is what  *)
(* the game finds in its RAM when it is loaded.                              *)
CONSTANTS Games, Values, Fill, NoFile, NoGame

VARIABLES store,   \* the saved value of each game, or NoFile
          game,    \* the game being played, or NoGame
          ram      \* its RAM

storeVars == <<store, game, ram>>

Init ==
    /\ store \in [Games -> Values \union {NoFile}]
    /\ game = NoGame
    /\ ram = Fill

Open(g) ==
    /\ game = NoGame
    /\ game' = g
    /\ ram' = IF store[g] = NoFile THEN Fill ELSE store[g]
    /\ UNCHANGED store

Play ==
    /\ game # NoGame
    /\ ram' \in Values
    /\ UNCHANGED <<store, game>>

Commit ==
    /\ game # NoGame
    /\ store' = [store EXCEPT ![game] = ram]
    /\ UNCHANGED <<game, ram>>

\* The game is left: normally, by an error, or by a crash.
Leave ==
    /\ game # NoGame
    /\ game' = NoGame /\ ram' = Fill
    /\ UNCHANGED store

Next == (\E g \in Games : Open(g)) \/ Play \/ Commit \/ Leave

Spec == Init /\ [][Next]_storeVars
=============================================================================
