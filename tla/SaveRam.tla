------------------------------ MODULE SaveRam ------------------------------
(* Battery-backed save RAM (save/gb_save.c) and the life cycle of the        *)
(* emulator that drives it (gb_emulator_load_rom, gb_emulator_save_ram and   *)
(* gb_emulator_destroy of emulator/gb_emulator.c).                           *)
(*                                                                           *)
(* gb_save_ram_save makes four calls to the file system, each an action that *)
(* may fail, and the process may die between any two.  A file's content is a *)
(* member of Values or, half written, Partial.  The faults that may happen   *)
(* are a parameter, so that a run says which ones a property survives.       *)
EXTENDS Naturals

CONSTANTS
    Games,         \* battery-backed cartridges; each has its own save path
    Values,        \* contents of the cartridge RAM
    Fill,          \* the content of all 0xFF bytes
    Faults,        \* what may go wrong
    NoGame, NoFile, Partial

FaultKinds == {"open", "write", "remove", "rename", "read", "crash", "windowCrash"}

ASSUME FillAssumption == Fill \in Values
ASSUME FaultsAssumption == Faults \subseteq FaultKinds
ASSUME NamesAssumption ==
    NoGame \notin Games /\ NoFile # Partial /\ {NoFile, Partial} \intersect Values = {}

VARIABLES
    disk,          \* the file at save->path of each game, or NoFile
    tmp,           \* the file at that path with ".tmp" added
    status,        \* of the process: running, or how it last ended
    game,          \* the loaded cartridge
    attached,      \* emulator->save_ram_initialized, save->enabled
    ram, dirty,    \* cartridge->ram, cartridge->ram_dirty
    lastOk,        \* save->last_save_succeeded
    at,            \* the next call of gb_save_ram_save or of the loading
    why,           \* who called gb_save_ram_save
    next           \* the game gb_emulator_load_rom is loading

fileVars == <<disk, tmp>>
vars == <<disk, tmp, status, game, attached, ram, dirty, lastOk, at, why, next>>

SaveSteps == {"idle", "open", "write", "remove", "rename", "load"}
Callers == {"save", "replace", "exit"}
Statuses == {"off", "running", "ok", "failed", "killed"}

SaveRamTypeOK ==
    /\ disk \in [Games -> Values \union {NoFile, Partial}]
    /\ tmp \in [Games -> Values \union {NoFile, Partial}]
    /\ status \in Statuses /\ attached \in BOOLEAN /\ dirty \in BOOLEAN /\ lastOk \in BOOLEAN
    /\ game \in Games \union {NoGame}
    /\ ram \in Values
    /\ at \in SaveSteps
    /\ why \in Callers
    /\ next \in Games

Init ==
    /\ disk \in [Games -> Values \union {NoFile}]
    /\ tmp = [g \in Games |-> NoFile]
    /\ status = "off" /\ game = NoGame /\ attached = FALSE
    /\ ram = Fill /\ dirty = FALSE /\ lastOk = FALSE
    /\ at = "idle" /\ why = "save" /\ next \in Games

-----------------------------------------------------------------------------
Running == status = "running"
Idle == Running /\ at = "idle"

\* The memory of the process is gone; ram = Fill stands for no RAM at all.
ProcessEnds(how) ==
    /\ status' = how /\ game' = NoGame /\ attached' = FALSE
    /\ ram' = Fill /\ dirty' = FALSE /\ lastOk' = FALSE
    /\ at' = "idle"
    /\ UNCHANGED <<why, next>>

\* gb_save_ram_destroy frees the save state, then the cartridge is unloaded.
Unload ==
    /\ game' = NoGame /\ attached' = FALSE
    /\ ram' = Fill /\ dirty' = FALSE /\ lastOk' = FALSE

Start ==
    /\ ~Running
    /\ status' = "running"
    /\ UNCHANGED <<fileVars, game, attached, ram, dirty, lastOk, at, why, next>>

\* gb_cartridge_write8 marks the RAM dirty only when a byte changes.
WriteRam ==
    /\ Idle /\ game # NoGame
    /\ ram' \in Values \ {ram}
    /\ dirty' = TRUE
    /\ UNCHANGED <<fileVars, status, game, attached, lastOk, at, why, next>>

BeginSave(caller) ==
    /\ at' = "open" /\ why' = caller
    /\ UNCHANGED <<fileVars, status, game, attached, ram, dirty, lastOk>>

\* gb_emulator_save_ram saves whether or not the RAM is dirty.
SaveRequested ==
    /\ Idle /\ attached
    /\ BeginSave("save")
    /\ UNCHANGED next

\* gb_emulator_load_rom flushes and forgets the game it replaces.
LoadRom(g) ==
    /\ Idle
    /\ next' = g
    /\ IF attached /\ dirty
       THEN BeginSave("replace")
       ELSE Unload /\ at' = "load" /\ UNCHANGED <<fileVars, status, why>>

\* Mutant: the RAM of a game without a save file is not initialised.
LoadCartridgeNoFill ==
    /\ Running /\ at = "load"
    /\ game' = next /\ attached' = TRUE
    /\ ram' = disk[next]
    /\ dirty' = FALSE /\ lastOk' = TRUE
    /\ at' = "idle"
    /\ UNCHANGED <<fileVars, status, why, next>>

\* gb_cartridge_load, gb_save_ram_attach and gb_save_ram_load; a missing file
\* is a game never saved.
LoadCartridge ==
    /\ Running /\ at = "load"
    /\ game' = next /\ attached' = TRUE
    /\ ram' = IF disk[next] = NoFile THEN Fill ELSE disk[next]
    /\ dirty' = FALSE /\ lastOk' = TRUE
    /\ at' = "idle"
    /\ UNCHANGED <<fileVars, status, why, next>>

\* A bad ROM or an unreadable save leaves the emulator without a game.
LoadFails ==
    /\ Running /\ at = "load" /\ "read" \in Faults
    /\ at' = "idle"
    /\ UNCHANGED <<fileVars, status, game, attached, ram, dirty, lastOk, why, next>>

\* Mutant: the program ends without a flush.
ExitWithoutFlush ==
    Idle /\ ProcessEnds("ok") /\ UNCHANGED fileVars

\* gb_emulator_destroy: flush, then free everything.
Exit ==
    /\ Idle
    /\ IF attached /\ dirty
       THEN BeginSave("exit") /\ UNCHANGED next
       ELSE ProcessEnds("ok") /\ UNCHANGED fileVars

-----------------------------------------------------------------------------
\* What the caller of gb_save_ram_save does with a success and with an error.
SaveReturns ==
    \/ /\ why = "save"
       /\ dirty' = FALSE /\ lastOk' = TRUE /\ at' = "idle"
       /\ UNCHANGED <<status, game, attached, ram, why, next>>
    \/ why = "replace" /\ Unload /\ at' = "load" /\ UNCHANGED <<status, why, next>>
    \/ why = "exit" /\ ProcessEnds("ok")

\* Mutant: an error leaves last_save_succeeded as it was.
SaveFailsSilently ==
    \/ /\ why = "save"
       /\ at' = "idle"
       /\ UNCHANGED <<status, game, attached, ram, dirty, lastOk, why, next>>
    \/ /\ why = "replace"
       /\ attached' = FALSE /\ at' = "idle"
       /\ UNCHANGED <<status, game, ram, dirty, lastOk, why, next>>
    \/ why = "exit" /\ ProcessEnds("failed")

\* A failed replacement keeps the old game, but gb_save_ram_destroy has
\* already released its save state.
SaveFails ==
    \/ /\ why = "save"
       /\ lastOk' = FALSE /\ at' = "idle"
       /\ UNCHANGED <<status, game, attached, ram, dirty, why, next>>
    \/ /\ why = "replace"
       /\ attached' = FALSE /\ lastOk' = FALSE /\ at' = "idle"
       /\ UNCHANGED <<status, game, ram, dirty, why, next>>
    \/ why = "exit" /\ ProcessEnds("failed")

Continue(step) ==
    at' = step /\ UNCHANGED <<status, game, attached, ram, dirty, lastOk, why, next>>

SetFile(f, content) == f' = [f EXCEPT ![game] = content]

\* Mutant: the old file is removed before the new one is complete.
OpenTempRemovesOld ==
    /\ at = "open"
    /\ SetFile(disk, NoFile) /\ SetFile(tmp, Partial)
    /\ Continue("write")

\* fopen(temp_path, "wb") truncates what an earlier crash left there.
OpenTemp ==
    /\ at = "open"
    /\ SetFile(tmp, Partial)
    /\ Continue("write")
    /\ UNCHANGED disk

OpenTempFails ==
    /\ at = "open" /\ "open" \in Faults
    /\ SaveFails
    /\ UNCHANGED fileVars

WriteTemp ==
    /\ at = "write"
    /\ SetFile(tmp, ram)
    /\ Continue("remove")
    /\ UNCHANGED disk

\* Mutant: a short fwrite goes unnoticed.
WriteTempUnchecked ==
    /\ at = "write" /\ "write" \in Faults
    /\ SetFile(tmp, Partial)
    /\ Continue("remove")
    /\ UNCHANGED disk

\* The temporary file is removed, if the file system lets it.
WriteTempFails ==
    /\ at = "write" /\ "write" \in Faults
    /\ \E left \in {NoFile, Partial} : SetFile(tmp, left)
    /\ SaveFails
    /\ UNCHANGED disk

RemoveOld ==
    /\ at = "remove"
    /\ SetFile(disk, NoFile)
    /\ Continue("rename")
    /\ UNCHANGED tmp

RemoveOldFails ==
    /\ at = "remove" /\ "remove" \in Faults
    /\ disk[game] # NoFile
    /\ SetFile(tmp, NoFile)
    /\ SaveFails
    /\ UNCHANGED disk

\* rename either puts the new file in place or fails; the temporary file is
\* gone both ways.
RenameTemp == SetFile(disk, tmp[game]) /\ SaveReturns
RenameTempFails == "rename" \in Faults /\ SaveFails /\ UNCHANGED disk

Rename ==
    /\ at = "rename"
    /\ SetFile(tmp, NoFile)
    /\ RenameTemp \/ RenameTempFails

\* The process is killed.  Only between the removal of the old file and the
\* renaming of the new one does no file stand at the save path.
Crash ==
    /\ Running
    /\ \/ at = "rename" /\ "windowCrash" \in Faults
       \/ at # "rename" /\ "crash" \in Faults
    /\ ProcessEnds("killed")
    /\ UNCHANGED fileVars

Save == \/ OpenTemp \/ WriteTemp \/ RemoveOld \/ Rename
        \/ OpenTempFails \/ WriteTempFails \/ RemoveOldFails

Next == \/ Start \/ WriteRam \/ SaveRequested \/ Exit \/ Crash
        \/ \E g \in Games : LoadRom(g)
        \/ LoadCartridge \/ LoadFails
        \/ Save

Spec == Init /\ [][Next]_vars

-----------------------------------------------------------------------------
(* A save file is never half written: only a complete temporary file is      *)
(* renamed over it, whatever failed or died before.                          *)
DiskNeverTorn == \A g \in Games : disk[g] # Partial

\* The save path reads back as the given RAM content.
OnDisk(g, content) ==
    disk[g] = content \/ (disk[g] = NoFile /\ content = Fill)

(* RAM that is not marked dirty, after a save that reported success, is what *)
(* the next start would load.  Without last_save_succeeded this is false: an *)
(* explicit save of clean RAM whose rename fails leaves no file and no mark. *)
CleanMeansSaved ==
    Idle /\ attached /\ ~dirty /\ lastOk => OnDisk(game, ram)

(* A game left without an error, replaced by another or by a normal exit,    *)
(* has its RAM on disk (README.md: "Flushes dirty RAM ... when a ROM is      *)
(* replaced, and during normal emulator shutdown"). A game that lost its     *)
(* save state to a failed replacement is not covered: nothing saves it.      *)
LeftGameIsSaved ==
    [][game # NoGame /\ attached /\ game' # game /\ status' \in {"running", "ok"}
          => disk'[game] = ram \/ (disk'[game] = NoFile /\ ram = Fill)]_vars

(* Whoever quits without an error finds the game as it was left (README.md:  *)
(* "Battery-backed cartridge RAM now persists to a sidecar .sav file",       *)
(* "Flushes dirty RAM ... during normal emulator shutdown"), whatever failed *)
(* before: a save that was reported as failed is made good at the end.       *)
ShutdownSaves ==
    [][game # NoGame /\ status = "running" /\ status' = "ok"
          => disk'[game] = ram \/ (disk'[game] = NoFile /\ ram = Fill)]_vars

\* The saved value of a game, counting from the removal of the old file on.
Stored == [g \in Games |-> IF at = "rename" /\ g = game THEN tmp[g] ELSE disk[g]]

Durable == INSTANCE DurableStore WITH store <- Stored

(* Saving is atomic for the player: every step is one of DurableStore.       *)
IsDurable == Durable!Spec

(* A save that was written can be loaded ever after (README.md: "Uses a      *)
(* temporary file followed by replacement of the destination file", "Loads   *)
(* an existing save before emulation starts").                               *)
SaveNeverLost ==
    [][\A g \in Games : Stored[g] # NoFile => Stored'[g] # NoFile]_vars
=============================================================================
