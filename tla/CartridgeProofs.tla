-------------------------- MODULE CartridgeProofs --------------------------
(* Saving is proved for every set of games, RAM contents and faults, the     *)
(* clock of MBC3 for every size of its digits, the mappers for every size of *)
(* their registers and every ROM the loader takes.                           *)
EXTENDS MCCartridge, TLAPS

Contents == Values \union {NoFile, Partial}

(* What the program knows at each call of gb_save_ram_save and while         *)
(* loading: which game is being saved, what its temporary file holds, and    *)
(* that the RAM of no game is Fill.                                          *)
SavingInv ==
    /\ at \in {"open", "write", "remove", "rename"} => Running /\ game \in Games
    /\ at \in {"remove", "rename"} => tmp[game] = ram
    /\ at = "rename" => disk[game] = NoFile
    /\ at = "load" => game = NoGame /\ Running
    /\ game = NoGame => ram = Fill /\ ~attached
    /\ ~Running => game = NoGame /\ at = "idle"

(* CleanMeansSaved at every step of a save up to its commit point. *)
CleanBeforeCommit ==
    at \in {"idle", "open", "write", "remove"} /\ attached /\ ~dirty /\ lastOk
        => OnDisk(game, ram)

SaveInv == SaveRamTypeOK /\ DiskNeverTorn /\ SavingInv

(* Writing one file leaves every file a complete or partial content. *)
LEMMA SetFileType ==
    ASSUME NEW f \in [Games -> Contents], NEW c \in Contents
    PROVE  [f EXCEPT ![game] = c] \in [Games -> Contents]
OBVIOUS

(* Every step of saving and of the emulator's life cycle keeps the types.    *)
LEMMA SaveTypeInductive ==
    ASSUME SaveInv, [Next]_vars
    PROVE  SaveRamTypeOK'
<1> USE FillAssumption DEF Contents
<1>0. SaveRamTypeOK /\ SavingInv
    BY DEF SaveInv
<1> USE <1>0
<1>1. CASE Start
    BY <1>1 DEF Start, SaveRamTypeOK, Statuses, fileVars
<1>2. CASE WriteRam
    BY <1>2 DEF WriteRam, SaveRamTypeOK, fileVars
<1>3. CASE SaveRequested
    BY <1>3 DEF SaveRequested, BeginSave, SaveRamTypeOK, fileVars, SaveSteps, Callers
<1>4. CASE Exit
    BY <1>4 DEF Exit, BeginSave, ProcessEnds, SaveRamTypeOK, fileVars, SaveSteps, Callers, Statuses
<1>5. CASE Crash
    BY <1>5 DEF Crash, ProcessEnds, SaveRamTypeOK, fileVars, SaveSteps, Statuses
<1>6. ASSUME NEW g \in Games, LoadRom(g) PROVE SaveRamTypeOK'
    BY <1>6 DEF LoadRom, BeginSave, Unload, SaveRamTypeOK, fileVars, SaveSteps, Callers
<1>7. CASE LoadCartridge
    <2>1. ram' \in Values
        BY <1>7 DEF LoadCartridge, SaveRamTypeOK, SaveInv, DiskNeverTorn
    <2> QED BY <1>7, <2>1 DEF LoadCartridge, SaveRamTypeOK, fileVars, SaveSteps
<1>8. CASE LoadFails
    BY <1>8 DEF LoadFails, SaveRamTypeOK, fileVars, SaveSteps
<1>9. CASE Save
    <2>f. disk' \in [Games -> Contents] /\ tmp' \in [Games -> Contents]
        <3>1. disk \in [Games -> Contents] /\ tmp \in [Games -> Contents] /\ ram \in Values
            BY DEF SaveRamTypeOK
        <3>2. at = "rename" => tmp[game] \in Contents
            BY DEF SavingInv, SaveRamTypeOK
        <3> QED
            BY <1>9, <3>1, <3>2, SetFileType
            DEF Save, OpenTemp, WriteTemp, RemoveOld, Rename, RenameTemp, OpenTempFails,
                WriteTempFails, RemoveOldFails, RenameTempFails, SetFile, fileVars
    <2>1. CASE OpenTemp \/ WriteTemp \/ RemoveOld
        BY <2>f, <2>1 DEF OpenTemp, WriteTemp, RemoveOld, Continue, SaveRamTypeOK, SaveSteps
    <2>2. CASE Rename /\ RenameTemp
        <3>1. SaveReturns
            BY <2>2 DEF Rename, RenameTemp
        <3> QED BY <2>f, <3>1
                DEF SaveReturns, Unload, ProcessEnds, SaveRamTypeOK, SaveSteps, Statuses
    <2>3. CASE OpenTempFails \/ WriteTempFails \/ RemoveOldFails \/ (Rename /\ RenameTempFails)
        <3>1. SaveFails
            BY <2>3 DEF OpenTempFails, WriteTempFails, RemoveOldFails, Rename, RenameTempFails
        <3> QED BY <2>f, <3>1 DEF SaveFails, ProcessEnds, SaveRamTypeOK, SaveSteps, Statuses
    <2> QED BY <1>9, <2>1, <2>2, <2>3 DEF Save, Rename
<1>10. CASE UNCHANGED vars
    BY <1>10 DEF vars, SaveRamTypeOK
<1> QED
    BY <1>1, <1>2, <1>3, <1>4, <1>5, <1>6, <1>7, <1>8, <1>9, <1>10 DEF Next

(* Only a complete temporary file ever takes the save path, and the program  *)
(* knows at each call of a save where it is.                                 *)
LEMMA SavingInductive ==
    ASSUME SaveInv, [Next]_vars
    PROVE  (DiskNeverTorn /\ SavingInv)'
<1> USE NamesAssumption DEF SavingInv, DiskNeverTorn, Running
<1>0. SaveRamTypeOK /\ DiskNeverTorn /\ SavingInv
    BY DEF SaveInv
<1> USE <1>0
<1>1. CASE Start
    BY <1>1 DEF Start, fileVars, SaveRamTypeOK
<1>2. CASE WriteRam
    BY <1>2 DEF WriteRam, fileVars, Idle
<1>3. CASE SaveRequested
    BY <1>3 DEF SaveRequested, BeginSave, fileVars, Idle, SaveRamTypeOK
<1>4. CASE Exit
    BY <1>4 DEF Exit, BeginSave, ProcessEnds, fileVars, Idle, SaveRamTypeOK
<1>5. CASE Crash
    BY <1>5 DEF Crash, ProcessEnds, fileVars
<1>6. ASSUME NEW g \in Games, LoadRom(g) PROVE (DiskNeverTorn /\ SavingInv)'
    BY <1>6 DEF LoadRom, BeginSave, Unload, fileVars, Idle, SaveRamTypeOK
<1>7. CASE LoadCartridge
    BY <1>7 DEF LoadCartridge, fileVars, SaveRamTypeOK
<1>8. CASE LoadFails
    BY <1>8 DEF LoadFails, fileVars
<1>9. CASE OpenTemp
    BY <1>9 DEF OpenTemp, SetFile, Continue, SaveRamTypeOK
<1>10. CASE WriteTemp
    BY <1>10 DEF WriteTemp, SetFile, Continue, SaveRamTypeOK
<1>11. CASE RemoveOld
    BY <1>11 DEF RemoveOld, SetFile, Continue, SaveRamTypeOK
<1>12. CASE Rename /\ RenameTemp
    <2>1. DiskNeverTorn'
        BY <1>12 DEF Rename, RenameTemp, SetFile, SaveRamTypeOK
    <2>2. SavingInv'
        BY <1>12 DEF Rename, RenameTemp, SaveReturns, Unload, ProcessEnds
    <2> QED BY <2>1, <2>2
<1>13. CASE OpenTempFails \/ WriteTempFails \/ RemoveOldFails \/ (Rename /\ RenameTempFails)
    <2>1. SaveFails /\ UNCHANGED disk
        BY <1>13 DEF OpenTempFails, WriteTempFails, RemoveOldFails,
            Rename, RenameTempFails, fileVars
    <2>2. at \in {"open", "write", "remove", "rename"}
        BY <1>13 DEF OpenTempFails, WriteTempFails, RemoveOldFails, Rename, RenameTempFails
    <2> QED BY <2>1, <2>2 DEF SaveFails, ProcessEnds
<1>14. CASE UNCHANGED vars
    BY <1>14 DEF vars
<1> QED
    BY <1>1, <1>2, <1>3, <1>4, <1>5, <1>6, <1>7, <1>8, <1>9, <1>10, <1>11, <1>12,
       <1>13, <1>14
    DEF Next, Save, Rename

(* The invariant of saving holds in every reachable state.                   *)
LEMMA SaveInvariant == Spec => []SaveInv
<1>1. Init => SaveInv
    BY FillAssumption, NamesAssumption
    DEF Init, SaveInv, SaveRamTypeOK, DiskNeverTorn, SavingInv, Running, SaveSteps, Callers, Statuses
<1>2. SaveInv /\ [Next]_vars => SaveInv'
    BY SaveTypeInductive, SavingInductive DEF SaveInv
<1> QED BY <1>1, <1>2, PTL DEF Spec

(* A save file is never half written, whatever fails and whenever the        *)
(* process dies.                                                             *)
THEOREM NeverTorn == Spec => []DiskNeverTorn
<1>1. SaveInv => DiskNeverTorn
    BY DEF SaveInv
<1> QED BY <1>1, SaveInvariant, PTL

-----------------------------------------------------------------------------
(* The invariant of saving together with the cleanness of RAM. *)
CleanInv == SaveInv /\ CleanBeforeCommit

(* Every step keeps clean RAM equal to what the save path reads back as.     *)
LEMMA CleanInductive ==
    ASSUME CleanInv, [Next]_vars
    PROVE  CleanBeforeCommit'
<1> USE NamesAssumption DEF CleanBeforeCommit, OnDisk
<1>0. SaveRamTypeOK /\ DiskNeverTorn /\ SavingInv /\ CleanBeforeCommit
    BY DEF CleanInv, SaveInv
<1> USE <1>0
<1>1. CASE Start
    BY <1>1 DEF Start, fileVars
<1>2. CASE WriteRam
    BY <1>2 DEF WriteRam
<1>3. CASE SaveRequested
    BY <1>3 DEF SaveRequested, BeginSave, fileVars, Idle
<1>4. CASE Exit
    BY <1>4 DEF Exit, BeginSave, ProcessEnds, fileVars
<1>5. CASE Crash
    BY <1>5 DEF Crash, ProcessEnds
<1>6. ASSUME NEW g \in Games, LoadRom(g) PROVE CleanBeforeCommit'
    BY <1>6 DEF LoadRom, BeginSave, Unload
<1>7. CASE LoadCartridge
    BY <1>7 DEF LoadCartridge, fileVars
<1>8. CASE LoadFails
    BY <1>8 DEF LoadFails, SavingInv
<1>9. CASE OpenTemp \/ WriteTemp
    BY <1>9 DEF OpenTemp, WriteTemp, Continue
<1>10. CASE RemoveOld
    BY <1>10 DEF RemoveOld, Continue
<1>11. CASE Rename /\ RenameTemp
    <2>1. disk' = [disk EXCEPT ![game] = ram] /\ SaveReturns
        BY <1>11 DEF Rename, RenameTemp, SetFile, SavingInv
    <2>2. game \in Games
        BY <1>11 DEF Rename, RenameTemp, SavingInv
    <2>3. disk'[game] = ram
        BY <2>1, <2>2 DEF SaveRamTypeOK
    <2> QED BY <2>1, <2>3 DEF SaveReturns, Unload, ProcessEnds
<1>12. CASE OpenTempFails \/ WriteTempFails \/ RemoveOldFails \/ (Rename /\ RenameTempFails)
    <2>1. SaveFails
        BY <1>12 DEF OpenTempFails, WriteTempFails, RemoveOldFails, Rename, RenameTempFails
    <2> QED BY <2>1 DEF SaveFails, ProcessEnds
<1>13. CASE UNCHANGED vars
    BY <1>13 DEF vars
<1> QED
    BY <1>1, <1>2, <1>3, <1>4, <1>5, <1>6, <1>7, <1>8, <1>9, <1>10, <1>11, <1>12, <1>13
    DEF Next, Save, Rename

(* Clean RAM after a successful save is what the next start would load,      *)
(* under every combination of faults.                                        *)
THEOREM CleanIsSaved == Spec => []CleanMeansSaved
<1>1. Init => CleanBeforeCommit
    BY DEF Init, CleanBeforeCommit
<1>2. CleanInv /\ [Next]_vars => CleanBeforeCommit'
    BY CleanInductive
<1>3. CleanBeforeCommit => CleanMeansSaved
    BY DEF CleanBeforeCommit, CleanMeansSaved, Idle
<1> QED BY <1>1, <1>2, <1>3, SaveInvariant, PTL DEF Spec, CleanInv

-----------------------------------------------------------------------------
(* The faults that saving survives: none after the old file is removed.      *)
CommitIsSafe == {"rename", "windowCrash"} \intersect Faults = {}

(* A step that leaves every file alone, and is not at the commit point       *)
(* before or after, leaves every stored value alone.                         *)
LEMMA StoredUnchanged ==
    ASSUME UNCHANGED fileVars, at # "rename", at' # "rename"
    PROVE  Stored' = Stored
BY DEF fileVars, Stored

(* Every step of the program is a step of DurableStore or stutters: the      *)
(* removal of the old file is the commit.                                    *)
LEMMA SaveStepRefines ==
    ASSUME SaveInv, SaveInv', [Next]_vars, CommitIsSafe
    PROVE  [Durable!Next]_Durable!storeVars
<1> USE NamesAssumption, FillAssumption DEF Durable!storeVars, Running
<1>0. SaveRamTypeOK /\ SavingInv /\ DiskNeverTorn /\ SaveRamTypeOK' /\ SavingInv' /\ DiskNeverTorn'
    BY DEF SaveInv
<1> USE <1>0
<1>1. CASE Start
    BY <1>1, StoredUnchanged DEF Start, SavingInv
<1>2. CASE WriteRam
    <2>1. Stored' = Stored
        BY <1>2, StoredUnchanged DEF WriteRam, Idle
    <2> QED BY <1>2, <2>1 DEF WriteRam, Durable!Next, Durable!Play
<1>3. CASE SaveRequested
    <2>1. Stored' = Stored
        BY <1>3, StoredUnchanged DEF SaveRequested, BeginSave, Idle
    <2> QED BY <1>3, <2>1 DEF SaveRequested, BeginSave
<1>4. CASE Exit
    <2>1. Stored' = Stored
        BY <1>4, StoredUnchanged DEF Exit, BeginSave, ProcessEnds, Idle
    <2> QED
        BY <1>4, <2>1
        DEF Exit, BeginSave, ProcessEnds, Durable!Next, Durable!Leave, SavingInv
<1>5. CASE Crash
    <2>1. Stored' = Stored
        BY <1>5, StoredUnchanged DEF Crash, ProcessEnds, CommitIsSafe
    <2> QED
        BY <1>5, <2>1 DEF Crash, ProcessEnds, Durable!Next, Durable!Leave, SavingInv
<1>6. ASSUME NEW g \in Games, LoadRom(g) PROVE [Durable!Next]_Durable!storeVars
    <2>1. Stored' = Stored
        BY <1>6, StoredUnchanged DEF LoadRom, BeginSave, Unload, Idle
    <2> QED
        BY <1>6, <2>1
        DEF LoadRom, BeginSave, Unload, Durable!Next, Durable!Leave, SavingInv
<1>7. CASE LoadCartridge
    <2>1. Stored' = Stored
        BY <1>7, StoredUnchanged DEF LoadCartridge
    <2>2. next \in Games /\ Stored[next] = disk[next]
        BY <1>7 DEF LoadCartridge, SaveRamTypeOK, Stored
    <2>3. Durable!Open(next)
        BY <1>7, <2>1, <2>2 DEF LoadCartridge, Durable!Open, SavingInv
    <2> QED BY <2>2, <2>3 DEF Durable!Next
<1>8. CASE LoadFails
    <2>1. Stored' = Stored
        BY <1>8, StoredUnchanged DEF LoadFails
    <2> QED BY <1>8, <2>1 DEF LoadFails
<1>9. CASE OpenTemp \/ WriteTemp
    <2>1. Stored' = Stored
        BY <1>9 DEF OpenTemp, WriteTemp, Continue, Stored
    <2> QED BY <1>9, <2>1 DEF OpenTemp, WriteTemp, Continue
<1>10. CASE RemoveOld
    <2>1. Stored' = [Stored EXCEPT ![game] = ram]
        BY <1>10 DEF RemoveOld, SetFile, Continue, Stored, SavingInv, SaveRamTypeOK
    <2>2. game # NoGame /\ UNCHANGED <<game, ram>>
        BY <1>10 DEF RemoveOld, Continue, SavingInv
    <2> QED BY <2>1, <2>2 DEF Durable!Next, Durable!Commit
<1>11. CASE Rename /\ RenameTemp
    <2>1. Stored' = Stored
        <3>1. at' # "rename" /\ at = "rename"
            BY <1>11 DEF Rename, RenameTemp, SaveReturns, ProcessEnds
        <3> QED BY <1>11, <3>1 DEF Rename, RenameTemp, SetFile, Stored, SaveRamTypeOK
    <2>2. game \in Games
        BY <1>11 DEF Rename, RenameTemp, SavingInv
    <2> QED
        BY <1>11, <2>1, <2>2
        DEF Rename, RenameTemp, SaveReturns, Unload, ProcessEnds, Durable!Next, Durable!Leave
<1>12. CASE OpenTempFails \/ WriteTempFails \/ RemoveOldFails \/ (Rename /\ RenameTempFails)
    <2>1. SaveFails /\ UNCHANGED disk /\ at # "rename" /\ game \in Games
        BY <1>12
        DEF OpenTempFails, WriteTempFails, RemoveOldFails,
            Rename, RenameTempFails, fileVars, CommitIsSafe, SavingInv
    <2>2. Stored' = Stored
        BY <2>1 DEF SaveFails, ProcessEnds, Stored
    <2> QED BY <2>1, <2>2 DEF SaveFails, ProcessEnds, Durable!Next, Durable!Leave
<1>13. CASE UNCHANGED vars
    BY <1>13 DEF vars, Stored
<1> QED
    BY <1>1, <1>2, <1>3, <1>4, <1>5, <1>6, <1>7, <1>8, <1>9, <1>10, <1>11, <1>12, <1>13
    DEF Next, Save, Rename

(* Saving is atomic for the player as long as nothing fails between the      *)
(* removal of the old file and the renaming of the new one.                  *)
THEOREM SavingIsAtomic == CommitIsSafe => (Spec => IsDurable)
<1> SUFFICES ASSUME CommitIsSafe PROVE Spec => Durable!Spec
    BY DEF IsDurable
<1>1. Init => Durable!Init
    BY DEF Init, Durable!Init, Stored
<1>2. SaveInv /\ SaveInv' /\ [Next]_vars => [Durable!Next]_Durable!storeVars
    BY SaveStepRefines
<1> QED BY <1>1, <1>2, SaveInvariant, PTL DEF Spec, Durable!Spec

(* A save that was written is never lost, when nothing fails between the     *)
(* removal of the old file and the renaming of the new one: a step of the    *)
(* abstract store replaces a saved value by RAM and never by no file. The    *)
(* code allows such a failure; then the same property is violated.           *)
THEOREM SavesAreKept == CommitIsSafe => (Spec => SaveNeverLost)
<1> SUFFICES ASSUME CommitIsSafe PROVE Spec => SaveNeverLost
    OBVIOUS
<1>1. ASSUME SaveInv, SaveInv', [Next]_vars, NEW g \in Games, Stored[g] # NoFile
      PROVE  Stored'[g] # NoFile
    <2>1. [Durable!Next]_Durable!storeVars
        BY <1>1, SaveStepRefines
    <2>2. ram \in Values /\ NoFile \notin Values
        BY <1>1, NamesAssumption DEF SaveInv, SaveRamTypeOK
    <2>3. Stored' = Stored \/ Stored' = [Stored EXCEPT ![game] = ram]
        BY <2>1
        DEF Durable!Next, Durable!storeVars, Durable!Open, Durable!Play,
            Durable!Commit, Durable!Leave
    <2>4. Stored = [h \in Games |-> Stored[h]]
        BY DEF Stored
    <2> QED BY <1>1, <2>2, <2>3, <2>4
<1>2. SaveInv /\ SaveInv' /\ [Next]_vars
        => [\A g \in Games : Stored[g] # NoFile => Stored'[g] # NoFile]_vars
    BY <1>1
<1> QED BY <1>2, SaveInvariant, PTL DEF Spec, SaveNeverLost

-----------------------------------------------------------------------------
(* RAM without a mark is what is stored of its game. Unlike CleanMeansSaved  *)
(* this does not ask whether the last save succeeded: before the commit      *)
(* point a save that fails changes nothing stored.                           *)
CleanIsStored ==
    attached /\ ~dirty => Stored[game] = ram \/ (Stored[game] = NoFile /\ ram = Fill)

\* What LeftGameIsSaved says of one step.
LeavesSaved ==
    game # NoGame /\ attached /\ game' # game /\ status' \in {"running", "ok"}
        => disk'[game] = ram \/ (disk'[game] = NoFile /\ ram = Fill)

(* Every step keeps clean RAM stored, and a step that leaves a game without  *)
(* an error comes after the flush of its RAM or finds it clean.              *)
LEMMA LeavingInductive ==
    ASSUME SaveInv, SaveInv', CleanIsStored, [Next]_vars, CommitIsSafe
    PROVE  CleanIsStored' /\ LeavesSaved
<1> USE NamesAssumption DEF CleanIsStored, LeavesSaved, Running
<1>0. SaveRamTypeOK /\ SavingInv /\ SaveRamTypeOK' /\ SavingInv'
    BY DEF SaveInv
<1> USE <1>0
<1>1. CASE Start
    BY <1>1, StoredUnchanged DEF Start, SavingInv
<1>2. CASE WriteRam
    BY <1>2 DEF WriteRam
<1>3. CASE SaveRequested
    <2>1. Stored' = Stored
        BY <1>3, StoredUnchanged DEF SaveRequested, BeginSave, Idle
    <2> QED BY <1>3, <2>1 DEF SaveRequested, BeginSave
<1>4. ASSUME Idle, UNCHANGED fileVars, ~(attached /\ dirty), ~attached'
      PROVE  CleanIsStored' /\ LeavesSaved
    <2>1. game # NoGame => Stored[game] = disk[game] /\ disk'[game] = disk[game]
        BY <1>4 DEF Idle, Stored, SaveRamTypeOK, fileVars
    <2> QED BY <1>4, <2>1
<1>5. ASSUME Idle, UNCHANGED <<fileVars, game, attached, ram, dirty>>, at' # "rename"
      PROVE  CleanIsStored' /\ LeavesSaved
    <2>1. Stored' = Stored
        BY <1>5, StoredUnchanged DEF Idle
    <2> QED BY <1>5, <2>1
<1>6. CASE Exit
    BY <1>4, <1>5, <1>6 DEF Exit, BeginSave, ProcessEnds
<1>7. ASSUME NEW g \in Games, LoadRom(g) PROVE CleanIsStored' /\ LeavesSaved
    BY <1>4, <1>5, <1>7 DEF LoadRom, BeginSave, Unload
<1>8. CASE Crash
    BY <1>8 DEF Crash, ProcessEnds
<1>9. CASE LoadCartridge
    <2>1. Stored'[next] = disk[next] /\ game = NoGame
        BY <1>9 DEF LoadCartridge, SaveRamTypeOK, Stored, SavingInv, fileVars
    <2> QED BY <1>9, <2>1 DEF LoadCartridge
<1>10. CASE LoadFails
    BY <1>10 DEF LoadFails, SavingInv
<1>11. CASE OpenTemp \/ WriteTemp
    <2>1. Stored' = Stored
        BY <1>11 DEF OpenTemp, WriteTemp, Continue, Stored
    <2> QED BY <1>11, <2>1 DEF OpenTemp, WriteTemp, Continue
<1>12. CASE RemoveOld
    <2>1. game \in Games /\ tmp[game] = ram /\ at' = "rename"
          /\ UNCHANGED <<tmp, game, attached, ram, dirty>>
        BY <1>12 DEF RemoveOld, Continue, SavingInv
    <2>2. Stored'[game] = ram
        BY <2>1 DEF Stored
    <2> QED BY <2>1, <2>2
<1>13. CASE Rename /\ RenameTemp
    <2>1. game \in Games /\ disk'[game] = ram /\ SaveReturns
        BY <1>13 DEF Rename, RenameTemp, SetFile, SavingInv, SaveRamTypeOK
    <2>2. at' # "rename"
        BY <2>1 DEF SaveReturns, ProcessEnds
    <2>3. Stored'[game] = ram
        BY <2>1, <2>2 DEF Stored
    <2> QED BY <2>1, <2>3 DEF SaveReturns, Unload, ProcessEnds
<1>14. CASE OpenTempFails \/ WriteTempFails \/ RemoveOldFails \/ (Rename /\ RenameTempFails)
    <2>1. SaveFails /\ UNCHANGED disk /\ at # "rename"
        BY <1>14
        DEF OpenTempFails, WriteTempFails, RemoveOldFails,
            Rename, RenameTempFails, fileVars, CommitIsSafe
    <2>2. Stored' = Stored
        BY <2>1 DEF SaveFails, ProcessEnds, Stored
    <2> QED BY <2>1, <2>2 DEF SaveFails, ProcessEnds
<1>15. CASE UNCHANGED vars
    <2>1. Stored' = Stored
        BY <1>15 DEF vars, Stored, fileVars
    <2> QED BY <1>15, <2>1 DEF vars
<1> QED
    BY <1>1, <1>2, <1>3, <1>6, <1>7, <1>8, <1>9, <1>10, <1>11, <1>12, <1>13, <1>14, <1>15
    DEF Next, Save, Rename

(* A game that is left without an error is on disk, as long as nothing fails *)
(* between the removal of the old file and the renaming of the new one.      *)
THEOREM LeavingSaves == CommitIsSafe => (Spec => LeftGameIsSaved)
<1> SUFFICES ASSUME CommitIsSafe PROVE Spec => [][LeavesSaved]_vars
    BY DEF LeftGameIsSaved, LeavesSaved
<1>1. Init => CleanIsStored
    BY DEF Init, CleanIsStored
<1>2. SaveInv /\ SaveInv' /\ CleanIsStored /\ [Next]_vars => CleanIsStored' /\ LeavesSaved
    BY LeavingInductive
<1> QED BY <1>1, <1>2, SaveInvariant, PTL DEF Spec
-----------------------------------------------------------------------------
\* Quotient and remainder.
LEMMA Division ==
    ASSUME NEW x \in Nat, NEW y \in Nat \ {0}
    PROVE  /\ x \div y \in Nat /\ x % y \in 0 .. y - 1
           /\ x = (y * (x \div y)) + (x % y)
OBVIOUS

\* Two different multiples lie at least one unit apart.
LEMMA Multiples ==
    ASSUME NEW y \in Nat \ {0}, NEW a \in Int, NEW b \in Int, a < b
    PROVE  y * a + y <= y * b
<1>1. PICK k \in Nat : b = a + 1 + k
    <2>1. b - a - 1 \in Nat /\ b = a + 1 + (b - a - 1)
        OBVIOUS
    <2> QED BY <2>1
<1>2. y * b = y * a + y + y * k
    BY <1>1
<1>3. y * k \in Nat /\ y * a \in Int
    BY <1>1
<1> QED BY <1>2, <1>3

\* Quotient and remainder are determined by their sum.
LEMMA Unique ==
    ASSUME NEW y \in Nat \ {0}, NEW q \in Nat, NEW p \in Nat, NEW r \in 0 .. y - 1,
           NEW s \in 0 .. y - 1, y * q + r = y * p + s
    PROVE  q = p /\ r = s
<1>0. y * q \in Nat /\ y * p \in Nat
    OBVIOUS
<1>1. ~(q < p)
    <2> SUFFICES ASSUME q < p PROVE FALSE
        OBVIOUS
    <2>1. y * q + y <= y * p
        BY Multiples
    <2> QED BY <1>0, <2>1
<1>2. ~(p < q)
    <2> SUFFICES ASSUME p < q PROVE FALSE
        OBVIOUS
    <2>1. y * p + y <= y * q
        BY Multiples
    <2> QED BY <1>0, <2>1
<1> QED BY <1>0, <1>1, <1>2

\* What a sum of a multiple and a remainder divides into.
LEMMA Position ==
    ASSUME NEW y \in Nat \ {0}, NEW q \in Nat, NEW r \in 0 .. y - 1
    PROVE  (r + y * q) \div y = q /\ (r + y * q) % y = r
<1> DEFINE x == r + y * q
<1>1. x \in Nat
    OBVIOUS
<1> HIDE DEF x
<1>2. /\ x \div y \in Nat /\ x % y \in 0 .. y - 1
      /\ x = (y * (x \div y)) + (x % y)
    BY <1>1, Division
<1>3. x = y * q + r
    BY DEF x
<1>4. x \div y = q /\ x % y = r
    BY <1>2, <1>3, Unique
<1> QED BY <1>4 DEF x

\* A digit on top of a number below X makes a number below X * y.
LEMMA Pack ==
    ASSUME NEW X \in Nat \ {0}, NEW y \in Nat \ {0}, NEW l \in 0 .. X - 1, NEW b \in 0 .. y - 1
    PROVE  l + X * b \in 0 .. X * y - 1
<1>1. X * b + X <= X * y
    BY Multiples
<1>2. X * b \in Nat /\ X * y \in Nat
    OBVIOUS
<1> QED BY <1>1, <1>2

\* What a carry c makes of a digit b of y values, and the carry it passes on.
DigitAfter(b, y, c) == IF c = 1 THEN (b + 1) % y ELSE b
CarryOut(b, y, c) == IF c = 1 /\ b + 1 = y THEN 1 ELSE 0

\* Adding n to the number l, below X, leaves m and a carry.
Adds(l, n, m, X, c) == l + n = m + X * c

\* A carry passes through one digit.
LEMMA Carried ==
    ASSUME NEW X \in Nat \ {0}, NEW y \in Nat \ {0}, NEW n \in Nat,
           NEW l \in 0 .. X - 1, NEW m \in 0 .. X - 1, NEW b \in 0 .. y - 1,
           NEW c \in {0, 1}, Adds(l, n, m, X, c)
    PROVE  /\ CarryOut(b, y, c) \in {0, 1} /\ DigitAfter(b, y, c) \in 0 .. y - 1
           /\ Adds(l + X * b, n, m + X * DigitAfter(b, y, c), X * y, CarryOut(b, y, c))
<1> USE DEF CarryOut, DigitAfter, Adds
<1>1. CASE c = 0
    BY <1>1
<1>2. CASE c = 1 /\ b + 1 = y
    <2>1. (b + 1) % y = 0
        BY <1>2
    <2>2. X * b + X = X * y /\ X * 0 = 0 /\ (X * y) * 1 = X * y /\ X * 1 = X
        BY <1>2
    <2>3. X * b \in Nat /\ X * y \in Nat
        OBVIOUS
    <2> QED BY <1>2, <2>1, <2>2, <2>3
<1>3. CASE c = 1 /\ b + 1 # y
    <2>1. (b + 1) % y = b + 1
        BY <1>3
    <2>2. X * (b + 1) = X * b + X /\ (X * y) * 0 = 0 /\ X * 1 = X
        OBVIOUS
    <2>3. X * b \in Nat /\ X * y \in Nat
        OBVIOUS
    <2> QED BY <1>3, <2>1, <2>2, <2>3
<1> QED BY <1>1, <1>2, <1>3

\* To a number of weight X, which became m from l when n was added, with the
\* carry c, belongs the digit b of y values; it becomes e and carries f.
Carries(X, y, n, l, m, b, c, e, f) ==
    /\ X \in Nat \ {0} /\ y \in Nat \ {0} /\ n \in Nat
    /\ l \in 0 .. X - 1 /\ m \in 0 .. X - 1 /\ b \in 0 .. y - 1
    /\ c \in {0, 1} /\ Adds(l, n, m, X, c)
    /\ e = DigitAfter(b, y, c) /\ f = CarryOut(b, y, c)

LEMMA CarriedOn ==
    ASSUME NEW X, NEW y, NEW n, NEW l, NEW m, NEW b, NEW c, NEW e, NEW f,
           Carries(X, y, n, l, m, b, c, e, f)
    PROVE  /\ f \in {0, 1} /\ e \in 0 .. y - 1
           /\ Adds(l + X * b, n, m + X * e, X * y, f)
<1>1. /\ X \in Nat \ {0} /\ y \in Nat \ {0} /\ n \in Nat
      /\ l \in 0 .. X - 1 /\ m \in 0 .. X - 1 /\ b \in 0 .. y - 1
      /\ c \in {0, 1} /\ Adds(l, n, m, X, c)
      /\ e = DigitAfter(b, y, c) /\ f = CarryOut(b, y, c)
    BY DEF Carries
<1>2. /\ CarryOut(b, y, c) \in {0, 1} /\ DigitAfter(b, y, c) \in 0 .. y - 1
      /\ Adds(l + X * b, n, m + X * DigitAfter(b, y, c), X * y, CarryOut(b, y, c))
    BY <1>1, Carried, Zenon
<1> QED BY <1>1, <1>2, Zenon

-----------------------------------------------------------------------------
\* The weights of the digits, and the time as the sum of weighted digits.
Weight2 == SecondLength * Sizes[1]
Weight3 == Weight2 * Sizes[2]
Weight4 == Weight3 * Sizes[3]
Weight5 == Weight4 * Sizes[4]

TimeOf(r, s, m, h, d) == (((r + SecondLength * s) + Weight2 * m) + Weight3 * h) + Weight4 * d

LEMMA Weights ==
    /\ \A i \in 1 .. 5 : Sizes[i] \in Nat \ {0}
    /\ SecondLength \in Nat \ {0} /\ Weight2 \in Nat \ {0} /\ Weight3 \in Nat \ {0}
    /\ Weight4 \in Nat \ {0} /\ Weight5 \in Nat \ {0} /\ DayCount \in Nat \ {0}
    /\ Weight5 * Sizes[5] \in Nat \ {0}
    /\ Weight5 * Sizes[5] = Weight4 * DayCount
<1>0. \A i \in 1 .. 5 : Sizes[i] \in Nat \ {0}
    BY RtcAssumption
<1>1. Sizes[1] \in Nat \ {0} /\ Sizes[2] \in Nat \ {0} /\ Sizes[3] \in Nat \ {0}
      /\ Sizes[4] \in Nat \ {0} /\ Sizes[5] \in Nat \ {0} /\ SecondLength \in Nat \ {0}
    BY <1>0, RtcAssumption
<1>2. \A x, y \in Nat \ {0} : x * y \in Nat \ {0}
    OBVIOUS
<1>3. Weight2 \in Nat \ {0} /\ DayCount \in Nat \ {0}
    BY <1>1, <1>2 DEF Weight2, DayCount
<1>4. Weight3 \in Nat \ {0}
    BY <1>1, <1>2, <1>3 DEF Weight3
<1>5. Weight4 \in Nat \ {0}
    BY <1>1, <1>2, <1>4 DEF Weight4
<1>6. Weight5 \in Nat \ {0}
    BY <1>1, <1>2, <1>5 DEF Weight5
<1>7. Weight5 * Sizes[5] \in Nat \ {0}
    BY <1>1, <1>2, <1>6
<1>8. \A x, y, z \in Nat : (x * y) * z = x * (y * z)
    OBVIOUS
<1>9. Weight5 * Sizes[5] = Weight4 * DayCount
    BY <1>1, <1>5, <1>8 DEF Weight5, DayCount
<1> QED BY <1>0, <1>1, <1>3, <1>4, <1>5, <1>6, <1>7, <1>9

\* The number behind the counters is the sum of their weighted digits.
LEMMA TimeIsSum ==
    ASSUME NEW r \in Nat, NEW c, c.seconds \in Nat, c.minutes \in Nat, c.hours \in Nat,
           c.days \in Nat
    PROVE  /\ r + SecondLength * InSeconds(c)
                 = TimeOf(r, c.seconds, c.minutes, c.hours, c.days)
           /\ InSeconds(c) \in Nat
<1> DEFINE s == c.seconds  m == c.minutes  h == c.hours  d == c.days
           A == Sizes[1]  B == Sizes[2]  C == Sizes[3]  S == SecondLength
<1>1. S \in Nat /\ A \in Nat /\ B \in Nat /\ C \in Nat
    BY Weights
<1>2. s \in Nat /\ m \in Nat /\ h \in Nat /\ d \in Nat
    OBVIOUS
<1>3. InSeconds(c) = s + A * (m + B * (h + C * d))
    BY DEF InSeconds
<1>4. TimeOf(r, s, m, h, d) = (((r + S * s) + (S * A) * m) + ((S * A) * B) * h) + (((S * A) * B) * C) * d
    BY DEF TimeOf, Weight2, Weight3, Weight4
<1> HIDE DEF s, m, h, d, A, B, C, S
<1>5. h + C * d \in Nat
    BY <1>1, <1>2
<1>6. m + B * (h + C * d) \in Nat /\ B * (h + C * d) = B * h + (B * C) * d
    BY <1>1, <1>2, <1>5
<1>7. s + A * (m + B * (h + C * d)) \in Nat
    BY <1>1, <1>2, <1>6
<1>8. S * (s + A * (m + B * (h + C * d)))
        = S * s + (S * A) * m + ((S * A) * B) * h + (((S * A) * B) * C) * d
    BY <1>1, <1>2
<1>9. r + S * (s + A * (m + B * (h + C * d))) = TimeOf(r, s, m, h, d)
    BY <1>1, <1>2, <1>4, <1>8
<1> QED BY <1>3, <1>7, <1>9 DEF s, m, h, d, A, B, C, S

-----------------------------------------------------------------------------
\* The two parts of the day counter.
LEMMA DaysSplit ==
    ASSUME NEW d \in 0 .. DayCount - 1
    PROVE  /\ d \div Sizes[4] \in 0 .. Sizes[5] - 1 /\ d % Sizes[4] \in 0 .. Sizes[4] - 1
           /\ d = (d % Sizes[4]) + Sizes[4] * (d \div Sizes[4])
<1> DEFINE x == Sizes[4]  y == Sizes[5]  q == d \div x
<1>1. x \in Nat \ {0} /\ y \in Nat \ {0} /\ d \in Nat /\ DayCount = x * y
    BY Weights DEF DayCount
<1> HIDE DEF x, y
<1>2. q \in Nat /\ d % x \in 0 .. x - 1 /\ d = x * q + (d % x)
    BY <1>1, Division
<1> HIDE DEF q
<1>3. ~(y < q) /\ q # y
    <2>1. y < q => x * y + x <= x * q
        BY <1>1, <1>2, Multiples
    <2>2. x * y \in Nat /\ x * q \in Nat
        BY <1>1, <1>2
    <2> QED BY <1>1, <1>2, <2>1, <2>2
<1>4. q \in 0 .. y - 1
    BY <1>1, <1>2, <1>3
<1> QED BY <1>1, <1>2, <1>4 DEF x, y, q

LEMMA DaysJoin ==
    ASSUME NEW l \in 0 .. Sizes[4] - 1, NEW q \in 0 .. Sizes[5] - 1
    PROVE  l + Sizes[4] * q \in 0 .. DayCount - 1
BY Weights, Pack DEF DayCount

LEMMA RemainderType ==
    ASSUME NEW v \in Nat, NEW i \in 1 .. 5
    PROVE  v % Sizes[i] \in 0 .. Sizes[i] - 1
BY Weights, Division

\* A write to a register leaves every counter in its range.
LEMMA FieldTypes ==
    ASSUME RtcTypeOK, NEW v \in Bytes, SetField(v)
    PROVE  /\ seconds' \in 0 .. Sizes[1] - 1 /\ minutes' \in 0 .. Sizes[2] - 1
           /\ hours' \in 0 .. Sizes[3] - 1 /\ days' \in 0 .. DayCount - 1
           /\ halted' \in BOOLEAN /\ rtcCarry' \in BOOLEAN
<1>1. \A i \in 1 .. 5 : v % Sizes[i] \in 0 .. Sizes[i] - 1
    BY RemainderType, RtcAssumption
<1>2. seconds' \in 0 .. Sizes[1] - 1 /\ minutes' \in 0 .. Sizes[2] - 1
      /\ hours' \in 0 .. Sizes[3] - 1
    BY <1>1 DEF RtcTypeOK, SetField
<1>3. days \in 0 .. DayCount - 1
    BY DEF RtcTypeOK
<1>4. days' \in 0 .. DayCount - 1
    <2>1. CASE rtcSelect = 11
        <3>1. days' = days - (days % Sizes[4]) + (v % Sizes[4])
            BY <2>1 DEF SetField
        <3>2. days' = (v % Sizes[4]) + Sizes[4] * (days \div Sizes[4])
            <4> DEFINE x == Sizes[4]  q == days \div x  r == days % x  w == v % x
            <4>1. x \in Nat \ {0} /\ q \in Nat /\ r \in Nat /\ days = r + x * q
                <5>1. x \in Nat /\ q \in 0 .. Sizes[5] - 1 /\ r \in 0 .. x - 1
                    BY <1>3, DaysSplit, Weights
                <5> HIDE DEF q, r
                <5>2. q \in Nat /\ r \in Nat
                    BY <5>1
                <5> QED BY <1>3, <5>2, DaysSplit, Weights DEF q, r
            <4>2. w \in Nat
                <5>1. w \in 0 .. x - 1
                    BY <1>1
                <5> HIDE DEF w
                <5> QED BY <5>1
            <4>3. days' = days - r + w
                BY <3>1
            <4> HIDE DEF x, q, r, w
            <4>4. x * q \in Nat
                BY <4>1
            <4>5. days' = w + x * q
                BY <4>1, <4>2, <4>3, <4>4
            <4> QED BY <4>5 DEF x, q, r, w
        <3> QED BY <1>1, <1>3, <3>2, DaysSplit, DaysJoin
    <2>2. CASE rtcSelect = 12
        <3>1. days' = (days % Sizes[4]) + (v % Sizes[5]) * Sizes[4]
            BY <2>2 DEF SetField
        <3>2. (v % Sizes[5]) * Sizes[4] = Sizes[4] * (v % Sizes[5])
            BY <1>1, Weights
        <3> QED BY <1>1, <1>3, <3>1, <3>2, DaysSplit, DaysJoin
    <2>3. CASE rtcSelect \notin {11, 12}
        BY <1>3, <2>3 DEF SetField
    <2> QED BY <2>1, <2>2, <2>3
<1>5. halted' \in BOOLEAN /\ rtcCarry' \in BOOLEAN
    BY DEF RtcTypeOK, SetField
<1> QED BY <1>2, <1>4, <1>5

\* One second leaves every counter in its range.
LEMMA SecondTypes ==
    ASSUME RtcTypeOK, OneSecond
    PROVE  /\ seconds' \in 0 .. Sizes[1] - 1 /\ minutes' \in 0 .. Sizes[2] - 1
           /\ hours' \in 0 .. Sizes[3] - 1 /\ days' \in 0 .. DayCount - 1
           /\ rtcCarry' \in BOOLEAN
<1>1. ASSUME NEW y \in Nat \ {0}, NEW b \in 0 .. y - 1
      PROVE  (b + 1) % y \in 0 .. y - 1
    OBVIOUS
<1>2. Sizes[1] \in Nat \ {0} /\ Sizes[2] \in Nat \ {0} /\ Sizes[3] \in Nat \ {0}
      /\ DayCount \in Nat \ {0}
    BY Weights
<1>3. (seconds + 1) % Sizes[1] \in 0 .. Sizes[1] - 1
    BY <1>1, <1>2 DEF RtcTypeOK
<1>4. (minutes + 1) % Sizes[2] \in 0 .. Sizes[2] - 1
    BY <1>1, <1>2 DEF RtcTypeOK
<1>5. (hours + 1) % Sizes[3] \in 0 .. Sizes[3] - 1
    BY <1>1, <1>2 DEF RtcTypeOK
<1>6. (days + 1) % DayCount \in 0 .. DayCount - 1
    BY <1>1, <1>2 DEF RtcTypeOK
<1>7. rtcCarry' \in BOOLEAN
    BY DEF OneSecond, RtcTypeOK
<1> HIDE <1>1
<1> QED BY <1>3, <1>4, <1>5, <1>6, <1>7 DEF OneSecond, RtcTypeOK

LEMMA RtcTypeStep == RtcTypeOK /\ [RtcNext]_rtcVars => RtcTypeOK'
<1> SUFFICES ASSUME RtcTypeOK, [RtcNext]_rtcVars PROVE RtcTypeOK'
    OBVIOUS
<1>1. ASSUME NEW n \in TickLengths, RtcTick(n) PROVE RtcTypeOK'
    <2>1. remainder' \in 0 .. SecondLength - 1
        <3>1. remainder + n \in Nat
            BY RtcAssumption DEF RtcTypeOK
        <3> QED BY <1>1, <3>1, Division, RtcAssumption DEF RtcTick
    <2>2. CASE remainder + n >= SecondLength
        BY <1>1, <2>1, <2>2, SecondTypes DEF RtcTick, RtcTypeOK
    <2>3. CASE ~(remainder + n >= SecondLength)
        BY <1>1, <2>1, <2>3 DEF RtcTick, RtcTypeOK
    <2> QED BY <2>2, <2>3
<1>2. ASSUME NEW v \in Bytes, WriteRtc(v) PROVE RtcTypeOK'
    <2>1. SetField(v) /\ UNCHANGED remainder
        BY <1>2 DEF WriteRtc, SetField
    <2> QED BY <1>2, <2>1, FieldTypes DEF WriteRtc, RtcTypeOK
<1>3. ASSUME NEW v \in Bytes, WriteLatch(v) PROVE RtcTypeOK'
    BY <1>3 DEF WriteLatch, clock, RtcTypeOK
<1>4. ASSUME NEW on \in BOOLEAN, EnableRam(on) PROVE RtcTypeOK'
    BY <1>4 DEF EnableRam, clock, RtcTypeOK
<1>5. ASSUME NEW v \in RtcRegisters \union {NoSelect}, SelectRegister(v) PROVE RtcTypeOK'
    BY <1>5 DEF SelectRegister, clock, RtcTypeOK
<1>6. CASE UNCHANGED rtcVars
    BY <1>6 DEF rtcVars, clock, RtcTypeOK
<1> QED BY <1>1, <1>2, <1>3, <1>4, <1>5, <1>6 DEF RtcNext

LEMMA RtcTypeInit == RtcInit => RtcTypeOK
<1> SUFFICES ASSUME RtcInit PROVE RtcTypeOK
    OBVIOUS
<1>1. ASSUME NEW x \in Nat \ {0} PROVE 0 \in 0 .. x - 1
    OBVIOUS
<1>2. /\ 0 \in 0 .. Sizes[1] - 1 /\ 0 \in 0 .. Sizes[2] - 1 /\ 0 \in 0 .. Sizes[3] - 1
      /\ 0 \in 0 .. DayCount - 1 /\ 0 \in 0 .. SecondLength - 1
    BY <1>1, Weights
<1>3. /\ present \in BOOLEAN /\ ramEnabled \in BOOLEAN /\ armed \in BOOLEAN
      /\ halted \in BOOLEAN /\ rtcCarry \in BOOLEAN
    BY Zenon DEF RtcInit
<1>4. rtcSelect \in RtcRegisters \union {NoSelect}
    BY DEF RtcInit
<1> QED BY <1>2, <1>3, <1>4, Zenon DEF RtcInit, RtcTypeOK

(* The counters of the clock keep their ranges for any sizes of the digits.  *)
THEOREM RtcTypeCorrect == RtcSpec => []RtcTypeOK
BY RtcTypeInit, RtcTypeStep, PTL DEF RtcSpec

-----------------------------------------------------------------------------
\* The digits of the counters, and the parts of the time below each of them.
Below2(r, s) == r + SecondLength * s
Below3(r, s, m) == Below2(r, s) + Weight2 * m
Below4(r, s, m, h) == Below3(r, s, m) + Weight3 * h

\* Counters in their ranges.
InRanges(r, s, m, h, d) ==
    /\ r \in 0 .. SecondLength - 1 /\ s \in 0 .. Sizes[1] - 1 /\ m \in 0 .. Sizes[2] - 1
    /\ h \in 0 .. Sizes[3] - 1 /\ d \in 0 .. DayCount - 1

LEMMA BelowRanges ==
    ASSUME NEW r, NEW s, NEW m, NEW h, NEW d, InRanges(r, s, m, h, d)
    PROVE  /\ Below2(r, s) \in 0 .. Weight2 - 1
           /\ Below3(r, s, m) \in 0 .. Weight3 - 1
           /\ Below4(r, s, m, h) \in 0 .. Weight4 - 1
           /\ TimeOf(r, s, m, h, d) \in 0 .. Weight5 * Sizes[5] - 1
<1>1. Below2(r, s) \in 0 .. Weight2 - 1
    BY Weights, Pack DEF InRanges, Below2, Weight2
<1>2. Below3(r, s, m) \in 0 .. Weight3 - 1
    BY <1>1, Weights, Pack DEF InRanges, Below3, Weight3
<1>3. Below4(r, s, m, h) \in 0 .. Weight4 - 1
    BY <1>2, Weights, Pack DEF InRanges, Below4, Weight4
<1>4. Below4(r, s, m, h) + Weight4 * d \in 0 .. Weight4 * DayCount - 1
    BY <1>3, Weights, Pack DEF InRanges
<1>5. TimeOf(r, s, m, h, d) = Below4(r, s, m, h) + Weight4 * d
    BY DEF TimeOf, Below4, Below3, Below2
<1> QED BY <1>1, <1>2, <1>3, <1>4, <1>5, Weights

\* A tick that ends the second carries through the digits like the addition
\* of its cycles to the time.
LEMMA TickAdds ==
    ASSUME NEW n \in 0 .. SecondLength, NEW r, NEW s, NEW m, NEW h, NEW d,
           InRanges(r, s, m, h, d)
    PROVE  LET c1 == IF r + n >= SecondLength THEN 1 ELSE 0
               c2 == CarryOut(s, Sizes[1], c1)
               c3 == CarryOut(m, Sizes[2], c2)
               c4 == CarryOut(h, Sizes[3], c3)
               c5 == CarryOut(d, DayCount, c4)
               r2 == (r + n) % SecondLength
               s2 == DigitAfter(s, Sizes[1], c1)
               m2 == DigitAfter(m, Sizes[2], c2)
               h2 == DigitAfter(h, Sizes[3], c3)
               d2 == DigitAfter(d, DayCount, c4)
           IN  /\ InRanges(r2, s2, m2, h2, d2)
               /\ TimeOf(r, s, m, h, d) + n
                     = TimeOf(r2, s2, m2, h2, d2) + (Weight5 * Sizes[5]) * c5
<1> DEFINE c1 == IF r + n >= SecondLength THEN 1 ELSE 0
           c2 == CarryOut(s, Sizes[1], c1)
           c3 == CarryOut(m, Sizes[2], c2)
           c4 == CarryOut(h, Sizes[3], c3)
           c5 == CarryOut(d, DayCount, c4)
           r2 == (r + n) % SecondLength
           s2 == DigitAfter(s, Sizes[1], c1)
           m2 == DigitAfter(m, Sizes[2], c2)
           h2 == DigitAfter(h, Sizes[3], c3)
           d2 == DigitAfter(d, DayCount, c4)
<1>0. /\ SecondLength \in Nat \ {0} /\ Weight2 \in Nat \ {0} /\ Weight3 \in Nat \ {0}
      /\ Weight4 \in Nat \ {0} /\ DayCount \in Nat \ {0} /\ n \in Nat
      /\ Sizes[1] \in Nat \ {0} /\ Sizes[2] \in Nat \ {0} /\ Sizes[3] \in Nat \ {0}
    BY Weights
<1>1. /\ r2 \in 0 .. SecondLength - 1 /\ c1 \in {0, 1}
      /\ Adds(r, n, r2, SecondLength, c1)
    <2> USE DEF Adds
    <2>1. r \in Nat /\ r < SecondLength
        BY <1>0 DEF InRanges
    <2>2. CASE r + n >= SecondLength
        <3>1. r + n = (r + n - SecondLength) + SecondLength * 1
              /\ r + n - SecondLength \in 0 .. SecondLength - 1 /\ 1 \in Nat
            BY <1>0, <2>1, <2>2
        <3>2. ((r + n - SecondLength) + SecondLength * 1) % SecondLength = r + n - SecondLength
            BY <1>0, <3>1, Position
        <3> QED BY <1>0, <2>2, <3>1, <3>2
    <2>3. CASE ~(r + n >= SecondLength)
        <3>1. r + n = (r + n) + SecondLength * 0 /\ r + n \in 0 .. SecondLength - 1 /\ 0 \in Nat
            BY <1>0, <2>1, <2>3
        <3>2. ((r + n) + SecondLength * 0) % SecondLength = r + n
            BY <1>0, <3>1, Position
        <3> QED BY <1>0, <2>3, <3>1, <3>2
    <2> QED BY <2>2, <2>3
<1>r. /\ r \in 0 .. SecondLength - 1 /\ s \in 0 .. Sizes[1] - 1 /\ m \in 0 .. Sizes[2] - 1
      /\ h \in 0 .. Sizes[3] - 1 /\ d \in 0 .. DayCount - 1
    BY DEF InRanges
<1>d. /\ s2 = DigitAfter(s, Sizes[1], c1) /\ c2 = CarryOut(s, Sizes[1], c1)
      /\ m2 = DigitAfter(m, Sizes[2], c2) /\ c3 = CarryOut(m, Sizes[2], c2)
      /\ h2 = DigitAfter(h, Sizes[3], c3) /\ c4 = CarryOut(h, Sizes[3], c3)
      /\ d2 = DigitAfter(d, DayCount, c4) /\ c5 = CarryOut(d, DayCount, c4)
    OBVIOUS
<1> HIDE DEF r2, s2, m2, h2, d2, c1, c2, c3, c4, c5
<1>2. /\ c2 \in {0, 1} /\ s2 \in 0 .. Sizes[1] - 1
      /\ Adds(Below2(r, s), n, Below2(r2, s2), Weight2, c2)
    <2>1. Carries(SecondLength, Sizes[1], n, r, r2, s, c1, s2, c2)
        BY <1>0, <1>1, <1>d, <1>r, Zenon DEF Carries
    <2> QED BY <2>1, CarriedOn, Zenon DEF Below2, Weight2
<1>3. Below2(r, s) \in 0 .. Weight2 - 1 /\ Below2(r2, s2) \in 0 .. Weight2 - 1
    <2>1. Below2(r, s) \in 0 .. Weight2 - 1
        BY BelowRanges
    <2>2. Below2(r2, s2) \in 0 .. Weight2 - 1
        BY <1>0, <1>1, <1>2, Pack DEF Below2, Weight2
    <2> QED BY <2>1, <2>2
<1>4. /\ c3 \in {0, 1} /\ m2 \in 0 .. Sizes[2] - 1
      /\ Adds(Below3(r, s, m), n, Below3(r2, s2, m2), Weight3, c3)
    <2>1. Carries(Weight2, Sizes[2], n, Below2(r, s), Below2(r2, s2), m, c2, m2, c3)
        BY <1>0, <1>2, <1>3, <1>d, <1>r, Zenon DEF Carries
    <2> QED BY <2>1, CarriedOn, Zenon DEF Below3, Weight3
<1>5. Below3(r, s, m) \in 0 .. Weight3 - 1 /\ Below3(r2, s2, m2) \in 0 .. Weight3 - 1
    <2>1. Below3(r, s, m) \in 0 .. Weight3 - 1
        BY BelowRanges
    <2>2. Below3(r2, s2, m2) \in 0 .. Weight3 - 1
        BY <1>0, <1>3, <1>4, Pack DEF Below3, Weight3
    <2> QED BY <2>1, <2>2
<1>6. /\ c4 \in {0, 1} /\ h2 \in 0 .. Sizes[3] - 1
      /\ Adds(Below4(r, s, m, h), n, Below4(r2, s2, m2, h2), Weight4, c4)
    <2>1. Carries(Weight3, Sizes[3], n, Below3(r, s, m), Below3(r2, s2, m2), h, c3, h2, c4)
        BY <1>0, <1>4, <1>5, <1>d, <1>r, Zenon DEF Carries
    <2> QED BY <2>1, CarriedOn, Zenon DEF Below4, Weight4
<1>7. Below4(r, s, m, h) \in 0 .. Weight4 - 1 /\ Below4(r2, s2, m2, h2) \in 0 .. Weight4 - 1
    <2>1. Below4(r, s, m, h) \in 0 .. Weight4 - 1
        BY BelowRanges
    <2>2. Below4(r2, s2, m2, h2) \in 0 .. Weight4 - 1
        BY <1>0, <1>5, <1>6, Pack DEF Below4, Weight4
    <2> QED BY <2>1, <2>2
<1>8. /\ c5 \in {0, 1} /\ d2 \in 0 .. DayCount - 1
      /\ Adds(Below4(r, s, m, h) + Weight4 * d, n, Below4(r2, s2, m2, h2) + Weight4 * d2,
              Weight4 * DayCount, c5)
    <2>1. Carries(Weight4, DayCount, n, Below4(r, s, m, h), Below4(r2, s2, m2, h2), d, c4, d2, c5)
        BY <1>0, <1>6, <1>7, <1>d, <1>r, Zenon DEF Carries
    <2> QED BY <2>1, CarriedOn, Zenon
<1>9. /\ InRanges(r2, s2, m2, h2, d2)
      /\ TimeOf(r, s, m, h, d) + n = TimeOf(r2, s2, m2, h2, d2) + (Weight5 * Sizes[5]) * c5
    BY <1>1, <1>2, <1>4, <1>6, <1>8, Weights DEF Adds, InRanges, TimeOf, Below4, Below3, Below2
<1> QED BY <1>9 DEF c1, c2, c3, c4, c5, r2, s2, m2, h2, d2

\* The number t has b as its digit of weight U, of y values.
HasDigit(t, U, y, l, b, q) == t = l + U * (b + y * q)

\* Replacing one digit of a number.
LEMMA Replaced ==
    ASSUME NEW U \in Nat \ {0}, NEW y \in Nat \ {0}, NEW l \in 0 .. U - 1,
           NEW b \in 0 .. y - 1, NEW v \in 0 .. y - 1, NEW q \in Nat,
           NEW t, HasDigit(t, U, y, l, b, q), NEW u, HasDigit(u, U, y, l, v, q)
    PROVE  (t \div U) % y = b /\ u = t + (v - b) * U
<1> USE DEF HasDigit
<1>1. y * q \in Nat /\ b + y * q \in Nat
    OBVIOUS
<1>2. (l + U * (b + y * q)) \div U = b + y * q
    BY <1>1, Position
<1>3. (b + y * q) % y = b
    BY Position
<1>4. U * (b + y * q) = U * b + U * (y * q) /\ U * (v + y * q) = U * v + U * (y * q)
    OBVIOUS
<1>5. (v - b) * U = U * v - U * b /\ U * v \in Int /\ U * b \in Int /\ U * (y * q) \in Int
    BY <1>1
<1> QED BY <1>2, <1>3, <1>4, <1>5

\* The time seen from each of its digits.
LEMMA TimeFromDigit ==
    ASSUME NEW r, NEW s, NEW m, NEW h, NEW d, InRanges(r, s, m, h, d),
           NEW x \in 0 .. Sizes[4] - 1, NEW z \in 0 .. Sizes[5] - 1, d = x + Sizes[4] * z
    PROVE  LET t == TimeOf(r, s, m, h, d) IN
           /\ t = r + SecondLength * (s + Sizes[1] * (m + Sizes[2] * (h + Sizes[3] * d)))
           /\ t = Below2(r, s) + Weight2 * (m + Sizes[2] * (h + Sizes[3] * d))
           /\ t = Below3(r, s, m) + Weight3 * (h + Sizes[3] * d)
           /\ t = Below4(r, s, m, h) + Weight4 * (x + Sizes[4] * z)
           /\ t = (Below4(r, s, m, h) + Weight4 * x) + Weight5 * (z + Sizes[5] * 0)
<1> DEFINE S == SecondLength  A == Sizes[1]  B == Sizes[2]  C == Sizes[3]  D == Sizes[4]
           t == TimeOf(r, s, m, h, d)
<1>1. S \in Nat /\ A \in Nat /\ B \in Nat /\ C \in Nat /\ D \in Nat /\ Sizes[5] \in Nat
    BY Weights
<1>2. r \in Nat /\ s \in Nat /\ m \in Nat /\ h \in Nat /\ d \in Nat /\ x \in Nat /\ z \in Nat
    BY Weights DEF InRanges
<1>3. /\ Weight2 = S * A /\ Weight3 = (S * A) * B /\ Weight4 = ((S * A) * B) * C
      /\ Weight5 = (((S * A) * B) * C) * D
    BY DEF Weight2, Weight3, Weight4, Weight5
<1>4. /\ Below2(r, s) = r + S * s /\ Below3(r, s, m) = (r + S * s) + (S * A) * m
      /\ Below4(r, s, m, h) = ((r + S * s) + (S * A) * m) + ((S * A) * B) * h
      /\ t = (((r + S * s) + (S * A) * m) + ((S * A) * B) * h) + (((S * A) * B) * C) * d
    BY <1>3 DEF Below2, Below3, Below4, TimeOf
<1>d. d = x + D * z
    OBVIOUS
<1> HIDE DEF S, A, B, C, D, t
<1>5. t = r + S * (s + A * (m + B * (h + C * d)))
    BY <1>1, <1>2, <1>4
<1>6. t = Below2(r, s) + Weight2 * (m + B * (h + C * d))
    BY <1>1, <1>2, <1>3, <1>4
<1>7. t = Below3(r, s, m) + Weight3 * (h + C * d)
    BY <1>1, <1>2, <1>3, <1>4
<1>8. t = Below4(r, s, m, h) + Weight4 * (x + D * z)
    BY <1>1, <1>2, <1>3, <1>4, <1>d
<1>9. t = (Below4(r, s, m, h) + Weight4 * x) + Weight5 * (z + Sizes[5] * 0)
    <2>1. z + Sizes[5] * 0 = z
        BY <1>1, <1>2
    <2>2. Weight4 \in Nat /\ Below4(r, s, m, h) \in Nat
        BY Weights, BelowRanges
    <2>3. Weight5 = Weight4 * D
        BY <1>3
    <2>4. Weight4 * (x + D * z) = Weight4 * x + (Weight4 * D) * z
        BY <1>1, <1>2, <2>2
    <2>5. Weight4 * x \in Nat /\ (Weight4 * D) * z \in Nat
        BY <1>1, <1>2, <2>2
    <2> QED BY <1>8, <2>1, <2>2, <2>3, <2>4, <2>5
<1> QED BY <1>5, <1>6, <1>7, <1>8, <1>9 DEF S, A, B, C, D, t

\* The mapping, and what it makes of the types.
Time == remainder + SecondLength * InSeconds(Now)

LEMMA TimeIs ==
    ASSUME RtcTypeOK
    PROVE  /\ Time = TimeOf(remainder, seconds, minutes, hours, days)
           /\ InRanges(remainder, seconds, minutes, hours, days)
           /\ InSeconds(Now) \in Nat
           /\ Time \in 0 .. Weight5 * Sizes[5] - 1
<1>1. InRanges(remainder, seconds, minutes, hours, days)
    BY DEF RtcTypeOK, InRanges
<1>2. /\ remainder \in Nat /\ Now.seconds \in Nat /\ Now.minutes \in Nat /\ Now.hours \in Nat
      /\ Now.days \in Nat
    BY Weights DEF RtcTypeOK, Now
<1>3. Time = TimeOf(remainder, Now.seconds, Now.minutes, Now.hours, Now.days)
      /\ InSeconds(Now) \in Nat
    BY <1>2, TimeIsSum DEF Time
<1>4. Time = TimeOf(remainder, seconds, minutes, hours, days)
    BY <1>3 DEF Now
<1>5. Time \in 0 .. Weight5 * Sizes[5] - 1
    BY <1>1, <1>4, BelowRanges
<1> QED BY <1>1, <1>3, <1>4, <1>5

LEMMA UnitsAre ==
    /\ Promise!Digits = 1 .. 5
    /\ Promise!Unit[1] = SecondLength /\ Promise!Unit[2] = Weight2 /\ Promise!Unit[3] = Weight3
    /\ Promise!Unit[4] = Weight4 /\ Promise!Unit[5] = Weight5
    /\ Promise!Period = Weight5 * Sizes[5]
BY DEF Promise!Digits, Promise!Unit, Promise!Period, Weight2, Weight3, Weight4, Weight5

\* The same after a step.
LEMMA TimeIsNext ==
    ASSUME RtcTypeOK'
    PROVE  /\ Time' = TimeOf(remainder', seconds', minutes', hours', days')
           /\ InRanges(remainder', seconds', minutes', hours', days')
<1>1. InRanges(remainder', seconds', minutes', hours', days')
    BY DEF RtcTypeOK, InRanges
<1>2. /\ remainder' \in Nat /\ Now'.seconds \in Nat /\ Now'.minutes \in Nat
      /\ Now'.hours \in Nat /\ Now'.days \in Nat
    BY Weights DEF RtcTypeOK, Now
<1>3. remainder' + SecondLength * InSeconds(Now')
        = TimeOf(remainder', Now'.seconds, Now'.minutes, Now'.hours, Now'.days)
    BY <1>2, TimeIsSum
<1>4. Time' = remainder' + SecondLength * InSeconds(Now')
    BY DEF Time, InSeconds
<1> QED BY <1>1, <1>3, <1>4 DEF Now

\* What is left of a sum, and whether it went beyond P.
LEMMA Wraps ==
    ASSUME NEW P \in Nat \ {0}, NEW t \in Nat, NEW n \in Nat, NEW u \in 0 .. P - 1,
           NEW c \in {0, 1}, Adds(t, n, u, P, c)
    PROVE  (t + n) % P = u /\ (t + n >= P <=> c = 1)
<1>1. t + n = u + P * c
    BY DEF Adds
<1>2. (u + P * c) % P = u
    BY Position
<1>3. P * 0 = 0 /\ P * 1 = P
    OBVIOUS
<1> QED BY <1>1, <1>2, <1>3

LEMMA RunRefines ==
    ASSUME RtcTypeOK, RtcTypeOK', NEW n \in TickLengths, RtcTick(n)
    PROVE  Promise!Run
<1> DEFINE c1 == IF remainder + n >= SecondLength THEN 1 ELSE 0
           c2 == CarryOut(seconds, Sizes[1], c1)
           c3 == CarryOut(minutes, Sizes[2], c2)
           c4 == CarryOut(hours, Sizes[3], c3)
           c5 == CarryOut(days, DayCount, c4)
           P == Weight5 * Sizes[5]
<1>1. n \in 0 .. SecondLength /\ n \in Nat
    BY RtcAssumption
<1>2. /\ remainder' = (remainder + n) % SecondLength
      /\ seconds' = DigitAfter(seconds, Sizes[1], c1) /\ minutes' = DigitAfter(minutes, Sizes[2], c2)
      /\ hours' = DigitAfter(hours, Sizes[3], c3) /\ days' = DigitAfter(days, DayCount, c4)
      /\ rtcCarry' = (rtcCarry \/ c5 = 1)
    <2>1. CASE remainder + n >= SecondLength
        BY <2>1 DEF RtcTick, OneSecond, DigitAfter, CarryOut
    <2>2. CASE ~(remainder + n >= SecondLength)
        <3>1. c1 = 0 /\ c2 = 0 /\ c3 = 0 /\ c4 = 0 /\ c5 = 0
            BY <2>2 DEF CarryOut
        <3>2. UNCHANGED <<seconds, minutes, hours, days, rtcCarry>>
            BY <2>2 DEF RtcTick
        <3>3. rtcCarry' = (rtcCarry \/ c5 = 1)
            <4>1. ~(c5 = 1)
                BY <3>1
            <4>2. rtcCarry' = rtcCarry /\ rtcCarry \in BOOLEAN
                BY <3>2 DEF RtcTypeOK
            <4> HIDE DEF c5
            <4> QED BY <4>1, <4>2
        <3>4. remainder' = (remainder + n) % SecondLength
            BY DEF RtcTick
        <3>5. /\ seconds' = DigitAfter(seconds, Sizes[1], c1)
              /\ minutes' = DigitAfter(minutes, Sizes[2], c2)
              /\ hours' = DigitAfter(hours, Sizes[3], c3) /\ days' = DigitAfter(days, DayCount, c4)
            <4> HIDE DEF c1, c2, c3, c4, c5
            <4> QED BY <3>1, <3>2 DEF DigitAfter
        <3> QED BY <3>3, <3>4, <3>5, Zenon
    <2> QED BY <2>1, <2>2
<1>3. /\ InRanges(remainder, seconds, minutes, hours, days)
      /\ Time = TimeOf(remainder, seconds, minutes, hours, days)
      /\ Time' = TimeOf(remainder', seconds', minutes', hours', days')
      /\ InRanges(remainder', seconds', minutes', hours', days')
    BY TimeIs, TimeIsNext
<1>4. TimeOf(remainder, seconds, minutes, hours, days) + n
        = TimeOf((remainder + n) % SecondLength, DigitAfter(seconds, Sizes[1], c1),
                 DigitAfter(minutes, Sizes[2], c2), DigitAfter(hours, Sizes[3], c3),
                 DigitAfter(days, DayCount, c4)) + P * c5
    BY <1>1, <1>3, TickAdds
<1>5. c5 \in {0, 1}
    BY DEF CarryOut
<1> HIDE DEF c1, c2, c3, c4, c5, P
<1>6. Time + n = Time' + P * c5
    BY <1>2, <1>3, <1>4
<1>7. Time' \in 0 .. P - 1 /\ P \in Nat \ {0}
    BY <1>3, BelowRanges, Weights DEF P
<1>8. (Time + n) % P = Time' /\ (Time + n >= P <=> c5 = 1)
    <2>1. Time \in Nat
        <3>1. P \in Nat /\ Time \in 0 .. P - 1
            BY <1>7, TimeIs DEF P
        <3> QED BY <3>1
    <2>2. Adds(Time, n, Time', P, c5)
        BY <1>6 DEF Adds
    <2> QED BY <1>1, <1>5, <1>7, <2>1, <2>2, Wraps
<1>9. /\ UNCHANGED <<~halted, <<InSeconds(latched), ~latched.halted, latched.carry>>>>
      /\ ~halted
    BY DEF RtcTick
<1>10. /\ Time' = (Time + n) % Promise!Period
       /\ rtcCarry' = (rtcCarry \/ Time + n >= Promise!Period)
    BY <1>2, <1>8, UnitsAre DEF P
<1> QED BY <1>9, <1>10 DEF Promise!Run, Time

\* Setting a digit to what a register takes of the value written.
LEMMA SetRefines ==
    ASSUME RtcTypeOK, RtcTypeOK', NEW v \in Bytes, WriteRtc(v)
    PROVE  Promise!Set
<1> DEFINE r == remainder  s == seconds  m == minutes  h == hours
           x == days % Sizes[4]  z == days \div Sizes[4]
<1>0. \A i \in 1 .. 5 : v % Sizes[i] \in 0 .. Sizes[i] - 1
    BY RemainderType, RtcAssumption
<1>1. /\ InRanges(remainder, seconds, minutes, hours, days)
      /\ Time = TimeOf(remainder, seconds, minutes, hours, days)
      /\ Time' = TimeOf(remainder', seconds', minutes', hours', days')
      /\ InRanges(remainder', seconds', minutes', hours', days')
    BY TimeIs, TimeIsNext
<1>2. x \in 0 .. Sizes[4] - 1 /\ z \in 0 .. Sizes[5] - 1 /\ days = x + Sizes[4] * z
    BY <1>1, DaysSplit DEF InRanges
<1>3. SetField(v) /\ remainder' = r /\ rtcSelect \in 8 .. 12 /\ UNCHANGED latched
    BY DEF WriteRtc, SetField, RtcRegisters
<1>4. SUFFICES \E i \in 1 .. 5 :
          /\ Time' = Time + ((v % Sizes[i]) - ((Time \div Promise!Unit[i]) % Sizes[i])) * Promise!Unit[i]
          /\ i = rtcSelect - 7
    <2>1. PICK i \in 1 .. 5 :
              /\ Time' = Time + ((v % Sizes[i]) - ((Time \div Promise!Unit[i]) % Sizes[i])) * Promise!Unit[i]
              /\ i = rtcSelect - 7
        BY <1>4
    <2>2. i = 5 <=> rtcSelect = 12
        BY <1>3, <2>1
    <2>3. IF i = 5 THEN (~halted)' \in BOOLEAN /\ rtcCarry' \in BOOLEAN
                   ELSE UNCHANGED <<~halted, rtcCarry>>
        BY <1>3, <2>2 DEF SetField
    <2>4. UNCHANGED <<InSeconds(latched), ~latched.halted, latched.carry>>
        BY <1>3 DEF InSeconds
    <2> QED BY <1>0, <2>1, <2>3, <2>4, UnitsAre DEF Promise!Set, Promise!Digit, Time
<1>w. /\ Sizes[1] \in Nat \ {0} /\ Sizes[2] \in Nat \ {0} /\ Sizes[3] \in Nat \ {0}
      /\ Sizes[4] \in Nat \ {0} /\ Sizes[5] \in Nat \ {0}
      /\ SecondLength \in Nat \ {0} /\ Weight2 \in Nat \ {0} /\ Weight3 \in Nat \ {0}
      /\ Weight4 \in Nat \ {0} /\ Weight5 \in Nat \ {0}
    BY Weights
<1>5. CASE rtcSelect = 8
    <2> DEFINE q == minutes + Sizes[2] * (hours + Sizes[3] * days)
    <2>1. seconds' = v % Sizes[1] /\ UNCHANGED <<remainder, minutes, hours, days>>
        BY <1>3, <1>5 DEF SetField
    <2>2. HasDigit(Time, SecondLength, Sizes[1], r, s, q)
        BY <1>1, <1>2, TimeFromDigit DEF HasDigit
    <2>3. HasDigit(Time', SecondLength, Sizes[1], r, v % Sizes[1], q)
        BY <1>1, <1>2, <2>1, TimeFromDigit DEF HasDigit
    <2>4. q \in Nat /\ r \in 0 .. SecondLength - 1 /\ s \in 0 .. Sizes[1] - 1
        <3>1. minutes \in Nat /\ hours \in Nat /\ days \in Nat
            BY <1>1 DEF InRanges
        <3>2. Sizes[3] * days \in Nat /\ hours + Sizes[3] * days \in Nat
            BY <1>w, <3>1
        <3>3. Sizes[2] * (hours + Sizes[3] * days) \in Nat
            BY <1>w, <3>2
        <3> QED BY <1>1, <3>1, <3>3 DEF InRanges
    <2> HIDE DEF q
    <2>5. /\ (Time \div SecondLength) % Sizes[1] = s
          /\ Time' = Time + ((v % Sizes[1]) - s) * SecondLength
        <3> DEFINE l == r
                   w == v % Sizes[1]
        <3>1. w \in 0 .. Sizes[1] - 1 /\ l \in 0 .. SecondLength - 1 /\ s \in 0 .. Sizes[1] - 1 /\ q \in Nat
            BY <1>0, <1>2, <2>4
        <3>2. HasDigit(Time, SecondLength, Sizes[1], l, s, q) /\ HasDigit(Time', SecondLength, Sizes[1], l, w, q)
            BY <2>2, <2>3
        <3> HIDE DEF s, l, w
        <3>3. (Time \div SecondLength) % Sizes[1] = s /\ Time' = Time + (w - s) * SecondLength
            BY <1>w, <3>1, <3>2, Replaced
        <3> QED BY <3>3 DEF w
    <2> QED BY <1>5, <2>5, UnitsAre
<1>6. CASE rtcSelect = 9
    <2> DEFINE q == hours + Sizes[3] * days
    <2>1. minutes' = v % Sizes[2] /\ UNCHANGED <<remainder, seconds, hours, days>>
        BY <1>3, <1>6 DEF SetField
    <2>2. HasDigit(Time, Weight2, Sizes[2], Below2(r, s), m, q)
        BY <1>1, <1>2, TimeFromDigit DEF HasDigit
    <2>3. HasDigit(Time', Weight2, Sizes[2], Below2(r, s), v % Sizes[2], q)
        BY <1>1, <1>2, <2>1, TimeFromDigit DEF HasDigit
    <2>4. q \in Nat /\ Below2(r, s) \in 0 .. Weight2 - 1 /\ m \in 0 .. Sizes[2] - 1
        <3>1. hours \in Nat /\ days \in Nat
            BY <1>1 DEF InRanges
        <3>2. Sizes[3] * days \in Nat
            BY <1>w, <3>1
        <3> QED BY <1>1, <3>1, <3>2, BelowRanges DEF InRanges
    <2> HIDE DEF q
    <2>5. /\ (Time \div Weight2) % Sizes[2] = m
          /\ Time' = Time + ((v % Sizes[2]) - m) * Weight2
        <3> DEFINE l == Below2(r, s)
                   w == v % Sizes[2]
        <3>1. w \in 0 .. Sizes[2] - 1 /\ l \in 0 .. Weight2 - 1 /\ m \in 0 .. Sizes[2] - 1 /\ q \in Nat
            BY <1>0, <1>2, <2>4
        <3>2. HasDigit(Time, Weight2, Sizes[2], l, m, q) /\ HasDigit(Time', Weight2, Sizes[2], l, w, q)
            BY <2>2, <2>3
        <3> HIDE DEF m, l, w
        <3>3. (Time \div Weight2) % Sizes[2] = m /\ Time' = Time + (w - m) * Weight2
            BY <1>w, <3>1, <3>2, Replaced
        <3> QED BY <3>3 DEF w
    <2> QED BY <1>6, <2>5, UnitsAre
<1>7. CASE rtcSelect = 10
    <2>1. hours' = v % Sizes[3] /\ UNCHANGED <<remainder, seconds, minutes, days>>
        BY <1>3, <1>7 DEF SetField
    <2>2. HasDigit(Time, Weight3, Sizes[3], Below3(r, s, m), h, days)
        BY <1>1, <1>2, TimeFromDigit DEF HasDigit
    <2>3. HasDigit(Time', Weight3, Sizes[3], Below3(r, s, m), v % Sizes[3], days)
        BY <1>1, <1>2, <2>1, TimeFromDigit DEF HasDigit
    <2>4. days \in Nat /\ Below3(r, s, m) \in 0 .. Weight3 - 1 /\ h \in 0 .. Sizes[3] - 1
        BY <1>1, BelowRanges DEF InRanges
    <2>5. /\ (Time \div Weight3) % Sizes[3] = h
          /\ Time' = Time + ((v % Sizes[3]) - h) * Weight3
        <3> DEFINE l == Below3(r, s, m)
                   w == v % Sizes[3]
        <3>1. w \in 0 .. Sizes[3] - 1 /\ l \in 0 .. Weight3 - 1 /\ h \in 0 .. Sizes[3] - 1 /\ days \in Nat
            BY <1>0, <1>2, <2>4
        <3>2. HasDigit(Time, Weight3, Sizes[3], l, h, days) /\ HasDigit(Time', Weight3, Sizes[3], l, w, days)
            BY <2>2, <2>3
        <3> HIDE DEF h, l, w
        <3>3. (Time \div Weight3) % Sizes[3] = h /\ Time' = Time + (w - h) * Weight3
            BY <1>w, <3>1, <3>2, Replaced
        <3> QED BY <3>3 DEF w
    <2> QED BY <1>7, <2>5, UnitsAre
<1>8. CASE rtcSelect = 11
    <2>1. /\ days' = days - x + (v % Sizes[4])
          /\ UNCHANGED <<remainder, seconds, minutes, hours>>
        BY <1>3, <1>8 DEF SetField
    <2>2. days' = (v % Sizes[4]) + Sizes[4] * z
        <3> DEFINE w == v % Sizes[4]
        <3>1. w \in 0 .. Sizes[4] - 1
            BY <1>0
        <3> HIDE DEF x, z, w
        <3>2. Sizes[4] * z \in Nat /\ x \in Nat /\ w \in Nat
            BY <1>w, <1>2, <3>1
        <3>3. days' = days - x + w
            BY <2>1 DEF w, x
        <3> QED BY <1>2, <3>2, <3>3 DEF w
    <2>3. HasDigit(Time, Weight4, Sizes[4], Below4(r, s, m, h), x, z)
        BY <1>1, <1>2, TimeFromDigit DEF HasDigit
    <2>4. HasDigit(Time', Weight4, Sizes[4], Below4(r, s, m, h), v % Sizes[4], z)
        BY <1>0, <1>1, <1>2, <2>1, <2>2, TimeFromDigit DEF HasDigit
    <2>5. z \in Nat /\ Below4(r, s, m, h) \in 0 .. Weight4 - 1
        BY <1>1, <1>2, BelowRanges
    <2>6. /\ (Time \div Weight4) % Sizes[4] = x
          /\ Time' = Time + ((v % Sizes[4]) - x) * Weight4
        <3> DEFINE l == Below4(r, s, m, h)
                   w == v % Sizes[4]
        <3>1. w \in 0 .. Sizes[4] - 1 /\ l \in 0 .. Weight4 - 1 /\ x \in 0 .. Sizes[4] - 1 /\ z \in Nat
            BY <1>0, <1>2, <2>5
        <3>2. HasDigit(Time, Weight4, Sizes[4], l, x, z) /\ HasDigit(Time', Weight4, Sizes[4], l, w, z)
            BY <2>3, <2>4
        <3> HIDE DEF x, z, l, w
        <3>3. (Time \div Weight4) % Sizes[4] = x /\ Time' = Time + (w - x) * Weight4
            BY <1>w, <3>1, <3>2, Replaced
        <3> QED BY <3>3 DEF w
    <2> QED BY <1>8, <2>6, UnitsAre
<1>9. CASE rtcSelect = 12
    <2>1. /\ days' = x + (v % Sizes[5]) * Sizes[4]
          /\ UNCHANGED <<remainder, seconds, minutes, hours>>
        BY <1>3, <1>9 DEF SetField
    <2>2. days' = x + Sizes[4] * (v % Sizes[5])
        <3>1. (v % Sizes[5]) * Sizes[4] = Sizes[4] * (v % Sizes[5])
            BY <1>0, <1>w
        <3> QED BY <2>1, <3>1
    <2>3. HasDigit(Time, Weight5, Sizes[5], Below4(r, s, m, h) + Weight4 * x, z, 0)
        BY <1>1, <1>2, TimeFromDigit DEF HasDigit
    <2>4. HasDigit(Time', Weight5, Sizes[5], Below4(r, s, m, h) + Weight4 * x, v % Sizes[5], 0)
        BY <1>0, <1>1, <1>2, <2>1, <2>2, TimeFromDigit DEF HasDigit
    <2>5. Below4(r, s, m, h) + Weight4 * x \in 0 .. Weight5 - 1
        <3>1. Below4(r, s, m, h) \in 0 .. Weight4 - 1
            BY <1>1, BelowRanges
        <3> QED BY <1>w, <1>2, <3>1, Pack DEF Weight5
    <2>6. /\ (Time \div Weight5) % Sizes[5] = z
          /\ Time' = Time + ((v % Sizes[5]) - z) * Weight5
        <3> DEFINE l == Below4(r, s, m, h) + Weight4 * x
                   w == v % Sizes[5]
        <3>1. w \in 0 .. Sizes[5] - 1 /\ l \in 0 .. Weight5 - 1 /\ z \in 0 .. Sizes[5] - 1
            BY <1>0, <1>2, <2>5
        <3>2. HasDigit(Time, Weight5, Sizes[5], l, z, 0) /\ HasDigit(Time', Weight5, Sizes[5], l, w, 0)
            BY <2>3, <2>4
        <3> HIDE DEF x, z, l, w
        <3>3. (Time \div Weight5) % Sizes[5] = z /\ Time' = Time + (w - z) * Weight5
            BY <1>w, <3>1, <3>2, Replaced
        <3> QED BY <3>3 DEF w
    <2> QED BY <1>9, <2>6, UnitsAre
<1> QED BY <1>3, <1>5, <1>6, <1>7, <1>8, <1>9

LEMMA LatchRefines ==
    ASSUME RtcTypeOK, latched' = Now, UNCHANGED clock
    PROVE  Promise!Latch
<1>1. Time = remainder + SecondLength * InSeconds(Now)
      /\ remainder \in 0 .. SecondLength - 1 /\ InSeconds(Now) \in Nat /\ SecondLength \in Nat \ {0}
    BY TimeIs, Weights DEF Time, RtcTypeOK
<1>2. Time \div SecondLength = InSeconds(Now)
    BY <1>1, Position
<1>3. /\ InSeconds(latched') = InSeconds(Now) /\ (InSeconds(latched))' = InSeconds(latched')
      /\ latched'.halted = halted /\ latched'.carry = rtcCarry
    BY DEF Now, InSeconds
<1>4. Now' = Now
    BY DEF clock, Now
<1>5. Time' = Time /\ (~halted)' = ~halted /\ rtcCarry' = rtcCarry
    BY <1>4 DEF Time, clock, InSeconds
<1> QED BY <1>2, <1>3, <1>5 DEF Promise!Latch, Promise!Reading, Time

LEMMA StepRefines ==
    RtcTypeOK /\ RtcTypeOK' /\ [RtcNext]_rtcVars => [Promise!ClockNext]_(Promise!clockVars)
<1> SUFFICES ASSUME RtcTypeOK, RtcTypeOK', [RtcNext]_rtcVars
             PROVE  [Promise!ClockNext]_(Promise!clockVars)
    OBVIOUS
<1>1. ASSUME NEW n \in TickLengths, RtcTick(n) PROVE Promise!ClockNext
    BY <1>1, RunRefines DEF Promise!ClockNext
<1>2. ASSUME NEW v \in Bytes, WriteRtc(v) PROVE Promise!ClockNext
    BY <1>2, SetRefines DEF Promise!ClockNext
<1>3. ASSUME UNCHANGED <<clock, latched>> PROVE UNCHANGED Promise!clockVars
    BY <1>3 DEF Promise!clockVars, clock, Now, InSeconds
<1>4. ASSUME NEW v \in Bytes, WriteLatch(v)
      PROVE  Promise!ClockNext \/ UNCHANGED Promise!clockVars
    <2>1. CASE armed /\ v = 1
        BY <1>4, <2>1, LatchRefines DEF WriteLatch, Promise!ClockNext
    <2>2. CASE ~(armed /\ v = 1)
        BY <1>3, <1>4, <2>2 DEF WriteLatch
    <2> QED BY <2>1, <2>2
<1>5. ASSUME NEW on \in BOOLEAN, EnableRam(on) PROVE UNCHANGED Promise!clockVars
    BY <1>3, <1>5 DEF EnableRam
<1>6. ASSUME NEW v \in RtcRegisters \union {NoSelect}, SelectRegister(v)
      PROVE  UNCHANGED Promise!clockVars
    BY <1>3, <1>6 DEF SelectRegister
<1>7. CASE UNCHANGED rtcVars
    BY <1>3, <1>7 DEF rtcVars
<1> QED BY <1>1, <1>2, <1>4, <1>5, <1>6, <1>7 DEF RtcNext

(* For any sizes of its digits and any ticks shorter than a second the clock *)
(* of MBC3 implements RealTimeClock: no carry between digits is lost and a   *)
(* write disturbs no other digit.                                            *)
THEOREM ClockRefines == RtcSpec => IsRealTimeClock
<1> SUFFICES RtcSpec => Promise!ClockSpec
    BY DEF IsRealTimeClock
<1>1. RtcInit => Promise!ClockInit
    <2> SUFFICES ASSUME RtcInit PROVE Promise!ClockInit
        OBVIOUS
    <2>1. InSeconds(Now) = 0 /\ remainder = 0 /\ latched = Now /\ halted = FALSE /\ rtcCarry = FALSE
        <3>1. 0 + Sizes[1] * (0 + Sizes[2] * (0 + Sizes[3] * 0)) = 0
            BY Weights
        <3> QED BY <3>1 DEF RtcInit, InSeconds, Now
    <2>2. Time = 0 /\ Time \div SecondLength = 0
        <3>1. 0 + SecondLength * 0 = 0 /\ 0 \in 0 .. SecondLength - 1 /\ 0 \in Nat
            BY Weights
        <3>2. (0 + SecondLength * 0) \div SecondLength = 0
            BY <3>1, Weights, Position
        <3> QED BY <2>1, <3>1, <3>2 DEF Time
    <2>3. /\ (~halted) = TRUE /\ rtcCarry = FALSE
          /\ <<InSeconds(latched), ~latched.halted, latched.carry>> = <<0, TRUE, FALSE>>
        BY <2>1 DEF Now
    <2> QED BY <2>2, <2>3 DEF Promise!ClockInit, Promise!Reading, Time
<1> QED BY <1>1, RtcTypeInit, RtcTypeStep, StepRefines, PTL DEF RtcSpec, Promise!ClockSpec

-----------------------------------------------------------------------------
(* The mappers. Their registers have ranges that hold in every reachable     *)
(* state, and for any registers in these ranges the windows show the file.   *)

\* What the bank registers hold, and that only an accepted file is in the slot.
MapperInv ==
    /\ MapperTypeOK
    /\ Plugged => Accepted(cart)
    /\ Plugged /\ cart.mapper = "MBC5" => romBank < 2 * Mbc5Size

LEMMA MapperSizes ==
    /\ ByteSize \in Nat /\ ByteSize >= 16
    /\ LowSize \in 1 .. ByteSize /\ Mbc2Size \in 1 .. ByteSize
    /\ Mbc3Size \in 1 .. ByteSize /\ Mbc5Size \in 1 .. ByteSize
    /\ \A s \in RomSizes : s \in Nat \ {0} /\ s <= 2 * Mbc5Size
BY MapperAssumption

LEMMA PluggedFile == ASSUME MapperTypeOK, Plugged PROVE cart \in Files
BY DEF MapperTypeOK, Plugged

\* A byte written to a register of y values leaves one of them.
LEMMA Kept == ASSUME NEW v \in WrittenValues, NEW y \in Nat \ {0} PROVE v % y \in 0 .. y - 1
BY MapperSizes, Division DEF WrittenValues

\* A byte can leave any of them.
LEMMA Chosen ==
    ASSUME NEW y \in 1 .. ByteSize, NEW b \in 0 .. y - 1
    PROVE  b \in WrittenValues /\ b % y = b
<1>1. b \in WrittenValues /\ y \in Nat \ {0} /\ b \in Nat
    BY MapperSizes DEF WrittenValues
<1>2. (b + y * 0) % y = b
    BY <1>1, Position
<1>3. b + y * 0 = b
    BY <1>1
<1> QED BY <1>1, <1>2, <1>3

LEMMA SmallQuotient ==
    ASSUME NEW y \in Nat \ {0}, NEW q \in Nat, NEW r \in 0 .. y - 1, (y * q) + r < 2 * y
    PROVE  q \in {0, 1}
<1>1. 2 <= q => y * 2 <= y * q
    BY Multiples
<1> QED BY <1>1

LEMMA RomWrittenType ==
    ASSUME NEW f \in Files, NEW old \in Nat, NEW v \in WrittenValues,
           f.mapper = "MBC5" => old < 2 * Mbc5Size
    PROVE  /\ RomWritten(f, old, v) \in Nat /\ HighRomWritten(f, old, v) \in Nat
           /\ f.mapper = "MBC1" => RomWritten(f, old, v) \in 1 .. LowSize
           /\ f.mapper = "MBC2" => RomWritten(f, old, v) \in 1 .. Mbc2Size
           /\ f.mapper = "MBC3" => RomWritten(f, old, v) \in 1 .. Mbc3Size
           /\ f.mapper = "MBC5" => RomWritten(f, old, v) < 2 * Mbc5Size
           /\ f.mapper = "MBC5" => HighRomWritten(f, old, v) < 2 * Mbc5Size
           /\ f.mapper \notin {"MBC1", "MBC2", "MBC3", "MBC5"} => RomWritten(f, old, v) = old
           /\ f.mapper # "MBC5" => HighRomWritten(f, old, v) = old
<1>1. /\ v % LowSize \in 0 .. LowSize - 1 /\ v % Mbc2Size \in 0 .. Mbc2Size - 1
      /\ v % Mbc3Size \in 0 .. Mbc3Size - 1 /\ v % Mbc5Size \in 0 .. Mbc5Size - 1
    BY Kept, MapperSizes
<1>2. v % 2 \in {0, 1}
    BY MapperSizes DEF WrittenValues
<1>3. /\ old % Mbc5Size \in 0 .. Mbc5Size - 1 /\ old \div Mbc5Size \in Nat
      /\ old = (Mbc5Size * (old \div Mbc5Size)) + (old % Mbc5Size)
    <2>1. Mbc5Size \in Nat \ {0}
        BY MapperSizes
    <2> QED BY <2>1, Division
<1>4. ASSUME f.mapper = "MBC5"
      PROVE  (old \div Mbc5Size) * Mbc5Size \in {0, Mbc5Size}
    <2> DEFINE q == old \div Mbc5Size  r == old % Mbc5Size
    <2>1. q \in Nat /\ old = (Mbc5Size * q) + r /\ r \in 0 .. Mbc5Size - 1 /\ old < 2 * Mbc5Size
        BY <1>3, <1>4
    <2> HIDE DEF q, r
    <2>2. q \in {0, 1}
        BY <2>1, MapperSizes, SmallQuotient
    <2>3. q * Mbc5Size \in {0, Mbc5Size}
        BY <2>2, MapperSizes
    <2> QED BY <2>3 DEF q
<1>5. (v % 2) * Mbc5Size \in {0, Mbc5Size}
    <2> DEFINE w == v % 2
    <2>1. w \in {0, 1}
        BY <1>2
    <2> HIDE DEF w
    <2>2. w * Mbc5Size \in {0, Mbc5Size}
        BY <2>1, MapperSizes
    <2> QED BY <2>2 DEF w
<1>6. CASE f.mapper = "MBC5"
    <2>1. RomWritten(f, old, v) = (old \div Mbc5Size) * Mbc5Size + (v % Mbc5Size)
        BY <1>6 DEF RomWritten
    <2>2. HighRomWritten(f, old, v) = (old % Mbc5Size) + (v % 2) * Mbc5Size
        BY <1>6 DEF HighRomWritten
    <2>3. RomWritten(f, old, v) \in 0 .. (2 * Mbc5Size - 1)
        <3> DEFINE i == (old \div Mbc5Size) * Mbc5Size  j == v % Mbc5Size
        <3>1. i \in {0, Mbc5Size} /\ j \in 0 .. Mbc5Size - 1 /\ RomWritten(f, old, v) = i + j
            BY <1>1, <1>4, <1>6, <2>1
        <3> HIDE DEF i, j
        <3> QED BY <3>1, MapperSizes
    <2>4. HighRomWritten(f, old, v) \in 0 .. (2 * Mbc5Size - 1)
        <3> DEFINE i == (v % 2) * Mbc5Size  j == old % Mbc5Size
        <3>1. i \in {0, Mbc5Size} /\ j \in 0 .. Mbc5Size - 1 /\ HighRomWritten(f, old, v) = j + i
            BY <1>3, <1>5, <2>2
        <3> HIDE DEF i, j
        <3> QED BY <3>1, MapperSizes
    <2> QED BY <1>6, <2>3, <2>4, MapperSizes
<1>7. CASE f.mapper # "MBC5"
    BY <1>1, <1>7, MapperSizes DEF RomWritten, HighRomWritten, OneForZero, Files, Mappers
<1> QED BY <1>6, <1>7

LEMMA Bank2WrittenType ==
    ASSUME NEW f \in Files, NEW old \in WrittenValues, NEW v \in WrittenValues
    PROVE  Bank2Written(f, old, v) \in WrittenValues
<1>1. v % 4 \in 0 .. 3 /\ v % 8 \in 0 .. 7 /\ v % 16 \in 0 .. 15
    BY MapperSizes DEF WrittenValues
<1>2. 0 .. 15 \subseteq WrittenValues
    BY MapperSizes DEF WrittenValues
<1> QED BY <1>1, <1>2 DEF Bank2Written

\* Reset registers are in their ranges.
LEMMA ResetTypes ==
    ASSUME cart' \in Files \union {Empty},
           enabled' = FALSE, romBank' = 1, bank2' = 0, mode' = 0, rumbling' = FALSE,
           Plugged' => Accepted(cart)'
    PROVE  MapperInv'
<1>1. 0 \in WrittenValues
    BY MapperSizes DEF WrittenValues
<1>2. 1 \in 0..(LowSize + Mbc2Size + Mbc3Size + 2 * Mbc5Size) /\ 1 < 2 * Mbc5Size
    BY MapperSizes
<1> QED BY <1>1, <1>2 DEF MapperInv, MapperTypeOK

LEMMA MapperInductive ==
    ASSUME MapperInv, [MapperNext]_mapperVars
    PROVE  MapperInv'
<1>0. MapperTypeOK /\ (Plugged => Accepted(cart))
      /\ (Plugged /\ cart.mapper = "MBC5" => romBank < 2 * Mbc5Size)
    BY DEF MapperInv
<1>a. Plugged => cart \in Files
    BY <1>0, PluggedFile
<1>1. ASSUME NEW v \in WrittenValues, WriteEnable(v) PROVE MapperInv'
    <2>1. enabled' \in BOOLEAN
        BY <1>1 DEF WriteEnable
    <2> QED BY <1>0, <1>1, <2>1
            DEF WriteEnable, MapperInv, MapperTypeOK, Plugged, Accepted
<1>2. ASSUME NEW v \in WrittenValues, WriteRom(v) PROVE MapperInv'
    <2>1. romBank \in Nat /\ cart \in Files
        BY <1>0, <1>a, <1>2, MapperSizes DEF WriteRom, MapperTypeOK
    <2>2. /\ romBank' \in 0..(LowSize + Mbc2Size + Mbc3Size + 2 * Mbc5Size)
          /\ cart.mapper = "MBC5" => romBank' < 2 * Mbc5Size
        <3>1. romBank' \in {RomWritten(cart, romBank, v), HighRomWritten(cart, romBank, v)}
            BY <1>2 DEF WriteRom
        <3>2. cart.mapper = "MBC5" => romBank < 2 * Mbc5Size
            BY <1>0, <1>2 DEF WriteRom
        <3>3. romBank \in 0..(LowSize + Mbc2Size + Mbc3Size + 2 * Mbc5Size)
            BY <1>0 DEF MapperTypeOK
        <3>4. CASE romBank' = RomWritten(cart, romBank, v)
            BY <2>1, <3>2, <3>3, <3>4, RomWrittenType, MapperSizes
        <3>5. CASE romBank' = HighRomWritten(cart, romBank, v)
            BY <2>1, <3>2, <3>3, <3>5, RomWrittenType, MapperSizes
        <3> QED BY <3>1, <3>4, <3>5
    <2> QED BY <1>0, <1>2, <2>2
            DEF WriteRom, MapperInv, MapperTypeOK, Plugged, Accepted
<1>3. ASSUME NEW v \in WrittenValues, WriteBank2(v) PROVE MapperInv'
    <2>1. bank2' \in WrittenValues
        BY <1>0, <1>a, <1>3, Bank2WrittenType DEF WriteBank2, MapperTypeOK
    <2>2. rumbling' => Plugged /\ cart.rumble
        BY <1>3 DEF WriteBank2
    <2> QED BY <1>0, <1>3, <2>1, <2>2
            DEF WriteBank2, MapperInv, MapperTypeOK, Plugged, Accepted
<1>4. ASSUME NEW v \in WrittenValues, WriteMode(v) PROVE MapperInv'
    <2>1. mode' \in {0, 1}
        BY <1>4, MapperSizes DEF WriteMode, WrittenValues
    <2> QED BY <1>0, <1>4, <2>1
            DEF WriteMode, MapperInv, MapperTypeOK, Plugged, Accepted
<1>5. ASSUME NEW f \in Files, Insert(f) PROVE MapperInv'
    <2>1. cart' \in Files \union {Empty} /\ (Plugged' => Accepted(cart)')
        BY <1>5 DEF Insert, Plugged, Accepted
    <2> QED BY <1>5, <2>1, ResetTypes DEF Insert
<1>6. CASE UNCHANGED mapperVars
    BY <1>0, <1>6 DEF mapperVars, registers, MapperInv, MapperTypeOK, Plugged, Accepted
<1> QED BY <1>1, <1>2, <1>3, <1>4, <1>5, <1>6 DEF MapperNext

LEMMA MapperInvariant == MapperSpec => []MapperInv
<1>1. MapperInit => MapperInv
    <2> SUFFICES ASSUME MapperInit PROVE MapperInv
        OBVIOUS
    <2>1. 0 \in WrittenValues /\ 1 \in 0..(LowSize + Mbc2Size + Mbc3Size + 2 * Mbc5Size)
        BY MapperSizes DEF WrittenValues
    <2> QED BY <2>1 DEF MapperInit, MapperInv, MapperTypeOK, Plugged
<1> QED BY <1>1, MapperInductive, PTL DEF MapperSpec

THEOREM MapperTypeCorrect == MapperSpec => []MapperTypeOK
<1>1. MapperInv => MapperTypeOK
    BY DEF MapperInv
<1> QED BY <1>1, MapperInvariant, PTL

-----------------------------------------------------------------------------
\* A mapper the loader takes, with a ROM of d banks.
LEMMA AcceptedFile ==
    ASSUME MapperInv, Plugged, cart.mapper # "none"
    PROVE  /\ cart \in Files /\ cart.mapper \in {"MBC1", "MBC2", "MBC3", "MBC5"}
           /\ cart.banks = cart.declared /\ cart.declared \in Nat \ {0} /\ cart.ram \in Nat
           /\ cart.mapper = "MBC1" => cart.declared <= LowSize * 4
           /\ cart.mapper = "MBC2" => cart.declared <= Mbc2Size
           /\ cart.mapper = "MBC3" => cart.declared <= Mbc3Size
           /\ cart.declared <= 2 * Mbc5Size
           /\ romBank \in Nat /\ bank2 \in WrittenValues /\ mode \in {0, 1}
           /\ cart.mapper = "MBC5" => romBank < 2 * Mbc5Size
<1>1. cart \in Files /\ Accepted(cart) /\ MapperTypeOK
    BY PluggedFile DEF MapperInv
<1>2. cart.declared \in RomSizes /\ cart.ram \in RamSizes /\ cart.mapper \in Mappers
    BY <1>1 DEF Files
<1>3. romBank \in Nat
    BY <1>1, MapperSizes DEF MapperTypeOK
<1>4. cart.ram \in Nat
    BY <1>2, MapperAssumption
<1> QED BY <1>1, <1>2, <1>3, <1>4, MapperSizes DEF MapperInv, MapperTypeOK, Accepted, Mappers

\* Whatever the registers hold, the windows show banks of the ROM and the RAM.
LEMMA WindowRanges ==
    ASSUME MapperInv, Plugged, cart.mapper # "none",
           NEW rom \in Nat, NEW high \in Nat, NEW m \in {0, 1}
    PROVE  /\ LowerBank(cart, high, m) \in 0..(cart.banks - 1)
           /\ UpperBank(cart, rom, high) \in 0..(cart.banks - 1)
           /\ RamBank(cart, high, m) \in 0..(cart.ram - 1) \union {0}
<1> DEFINE d == cart.declared  k == cart.ram
<1>0. d \in Nat \ {0} /\ k \in Nat /\ LowSize \in Nat /\ OneForZero(rom) \in Nat
    BY AcceptedFile, MapperSizes DEF OneForZero
<1>a. cart.banks = d /\ cart.mapper \in {"MBC1", "MBC2", "MBC3", "MBC5"}
    BY AcceptedFile
<1>b. high * LowSize \in Nat /\ high * LowSize + OneForZero(rom) \in Nat
    BY <1>0
<1>1. ASSUME NEW x \in Nat PROVE x % d \in 0 .. d - 1
    <2> HIDE DEF d
    <2> QED BY <1>0, Division
<1>2. LowerBank(cart, high, m) \in 0 .. d - 1
    BY <1>0, <1>1, <1>b DEF LowerBank
<1>3. UpperBank(cart, rom, high) \in 0 .. d - 1
    <2>1. CASE cart.mapper = "MBC1"
        BY <1>1, <1>b, <2>1 DEF UpperBank
    <2>2. CASE cart.mapper \in {"MBC2", "MBC3"}
        BY <1>0, <1>1, <2>2 DEF UpperBank
    <2>3. CASE cart.mapper = "MBC5"
        BY <1>1, <2>3 DEF UpperBank
    <2> QED BY <1>a, <2>1, <2>2, <2>3
<1>4. RamBank(cart, high, m) \in 0..(k - 1) \union {0}
    <2>1. CASE k = 0
        BY <2>1 DEF RamBank
    <2>2. ASSUME k # 0, NEW x \in Nat PROVE x % k \in 0 .. k - 1
        <3> HIDE DEF k
        <3> QED BY <1>0, <2>2, Division
    <2>3. high % 4 \in Nat
        OBVIOUS
    <2> QED BY <2>1, <2>2, <2>3 DEF RamBank
<1> QED BY <1>2, <1>3, <1>4, <1>a

\* The ROM registers after the two writes of a bank number.
RomAfter(v, w) == HighRomWritten(cart, RomWritten(cart, romBank, v), w)

LEMMA Reached ==
    /\ \A v \in WrittenValues, w \in {0, 1}, u \in WrittenValues :
          UpperBank(cart, RomAfter(v, w), Bank2Written(cart, bank2, u)) \in InReach(cart)
    /\ \A u \in WrittenValues, m \in {0, 1} :
          LowerBank(cart, Bank2Written(cart, bank2, u), m) \in InReach(cart)
BY DEF InReach, RomAfter

\* Every bank in reach is one of the ROM's.
LEMMA NoOtherBank ==
    ASSUME MapperInv, Plugged, cart.mapper # "none"
    PROVE  InReach(cart) \subseteq 0..(cart.banks - 1)
<1>1. ASSUME NEW v \in WrittenValues, NEW w \in {0, 1} PROVE RomAfter(v, w) \in Nat
    <2>1. w \in WrittenValues
        BY MapperSizes DEF WrittenValues
    <2>2. /\ RomWritten(cart, romBank, v) \in Nat
          /\ cart.mapper = "MBC5" => RomWritten(cart, romBank, v) < 2 * Mbc5Size
        BY AcceptedFile, RomWrittenType
    <2>3. HighRomWritten(cart, RomWritten(cart, romBank, v), w) \in Nat
        BY <2>1, <2>2, AcceptedFile, RomWrittenType
    <2> QED BY <2>3 DEF RomAfter
<1>2. ASSUME NEW u \in WrittenValues PROVE Bank2Written(cart, bank2, u) \in Nat
    <2>1. Bank2Written(cart, bank2, u) \in WrittenValues
        BY AcceptedFile, Bank2WrittenType
    <2> QED BY <2>1, MapperSizes DEF WrittenValues
<1>3. ASSUME NEW v \in WrittenValues, NEW w \in {0, 1}, NEW u \in WrittenValues
      PROVE  UpperBank(cart, RomAfter(v, w), Bank2Written(cart, bank2, u)) \in 0..(cart.banks - 1)
    BY <1>1, <1>2, WindowRanges
<1>4. ASSUME NEW u \in WrittenValues, NEW m \in {0, 1}
      PROVE  LowerBank(cart, Bank2Written(cart, bank2, u), m) \in 0..(cart.banks - 1)
    BY <1>2, WindowRanges
<1> QED BY <1>3, <1>4 DEF InReach, RomAfter

\* The quotient and the remainder of a bank number of fewer than k * y.
LEMMA Parts ==
    ASSUME NEW y \in Nat \ {0}, NEW k \in Nat \ {0}, NEW b \in Nat, b < y * k
    PROVE  b \div y \in 0 .. k - 1 /\ b % y \in 0 .. y - 1 /\ b = (y * (b \div y)) + (b % y)
<1> DEFINE q == b \div y  r == b % y
<1>1. q \in Nat /\ r \in 0 .. y - 1 /\ b = y * q + r
    BY Division
<1> HIDE DEF q, r
<1>2. k < q => y * k + y <= y * q
    BY <1>1, Multiples
<1>3. y * k \in Nat /\ y * q \in Nat
    BY <1>1
<1>4. ~(k < q) /\ q # k
    BY <1>1, <1>2, <1>3
<1>5. q \in 0 .. k - 1
    BY <1>1, <1>4
<1> QED BY <1>1, <1>5 DEF q, r

\* A bank number below d is its own remainder.
LEMMA Below ==
    ASSUME NEW d \in Nat \ {0}, NEW b \in 0 .. d - 1
    PROVE  b % d = b
<1>1. (b + d * 0) % d = b
    BY Position
<1>2. b + d * 0 = b
    OBVIOUS
<1> QED BY <1>1, <1>2

LEMMA EveryBankMbc1 ==
    ASSUME MapperInv, Plugged, cart.mapper = "MBC1", NEW b \in 0..(cart.banks - 1)
    PROVE  b \in InReach(cart)
<1> DEFINE q == b \div LowSize  r == b % LowSize
<1>0. /\ cart.declared \in Nat \ {0} /\ cart.declared <= LowSize * 4
      /\ b \in 0 .. cart.declared - 1 /\ b \in Nat
    BY AcceptedFile
<1>a. LowSize \in Nat \ {0} /\ LowSize \in 1 .. ByteSize /\ 4 \in 1 .. ByteSize
    BY MapperSizes
<1>1. q \in 0 .. 3 /\ r \in 0 .. LowSize - 1 /\ b = LowSize * q + r
    <2> DEFINE k == 4
    <2>1. b < LowSize * k /\ k \in Nat \ {0}
        BY <1>0, <1>a
    <2> HIDE DEF k
    <2>2. q \in 0 .. k - 1 /\ r \in 0 .. LowSize - 1 /\ b = LowSize * q + r
        BY <1>0, <1>a, <2>1, Parts
    <2> HIDE DEF q, r
    <2> QED BY <2>2 DEF k
<1>b. b % cart.declared = b
    BY <1>0, Below
<1> HIDE DEF q, r
<1>2. q \in WrittenValues /\ q % 4 = q
    <2>1. q \in 0 .. 4 - 1
        BY <1>1
    <2> QED BY <1>a, <2>1, Chosen
<1>3. Bank2Written(cart, bank2, q) = q
    BY <1>2 DEF Bank2Written
<1>4. q * LowSize = LowSize * q /\ LowSize * q \in Nat
    BY <1>1, <1>a
<1>5. CASE r = 0
    <2>1. LowerBank(cart, q, 1) = b
        BY <1>1, <1>4, <1>5, <1>b DEF LowerBank
    <2> QED BY <1>2, <1>3, <2>1, Reached
<1>6. CASE r # 0
    <2>1. r \in WrittenValues /\ r % LowSize = r
        BY <1>1, <1>a, Chosen
    <2>2. RomAfter(r, 0) = r
        BY <1>6, <2>1 DEF RomAfter, RomWritten, HighRomWritten, OneForZero
    <2>3. UpperBank(cart, r, q) = b
        BY <1>1, <1>4, <1>6, <1>b DEF UpperBank, OneForZero
    <2> QED BY <1>2, <1>3, <2>1, <2>2, <2>3, Reached
<1> QED BY <1>5, <1>6

LEMMA EveryBankMbc23 ==
    ASSUME MapperInv, Plugged, cart.mapper \in {"MBC2", "MBC3"}, NEW b \in 0..(cart.banks - 1)
    PROVE  b \in InReach(cart)
<1> DEFINE y == IF cart.mapper = "MBC2" THEN Mbc2Size ELSE Mbc3Size
<1>1. /\ cart.declared \in Nat \ {0} /\ cart.declared <= y /\ y \in 1 .. ByteSize
      /\ b \in 0 .. cart.declared - 1
    BY AcceptedFile, MapperSizes
<1>2. 0 \in WrittenValues
    BY MapperSizes DEF WrittenValues
<1>3. CASE b = 0
    <2>1. LowerBank(cart, Bank2Written(cart, bank2, 0), 0) = b
        BY <1>3 DEF LowerBank
    <2> QED BY <1>2, <2>1, Reached
<1>4. CASE b # 0
    <2>1. b \in WrittenValues /\ b % y = b /\ b % cart.declared = b
        <3>1. b \in 0 .. y - 1
            BY <1>1
        <3> HIDE DEF y
        <3> QED BY <1>1, <3>1, Chosen, Below
    <2>2. RomAfter(b, 0) = OneForZero(b % y)
        BY DEF RomAfter, RomWritten, HighRomWritten
    <2>3. RomAfter(b, 0) = b /\ OneForZero(b) = b
        BY <1>4, <2>1, <2>2 DEF OneForZero
    <2>4. UpperBank(cart, b, Bank2Written(cart, bank2, 0)) = OneForZero(b) % cart.declared
        BY DEF UpperBank
    <2>5. UpperBank(cart, RomAfter(b, 0), Bank2Written(cart, bank2, 0)) = b
        BY <2>1, <2>3, <2>4
    <2> QED BY <1>2, <2>1, <2>5, Reached
<1> QED BY <1>3, <1>4

LEMMA EveryBankMbc5 ==
    ASSUME MapperInv, Plugged, cart.mapper = "MBC5", NEW b \in 0..(cart.banks - 1)
    PROVE  b \in InReach(cart)
<1> DEFINE M == Mbc5Size
           q == b \div M  r == b % M  o == romBank \div M
<1>0. /\ cart.declared \in Nat \ {0} /\ cart.declared <= 2 * Mbc5Size
      /\ b \in 0 .. cart.declared - 1 /\ b \in Nat /\ romBank \in Nat
    BY AcceptedFile
<1>a. M \in Nat \ {0} /\ M \in 1 .. ByteSize
    BY MapperSizes
<1>b. b % cart.declared = b
    BY <1>0, Below
<1>c. 0 \in WrittenValues
    BY MapperSizes DEF WrittenValues
<1>1. q \in 0 .. 1 /\ r \in 0 .. M - 1 /\ b = M * q + r
    <2> DEFINE k == 2
    <2>1. b < M * k /\ k \in Nat \ {0}
        BY <1>0, <1>a
    <2> HIDE DEF k, M
    <2>2. q \in 0 .. k - 1 /\ r \in 0 .. M - 1 /\ b = M * q + r
        BY <1>0, <1>a, <2>1, Parts
    <2> HIDE DEF q, r
    <2> QED BY <2>2 DEF k
<1>2. o \in Nat
    <2> HIDE DEF M
    <2> QED BY <1>0, <1>a, Division
<1>3. RomAfter(r, q) = ((o * M + (r % M)) % M) + (q % 2) * M
    BY DEF RomAfter, RomWritten, HighRomWritten
<1>4. UpperBank(cart, b, Bank2Written(cart, bank2, 0)) = b
    BY <1>b DEF UpperBank
<1> HIDE DEF M, q, r, o
<1>5. r \in WrittenValues /\ r % M = r
    BY <1>1, <1>a, Chosen
<1>6. (r + M * o) % M = r
    BY <1>1, <1>2, <1>a, Position
<1>d. r + M * o = o * M + r
    BY <1>1, <1>2, <1>a
<1>7. q % 2 = q /\ q * M = M * q
    BY <1>1, <1>a
<1>8. RomAfter(r, q) = b
    <2>1. RomAfter(r, q) = r + M * q
        BY <1>3, <1>5, <1>6, <1>7, <1>d
    <2> QED BY <1>1, <1>a, <2>1
<1>9. q \in {0, 1}
    BY <1>1
<1> QED BY <1>4, <1>5, <1>8, <1>9, <1>c, Reached

(* The invariant of the mappers gives the banks of the file. *)
THEOREM BanksReachable == MapperSpec => []BanksAreTheFile
<1>1. ASSUME MapperInv PROVE BanksAreTheFile
    <2> SUFFICES ASSUME Plugged, cart.mapper # "none"
                 PROVE  /\ InReach(cart) = 0..(cart.banks - 1)
                        /\ {LowerBank(cart, bank2, mode), UpperBank(cart, romBank, bank2)}
                              \subseteq 0..(cart.banks - 1)
                        /\ RamBank(cart, bank2, mode) \in 0..(cart.ram - 1) \union {0}
        BY DEF BanksAreTheFile
    <2>1. romBank \in Nat /\ bank2 \in Nat /\ mode \in {0, 1}
        BY <1>1, AcceptedFile, MapperSizes DEF WrittenValues
    <2>2. \A b \in 0..(cart.banks - 1) : b \in InReach(cart)
        BY <1>1, AcceptedFile, EveryBankMbc1, EveryBankMbc23, EveryBankMbc5
    <2> QED BY <1>1, <2>1, <2>2, NoOtherBank, WindowRanges
<1>2. MapperInv => BanksAreTheFile
    BY <1>1
<1> QED BY <1>2, MapperInvariant, PTL

-----------------------------------------------------------------------------
(* The cartridge behaves as each of its parts does. *)
LEMMA CartridgeParts == McSpec => Spec /\ MapperSpec /\ RtcSpec
<1>1. McInit => Init /\ MapperInit /\ RtcInit
    BY DEF McInit
<1>2. [McNext]_mcVars => [Next]_vars /\ [MapperNext]_mapperVars /\ [RtcNext]_rtcVars
    BY DEF McNext, mcVars, SaveStep, MapperStep, ClockStep
<1> QED BY <1>1, <1>2, PTL DEF McSpec, Spec, MapperSpec, RtcSpec

(* The save file, the bank registers and the clock keep their types in every *)
(* reachable state of the cartridge.                                         *)
THEOREM CartridgeTypeCorrect == McSpec => []CartridgeTypeOK
<1>1. SaveInv /\ MapperTypeOK /\ RtcTypeOK => CartridgeTypeOK
    BY DEF SaveInv, CartridgeTypeOK
<1> QED BY <1>1, CartridgeParts, SaveInvariant, MapperTypeCorrect, RtcTypeCorrect, PTL
=============================================================================
