----------------------------- MODULE Lifecycle -----------------------------
(* The life of the hardware in emulator/gb_emulator.c: gb_emulator_load_rom, *)
(* gb_emulator_reset and gb_emulator_destroy, with build_hardware,           *)
(* initialize_loaded_cartridge and destroy_hardware, and the device table of *)
(* memory/gb_memory.c that the parts map their registers into. A call is the *)
(* sequence of its steps; a step that fails ends the call, after what the    *)
(* code cleans up. SaveRam has the save file, which here is only attached or *)
(* not. The ROM buffers that the tests load take another order of steps and  *)
(* are left out.                                                             *)
EXTENDS Integers, Sequences

CONSTANTS
    MaxDevices,      \* GB_MEMORY_MAX_IO_DEVICES
    RequestedModes   \* the modes the emulator may be configured for

ASSUME LifecycleAssumption ==
    MaxDevices \in Nat /\ RequestedModes \subseteq {"auto", "dmg", "cgb"}

NoCartridge == "none"
Cartridges == {"dmg", "cgb", "both"}   \* cgb_support: cgb is CGB_ONLY

VARIABLES
    todo,            \* the steps left of the call being executed
    requested_mode,  \* of the emulator
    cartridge,       \* the loaded cartridge
    cartInitialized, \* cartridge.initialized: a load has been tried
    saveOpen,        \* save_ram_initialized
    memoryMode,      \* emulator->memory_mode
    devices,         \* memory->io_devices
    controllers,     \* the callbacks memory holds
    built,           \* the parts whose `initialized` is set
    apuCallback,     \* the timer calls the audio unit
    audioTimer,      \* audio->timer
    cgbLinks,        \* the parts the CGB unit points to
    refused          \* why the last load failed, if it did

wiring == <<devices, controllers, apuCallback, audioTimer, cgbLinks>>
hardware == <<memoryMode, built, wiring>>
media == <<cartridge, cartInitialized, saveOpen>>
lifeVars == <<todo, requested_mode, media, hardware, refused>>

-----------------------------------------------------------------------------
Device(part, first, last) == [owner |-> part, first |-> first, last |-> last]
FreeSlot == Device("none", 0, 0)
EmptyTable == [i \in 1 .. MaxDevices |-> FreeSlot]

\* The registers each part maps, as offsets from FF00.
Ranges(part) ==
    CASE part = "ppu" -> << <<64, 69>>, <<71, 75>>, <<104, 108>> >>
      [] part = "timer" -> << <<4, 7>> >>
      [] part = "input" -> << <<0, 0>> >>
      [] part = "dma" -> << <<70, 70>> >>
      [] part = "audio" /\ memoryMode = "dmg" -> << <<16, 38>>, <<48, 63>> >>
      [] part = "audio" /\ memoryMode = "cgb" -> << <<16, 38>>, <<48, 63>>, <<118, 119>> >>
      [] part = "cgb" -> << <<77, 77>>, <<81, 85>>, <<86, 86>> >>
      [] OTHER -> <<>>

ControllerOf(part) ==
    CASE part = "interrupt" -> {"interrupt"}
      [] part = "ppu" -> {"video"}
      [] part = "dma" -> {"dma"}
      [] OTHER -> {}

Taken(d, range) == d # FreeSlot /\ ~(range[2] < d.first \/ range[1] > d.last)

CanMap(table, range) ==
    /\ \A i \in DOMAIN table : ~Taken(table[i], range)
    /\ \E i \in DOMAIN table : table[i] = FreeSlot

FirstFree(table) ==
    CHOOSE i \in DOMAIN table : table[i] = FreeSlot /\ \A j \in 1 .. i - 1 : table[j] # FreeSlot

NoTable == <<>>

\* gb_memory_map_io_device, for the k-th range of a part if it has one.
MapRange(table, part, k) ==
    LET range == Ranges(part)[k] IN
    IF k > Len(Ranges(part)) THEN table
    ELSE IF table # NoTable /\ CanMap(table, range)
    THEN [table EXCEPT ![FirstFree(table)] = Device(part, range[1], range[2])]
    ELSE NoTable

\* All ranges of a part, which are three at most, or none.
Mapped(table, part) == MapRange(MapRange(MapRange(table, part, 1), part, 2), part, 3)

Unmapped(table, part) ==
    [i \in DOMAIN table |-> IF table[i].owner = part THEN FreeSlot ELSE table[i]]

-----------------------------------------------------------------------------
NewEmulator ==
    /\ cartridge = NoCartridge /\ cartInitialized = FALSE /\ saveOpen = TRUE
    /\ memoryMode = "dmg" /\ built = {}
    /\ devices = EmptyTable /\ controllers = {}
    /\ apuCallback = FALSE /\ audioTimer = FALSE /\ cgbLinks = {}
    /\ refused = "nothing"

LifeInit == requested_mode \in RequestedModes /\ todo = <<>> /\ NewEmulator

Idling == todo = <<>>

Step(verb, part) == <<verb, part>>
Doing(verb) == todo # <<>> /\ Head(todo)[1] = verb
Subject == Head(todo)[2]
Proceed == todo' = Tail(todo) /\ UNCHANGED refused
Abandon(steps, why) == todo' = steps /\ refused' = why

Drops == << Step("drop", "cgb"), Step("drop", "audio"), Step("drop", "dma"), Step("drop", "input"),
            Step("drop", "timer"), Step("drop", "ppu"), Step("drop", "interrupt") >>

Builds ==
    << Step("build", "memory"), Step("build", "interrupt"), Step("build", "ppu"),
       Step("build", "timer"), Step("build", "input"), Step("build", "dma"),
       Step("build", "audio") >>

\* What a failed initialisation cleans up.
CleanUp == Drops \o << Step("close", "save"), Step("unload", "cartridge"), Step("clear", "memory") >>

Loading ==
    << Step("insert", "cartridge"), Step("attach", "save"), Step("choose", "mode") >>

\* Mutant: the hardware goes before the save RAM of the old game is flushed.
ReplacingHardwareFirst ==
    Drops \o << Step("flush", "save"), Step("unload", "cartridge"), Step("clear", "all") >>

Replacing ==
    << Step("flush", "save") >> \o Drops
    \o << Step("unload", "cartridge"), Step("clear", "all") >>

LoadCall ==
    /\ Idling
    /\ todo' = (IF cartInitialized THEN Replacing ELSE <<>>) \o Loading
    /\ refused' = "nothing"
    /\ UNCHANGED <<requested_mode, media, hardware>>

\* gb_save_ram_destroy: when the flush fails the load is refused and the old
\* game stays, without its save.
FlushSave ==
    /\ Doing("flush")
    /\ saveOpen' = FALSE
    /\ \/ Proceed
       \/ saveOpen /\ cartridge # NoCartridge /\ Abandon(<<>>, "flush")
    /\ UNCHANGED <<requested_mode, cartridge, cartInitialized, hardware>>

CloseSave ==
    /\ Doing("close")
    /\ saveOpen' = FALSE /\ Proceed
    /\ UNCHANGED <<requested_mode, cartridge, cartInitialized, hardware>>

DropPart ==
    /\ Doing("drop") /\ Subject \notin {"interrupt", "audio"}
    /\ IF Subject \in built
       THEN /\ devices' = Unmapped(devices, Subject)
            /\ controllers' = controllers \ ControllerOf(Subject)
            /\ built' = built \ {Subject}
            /\ apuCallback' = (apuCallback /\ Subject # "timer")
            /\ cgbLinks' = IF Subject = "cgb" THEN {} ELSE cgbLinks
       ELSE UNCHANGED <<devices, controllers, built, apuCallback, cgbLinks>>
    /\ Proceed
    /\ UNCHANGED <<requested_mode, media, memoryMode, audioTimer>>

\* The audio unit detaches from the timer it knows. Its reset has cleared
\* `mapped`, so its devices stay in the table.
DropAudio ==
    /\ Doing("drop") /\ Subject = "audio"
    /\ IF "audio" \in built
       THEN /\ apuCallback' = (apuCallback /\ ~audioTimer)
            /\ audioTimer' = FALSE /\ built' = built \ {"audio"}
       ELSE UNCHANGED <<apuCallback, audioTimer, built>>
    /\ Proceed
    /\ UNCHANGED <<requested_mode, media, memoryMode, devices, controllers, cgbLinks>>

\* The interrupt controller is disconnected and reset, and stays initialised.
DropInterrupt ==
    /\ Doing("drop") /\ Subject = "interrupt"
    /\ controllers' = IF "interrupt" \in built THEN controllers \ {"interrupt"} ELSE controllers
    /\ Proceed
    /\ UNCHANGED <<requested_mode, media, memoryMode, built, devices, apuCallback, audioTimer,
                   cgbLinks>>

UnloadCartridge ==
    /\ Doing("unload")
    /\ cartridge' = NoCartridge /\ Proceed
    /\ UNCHANGED <<requested_mode, cartInitialized, saveOpen, hardware>>

ClearMemory ==
    /\ Doing("clear")
    /\ devices' = EmptyTable /\ controllers' = {}
    /\ IF Subject = "all"
       THEN built' = {} /\ apuCallback' = FALSE /\ audioTimer' = FALSE /\ cgbLinks' = {}
       ELSE UNCHANGED <<built, apuCallback, audioTimer, cgbLinks>>
    /\ Proceed
    /\ UNCHANGED <<requested_mode, media, memoryMode>>

InsertCartridge ==
    /\ Doing("insert")
    /\ cartInitialized' = TRUE
    /\ \/ cartridge' \in Cartridges /\ Proceed
       \/ cartridge' = NoCartridge /\ Abandon(<<>>, "file")
    /\ UNCHANGED <<requested_mode, saveOpen, hardware>>

AttachSave ==
    /\ Doing("attach")
    /\ \/ saveOpen' = TRUE /\ Proceed /\ UNCHANGED cartridge
       \/ saveOpen' = FALSE /\ cartridge' = NoCartridge /\ Abandon(<<>>, "save")
    /\ UNCHANGED <<requested_mode, cartInitialized, hardware>>

UseCgb == requested_mode = "cgb" \/ (requested_mode = "auto" /\ cartridge # "dmg")

ChooseMode ==
    /\ Doing("choose")
    /\ IF requested_mode = "dmg" /\ cartridge = "cgb"
       THEN Abandon(CleanUp, "unsupported") /\ UNCHANGED memoryMode
       ELSE /\ memoryMode' = IF UseCgb THEN "cgb" ELSE "dmg"
            /\ todo' = Builds \o (IF UseCgb THEN << Step("build", "cgb") >> ELSE <<>>)
                              \o << Step("start", "cpu") >>
            /\ UNCHANGED refused
    /\ UNCHANGED <<requested_mode, media, built, wiring>>

\* gb_memory_init, and the cartridge bus.
BuildMemory ==
    /\ Doing("build") /\ Subject = "memory"
    /\ devices' = EmptyTable /\ controllers' = {"cartridge"}
    /\ Proceed
    /\ UNCHANGED <<requested_mode, media, memoryMode, built, apuCallback, audioTimer, cgbLinks>>

\* A part that cannot map its registers undoes what it mapped, and the load ends.
BuildPart ==
    /\ Doing("build") /\ Subject # "memory"
    /\ LET table == Mapped(devices, Subject) IN
       IF table = NoTable
       THEN Abandon(CleanUp, "devices") /\ UNCHANGED <<built, wiring>>
       ELSE /\ devices' = table
            /\ controllers' = controllers \union ControllerOf(Subject)
            /\ built' = built \union {Subject}
            /\ apuCallback' = (apuCallback \/ Subject = "audio")
            /\ audioTimer' = (audioTimer \/ Subject = "audio")
            /\ cgbLinks' = IF Subject = "cgb" THEN {"timer", "dma", "ppu"} ELSE cgbLinks
            /\ Proceed
    /\ UNCHANGED <<requested_mode, media, memoryMode>>

StartCpu ==
    /\ Doing("start")
    /\ built' = built \union {"cpu"}
    /\ cgbLinks' = IF "cgb" \in built THEN cgbLinks \union {"cpu"} ELSE cgbLinks
    /\ Proceed
    /\ UNCHANGED <<requested_mode, media, memoryMode, devices, controllers, apuCallback, audioTimer>>

\* gb_emulator_reset keeps all connections but one: gb_audio_reset forgets the
\* timer, which goes on calling it.
ResetCall ==
    /\ Idling /\ cartridge # NoCartridge
    /\ audioTimer' = FALSE
    /\ UNCHANGED <<todo, requested_mode, media, memoryMode, built, devices, controllers,
                   apuCallback, cgbLinks, refused>>

DestroyCall ==
    /\ Idling
    /\ todo' = (IF cartInitialized
                THEN Drops \o << Step("close", "save"), Step("unload", "cartridge") >>
                ELSE << Step("close", "save") >>) \o << Step("erase", "emulator") >>
    /\ UNCHANGED <<requested_mode, media, hardware, refused>>

\* The emulator is zeroed; a later gb_emulator_init configures a new one.
Erase ==
    /\ Doing("erase")
    /\ requested_mode' \in RequestedModes /\ todo' = <<>>
    /\ cartridge' = NoCartridge /\ cartInitialized' = FALSE /\ saveOpen' = TRUE
    /\ memoryMode' = "dmg" /\ built' = {}
    /\ devices' = EmptyTable /\ controllers' = {}
    /\ apuCallback' = FALSE /\ audioTimer' = FALSE /\ cgbLinks' = {}
    /\ refused' = "nothing"

LifeNext ==
    \/ LoadCall \/ FlushSave \/ CloseSave \/ DropPart \/ DropAudio \/ DropInterrupt
    \/ UnloadCartridge \/ ClearMemory \/ InsertCartridge \/ AttachSave \/ ChooseMode
    \/ BuildMemory \/ BuildPart \/ StartCpu \/ ResetCall \/ DestroyCall \/ Erase

LifeSpec == LifeInit /\ [][LifeNext]_lifeVars

-----------------------------------------------------------------------------
Parts == {"interrupt", "ppu", "timer", "input", "dma", "audio", "cgb", "cpu"}

LifeTypeOK ==
    /\ Len(todo) <= 16
    /\ requested_mode \in RequestedModes
    /\ cartridge \in Cartridges \union {NoCartridge}
    /\ memoryMode \in {"dmg", "cgb"}
    /\ DOMAIN devices = 1 .. MaxDevices
    /\ built \subseteq Parts /\ cgbLinks \subseteq Parts
    /\ controllers \subseteq {"cartridge", "interrupt", "video", "dma"}

\* The order of the table is the order in which a machine cycle ticks the
\* parts; a machine in DMG mode has the first eight devices only.
TickOrder == <<"ppu", "ppu", "ppu", "timer", "input", "dma", "audio", "audio",
               "audio", "cgb", "cgb", "cgb">>

IsWhole ==
    LET cgb == memoryMode = "cgb" IN
    /\ built = IF cgb THEN Parts ELSE Parts \ {"cgb"}
    /\ \A i \in DOMAIN devices :
          devices[i].owner = IF i <= (IF cgb THEN 12 ELSE 8) THEN TickOrder[i] ELSE "none"
    /\ controllers = {"cartridge", "interrupt", "video", "dma"}
    /\ apuCallback
    /\ cgbLinks = IF cgb THEN {"timer", "dma", "ppu", "cpu"} ELSE {}

(* A load fails only for its file, its save or its mode: the parts of either *)
(* mode, with those an earlier game or a failed load left, never overlap in  *)
(* the device table nor run out of its slots.                                *)
GoodRomLoads == refused # "devices"

(* A loaded game has a whole machine: after any sequence of loads, failed    *)
(* loads, resets and restarts, a loaded cartridge has every part of its mode *)
(* built and connected, in the order the DMA units rely on, and without one  *)
(* nothing is mapped or called. A call that fails half-way leaves neither a  *)
(* game on a machine without parts nor a callback into a part that is gone,  *)
(* and no call fails for want of room in the device table.                   *)
LoadedIsWhole ==
    /\ GoodRomLoads
    /\ Idling => IF cartridge = NoCartridge
                 THEN devices = EmptyTable /\ controllers = {} /\ ~apuCallback
                 ELSE IsWhole
=============================================================================
