------------------------------- MODULE Joypad -------------------------------
(* The joypad port FF00 (gb_input.c), the SDL adapter that feeds it from a   *)
(* keyboard and a gamepad (gb_input_sdl3.c), and the event loop and menu of  *)
(* the host that decide which events reach the adapter (gb_sdl3.c). The      *)
(* world presses keys, plugs pads and drops ROMs at any time; SDL queues     *)
(* what happened and the host handles it in polls, between which the game    *)
(* runs. The pad is one at a time, under a new number each time it is        *)
(* plugged in; auto-repeated keys, which every path ignores, are left out.   *)
EXTENDS Integers, FiniteSets, Sequences, SequencesExt

CONSTANTS
    Columns,            \* lines of the matrix: bits 0 to 3 of FF00
    Keys,               \* "escape", "return", "up", "down" steer the menu
    ButtonOrder,        \* the buttons, as the keybind menu lists them
    DefaultBindings,    \* [Buttons -> Keys]
    PadButtons,         \* buttons the player uses on the pad
    MaxPads, MaxEvents  \* bounds of the model: pads ever plugged in, queue

Rows == {"action", "dpad"}
Buttons == Rows \X Columns
NoPad == 0
ButtonCount == Len(ButtonOrder)

ASSUME JoypadAssumption ==
    /\ IsFiniteSet(Keys)
    /\ ButtonOrder \in Seq(Buttons) /\ ButtonOrder # <<>>
    /\ DefaultBindings \in [Buttons -> Keys] /\ PadButtons \subseteq Buttons
    /\ MaxPads \in Nat /\ MaxEvents \in Nat

VARIABLES
    select,             \* rows the game selected
    pressed,            \* gb_input's mask of pressed buttons
    lastLines,          \* columns that were low when last evaluated
    requested,          \* the last step requested the joypad interrupt
    keyboard, gamepad,  \* the adapter's two masks
    pad,                \* the pad the adapter opened
    bindings,
    menu, menuSelection, keybindSelection, waiting,
    loaded,             \* a cartridge is loaded, and the adapter initialised
    running, phase,     \* the host: not ended, and where its loop is
    held, plugged, lastPad, padHeld,    \* the world: keys, pad, its buttons
    events              \* SDL's queue

port == <<select, pressed, lastLines>>
adapter == <<keyboard, gamepad, pad, bindings>>
menuVars == <<menu, menuSelection, keybindSelection, waiting>>
host == <<loaded, running, phase>>
world == <<held, plugged, lastPad, padHeld>>
joypadVars == <<port, requested, adapter, menuVars, host, world, events>>

-----------------------------------------------------------------------------
(* The port.                                                                 *)

\* Columns pulled low: a selected row has a pressed button on them.
Lines(rows, buttons) == {c \in Columns : \E r \in rows : <<r, c>> \in buttons}

Refresh(rows, buttons) ==
    /\ lastLines' = Lines(rows, buttons)
    /\ requested' = (Lines(rows, buttons) \ lastLines # {})

SetPressed(buttons) ==
    /\ pressed' = buttons
    /\ Refresh(select, buttons)
    /\ UNCHANGED select

\* Mutant: selecting a row makes no edge.
SelectRowsNoEdge(rows) ==
    /\ loaded /\ running /\ phase = "game"
    /\ select' = rows /\ requested' = FALSE
    /\ UNCHANGED <<pressed, lastLines, adapter, menuVars, loaded, running, phase, world, events>>

\* A write to FF00 by the game.
SelectRows(rows) ==
    /\ loaded /\ running /\ phase = "game"
    /\ select' = rows
    /\ Refresh(rows, pressed)
    /\ UNCHANGED <<pressed, adapter, menuVars, loaded, running, phase, world, events>>

-----------------------------------------------------------------------------
(* The adapter. Each operation ends in apply_aggregate.                      *)

Aggregate(k, g) ==
    /\ keyboard' = k /\ gamepad' = g
    /\ SetPressed(k \union g)

BoundTo(keys) == {b \in Buttons : bindings[b] \in keys}

ResetAdapter == Aggregate({}, {}) /\ UNCHANGED <<pad, bindings>>

AdapterEvent(e) ==
    \/ /\ e.type = "key_down"
       /\ Aggregate(keyboard \union BoundTo({e.of}), gamepad)
       /\ UNCHANGED <<pad, bindings>>
    \/ /\ e.type = "key_up"
       /\ Aggregate(keyboard \ BoundTo({e.of}), gamepad)
       /\ UNCHANGED <<pad, bindings>>
    \/ /\ e.type = "pad_added" /\ pad = NoPad
       /\ plugged = e.of    \* SDL_OpenGamepad finds it
       /\ pad' = e.of
       /\ Aggregate(keyboard, padHeld)
       /\ UNCHANGED bindings
    \/ /\ e.type = "pad_removed" /\ pad = e.of
       /\ pad' = NoPad
       /\ Aggregate(keyboard, {})
       /\ UNCHANGED bindings
    \/ /\ e.type \in {"pad_down", "pad_up"} /\ pad = e.of
       /\ Aggregate(keyboard, IF e.type = "pad_down"
                                 THEN gamepad \union {e.button}
                                 ELSE gamepad \ {e.button})
       /\ UNCHANGED <<pad, bindings>>
    \/ e.type = "focus_lost" /\ ResetAdapter

\* Events of another pad than the open one.
Ignored(e) ==
    \/ e.type = "pad_added" /\ pad # NoPad
    \/ e.type \in {"pad_removed", "pad_down", "pad_up"} /\ pad # e.of

\* A pad that is gone again cannot be opened, which ends the program.
OpenFails(e) == e.type = "pad_added" /\ pad = NoPad /\ plugged # e.of

-----------------------------------------------------------------------------
(* The menu.                                                                 *)

SetPaused(m) ==
    /\ menu' = m
    /\ menuSelection' = 0 /\ keybindSelection' = 0 /\ waiting' = FALSE
    /\ ResetAdapter

Show(m) == menu' = m /\ UNCHANGED <<port, adapter>> /\ requested' = FALSE

\* Mutant: a selection leaves the menu.
TurnUnwrapped(selection, key, count) == selection + (IF key = "up" THEN count - 1 ELSE 1)

Turn(selection, key, count) ==
    (selection + (IF key = "up" THEN count - 1 ELSE 1)) % count

\* A key in the pause menu, whose items are resume, keybinds, settings, exit.
PauseMenu(k) ==
    \/ k = "escape" /\ SetPaused("gameplay")
    \/ /\ k \in {"up", "down"}
       /\ menuSelection' = Turn(menuSelection, k, 4)
       /\ Show("pause") /\ UNCHANGED <<keybindSelection, waiting>>
    \/ k = "return" /\ menuSelection = 0 /\ SetPaused("gameplay")
    \/ /\ k = "return" /\ menuSelection = 1
       /\ keybindSelection' = 0
       /\ Show("keybinds") /\ UNCHANGED <<menuSelection, waiting>>
    \/ /\ k = "return" /\ menuSelection = 2
       /\ menuSelection' = 0
       /\ Show("settings") /\ UNCHANGED <<keybindSelection, waiting>>

Exits(k) == menu = "pause" /\ k = "return" /\ menuSelection = 3

KeybindsMenu(k) ==
    \/ /\ k = "escape"
       /\ keybindSelection' = 0
       /\ Show("pause") /\ UNCHANGED <<menuSelection, waiting>>
    \/ /\ k \in {"up", "down"}
       /\ keybindSelection' = Turn(keybindSelection, k, ButtonCount)
       /\ Show("keybinds") /\ UNCHANGED <<menuSelection, waiting>>
    \/ /\ k = "return"
       /\ waiting' = TRUE
       /\ Show("keybinds") /\ UNCHANGED <<menuSelection, keybindSelection>>

SettingsMenu(k) ==
    \/ /\ k = "escape" \/ (k = "return" /\ menuSelection = 2)
       /\ menuSelection' = 0
       /\ Show("pause") /\ UNCHANGED <<keybindSelection, waiting>>
    \/ /\ k \in {"up", "down"}
       /\ menuSelection' = Turn(menuSelection, k, 3)
       /\ Show("settings") /\ UNCHANGED <<keybindSelection, waiting>>

\* Escape leaves the key as it was; any other key is bound, without a check
\* that the adapter still exists (BindFails).
Rebind(k) ==
    /\ waiting' = FALSE
    /\ bindings' = IF k = "escape" THEN bindings
                   ELSE [bindings EXCEPT ![ButtonOrder[keybindSelection + 1]] = k]
    /\ requested' = FALSE
    /\ UNCHANGED <<port, keyboard, gamepad, pad, menu, menuSelection, keybindSelection>>

\* Keys of no use here, and the items for sound and window scale.
Idle(k) ==
    /\ menu # "gameplay" /\ ~waiting
    /\ \/ k \notin {"escape", "return", "up", "down"}
       \/ menu = "settings" /\ k = "return" /\ menuSelection # 2

BindFails(k) == waiting /\ k # "escape" /\ ~loaded

\* handle_menu_event: the keys it takes from the game.
MenuTakes(e) == e.type = "key_down" /\ (menu # "gameplay" \/ (e.of = "escape" /\ loaded))

MenuKey(k) ==
    \/ menu = "gameplay" /\ SetPaused("pause")
    \/ waiting /\ Rebind(k)
    \/ menu = "pause" /\ PauseMenu(k)
    \/ menu = "keybinds" /\ ~waiting /\ KeybindsMenu(k)
    \/ menu = "settings" /\ SettingsMenu(k)
    \/ Idle(k) /\ Show(menu) /\ UNCHANGED <<menuSelection, keybindSelection, waiting>>

-----------------------------------------------------------------------------
(* Dropped ROMs: what is left of gb_emulator_load_rom is whether the game    *)
(* was replaced, was kept, or was unloaded and nothing loaded in its place.  *)

\* prepare_loaded_rom_input: a new adapter opens the first pad there is and
\* reads it; an old one is reset and keeps its bindings and its pad.
DropGood ==
    LET g == IF loaded THEN {} ELSE padHeld
    IN  /\ loaded' = TRUE
        /\ select' = Rows
        /\ pressed' = g /\ lastLines' = Lines(Rows, g)
        /\ requested' = (Lines(Rows, g) # {})
        /\ keyboard' = {} /\ gamepad' = g
        /\ IF loaded THEN UNCHANGED <<pad, bindings>>
                     ELSE pad' = plugged /\ bindings' = DefaultBindings
        /\ menu' = "gameplay"
        /\ menuSelection' = 0 /\ keybindSelection' = 0 /\ waiting' = FALSE

\* The game is gone and with it the adapter; the menu stays as it was.
DropBad ==
    /\ loaded' = FALSE
    /\ select' = Rows /\ pressed' = {} /\ lastLines' = {}
    /\ requested' = FALSE
    /\ keyboard' = {} /\ gamepad' = {} /\ pad' = NoPad
    /\ bindings' = DefaultBindings
    /\ UNCHANGED menuVars

Quiet == requested' = FALSE /\ UNCHANGED <<port, adapter, menuVars, loaded>>

-----------------------------------------------------------------------------
(* gb_sdl3_process_events.                                                   *)

StartPoll ==
    /\ running /\ phase = "game" /\ phase' = "polling"
    /\ Quiet /\ UNCHANGED <<running, world, events>>

ToMenu(e) == MenuTakes(e) /\ ~BindFails(e.of) /\ ~Exits(e.of) /\ MenuKey(e.of)
             /\ UNCHANGED loaded

ToAdapter(e) == ~MenuTakes(e) /\ menu = "gameplay" /\ loaded /\ AdapterEvent(e)
                /\ UNCHANGED <<menuVars, loaded>>

Skipped(e) ==
    /\ e.type \notin {"drop_good", "drop_bad"} /\ ~MenuTakes(e)
    /\ menu # "gameplay" \/ ~loaded \/ Ignored(e)
    /\ Quiet

HandleEvent ==
    /\ running /\ phase = "polling" /\ events # <<>>
    /\ LET e == Head(events) IN
          \/ e.type = "drop_good" /\ DropGood
          \/ e.type = "drop_bad" /\ DropBad
          \/ ToMenu(e)
          \/ ToAdapter(e)
          \/ Skipped(e)
    /\ events' = Tail(events)
    /\ UNCHANGED <<running, phase, world>>

\* Exit in the menu, or an error that gb_sdl3_run returns.
EndProgram ==
    /\ running /\ phase = "polling" /\ events # <<>>
    /\ LET e == Head(events) IN
          \/ MenuTakes(e) /\ (BindFails(e.of) \/ (~waiting /\ Exits(e.of)))
          \/ menu = "gameplay" /\ loaded /\ OpenFails(e)
    /\ running' = FALSE
    /\ events' = Tail(events)
    /\ Quiet /\ UNCHANGED <<phase, world>>

PollEmpty ==
    /\ running /\ phase = "polling" /\ events = <<>>
    /\ phase' = "syncing"
    /\ Quiet /\ UNCHANGED <<running, world, events>>

\* Mutant: the keyboard is not read after the events.
SyncKeyboardUnread ==
    /\ running /\ phase = "syncing" /\ phase' = "game"
    /\ Quiet /\ UNCHANGED <<running, world, events>>

\* gb_input_sdl3_sync_keyboard takes the keys as they are, which may be ahead
\* of the events that reached the queue since it was empty.
SyncKeyboard ==
    /\ running /\ phase = "syncing" /\ phase' = "game"
    /\ IF menu = "gameplay" /\ loaded
          THEN Aggregate(BoundTo(held), gamepad) /\ UNCHANGED <<pad, bindings, menuVars, loaded>>
          ELSE Quiet
    /\ UNCHANGED <<running, world, events>>

-----------------------------------------------------------------------------
(* The world, as SDL reports it.                                             *)

Reports(new) ==
    /\ running
    /\ Len(events) + Len(new) <= MaxEvents
    /\ events' = events \o new
    /\ Quiet /\ UNCHANGED <<running, phase>>

KeyEvent(type, k) == [type |-> type, of |-> k]

PressKey(k) ==
    /\ k \notin held /\ held' = held \union {k}
    /\ Reports(<<KeyEvent("key_down", k)>>) /\ UNCHANGED <<plugged, lastPad, padHeld>>

ReleaseKey(k) ==
    /\ k \in held /\ held' = held \ {k}
    /\ Reports(<<KeyEvent("key_up", k)>>) /\ UNCHANGED <<plugged, lastPad, padHeld>>

\* SDL releases every key when the window loses the focus.
LoseFocus ==
    /\ held' = {}
    /\ Reports(SetToSeq({KeyEvent("key_up", k) : k \in held}) \o <<[type |-> "focus_lost"]>>)
    /\ UNCHANGED <<plugged, lastPad, padHeld>>

PlugPad ==
    /\ plugged = NoPad /\ lastPad < MaxPads
    /\ plugged' = lastPad + 1 /\ lastPad' = lastPad + 1
    /\ Reports(<<[type |-> "pad_added", of |-> lastPad + 1]>>) /\ UNCHANGED <<held, padHeld>>

UnplugPad ==
    /\ plugged # NoPad
    /\ plugged' = NoPad /\ padHeld' = {}
    /\ Reports(<<[type |-> "pad_removed", of |-> plugged]>>) /\ UNCHANGED <<held, lastPad>>

PadButton(b) ==
    /\ plugged # NoPad
    /\ padHeld' = IF b \in padHeld THEN padHeld \ {b} ELSE padHeld \union {b}
    /\ Reports(<<[type |-> IF b \in padHeld THEN "pad_up" ELSE "pad_down",
                  of |-> plugged, button |-> b]>>)
    /\ UNCHANGED <<held, plugged, lastPad>>

DropRom(type) == Reports(<<[type |-> type]>>) /\ UNCHANGED world

-----------------------------------------------------------------------------

\* gb_sdl3_init with a cartridge loaded from the command line.
JoypadInit ==
    /\ select = Rows /\ pressed = {} /\ lastLines = {} /\ requested = FALSE
    /\ keyboard = {} /\ gamepad = {} /\ pad = NoPad /\ bindings = DefaultBindings
    /\ menu = "gameplay" /\ menuSelection = 0 /\ keybindSelection = 0 /\ waiting = FALSE
    /\ loaded = TRUE /\ running = TRUE /\ phase = "game"
    /\ held = {} /\ plugged = NoPad /\ lastPad = 0 /\ padHeld = {}
    /\ events = <<>>

\* The player starts the program again, with nothing held.
Relaunch ==
    /\ ~running
    /\ running' = TRUE /\ loaded' = TRUE /\ phase' = "game"
    /\ select' = Rows /\ pressed' = {} /\ lastLines' = {} /\ requested' = FALSE
    /\ keyboard' = {} /\ gamepad' = {} /\ pad' = NoPad /\ bindings' = DefaultBindings
    /\ menu' = "gameplay" /\ menuSelection' = 0 /\ keybindSelection' = 0 /\ waiting' = FALSE
    /\ held' = {} /\ plugged' = NoPad /\ lastPad' = 0 /\ padHeld' = {}
    /\ events' = <<>>

World ==
    \/ \E k \in Keys : PressKey(k) \/ ReleaseKey(k)
    \/ LoseFocus
    \/ PlugPad \/ UnplugPad
    \/ \E b \in PadButtons : PadButton(b)
    \/ \E type \in {"drop_good", "drop_bad"} : DropRom(type)

Poll == StartPoll \/ HandleEvent \/ EndProgram \/ PollEmpty \/ SyncKeyboard

JoypadNext ==
    \/ \E rows \in SUBSET Rows : SelectRows(rows)
    \/ Poll
    \/ World
    \/ Relaunch

JoypadSpec == JoypadInit /\ [][JoypadNext]_joypadVars

-----------------------------------------------------------------------------
(* Properties.                                                               *)

(* The registers and masks hold buttons, lines and keys that exist, and the  *)
(* two menu selections stay on the items of the menus (gb_sdl3.c:250-381).   *)
JoypadTypeOK ==
    /\ select \subseteq Rows /\ pressed \subseteq Buttons /\ lastLines \subseteq Columns
    /\ requested \in BOOLEAN
    /\ keyboard \subseteq Buttons /\ gamepad \subseteq Buttons
    /\ pad \in 0..MaxPads /\ bindings \in [Buttons -> Keys]
    /\ menu \in {"gameplay", "pause", "keybinds", "settings"}
    /\ menuSelection \in 0..3 /\ keybindSelection \in 0..(ButtonCount - 1)
    /\ waiting \in BOOLEAN /\ loaded \in BOOLEAN /\ running \in BOOLEAN
    /\ phase \in {"game", "polling", "syncing"}
    /\ held \subseteq Keys /\ padHeld \subseteq PadButtons
    /\ plugged \in {NoPad, lastPad} /\ lastPad \in 0..MaxPads
    /\ Len(events) <= MaxEvents

(* The joypad interrupt is requested when a line the game reads in FF00 goes *)
(* low and at no other time, whoever moved it: a button, the other row, the  *)
(* menu, a focus loss or a new ROM (refresh_lines_and_interrupt compares     *)
(* with a remembered value that every one of them has to keep).              *)
RequestsAreFalls ==
    [][requested' = (Lines(select', pressed') \ Lines(select, pressed) # {})]_joypadVars

(* When every event has been served, the game sees each bound key as the     *)
(* keyboard has it and no pad button that is not held, and behind a menu it  *)
(* sees none: pauses, lost focus, skipped events, pads that come and go and  *)
(* rebinding leave no stuck button and no dead key.                          *)
InputsAreSeen ==
    (phase = "game" /\ events = <<>> /\ running) =>
        IF loaded /\ menu = "gameplay"
           THEN BoundTo(held) \subseteq pressed /\ pressed \subseteq BoundTo(held) \union padHeld
           ELSE pressed = {}
=============================================================================
