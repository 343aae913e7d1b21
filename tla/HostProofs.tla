---------------------------- MODULE HostProofs ------------------------------
(* The joypad: its interrupt is requested at falls of its lines only, and    *)
(* when all events are served the game sees what is held, for any matrix of  *)
(* buttons, any keys and bindings, any number of pads and any queue. And the *)
(* life of the hardware: a loaded game has a whole machine, whatever calls   *)
(* came before and wherever they failed, for any table with room for the     *)
(* devices of one machine.                                                   *)
EXTENDS MCHost, FiniteSetTheorems, SequenceTheorems, TLAPS

-----------------------------------------------------------------------------
(* The port.                                                                 *)

(* What was last evaluated is what the lines are, the port shows the two     *)
(* masks of the adapter, and both are empty in menus and without a game.     *)
PortInv ==
    /\ lastLines = Lines(select, pressed)
    /\ pressed = keyboard \union gamepad
    /\ menu # "gameplay" \/ ~loaded => keyboard = {} /\ gamepad = {}

\* The three ways a step may treat port and adapter.
Rests == requested' = FALSE /\ UNCHANGED <<select, pressed, lastLines, keyboard, gamepad>>
Clears == Aggregate({}, {})
Feeds == loaded /\ loaded' /\ menu = "gameplay" /\ menu' = "gameplay" /\ \E k, g : Aggregate(k, g)

LEMMA NoLines == \A rows : Lines(rows, {}) = {}
BY DEF Lines

\* A key in the menu either closes or opens it, or leaves the port alone.
LEMMA MenuKeyKinds ==
    ASSUME NEW k, MenuKey(k)
    PROVE  Clears \/ (Rests /\ (menu' = "gameplay" => menu = "gameplay")
                            /\ (menu = "gameplay" => menu' = "gameplay"))
<1>1. CASE menu = "gameplay" /\ SetPaused("pause")
    BY <1>1 DEF SetPaused, ResetAdapter, Clears
<1>2. CASE waiting /\ Rebind(k)
    BY <1>2 DEF Rebind, Rests, port
<1>3. CASE menu = "pause" /\ PauseMenu(k)
    BY <1>3 DEF PauseMenu, SetPaused, ResetAdapter, Clears, Show, Rests, port, adapter
<1>4. CASE menu = "keybinds" /\ ~waiting /\ KeybindsMenu(k)
    BY <1>4 DEF KeybindsMenu, Show, Rests, port, adapter
<1>5. CASE menu = "settings" /\ SettingsMenu(k)
    BY <1>5 DEF SettingsMenu, Show, Rests, port, adapter
<1>6. CASE Idle(k) /\ Show(menu) /\ UNCHANGED <<menuSelection, keybindSelection, waiting>>
    BY <1>6 DEF Show, Rests, port, adapter
<1> QED BY <1>1, <1>2, <1>3, <1>4, <1>5, <1>6 DEF MenuKey

LEMMA AdapterEventFeeds ==
    ASSUME NEW e, AdapterEvent(e)
    PROVE  \E k, g : Aggregate(k, g)
BY DEF AdapterEvent, ResetAdapter

\* What a step does to the port, and that it keeps what PortInv needs.
LEMMA StepKinds ==
    ASSUME JoypadNext
    PROVE  \/ Rests /\ menu' = menu /\ loaded' = loaded
           \/ Rests /\ loaded' = loaded /\ (menu = "gameplay" <=> menu' = "gameplay")
           \/ Clears /\ loaded' = loaded
           \/ Feeds
           \/ DropGood \/ DropBad \/ Relaunch
           \/ \E rows : SelectRows(rows)
<1>1. CASE StartPoll \/ PollEmpty \/ EndProgram
    BY <1>1 DEF StartPoll, PollEmpty, EndProgram, Quiet, Rests, port, adapter, menuVars
<1>2. CASE SyncKeyboard
    BY <1>2 DEF SyncKeyboard, Quiet, Rests, Feeds, port, adapter, menuVars
<1>3. CASE HandleEvent
    <2> DEFINE e == Head(events)
    <2>1. CASE ToMenu(e)
        BY <2>1, MenuKeyKinds DEF ToMenu
    <2>2. CASE ToAdapter(e)
        BY <2>2, AdapterEventFeeds DEF ToAdapter, Feeds, menuVars
    <2>3. CASE Skipped(e)
        BY <2>3 DEF Skipped, Quiet, Rests, port, adapter, menuVars
    <2> QED BY <1>3, <2>1, <2>2, <2>3 DEF HandleEvent
<1>4. CASE World
    <2>1. Quiet
        BY <1>4 DEF World, PressKey, ReleaseKey, LoseFocus, PlugPad, UnplugPad, PadButton,
                    DropRom, Reports
    <2> QED BY <2>1 DEF Quiet, Rests, port, adapter, menuVars
<1> QED BY <1>1, <1>2, <1>3, <1>4 DEF JoypadNext, Poll

LEMMA PortStep ==
    ASSUME PortInv, [JoypadNext]_joypadVars
    PROVE  /\ PortInv'
           /\ JoypadNext => requested' = (Lines(select', pressed') \ Lines(select, pressed) # {})
<1>1. UNCHANGED joypadVars => PortInv'
    <2> SUFFICES ASSUME UNCHANGED joypadVars PROVE PortInv'
        OBVIOUS
    <2>1. UNCHANGED <<select, pressed, lastLines, keyboard, gamepad, menu, loaded>>
        BY DEF joypadVars, port, adapter, menuVars, host
    <2> QED BY <2>1 DEF PortInv, Lines
<1>2. CASE Rests /\ loaded' = loaded /\ (menu = "gameplay" <=> menu' = "gameplay")
    BY <1>2 DEF PortInv, Rests, Lines
<1>3. CASE Clears /\ loaded' = loaded
    BY <1>3 DEF PortInv, Clears, Aggregate, SetPressed, Refresh
<1>4. CASE Feeds
    BY <1>4 DEF PortInv, Feeds, Aggregate, SetPressed, Refresh
<1>5. CASE DropGood
    BY <1>5, NoLines DEF PortInv, DropGood
<1>6. CASE DropBad
    BY <1>6, NoLines DEF PortInv, DropBad
<1>7. CASE Relaunch
    BY <1>7, NoLines DEF PortInv, Relaunch
<1>8. CASE \E rows : SelectRows(rows)
    BY <1>8 DEF PortInv, SelectRows, Refresh, adapter, menuVars
<1> QED BY <1>1, <1>2, <1>3, <1>4, <1>5, <1>6, <1>7, <1>8, StepKinds

LEMMA PortInvariant == JoypadSpec => []PortInv
<1>1. JoypadInit => PortInv
    BY NoLines DEF JoypadInit, PortInv
<1> QED BY <1>1, PortStep, PTL DEF JoypadSpec

(* The joypad interrupt is requested when a line the game reads goes low and *)
(* at no other time, for any buttons, whatever moved the line.               *)
THEOREM RequestsOnlyAtFalls == JoypadSpec => RequestsAreFalls
<1>1. PortInv /\ [JoypadNext]_joypadVars
      => [requested' = (Lines(select', pressed') \ Lines(select, pressed) # {})]_joypadVars
    BY PortStep
<1> QED BY <1>1, PortInvariant, PTL DEF JoypadSpec, RequestsAreFalls

-----------------------------------------------------------------------------
(* The queue.                                                                *)

Event ==
    [type : {"key_down", "key_up"}, of : Keys]
    \union [type : {"pad_added", "pad_removed"}, of : Nat]
    \union [type : {"pad_down", "pad_up"}, of : Nat, button : PadButtons]
    \union [type : {"focus_lost", "drop_good", "drop_bad"}]

(* The state of the world and of the adapter has its types.                  *)
WorldInv ==
    /\ events \in Seq(Event) /\ Len(events) <= MaxEvents
    /\ held \subseteq Keys /\ padHeld \subseteq PadButtons
    /\ lastPad \in 0 .. MaxPads /\ plugged \in {NoPad, lastPad}
    /\ plugged = NoPad => padHeld = {}

LEMMA SetToSeqIsSeq ==
    ASSUME NEW S, IsFiniteSet(S)
    PROVE  SetToSeq(S) \in Seq(S)
<1>1. Cardinality(S) \in Nat /\ ExistsBijection(1 .. Cardinality(S), S)
    BY FS_CardinalityType
<1>2. PICK f \in [1 .. Cardinality(S) -> S] : IsInjective(f)
    BY <1>1 DEF ExistsBijection, Bijection, Injection, IsInjective
<1>3. SetToSeq(S) \in [1 .. Cardinality(S) -> S]
    BY <1>2 DEF SetToSeq
<1> QED BY <1>1, <1>3

\* What LoseFocus queues: keys going up, and the loss itself.
Lost == SetToSeq({KeyEvent("key_up", k) : k \in held}) \o <<[type |-> "focus_lost"]>>

LEMMA LostKeys ==
    ASSUME held \subseteq Keys
    PROVE  /\ Lost \in Seq(Event) /\ Len(Lost) >= 1
           /\ \A i \in 1 .. Len(Lost) : Lost[i].type \in {"key_up", "focus_lost"}
<1> DEFINE S == {KeyEvent("key_up", k) : k \in held}
           ups == SetToSeq(S)
<1>1. IsFiniteSet(S)
    <2>1. IsFiniteSet(held)
        BY JoypadAssumption, FS_Subset
    <2> DEFINE up == [k \in held |-> KeyEvent("key_up", k)]
    <2>2. up \in Surjection(held, S)
        BY DEF Surjection
    <2> QED BY <2>1, <2>2, FS_Surjection
<1>2. ups \in Seq(S)
    BY <1>1, SetToSeqIsSeq
<1>3. \A e \in S : e \in Event /\ e.type = "key_up"
    BY DEF KeyEvent, Event
<1> HIDE DEF S, ups
<1>4. ups \in Seq(Event) /\ \A i \in 1 .. Len(ups) : ups[i].type = "key_up"
    BY <1>2, <1>3
<1>5. [type |-> "focus_lost"] \in Event
    BY DEF Event
<1> DEFINE f == [type |-> "focus_lost"]
<1>6. f.type = "focus_lost" /\ f \in Event
    BY <1>5
<1> HIDE DEF f
<1>7. /\ ups \o <<f>> \in Seq(Event) /\ Len(ups \o <<f>>) = Len(ups) + 1 /\ Len(ups) \in Nat
      /\ \A i \in 1 .. Len(ups) : (ups \o <<f>>)[i] = ups[i]
      /\ (ups \o <<f>>)[Len(ups) + 1] = f
    BY <1>4, <1>6
<1> QED BY <1>4, <1>6, <1>7 DEF Lost, ups, S, f

\* What a report adds to the queue.
LEMMA Appended ==
    ASSUME WorldInv, NEW new \in Seq(Event), Len(new) >= 1, Reports(new)
    PROVE  /\ events' \in Seq(Event) /\ events' # <<>> /\ Len(events') <= MaxEvents
           /\ Len(events') = Len(events) + Len(new) /\ Len(events) \in Nat /\ Len(new) \in Nat
           /\ \A i \in 1 .. Len(events) : events'[i] = events[i]
           /\ \A i \in 1 .. Len(new) : events'[Len(events) + i] = new[i]
           /\ \A i \in 1 .. Len(events') :
                  i \in 1 .. Len(events) \/ (i - Len(events) \in 1 .. Len(new)
                                             /\ events'[i] = new[i - Len(events)])
<1>1. /\ events \in Seq(Event) /\ events' = events \o new
      /\ Len(events) + Len(new) <= MaxEvents
    BY DEF WorldInv, Reports
<1>2. /\ events' \in Seq(Event) /\ Len(events') = Len(events) + Len(new)
      /\ Len(events) \in Nat /\ Len(new) \in Nat
      /\ \A i \in 1 .. Len(events) : events'[i] = events[i]
      /\ \A i \in 1 .. Len(new) : events'[Len(events) + i] = new[i]
    BY <1>1
<1>3. ASSUME NEW i \in 1 .. Len(events'), i \notin 1 .. Len(events)
      PROVE  i - Len(events) \in 1 .. Len(new) /\ events'[i] = new[i - Len(events)]
    <2>1. i - Len(events) \in 1 .. Len(new) /\ Len(events) + (i - Len(events)) = i
        BY <1>2, <1>3
    <2> QED BY <1>2, <2>1
<1>4. events' # <<>>
    BY <1>2
<1> QED BY <1>1, <1>2, <1>3, <1>4

\* What handling an event leaves of it.
LEMMA Removed ==
    ASSUME WorldInv, events # <<>>, events' = Tail(events)
    PROVE  /\ Head(events) = events[1] /\ events[1] \in Event
           /\ events' \in Seq(Event) /\ Len(events') <= MaxEvents
           /\ Len(events) \in Nat /\ Len(events) >= 1 /\ Len(events') = Len(events) - 1
           /\ \A i \in 1 .. Len(events) - 1 : events'[i] = events[i + 1]
BY JoypadAssumption DEF WorldInv

\* One new event.
LEMMA OneEvent ==
    ASSUME NEW e \in Event
    PROVE  <<e>> \in Seq(Event) /\ Len(<<e>>) = 1 /\ <<e>>[1] = e
OBVIOUS

LEMMA EventKinds ==
    /\ \A k \in Keys : /\ KeyEvent("key_down", k) \in Event /\ KeyEvent("key_down", k).type = "key_down"
                       /\ KeyEvent("key_up", k) \in Event /\ KeyEvent("key_up", k).type = "key_up"
    /\ \A n \in Nat : /\ [type |-> "pad_added", of |-> n] \in Event
                      /\ [type |-> "pad_removed", of |-> n] \in Event
    /\ \A n \in Nat, b \in PadButtons, t \in {"pad_down", "pad_up"} :
           [type |-> t, of |-> n, button |-> b] \in Event
    /\ \A t \in {"drop_good", "drop_bad"} : [type |-> t] \in Event
BY DEF KeyEvent, Event

LEMMA PadNumber == WorldInv => plugged \in Nat /\ lastPad \in Nat
BY JoypadAssumption DEF WorldInv, NoPad

LEMMA OneReport ==
    ASSUME NEW e \in Event, Reports(<<e>>)
    PROVE  \E new \in Seq(Event) : Len(new) >= 1 /\ Reports(new)
<1> DEFINE new == <<e>>
<1>1. new \in Seq(Event) /\ Len(new) = 1
    BY OneEvent
<1> WITNESS new \in Seq(Event)
<1> QED BY <1>1

\* Every step of the world is a report of at least one event.
LEMMA WorldReports ==
    ASSUME WorldInv, World
    PROVE  /\ \E new \in Seq(Event) : Len(new) >= 1 /\ Reports(new)
           /\ held' \subseteq Keys /\ padHeld' \subseteq PadButtons
           /\ lastPad' \in 0 .. MaxPads /\ plugged' \in {NoPad, lastPad'}
           /\ plugged' = NoPad => padHeld' = {}
<1>0. /\ held \subseteq Keys /\ padHeld \subseteq PadButtons
      /\ lastPad \in 0 .. MaxPads /\ plugged \in {NoPad, lastPad}
      /\ plugged = NoPad => padHeld = {}
      /\ plugged \in Nat /\ lastPad \in Nat
    BY PadNumber DEF WorldInv
<1>1. ASSUME NEW k \in Keys, PressKey(k) \/ ReleaseKey(k)
      PROVE  /\ \E new \in Seq(Event) : Len(new) >= 1 /\ Reports(new)
             /\ held' \subseteq Keys /\ UNCHANGED <<plugged, lastPad, padHeld>>
    <2>1. CASE PressKey(k)
        <3>1. Reports(<<KeyEvent("key_down", k)>>)
            BY <2>1 DEF PressKey
        <3> QED BY <1>0, <2>1, <3>1, EventKinds, OneReport DEF PressKey
    <2>2. CASE ReleaseKey(k)
        <3>1. Reports(<<KeyEvent("key_up", k)>>)
            BY <2>2 DEF ReleaseKey
        <3> QED BY <1>0, <2>2, <3>1, EventKinds, OneReport DEF ReleaseKey
    <2> QED BY <1>1, <2>1, <2>2
<1>2. CASE LoseFocus
    BY <1>0, <1>2, LostKeys DEF LoseFocus, Lost
<1>3. CASE PlugPad
    <2>1. lastPad + 1 \in Nat /\ [type |-> "pad_added", of |-> lastPad + 1] \in Event
        BY <1>0 DEF Event
    <2>2. lastPad' \in 0 .. MaxPads /\ plugged' = lastPad' /\ plugged' # NoPad
        BY <1>0, <1>3, JoypadAssumption DEF PlugPad, NoPad
    <2>3. \E new \in Seq(Event) : Len(new) >= 1 /\ Reports(new)
        BY <1>3, <2>1, OneReport DEF PlugPad
    <2> QED BY <1>0, <1>3, <2>2, <2>3 DEF PlugPad
<1>4. CASE UnplugPad
    <2>1. \E new \in Seq(Event) : Len(new) >= 1 /\ Reports(new)
        BY <1>0, <1>4, EventKinds, OneReport DEF UnplugPad
    <2> QED BY <1>0, <1>4, <2>1 DEF UnplugPad
<1>5. ASSUME NEW b \in PadButtons, PadButton(b)
      PROVE  /\ \E new \in Seq(Event) : Len(new) >= 1 /\ Reports(new)
             /\ padHeld' \subseteq PadButtons /\ plugged # NoPad
             /\ UNCHANGED <<held, plugged, lastPad>>
    <2> DEFINE t == IF b \in padHeld THEN "pad_up" ELSE "pad_down"
    <2>1. [type |-> t, of |-> plugged, button |-> b] \in Event
        BY <1>0, EventKinds
    <2>2. \E new \in Seq(Event) : Len(new) >= 1 /\ Reports(new)
        BY <1>5, <2>1, OneReport DEF PadButton
    <2> QED BY <1>0, <1>5, <2>2 DEF PadButton
<1>6. ASSUME NEW type \in {"drop_good", "drop_bad"}, DropRom(type)
      PROVE  /\ \E new \in Seq(Event) : Len(new) >= 1 /\ Reports(new)
             /\ UNCHANGED <<held, plugged, lastPad, padHeld>>
    BY <1>6, EventKinds, OneReport DEF DropRom, world
<1> QED BY <1>0, <1>1, <1>2, <1>3, <1>4, <1>5, <1>6 DEF World

LEMMA WorldStep == WorldInv /\ [JoypadNext]_joypadVars => WorldInv'
<1> SUFFICES ASSUME WorldInv, [JoypadNext]_joypadVars PROVE WorldInv'
    OBVIOUS
<1>1. CASE World
    BY <1>1, WorldReports, Appended DEF WorldInv
<1>2. CASE HandleEvent \/ EndProgram
    BY <1>2, Removed DEF HandleEvent, EndProgram, WorldInv, world
<1>3. CASE Relaunch
    BY <1>3, JoypadAssumption DEF Relaunch, WorldInv, NoPad
<1>4. CASE UNCHANGED <<world, events>>
    BY <1>4 DEF WorldInv, world
<1>5. CASE (\E rows \in SUBSET Rows : SelectRows(rows)) \/ StartPoll \/ PollEmpty \/ SyncKeyboard
    BY <1>4, <1>5 DEF SelectRows, StartPoll, PollEmpty, SyncKeyboard
<1> QED BY <1>1, <1>2, <1>3, <1>4, <1>5 DEF JoypadNext, Poll, joypadVars

LEMMA WorldInit == JoypadInit => WorldInv
BY JoypadAssumption DEF JoypadInit, WorldInv, NoPad

-----------------------------------------------------------------------------
(* What the adapter believes of the pad is true, or an event in the queue is *)
(* going to correct it.                                                      *)

Down(p, b) == p = plugged /\ b \in padHeld
Corrects(e, p, b) ==
    e.type \in {"pad_removed", "pad_up"} /\ e.of = p /\ (e.type = "pad_up" => e.button = b)
Corrected(queue, from, p, b) == \E j \in from .. Len(queue) : Corrects(queue[j], p, b)

MaskInv == \A b \in gamepad : Down(pad, b) \/ Corrected(events, 1, pad, b)
QueueInv ==
    \A i \in 1 .. Len(events) :
        events[i].type = "pad_down" =>
            \/ Down(events[i].of, events[i].button)
            \/ Corrected(events, i + 1, events[i].of, events[i].button)

\* Reports keep this, if what they change of the world is in the report.
LEMMA ReportKeeps ==
    ASSUME WorldInv, MaskInv, QueueInv, NEW new \in Seq(Event), Len(new) >= 1, Reports(new),
           \A p, b : Down(p, b) => \/ p = plugged' /\ b \in padHeld'
                                   \/ \E j \in 1 .. Len(new) : Corrects(new[j], p, b),
           \A i \in 1 .. Len(new) : new[i].type = "pad_down" =>
               new[i].of = plugged' /\ new[i].button \in padHeld'
    PROVE  MaskInv' /\ QueueInv'
<1> DEFINE n == Len(events)
           Still(p, b) == p = plugged' /\ b \in padHeld'
<1>1. /\ Len(events') = n + Len(new) /\ n \in Nat /\ Len(new) \in Nat
      /\ \A i \in 1 .. n : events'[i] = events[i]
      /\ \A i \in 1 .. Len(new) : events'[n + i] = new[i]
      /\ \A i \in 1 .. Len(events') : i \in 1 .. n \/ (i - n \in 1 .. Len(new)
                                                       /\ events'[i] = new[i - n])
    BY Appended
<1>2. UNCHANGED <<gamepad, pad>>
    BY DEF Reports, Quiet, adapter
<1> HIDE DEF n
<1>3. ASSUME NEW p, NEW b, NEW i \in 1 .. n + 1, Down(p, b) \/ Corrected(events, i, p, b)
      PROVE  Still(p, b) \/ Corrected(events', i, p, b)
    <2>1. CASE Down(p, b)
        <3>1. CASE \E j \in 1 .. Len(new) : Corrects(new[j], p, b)
            <4>1. PICK j \in 1 .. Len(new) : Corrects(new[j], p, b)
                BY <3>1
            <4>2. n + j \in i .. Len(events') /\ Corrects(events'[n + j], p, b)
                BY <1>1, <4>1
            <4> QED BY <4>2 DEF Corrected
        <3> QED BY <2>1, <3>1
    <2>2. CASE Corrected(events, i, p, b)
        <3>1. PICK j \in i .. n : Corrects(events[j], p, b)
            BY <2>2 DEF Corrected, n
        <3>2. j \in i .. Len(events') /\ Corrects(events'[j], p, b)
            BY <1>1, <3>1
        <3> QED BY <3>2 DEF Corrected
    <2> QED BY <1>3, <2>1, <2>2
<1>4. ASSUME NEW b \in gamepad PROVE Still(pad, b) \/ Corrected(events', 1, pad, b)
    <2>1. Down(pad, b) \/ Corrected(events, 1, pad, b)
        BY DEF MaskInv
    <2>2. 1 \in 1 .. n + 1
        BY <1>1
    <2> QED BY <1>3, <2>1, <2>2
<1>5. ASSUME NEW i \in 1 .. Len(events'), events'[i].type = "pad_down"
      PROVE  \/ Still(events'[i].of, events'[i].button)
             \/ Corrected(events', i + 1, events'[i].of, events'[i].button)
    <2>1. CASE i \in 1 .. n
        <3>1. \/ Down(events[i].of, events[i].button)
              \/ Corrected(events, i + 1, events[i].of, events[i].button)
            BY <1>1, <1>5, <2>1 DEF QueueInv, n
        <3>2. i + 1 \in 1 .. n + 1 /\ events'[i] = events[i]
            BY <1>1, <2>1
        <3> QED BY <1>3, <3>1, <3>2
    <2>2. CASE i \notin 1 .. n
        BY <1>1, <1>5, <2>2
    <2> QED BY <2>1, <2>2
<1> QED BY <1>2, <1>4, <1>5 DEF MaskInv, QueueInv, Down

\* Taking an event off the queue.
LEMMA ServeKeeps ==
    ASSUME WorldInv, QueueInv, events # <<>>, events' = Tail(events),
           UNCHANGED <<plugged, padHeld>>
    PROVE  /\ QueueInv'
           /\ \A p, b : Corrected(events, 1, p, b) =>
                  Corrects(events[1], p, b) \/ Corrected(events', 1, p, b)
           /\ events[1].type = "pad_down" =>
                  \/ Down(events[1].of, events[1].button)
                  \/ Corrected(events', 1, events[1].of, events[1].button)
<1> DEFINE n == Len(events)
<1>1. /\ n \in Nat /\ n >= 1 /\ Len(events') = n - 1
      /\ \A i \in 1 .. n - 1 : events'[i] = events[i + 1]
    BY Removed
<1> HIDE DEF n
<1>2. ASSUME NEW p, NEW b, NEW i \in 2 .. n + 1, Corrected(events, i, p, b)
      PROVE  Corrected(events', i - 1, p, b)
    <2>1. PICK j \in i .. n : Corrects(events[j], p, b)
        BY <1>2 DEF Corrected, n
    <2>2. j - 1 \in i - 1 .. Len(events') /\ j - 1 \in 1 .. n - 1 /\ (j - 1) + 1 = j
        BY <1>1, <2>1
    <2>3. Corrects(events'[j - 1], p, b)
        BY <1>1, <2>1, <2>2
    <2> QED BY <2>2, <2>3 DEF Corrected
<1>3. ASSUME NEW p, NEW b, Corrected(events, 1, p, b)
      PROVE  Corrects(events[1], p, b) \/ Corrected(events', 1, p, b)
    <2>1. PICK j \in 1 .. n : Corrects(events[j], p, b)
        BY <1>3 DEF Corrected, n
    <2>2. CASE j = 1
        BY <2>1, <2>2
    <2>3. CASE j # 1
        <3>1. Corrected(events, 2, p, b) /\ 2 \in 2 .. n + 1 /\ 2 - 1 = 1
            BY <1>1, <2>1, <2>3 DEF Corrected, n
        <3> QED BY <1>2, <3>1
    <2> QED BY <2>2, <2>3
<1>4. ASSUME NEW i \in 1 .. Len(events'), events'[i].type = "pad_down"
      PROVE  \/ Down(events'[i].of, events'[i].button)
             \/ Corrected(events', i + 1, events'[i].of, events'[i].button)
    <2>1. i + 1 \in 1 .. n /\ events'[i] = events[i + 1] /\ (i + 1) + 1 \in 2 .. n + 1
          /\ ((i + 1) + 1) - 1 = i + 1
        BY <1>1
    <2>2. \/ Down(events[i + 1].of, events[i + 1].button)
          \/ Corrected(events, (i + 1) + 1, events[i + 1].of, events[i + 1].button)
        BY <1>4, <2>1 DEF QueueInv, n
    <2> QED BY <1>2, <2>1, <2>2
<1>5. events[1].type = "pad_down" =>
          \/ Down(events[1].of, events[1].button)
          \/ Corrected(events', 1, events[1].of, events[1].button)
    <2>1. 1 \in 1 .. n /\ 1 + 1 \in 2 .. n + 1 /\ (1 + 1) - 1 = 1
        BY <1>1
    <2>2. events[1].type = "pad_down" =>
             \/ Down(events[1].of, events[1].button)
             \/ Corrected(events, 1 + 1, events[1].of, events[1].button)
        BY <2>1 DEF QueueInv, n
    <2> QED BY <1>2, <2>1, <2>2
<1> QED BY <1>3, <1>4, <1>5 DEF QueueInv, Down

LEMMA WorldKeeps ==
    ASSUME WorldInv, MaskInv, QueueInv, World
    PROVE  MaskInv' /\ QueueInv'
<1> DEFINE Tells(new) ==
        /\ new \in Seq(Event) /\ Len(new) >= 1 /\ Reports(new)
        /\ \A p, b : Down(p, b) => \/ p = plugged' /\ b \in padHeld'
                                   \/ \E j \in 1 .. Len(new) : Corrects(new[j], p, b)
        /\ \A i \in 1 .. Len(new) : new[i].type = "pad_down" =>
               new[i].of = plugged' /\ new[i].button \in padHeld'
<1>0. ASSUME NEW new, Tells(new) PROVE MaskInv' /\ QueueInv'
    BY <1>0, ReportKeeps
<1> HIDE DEF Tells
<1>a. ASSUME NEW e \in Event, Reports(<<e>>),
             \A p, b : Down(p, b) => (p = plugged' /\ b \in padHeld') \/ Corrects(e, p, b),
             e.type = "pad_down" => e.of = plugged' /\ e.button \in padHeld'
      PROVE  MaskInv' /\ QueueInv'
    <2>1. Tells(<<e>>)
        BY <1>a, OneEvent DEF Tells
    <2> QED BY <1>0, <2>1
<1>1. ASSUME NEW k \in Keys, PressKey(k) \/ ReleaseKey(k)
      PROVE  MaskInv' /\ QueueInv'
    <2>1. PICK t \in {"key_down", "key_up"} : Reports(<<KeyEvent(t, k)>>)
        BY <1>1 DEF PressKey, ReleaseKey
    <2>2. KeyEvent(t, k) \in Event /\ KeyEvent(t, k).type = t
        BY EventKinds DEF KeyEvent
    <2>3. UNCHANGED <<plugged, padHeld>>
        BY <1>1 DEF PressKey, ReleaseKey
    <2> QED BY <1>a, <2>1, <2>2, <2>3 DEF Down
<1>2. CASE LoseFocus
    <2>1. Lost \in Seq(Event) /\ Len(Lost) >= 1
          /\ \A i \in 1 .. Len(Lost) : Lost[i].type \in {"key_up", "focus_lost"}
        BY LostKeys DEF WorldInv
    <2>2. Reports(Lost) /\ UNCHANGED <<plugged, padHeld>>
        BY <1>2 DEF LoseFocus, Lost
    <2>3. Tells(Lost)
        BY <2>1, <2>2 DEF Tells, Down
    <2> QED BY <1>0, <2>3
<1>3. CASE PlugPad
    <2> DEFINE e == [type |-> "pad_added", of |-> lastPad + 1]
    <2>1. e \in Event /\ e.type = "pad_added" /\ Reports(<<e>>)
        BY <1>3, PadNumber DEF PlugPad, Event
    <2>2. \A p, b : ~Down(p, b)
        BY <1>3 DEF PlugPad, WorldInv, Down
    <2> HIDE DEF e
    <2> QED BY <1>a, <2>1, <2>2
<1>4. CASE UnplugPad
    <2> DEFINE e == [type |-> "pad_removed", of |-> plugged]
    <2>1. e \in Event /\ e.type = "pad_removed" /\ e.of = plugged /\ Reports(<<e>>)
        BY <1>4, PadNumber, EventKinds DEF UnplugPad
    <2> HIDE DEF e
    <2>2. \A p, b : Down(p, b) => Corrects(e, p, b)
        BY <2>1 DEF Down, Corrects
    <2> QED BY <1>a, <2>1, <2>2
<1>5. ASSUME NEW b \in PadButtons, PadButton(b)
      PROVE  MaskInv' /\ QueueInv'
    <2> DEFINE t == IF b \in padHeld THEN "pad_up" ELSE "pad_down"
               e == [type |-> t, of |-> plugged, button |-> b]
    <2>1. e \in Event /\ e.type = t /\ e.of = plugged /\ e.button = b /\ Reports(<<e>>)
        BY <1>5, PadNumber, EventKinds DEF PadButton
    <2>2. /\ plugged' = plugged
          /\ padHeld' = IF b \in padHeld THEN padHeld \ {b} ELSE padHeld \union {b}
        BY <1>5 DEF PadButton
    <2> HIDE DEF e
    <2>3. \A p, c : Down(p, c) => (p = plugged' /\ c \in padHeld') \/ Corrects(e, p, c)
        BY <2>1, <2>2 DEF Down, Corrects
    <2>4. e.type = "pad_down" => e.of = plugged' /\ e.button \in padHeld'
        BY <2>1, <2>2
    <2> QED BY <1>a, <2>1, <2>3, <2>4
<1>6. ASSUME NEW type \in {"drop_good", "drop_bad"}, DropRom(type)
      PROVE  MaskInv' /\ QueueInv'
    <2> DEFINE e == [type |-> type]
    <2>1. e \in Event /\ e.type = type /\ Reports(<<e>>) /\ UNCHANGED <<plugged, padHeld>>
        BY <1>6, EventKinds DEF DropRom, world
    <2> HIDE DEF e
    <2> QED BY <1>a, <2>1 DEF Down
<1> QED BY <1>1, <1>2, <1>3, <1>4, <1>5, <1>6 DEF World

\* What handling an event makes of the adapter's mask of the pad.
LEMMA HandleKeeps ==
    ASSUME WorldInv, PortInv, MaskInv, QueueInv, HandleEvent
    PROVE  MaskInv' /\ QueueInv'
<1> DEFINE e == events[1]
<1>1. /\ Head(events) = e /\ events # <<>> /\ events' = Tail(events)
      /\ UNCHANGED <<plugged, padHeld>>
    BY Removed DEF HandleEvent, world
<1>2. /\ QueueInv'
      /\ \A p, b : Corrected(events, 1, p, b) => Corrects(e, p, b) \/ Corrected(events', 1, p, b)
      /\ e.type = "pad_down" => Down(e.of, e.button) \/ Corrected(events', 1, e.of, e.button)
    BY <1>1, ServeKeeps
<1> HIDE DEF e
<1> SUFFICES MaskInv'
    BY <1>2
<1>3. ASSUME NEW b \in gamepad, ~Corrects(e, pad, b)
      PROVE  Down(pad, b) \/ Corrected(events', 1, pad, b)
    BY <1>2, <1>3 DEF MaskInv
<1>a. ASSUME UNCHANGED <<gamepad, pad>>, gamepad = {} \/ \A b : ~Corrects(e, pad, b)
      PROVE  MaskInv'
    BY <1>1, <1>3, <1>a DEF MaskInv, Down
<1>b. ASSUME gamepad' = {} PROVE MaskInv'
    BY <1>b DEF MaskInv
<1>c. ASSUME pad' = plugged, gamepad' = padHeld PROVE MaskInv'
    BY <1>1, <1>c DEF MaskInv, Down
<1>4. CASE e.type = "drop_good" /\ DropGood
    BY <1>4, <1>b, <1>c DEF DropGood
<1>5. CASE e.type = "drop_bad" /\ DropBad
    BY <1>5, <1>b DEF DropBad
<1>6. CASE ToMenu(e)
    <2>1. Clears \/ Rests
        BY <1>6, MenuKeyKinds DEF ToMenu
    <2>2. e.type = "key_down"
        BY <1>6 DEF ToMenu, MenuTakes
    <2>3. Rests => pad' = pad
        BY <1>6 DEF ToMenu, MenuKey, SetPaused, ResetAdapter, Rebind, PauseMenu, KeybindsMenu,
                    SettingsMenu, Show, adapter
    <2> QED BY <1>a, <1>b, <2>1, <2>2, <2>3 DEF Clears, Aggregate, Rests, Corrects
<1>7. CASE ToAdapter(e)
    <2>0. AdapterEvent(e)
        BY <1>7 DEF ToAdapter
    <2>1. CASE e.type \in {"key_down", "key_up"} /\ UNCHANGED <<gamepad, pad>>
        BY <1>a, <2>1 DEF Corrects
    <2>2. CASE e.type = "pad_added" /\ pad' = plugged /\ gamepad' = padHeld
        BY <1>c, <2>2
    <2>3. CASE gamepad' = {}
        BY <1>b, <2>3
    <2>4. CASE e.type = "pad_down" /\ pad = e.of /\ pad' = pad /\ gamepad' = gamepad \union {e.button}
        <3>1. \A b \in gamepad : Down(pad, b) \/ Corrected(events', 1, pad, b)
            BY <1>2, <2>4 DEF MaskInv, Corrects
        <3> QED BY <1>1, <1>2, <2>4, <3>1 DEF MaskInv, Down
    <2>5. CASE e.type = "pad_up" /\ pad = e.of /\ pad' = pad /\ gamepad' = gamepad \ {e.button}
        <3>1. \A b \in gamepad' : Down(pad, b) \/ Corrected(events', 1, pad, b)
            BY <1>2, <2>5 DEF MaskInv, Corrects
        <3> QED BY <1>1, <2>5, <3>1 DEF MaskInv, Down
    <2> QED BY <2>0, <2>1, <2>2, <2>3, <2>4, <2>5 DEF AdapterEvent, ResetAdapter, Aggregate
<1>8. CASE Skipped(e)
    <2>1. UNCHANGED <<gamepad, pad>>
        BY <1>8 DEF Skipped, Quiet, adapter
    <2>2. CASE menu # "gameplay" \/ ~loaded
        BY <1>a, <2>1, <2>2 DEF PortInv
    <2>3. CASE Ignored(e)
        BY <1>a, <2>1, <2>3 DEF Ignored, Corrects
    <2> QED BY <1>8, <2>2, <2>3 DEF Skipped
<1> QED BY <1>1, <1>2, <1>4, <1>5, <1>6, <1>7, <1>8 DEF HandleEvent

LEMMA PadStep ==
    ASSUME WorldInv, PortInv, MaskInv, QueueInv, [JoypadNext]_joypadVars
    PROVE  MaskInv' /\ QueueInv'
<1>1. CASE World
    BY <1>1, WorldKeeps
<1>2. CASE HandleEvent
    BY <1>2, HandleKeeps
<1>3. CASE EndProgram
    <2>1. /\ events # <<>> /\ events' = Tail(events) /\ Head(events) = events[1]
          /\ UNCHANGED <<plugged, padHeld, gamepad, pad>>
        BY <1>3, Removed DEF EndProgram, Quiet, world, adapter
    <2>2. events[1].type \in {"key_down", "pad_added"}
        BY <1>3, <2>1 DEF EndProgram, MenuTakes, OpenFails
    <2>3. QueueInv' /\ \A p, b : Corrected(events, 1, p, b) =>
                           Corrects(events[1], p, b) \/ Corrected(events', 1, p, b)
        BY <2>1, ServeKeeps
    <2>4. \A b \in gamepad : Down(pad, b) \/ Corrected(events', 1, pad, b)
        BY <2>2, <2>3 DEF MaskInv, Corrects
    <2> QED BY <2>1, <2>3, <2>4 DEF MaskInv, Down
<1>4. CASE Relaunch
    <2>1. gamepad' = {} /\ events' = <<>> /\ Len(<<>>) = 0
        BY <1>4 DEF Relaunch
    <2> QED BY <2>1 DEF MaskInv, QueueInv
<1>5. CASE UNCHANGED <<events, gamepad, pad, plugged, padHeld>>
    BY <1>5 DEF MaskInv, QueueInv, Down
<1>6. CASE (\E rows \in SUBSET Rows : SelectRows(rows)) \/ StartPoll \/ PollEmpty \/ SyncKeyboard
    BY <1>5, <1>6 DEF SelectRows, StartPoll, PollEmpty, SyncKeyboard, Quiet, Aggregate, world, adapter
<1>7. CASE UNCHANGED joypadVars
    BY <1>5, <1>7 DEF joypadVars, adapter, world
<1> QED BY <1>1, <1>2, <1>3, <1>4, <1>6, <1>7 DEF JoypadNext, Poll

-----------------------------------------------------------------------------
(* The keyboard is read at the end of every poll, and a key that moves after *)
(* that is in the queue.                                                     *)
KeysInv ==
    running /\ phase = "game" /\ events = <<>> /\ loaded /\ menu = "gameplay"
        => keyboard = BoundTo(held)

LEMMA KeysStep == WorldInv /\ KeysInv /\ [JoypadNext]_joypadVars => KeysInv'
<1> SUFFICES ASSUME WorldInv, KeysInv, [JoypadNext]_joypadVars PROVE KeysInv'
    OBVIOUS
<1>1. CASE World
    <2>1. events' # <<>>
        BY <1>1, WorldReports, Appended
    <2> QED BY <2>1 DEF KeysInv
<1>2. CASE StartPoll \/ PollEmpty \/ HandleEvent \/ EndProgram
    BY <1>2 DEF StartPoll, PollEmpty, HandleEvent, EndProgram, KeysInv
<1>3. CASE SyncKeyboard
    <2>1. CASE menu = "gameplay" /\ loaded
        <3>1. keyboard' = BoundTo(held) /\ UNCHANGED <<held, bindings>>
            BY <1>3, <2>1 DEF SyncKeyboard, Aggregate, world
        <3> QED BY <3>1 DEF KeysInv, BoundTo
    <2>2. CASE ~(menu = "gameplay" /\ loaded)
        BY <1>3, <2>2 DEF SyncKeyboard, Quiet, menuVars, KeysInv
    <2> QED BY <2>1, <2>2
<1>4. CASE Relaunch
    BY <1>4 DEF Relaunch, KeysInv, BoundTo
<1>5. CASE UNCHANGED <<running, phase, events, loaded, menu, keyboard, held, bindings>>
    BY <1>5 DEF KeysInv, BoundTo
<1>6. CASE \E rows \in SUBSET Rows : SelectRows(rows)
    BY <1>5, <1>6 DEF SelectRows, adapter, menuVars, world
<1>7. CASE UNCHANGED joypadVars
    BY <1>5, <1>7 DEF joypadVars, adapter, menuVars, host, world
<1> QED BY <1>1, <1>2, <1>3, <1>4, <1>6, <1>7 DEF JoypadNext, Poll

InputInv == WorldInv /\ PortInv /\ MaskInv /\ QueueInv /\ KeysInv

LEMMA InputInvariant == JoypadSpec => []InputInv
<1>1. JoypadInit => InputInv
    <2> SUFFICES ASSUME JoypadInit PROVE InputInv
        OBVIOUS
    <2>1. gamepad = {} /\ keyboard = {} /\ held = {} /\ events = <<>> /\ Len(<<>>) = 0
        BY DEF JoypadInit
    <2>2. PortInv
        BY NoLines DEF JoypadInit, PortInv
    <2> QED BY <2>1, <2>2, WorldInit DEF InputInv, MaskInv, QueueInv, KeysInv, BoundTo
<1>2. InputInv /\ [JoypadNext]_joypadVars => InputInv'
    BY WorldStep, PortStep, PadStep, KeysStep DEF InputInv
<1> QED BY <1>1, <1>2, PTL DEF JoypadSpec

(* When every event has been served the game sees each bound key as it is    *)
(* held and no pad button that is not, and behind a menu none, for any keys  *)
(* and bindings, any number of pads and any length of the queue.             *)
THEOREM InputsSeen == JoypadSpec => []InputsAreSeen
<1>1. InputInv => InputsAreSeen
    <2> SUFFICES ASSUME InputInv, phase = "game", events = <<>>, running
                 PROVE  IF loaded /\ menu = "gameplay"
                        THEN BoundTo(held) \subseteq pressed
                             /\ pressed \subseteq BoundTo(held) \union padHeld
                        ELSE pressed = {}
        BY DEF InputsAreSeen
    <2>1. pressed = keyboard \union gamepad
        BY DEF InputInv, PortInv
    <2>2. gamepad \subseteq padHeld
        <3>1. Len(events) = 0
            OBVIOUS
        <3>2. \A p, b : ~Corrected(events, 1, p, b)
            BY <3>1 DEF Corrected
        <3> QED BY <3>2 DEF InputInv, MaskInv, Down
    <2>3. CASE loaded /\ menu = "gameplay"
        BY <2>1, <2>2, <2>3 DEF InputInv, KeysInv
    <2>4. CASE ~(loaded /\ menu = "gameplay")
        BY <2>1, <2>4 DEF InputInv, PortInv
    <2> QED BY <2>3, <2>4
<1> QED BY <1>1, InputInvariant, PTL

-----------------------------------------------------------------------------
(* Types.                                                                    *)

MenuTypes ==
    /\ menu \in {"gameplay", "pause", "keybinds", "settings"}
    /\ menuSelection \in 0 .. 3 /\ keybindSelection \in 0 .. ButtonCount - 1
    /\ waiting \in BOOLEAN
AdapterTypes ==
    /\ keyboard \subseteq Buttons /\ gamepad \subseteq Buttons
    /\ pad \in 0 .. MaxPads /\ bindings \in [Buttons -> Keys]
HostTypes ==
    /\ loaded \in BOOLEAN /\ running \in BOOLEAN /\ phase \in {"game", "polling", "syncing"}
    /\ select \subseteq Rows /\ requested \in BOOLEAN

LEMMA Buttons1 ==
    /\ ButtonCount \in Nat \ {0}
    /\ \A i \in 0 .. ButtonCount - 1 : ButtonOrder[i + 1] \in Buttons
BY JoypadAssumption DEF ButtonCount

LEMMA TurnStays ==
    ASSUME NEW n \in Nat \ {0}, NEW s \in Nat, NEW k
    PROVE  Turn(s, k, n) \in 0 .. n - 1
<1> DEFINE c == s + (IF k = "up" THEN n - 1 ELSE 1)
<1>1. c \in Nat
    OBVIOUS
<1> HIDE DEF c
<1>2. c % n \in 0 .. n - 1
    BY <1>1
<1> QED BY <1>2 DEF Turn, c

LEMMA MenuTypesStep == MenuTypes /\ [JoypadNext]_joypadVars => MenuTypes'
<1> SUFFICES ASSUME MenuTypes, [JoypadNext]_joypadVars PROVE MenuTypes'
    OBVIOUS
<1>0. /\ menuSelection \in Nat /\ keybindSelection \in Nat /\ ButtonCount \in Nat \ {0}
      /\ 0 \in 0 .. ButtonCount - 1
    BY Buttons1 DEF MenuTypes
<1>a. ASSUME menu' \in {"gameplay", "pause"}, menuSelection' = 0, keybindSelection' = 0,
             waiting' = FALSE
      PROVE  MenuTypes'
    <2>1. menuSelection' \in 0 .. 3 /\ keybindSelection' \in 0 .. ButtonCount - 1
        BY <1>0, <1>a
    <2> QED BY <1>a, <2>1 DEF MenuTypes
<1>b. ASSUME NEW m \in {"gameplay", "pause"}, SetPaused(m) PROVE MenuTypes'
    BY <1>a, <1>b DEF SetPaused
<1>1. ASSUME NEW k, MenuKey(k) PROVE MenuTypes'
    <2>1. CASE menu = "gameplay" /\ SetPaused("pause")
        BY <1>b, <2>1
    <2>2. CASE waiting /\ Rebind(k)
        BY <2>2 DEF Rebind, MenuTypes
    <2>3. CASE menu = "pause" /\ PauseMenu(k)
        <3>1. Turn(menuSelection, k, 4) \in 0 .. 3
            BY <1>0, TurnStays
        <3>2. CASE SetPaused("gameplay")
            BY <1>b, <3>2
        <3>3. CASE Show("pause") /\ menuSelection' = Turn(menuSelection, k, 4)
                   /\ UNCHANGED <<keybindSelection, waiting>>
            BY <3>1, <3>3 DEF Show, MenuTypes
        <3>4. CASE Show("keybinds") /\ keybindSelection' = 0 /\ UNCHANGED <<menuSelection, waiting>>
            BY <1>0, <3>4 DEF Show, MenuTypes
        <3>5. CASE Show("settings") /\ menuSelection' = 0 /\ UNCHANGED <<keybindSelection, waiting>>
            BY <3>5 DEF Show, MenuTypes
        <3> QED BY <2>3, <3>2, <3>3, <3>4, <3>5 DEF PauseMenu
    <2>4. CASE menu = "keybinds" /\ ~waiting /\ KeybindsMenu(k)
        <3>1. Turn(keybindSelection, k, ButtonCount) \in 0 .. ButtonCount - 1
            BY <1>0, TurnStays
        <3> QED BY <1>0, <2>4, <3>1 DEF KeybindsMenu, Show, MenuTypes
    <2>5. CASE menu = "settings" /\ SettingsMenu(k)
        <3>1. Turn(menuSelection, k, 3) \in 0 .. 2
            BY <1>0, TurnStays
        <3> QED BY <1>0, <2>5, <3>1 DEF SettingsMenu, Show, MenuTypes
    <2>6. CASE Idle(k) /\ Show(menu) /\ UNCHANGED <<menuSelection, keybindSelection, waiting>>
        BY <2>6 DEF Show, MenuTypes
    <2> QED BY <1>1, <2>1, <2>2, <2>3, <2>4, <2>5, <2>6 DEF MenuKey
<1>2. CASE UNCHANGED menuVars
    BY <1>2 DEF MenuTypes, menuVars
<1>3. CASE DropGood \/ Relaunch
    BY <1>a, <1>3 DEF DropGood, Relaunch
<1>4. CASE HandleEvent
    <2> DEFINE e == Head(events)
    <2>1. CASE ToMenu(e)
        BY <1>1, <2>1 DEF ToMenu
    <2>2. CASE DropBad \/ ToAdapter(e) \/ Skipped(e)
        BY <1>2, <2>2 DEF DropBad, ToAdapter, Skipped, Quiet
    <2> QED BY <1>3, <1>4, <2>1, <2>2 DEF HandleEvent
<1>5. CASE World
    BY <1>2, <1>5 DEF World, PressKey, ReleaseKey, LoseFocus, PlugPad, UnplugPad, PadButton,
                      DropRom, Reports, Quiet
<1>6. CASE (\E rows \in SUBSET Rows : SelectRows(rows)) \/ StartPoll \/ EndProgram \/ PollEmpty
           \/ SyncKeyboard \/ UNCHANGED joypadVars
    BY <1>2, <1>6 DEF SelectRows, StartPoll, EndProgram, PollEmpty, SyncKeyboard, Quiet, joypadVars,
                      menuVars
<1> QED BY <1>3, <1>4, <1>5, <1>6 DEF JoypadNext, Poll

LEMMA AdapterTypesStep ==
    WorldInv /\ MenuTypes /\ AdapterTypes /\ [JoypadNext]_joypadVars => AdapterTypes'
<1> SUFFICES ASSUME WorldInv, MenuTypes, AdapterTypes, [JoypadNext]_joypadVars
             PROVE  AdapterTypes'
    OBVIOUS
<1>0. /\ padHeld \subseteq Buttons /\ plugged \in 0 .. MaxPads /\ 0 \in 0 .. MaxPads
      /\ DefaultBindings \in [Buttons -> Keys] /\ \A keys : BoundTo(keys) \subseteq Buttons
    BY JoypadAssumption DEF WorldInv, NoPad, BoundTo
<1>1. CASE UNCHANGED adapter
    BY <1>1 DEF AdapterTypes, adapter
<1>2. ASSUME keyboard' \subseteq Buttons, gamepad' \subseteq Buttons, UNCHANGED <<pad, bindings>>
      PROVE  AdapterTypes'
    BY <1>2 DEF AdapterTypes
<1>3. CASE DropGood \/ DropBad \/ Relaunch
    BY <1>0, <1>3 DEF DropGood, DropBad, Relaunch, AdapterTypes, NoPad
<1>4. CASE HandleEvent
    <2> DEFINE e == events[1]
    <2>0. e \in Event /\ Head(events) = e
        BY <1>4, Removed DEF HandleEvent
    <2> HIDE DEF e
    <2>1. CASE ToMenu(e)
        <3>0. e.of \in Keys
            BY <2>0, <2>1 DEF ToMenu, MenuTakes, Event
        <3>1. CASE waiting /\ Rebind(e.of)
            BY <3>0, <3>1, Buttons1 DEF Rebind, AdapterTypes, MenuTypes
        <3>2. CASE (menu = "gameplay" /\ SetPaused("pause")) \/ (menu = "pause" /\ PauseMenu(e.of))
            BY <1>1, <1>2, <3>2 DEF PauseMenu, SetPaused, ResetAdapter, Aggregate, Show
        <3>3. CASE (menu = "keybinds" /\ ~waiting /\ KeybindsMenu(e.of))
                   \/ (menu = "settings" /\ SettingsMenu(e.of)) \/ (Idle(e.of) /\ Show(menu))
            BY <1>1, <3>3 DEF KeybindsMenu, SettingsMenu, Show
        <3> QED BY <2>1, <3>1, <3>2, <3>3 DEF ToMenu, MenuKey
    <2>2. CASE ToAdapter(e)
        <3>0. AdapterEvent(e)
            BY <2>2 DEF ToAdapter
        <3>1. CASE e.type \in {"pad_down", "pad_up"}
            <4>1. e.button \in Buttons
                BY <2>0, <3>1, JoypadAssumption DEF Event
            <4> QED BY <1>2, <3>0, <3>1, <4>1 DEF AdapterEvent, Aggregate, AdapterTypes
        <3>2. CASE e.type \notin {"pad_down", "pad_up"}
            BY <1>0, <3>0, <3>2 DEF AdapterEvent, ResetAdapter, Aggregate, AdapterTypes, NoPad
        <3> QED BY <3>1, <3>2
    <2>3. CASE Skipped(e)
        BY <1>1, <2>3 DEF Skipped, Quiet
    <2> QED BY <1>3, <1>4, <2>0, <2>1, <2>2, <2>3 DEF HandleEvent
<1>5. CASE World
    BY <1>1, <1>5 DEF World, PressKey, ReleaseKey, LoseFocus, PlugPad, UnplugPad, PadButton,
                      DropRom, Reports, Quiet
<1>6. CASE SyncKeyboard
    BY <1>0, <1>1, <1>2, <1>6 DEF SyncKeyboard, Aggregate, Quiet, AdapterTypes
<1>7. CASE (\E rows \in SUBSET Rows : SelectRows(rows)) \/ StartPoll \/ EndProgram \/ PollEmpty
           \/ UNCHANGED joypadVars
    BY <1>1, <1>7 DEF SelectRows, StartPoll, EndProgram, PollEmpty, Quiet, joypadVars
<1> QED BY <1>3, <1>4, <1>5, <1>6, <1>7 DEF JoypadNext, Poll

LEMMA HostTypesStep == HostTypes /\ [JoypadNext]_joypadVars => HostTypes'
<1> SUFFICES ASSUME HostTypes, [JoypadNext]_joypadVars PROVE HostTypes'
    OBVIOUS
<1>1. CASE Rests /\ UNCHANGED <<loaded, running>> /\ phase' \in {"game", "polling", "syncing"}
    BY <1>1 DEF Rests, HostTypes
<1>2. ASSUME NEW k, NEW g, Aggregate(k, g), UNCHANGED <<loaded, running>>,
             phase' \in {"game", "polling", "syncing"}
      PROVE  HostTypes'
    BY <1>2 DEF Aggregate, SetPressed, Refresh, HostTypes
<1>3. CASE Relaunch
    BY <1>3 DEF Relaunch, HostTypes
<1>4. CASE HandleEvent
    <2> DEFINE e == Head(events)
    <2>0. UNCHANGED <<running, phase>> /\ phase \in {"game", "polling", "syncing"}
        BY <1>4 DEF HandleEvent, HostTypes
    <2>1. CASE DropGood \/ DropBad
        BY <2>0, <2>1 DEF DropGood, DropBad, HostTypes
    <2>2. CASE ToMenu(e)
        BY <1>1, <1>2, <2>0, <2>2, MenuKeyKinds DEF ToMenu, Clears
    <2>3. CASE ToAdapter(e)
        BY <1>2, <2>0, <2>3, AdapterEventFeeds DEF ToAdapter
    <2>4. CASE Skipped(e)
        BY <1>1, <2>0, <2>4 DEF Skipped, Quiet, Rests, port, adapter
    <2> QED BY <1>4, <2>1, <2>2, <2>3, <2>4 DEF HandleEvent
<1>5. CASE World
    <2>1. Quiet /\ UNCHANGED <<running, phase>>
        BY <1>5 DEF World, PressKey, ReleaseKey, LoseFocus, PlugPad, UnplugPad, PadButton,
                    DropRom, Reports
    <2> QED BY <2>1 DEF Quiet, HostTypes, port
<1>6. CASE StartPoll \/ EndProgram \/ PollEmpty
    BY <1>6 DEF StartPoll, EndProgram, PollEmpty, Quiet, HostTypes, port
<1>7. CASE SyncKeyboard
    BY <1>1, <1>2, <1>7 DEF SyncKeyboard, Quiet, Rests, port, adapter
<1>8. CASE \E rows \in SUBSET Rows : SelectRows(rows)
    BY <1>8 DEF SelectRows, Refresh, HostTypes
<1>9. CASE UNCHANGED joypadVars
    BY <1>9 DEF joypadVars, port, host, HostTypes
<1> QED BY <1>3, <1>4, <1>5, <1>6, <1>7, <1>8, <1>9 DEF JoypadNext, Poll

(* Port, masks, menus, world and queue keep their types, and the selections  *)
(* stay on the items of the menus, for any buttons, keys and pads.           *)
THEOREM JoypadTypeCorrect == JoypadSpec => []JoypadTypeOK
<1> DEFINE T == InputInv /\ MenuTypes /\ AdapterTypes /\ HostTypes
<1>1. JoypadInit => MenuTypes /\ AdapterTypes /\ HostTypes
    <2> SUFFICES ASSUME JoypadInit PROVE MenuTypes /\ AdapterTypes /\ HostTypes
        OBVIOUS
    <2>1. 0 \in 0 .. ButtonCount - 1 /\ 0 \in 0 .. 3 /\ 0 \in 0 .. MaxPads
        BY JoypadAssumption, Buttons1
    <2>2. MenuTypes
        BY <2>1 DEF JoypadInit, MenuTypes
    <2>3. AdapterTypes
        BY <2>1, JoypadAssumption DEF JoypadInit, AdapterTypes, NoPad
    <2>4. HostTypes
        BY DEF JoypadInit, HostTypes
    <2> QED BY <2>2, <2>3, <2>4
<1>2. InputInv /\ MenuTypes /\ AdapterTypes /\ HostTypes /\ [JoypadNext]_joypadVars
      => (MenuTypes /\ AdapterTypes /\ HostTypes)'
    BY MenuTypesStep, AdapterTypesStep, HostTypesStep DEF InputInv
<1>3. T => JoypadTypeOK
    <2> SUFFICES ASSUME T PROVE JoypadTypeOK
        OBVIOUS
    <2>1. pressed \subseteq Buttons /\ lastLines \subseteq Columns
        BY DEF InputInv, PortInv, AdapterTypes, Lines
    <2> QED BY <2>1 DEF InputInv, WorldInv, MenuTypes, AdapterTypes, HostTypes, JoypadTypeOK
<1> HIDE DEF T
<1>4. JoypadSpec => []T
    BY <1>1, <1>2, InputInvariant, PTL DEF JoypadSpec, T
<1> QED BY <1>3, <1>4, PTL

-----------------------------------------------------------------------------
(* The life of the hardware. A call in progress is the rest of one of five   *)
(* lists of steps, and how much of the hardware is there follows from where  *)
(* in its list the call is.                                                  *)

\* The calls, as lists of steps; a call in progress is the rest of one.
LoadPlan == Replacing \o Loading
BuildPlan(mode) ==
    Builds \o (IF mode = "cgb" THEN << Step("build", "cgb") >> ELSE <<>>) \o << Step("start", "cpu") >>
DestroyPlan == Drops \o << Step("close", "save"), Step("unload", "cartridge") >>
               \o << Step("erase", "emulator") >>
ShortPlan == << Step("close", "save") >> \o << Step("erase", "emulator") >>

Left(plan, k) == k \in 1 .. Len(plan) /\ todo = SubSeq(plan, k, Len(plan))

\* The devices of a machine in CGB mode in the order of the table; the first
\* eight are those of a machine in DMG mode.
Layout == << Device("ppu", 64, 69), Device("ppu", 71, 75), Device("ppu", 104, 108),
             Device("timer", 4, 7), Device("input", 0, 0), Device("dma", 70, 70),
             Device("audio", 16, 38), Device("audio", 48, 63), Device("audio", 118, 119),
             Device("cgb", 77, 77), Device("cgb", 81, 85), Device("cgb", 86, 86) >>

Filled(len) == [i \in 1 .. MaxDevices |-> IF i <= len THEN Layout[i] ELSE FreeSlot]

\* No part is built, mapped or connected.
Bare == built = {} /\ devices = EmptyTable /\ controllers = {} /\ ~apuCallback /\ cgbLinks = {}

Inserted == cartridge # NoCartridge /\ cartInitialized

\* Between two calls.
Rested == IF cartridge = NoCartridge THEN Bare ELSE IsWhole /\ Inserted

\* What is built before the k-th step of a build, the first of which makes the
\* memory and the next ones the parts.
PartOrder == <<"interrupt", "ppu", "timer", "input", "dma", "audio", "cgb">>
MappedBefore == <<0, 0, 0, 3, 4, 5, 6, IF memoryMode = "cgb" THEN 9 ELSE 8, 12>>

Built(k) ==
    /\ built = {PartOrder[i] : i \in 1 .. k - 2}
    /\ devices = Filled(MappedBefore[k])
    /\ controllers = {"cartridge"} \union (IF k > 2 THEN {"interrupt"} ELSE {})
                         \union (IF k > 3 THEN {"video"} ELSE {})
                         \union (IF k > 6 THEN {"dma"} ELSE {})
    /\ apuCallback <=> k > 7
    /\ cgbLinks = IF k > 8 THEN {"timer", "dma", "ppu"} ELSE {}

Building(k) == Inserted /\ IF k = 1 THEN Bare ELSE Built(k)

Phase ==
    \/ todo = <<>> /\ Rested
    \/ Left(LoadPlan, 1) /\ Rested
    \/ \E k \in 2 .. 10 : Left(LoadPlan, k)
    \/ Left(LoadPlan, 11) /\ Bare
    \/ \E k \in 12 .. 13 : Left(LoadPlan, k) /\ Bare /\ Inserted
    \/ \E m \in {"dmg", "cgb"}, k \in 1 .. 9 :
          memoryMode = m /\ Left(BuildPlan(m), k) /\ Building(k)
    \/ \E k \in 1 .. 9 : Left(CleanUp, k) /\ Bare
    \/ Left(CleanUp, 10) /\ Bare /\ cartridge = NoCartridge
    \/ \E k \in 1 .. 10 : Left(DestroyPlan, k)
    \/ \E k \in 1 .. 2 : Left(ShortPlan, k)

LifeInv == LifeTypeOK /\ GoodRomLoads /\ Phase

-----------------------------------------------------------------------------
StepNames ==
    {"flush", "drop", "unload", "clear", "close", "insert", "attach", "choose", "build", "start",
     "erase"}
    \X {"save", "cgb", "audio", "dma", "input", "timer", "ppu", "interrupt", "cartridge", "all",
        "memory", "mode", "cpu", "emulator"}

Steps(s, len) == s \in Seq(StepNames) /\ Len(s) = len
Joins(u, s, t) == u = s \o t

\* A step of a call, and what is left after it.
LEMMA PlanRest ==
    ASSUME NEW plan, NEW len \in Nat, Steps(plan, len), NEW k, Left(plan, k)
    PROVE  /\ k \in 1 .. len /\ todo # <<>> /\ Head(todo) = plan[k] /\ Len(todo) = len - k + 1
           /\ k = len => Tail(todo) = <<>>
           /\ k # len => /\ k + 1 \in 1 .. Len(plan)
                         /\ Tail(todo) = SubSeq(plan, k + 1, Len(plan))
<1> DEFINE rest == SubSeq(plan, k, Len(plan))
<1>1. /\ plan \in Seq(StepNames) /\ Len(plan) = len
      /\ k \in 1 .. Len(plan) /\ todo = rest /\ Len(plan) \in Nat
    BY DEF Left, Steps
<1>2. rest \in Seq(StepNames) /\ Len(rest) = Len(plan) - k + 1
      /\ \A i \in 1 .. Len(plan) - k + 1 : rest[i] = plan[k + i - 1]
    BY <1>1, SubSeqProperties
<1> HIDE DEF rest
<1>3. rest # <<>> /\ Head(rest) = rest[1] /\ rest[1] = plan[k]
    BY <1>1, <1>2
<1>4. Tail(rest) \in Seq(StepNames) /\ Len(Tail(rest)) = Len(plan) - k
      /\ \A i \in 1 .. Len(plan) - k : Tail(rest)[i] = plan[k + i]
    BY <1>1, <1>2, <1>3
<1>5. SubSeq(plan, k + 1, Len(plan)) \in Seq(StepNames)
      /\ Len(SubSeq(plan, k + 1, Len(plan))) = Len(plan) - k
      /\ \A i \in 1 .. Len(plan) - k : SubSeq(plan, k + 1, Len(plan))[i] = plan[k + i]
    BY <1>1, SubSeqProperties
<1>6. Tail(rest) = SubSeq(plan, k + 1, Len(plan))
    BY <1>4, <1>5, SeqEqual
<1>7. k = Len(plan) => Tail(rest) = <<>>
    <2> HAVE k = Len(plan)
    <2> DEFINE last == Tail(rest)
    <2>1. last \in Seq(StepNames) /\ Len(last) = 0
        BY <1>1, <1>4
    <2> HIDE DEF last
    <2>2. last = <<>>
        BY <2>1, EmptySeq
    <2> QED BY <2>2 DEF last
<1> QED BY <1>1, <1>2, <1>3, <1>6, <1>7

LEMMA Listed ==
    ASSUME NEW a \in StepNames, NEW b \in StepNames, NEW c \in StepNames, NEW d \in StepNames,
           NEW e \in StepNames, NEW f \in StepNames, NEW g \in StepNames
    PROVE  /\ <<a>> \in Seq(StepNames) /\ <<a, b>> \in Seq(StepNames)
           /\ <<a, b, c>> \in Seq(StepNames) /\ <<a, b, c, d, e, f, g>> \in Seq(StepNames)
OBVIOUS

\* The steps of a list of two parts.
LEMMA Joined ==
    ASSUME NEW m \in Nat, NEW n \in Nat, NEW s, NEW t, Steps(s, m), Steps(t, n),
           NEW u, Joins(u, s, t)
    PROVE  /\ Steps(u, m + n)
           /\ \A i \in 1 .. m : u[i] = s[i]
           /\ \A i \in 1 .. n : u[m + i] = t[i]
<1>1. Steps(u, m + n)
    BY DEF Steps, Joins
<1>2. \A i \in 1 .. m : u[i] = s[i]
    BY DEF Steps, Joins
<1>3. \A i \in 1 .. n : u[m + i] = t[i]
    BY DEF Steps, Joins
<1> QED BY <1>1, <1>2, <1>3

\* The last three steps of a list.
LEMMA Added ==
    ASSUME NEW m \in Nat, NEW s, NEW t, Steps(s, m), Steps(t, 3), NEW u, Joins(u, s, t)
    PROVE  u[m + 1] = t[1] /\ u[m + 2] = t[2] /\ u[m + 3] = t[3]
<1>1. \A i \in 1 .. 3 : u[m + i] = t[i]
    BY Joined
<1> QED BY <1>1

\* A list of one, two or three steps.
LEMMA Short ==
    ASSUME NEW a \in StepNames, NEW b \in StepNames, NEW c \in StepNames
    PROVE  /\ Steps(<<a>>, 1) /\ <<a>>[1] = a
           /\ Steps(<<a, b>>, 2) /\ <<a, b>>[1] = a /\ <<a, b>>[2] = b
           /\ Steps(<<a, b, c>>, 3)
           /\ <<a, b, c>>[1] = a /\ <<a, b, c>>[2] = b /\ <<a, b, c>>[3] = c
BY Listed DEF Steps

\* A list from its first step on is itself.
LEMMA Whole ==
    ASSUME NEW s, NEW len \in Nat \ {0}, Steps(s, len)
    PROVE  SubSeq(s, 1, Len(s)) = s /\ 1 \in 1 .. Len(s)
<1>1. s \in Seq(StepNames) /\ Len(s) \in Nat \ {0}
    BY DEF Steps
<1> QED BY <1>1, SubSeqFull

LEMMA DropsPlan ==
    /\ Steps(Drops, 7)
    /\ \A i \in 1 .. 7 : Drops[i][1] = "drop"
<1>1. /\ Drops[1] = <<"drop", "cgb">> /\ Drops[2] = <<"drop", "audio">>
      /\ Drops[3] = <<"drop", "dma">> /\ Drops[4] = <<"drop", "input">>
      /\ Drops[5] = <<"drop", "timer">> /\ Drops[6] = <<"drop", "ppu">>
      /\ Drops[7] = <<"drop", "interrupt">>
    BY DEF Drops, Step
<1>2. Len(Drops) = 7
    BY DEF Drops
<1>3. /\ Step("drop", "cgb") \in StepNames /\ Step("drop", "audio") \in StepNames
      /\ Step("drop", "dma") \in StepNames /\ Step("drop", "input") \in StepNames
      /\ Step("drop", "timer") \in StepNames /\ Step("drop", "ppu") \in StepNames
      /\ Step("drop", "interrupt") \in StepNames
    BY DEF Step, StepNames
<1>4. Drops \in Seq(StepNames)
    BY <1>3, Listed DEF Drops
<1>5. \A i \in 1 .. 7 : Drops[i][1] = "drop"
    BY <1>1
<1> QED BY <1>2, <1>4, <1>5 DEF Steps

LEMMA BuildsPlan ==
    /\ Steps(Builds, 7)
    /\ Builds[1] = <<"build", "memory">> /\ Builds[2] = <<"build", "interrupt">>
    /\ Builds[3] = <<"build", "ppu">> /\ Builds[4] = <<"build", "timer">>
    /\ Builds[5] = <<"build", "input">> /\ Builds[6] = <<"build", "dma">>
    /\ Builds[7] = <<"build", "audio">>
<1>1. /\ Builds[1] = <<"build", "memory">> /\ Builds[2] = <<"build", "interrupt">>
      /\ Builds[3] = <<"build", "ppu">> /\ Builds[4] = <<"build", "timer">>
      /\ Builds[5] = <<"build", "input">> /\ Builds[6] = <<"build", "dma">>
      /\ Builds[7] = <<"build", "audio">>
    BY DEF Builds, Step
<1>2. Len(Builds) = 7
    BY DEF Builds
<1>3. /\ Step("build", "memory") \in StepNames /\ Step("build", "interrupt") \in StepNames
      /\ Step("build", "ppu") \in StepNames /\ Step("build", "timer") \in StepNames
      /\ Step("build", "input") \in StepNames /\ Step("build", "dma") \in StepNames
      /\ Step("build", "audio") \in StepNames
    BY DEF Step, StepNames
<1>4. Builds \in Seq(StepNames)
    BY <1>3, Listed DEF Builds
<1> QED BY <1>1, <1>2, <1>4 DEF Steps

LEMMA LoadSteps ==
    /\ Steps(LoadPlan, 13)
    /\ LoadPlan[1] = <<"flush", "save">>
    /\ \A i \in 2 .. 8 : LoadPlan[i][1] = "drop"
    /\ LoadPlan[9] = <<"unload", "cartridge">> /\ LoadPlan[10] = <<"clear", "all">>
    /\ LoadPlan[11] = <<"insert", "cartridge">> /\ LoadPlan[12] = <<"attach", "save">>
    /\ LoadPlan[13] = <<"choose", "mode">>
    /\ 11 \in 1 .. Len(LoadPlan) /\ SubSeq(LoadPlan, 11, Len(LoadPlan)) = Loading
<1> DEFINE a == << Step("flush", "save") >>
           b == << Step("unload", "cartridge"), Step("clear", "all") >>
           c == Loading
<1>1. /\ Step("flush", "save") \in StepNames /\ Step("unload", "cartridge") \in StepNames
      /\ Step("clear", "all") \in StepNames /\ Step("insert", "cartridge") \in StepNames
      /\ Step("attach", "save") \in StepNames /\ Step("choose", "mode") \in StepNames
    BY DEF Step, StepNames
<1>2. /\ Steps(a, 1) /\ a[1] = Step("flush", "save")
      /\ Steps(b, 2) /\ b[1] = Step("unload", "cartridge") /\ b[2] = Step("clear", "all")
    BY <1>1, Short
<1>3. /\ Steps(c, 3) /\ c[1] = Step("insert", "cartridge")
      /\ c[2] = Step("attach", "save") /\ c[3] = Step("choose", "mode")
    BY <1>1, Short DEF Loading
<1> DEFINE d == a \o Drops
           e == d \o b
<1>4. Joins(d, a, Drops) /\ Joins(e, d, b)
    BY DEF Joins
<1>5. LoadPlan = e \o c
    <2>1. /\ a \in Seq(StepNames) /\ Drops \in Seq(StepNames) /\ b \in Seq(StepNames)
          /\ c \in Seq(StepNames)
        BY <1>2, <1>3, DropsPlan DEF Steps
    <2> QED BY <2>1 DEF LoadPlan, Replacing
<1>6. Joins(LoadPlan, e, c)
    BY <1>5 DEF Joins
<1> HIDE DEF a, b, c, d, e
<1>7. Steps(d, 8) /\ d[1] = a[1] /\ \A i \in 1 .. 7 : d[1 + i] = Drops[i]
    BY <1>2, <1>4, DropsPlan, Joined, SMTT(30)
<1>8. Steps(e, 10) /\ e[9] = b[1] /\ e[10] = b[2] /\ \A i \in 1 .. 8 : e[i] = d[i]
    BY <1>2, <1>4, <1>7, Joined
<1>9. /\ Steps(LoadPlan, 13) /\ \A i \in 1 .. 10 : LoadPlan[i] = e[i]
      /\ LoadPlan[11] = c[1] /\ LoadPlan[12] = c[2] /\ LoadPlan[13] = c[3]
    <2>1. Steps(LoadPlan, 13)
        BY <1>3, <1>6, <1>8, Joined
    <2>2. \A i \in 1 .. 10 : LoadPlan[i] = e[i]
        BY <1>3, <1>6, <1>8, Joined
    <2>3. LoadPlan[11] = c[1] /\ LoadPlan[12] = c[2] /\ LoadPlan[13] = c[3]
        BY <1>3, <1>6, <1>8, Added
    <2> QED BY <2>1, <2>2, <2>3
<1>10. ASSUME NEW i \in 2 .. 8 PROVE LoadPlan[i][1] = "drop"
    <2>1. i - 1 \in 1 .. 7 /\ 1 + (i - 1) = i /\ i \in 1 .. 8 /\ i \in 1 .. 10
        OBVIOUS
    <2> QED BY <1>7, <1>8, <1>9, <2>1, DropsPlan
<1>11. 11 \in 1 .. Len(LoadPlan) /\ SubSeq(LoadPlan, 11, Len(LoadPlan)) = c
    <2> DEFINE m == 11
               plan == LoadPlan
               rest == SubSeq(plan, m, Len(plan))
    <2>1. /\ m \in Nat /\ m \in 1 .. Len(plan) /\ Len(plan) - m + 1 = 3
          /\ plan \in Seq(StepNames)
          /\ plan[m] = c[1] /\ plan[m + 1] = c[2] /\ plan[m + 2] = c[3]
        BY <1>9 DEF Steps
    <2> HIDE DEF m, plan
    <2>2. /\ rest \in Seq(StepNames) /\ Len(rest) = Len(plan) - m + 1
          /\ \A i \in 1 .. Len(plan) - m + 1 : rest[i] = plan[m + i - 1]
        BY <2>1, SubSeqProperties
    <2> HIDE DEF rest
    <2>3. \A i \in 1 .. 3 : rest[i] = c[i]
        BY <2>1, <2>2
    <2>4. Len(rest) = 3 /\ c \in Seq(StepNames) /\ Len(c) = 3
        BY <1>3, <2>1, <2>2 DEF Steps
    <2>5. rest = c
        BY <2>2, <2>3, <2>4, SeqEqual
    <2> QED BY <2>1, <2>5 DEF rest, plan, m
<1>12. Loading = c
    BY DEF c
<1>13. /\ LoadPlan[1] = <<"flush", "save">>
       /\ LoadPlan[9] = <<"unload", "cartridge">> /\ LoadPlan[10] = <<"clear", "all">>
       /\ LoadPlan[11] = <<"insert", "cartridge">> /\ LoadPlan[12] = <<"attach", "save">>
       /\ LoadPlan[13] = <<"choose", "mode">>
    BY <1>2, <1>3, <1>7, <1>8, <1>9 DEF Step
<1> QED BY <1>9, <1>10, <1>11, <1>12, <1>13

LEMMA DmgSteps ==
    /\ Steps(BuildPlan("dmg"), 8)
    /\ \A i \in 1 .. 7 : BuildPlan("dmg")[i] = Builds[i]
    /\ BuildPlan("dmg")[8] = <<"start", "cpu">>
<1> DEFINE c == << Step("start", "cpu") >>
           plan == BuildPlan("dmg")
<1>1. Step("start", "cpu") \in StepNames
    BY DEF Step, StepNames
<1>2. Steps(c, 1) /\ c[1] = Step("start", "cpu")
    BY <1>1, Short
<1>3. Joins(plan, Builds, c)
    <2>1. c \in Seq(StepNames) /\ Builds \in Seq(StepNames)
        BY <1>2, BuildsPlan DEF Steps
    <2>2. Builds \o <<>> = Builds /\ <<>> \o c = c
        BY <2>1
    <2> QED BY <2>1, <2>2 DEF BuildPlan, Joins
<1> HIDE DEF c, plan
<1>4. Steps(plan, 8) /\ plan[8] = c[1] /\ \A i \in 1 .. 7 : plan[i] = Builds[i]
    BY <1>2, <1>3, BuildsPlan, Joined
<1> QED BY <1>2, <1>4 DEF plan, Step

LEMMA CgbSteps ==
    /\ Steps(BuildPlan("cgb"), 9)
    /\ \A i \in 1 .. 7 : BuildPlan("cgb")[i] = Builds[i]
    /\ BuildPlan("cgb")[8] = <<"build", "cgb">> /\ BuildPlan("cgb")[9] = <<"start", "cpu">>
<1> DEFINE b == << Step("build", "cgb") >>
           c == << Step("start", "cpu") >>
           d == Builds \o b
           plan == BuildPlan("cgb")
<1>1. Step("build", "cgb") \in StepNames /\ Step("start", "cpu") \in StepNames
    BY DEF Step, StepNames
<1>2. /\ Steps(b, 1) /\ b[1] = Step("build", "cgb")
      /\ Steps(c, 1) /\ c[1] = Step("start", "cpu")
    BY <1>1, Short
<1>3. Joins(d, Builds, b) /\ Joins(plan, d, c)
    <2>1. b \in Seq(StepNames) /\ c \in Seq(StepNames) /\ Builds \in Seq(StepNames)
        BY <1>2, BuildsPlan DEF Steps
    <2> QED BY <2>1 DEF BuildPlan, Joins
<1> HIDE DEF b, c, d, plan
<1>4. Steps(d, 8) /\ d[8] = b[1] /\ \A i \in 1 .. 7 : d[i] = Builds[i]
    <2>1. Steps(Builds, 7)
        BY BuildsPlan
    <2>2. Steps(d, 8)
        BY <1>2, <1>3, <2>1, Joined
    <2>3. d[8] = b[1]
        BY <1>2, <1>3, <2>1, Joined, SMTT(30)
    <2>4. \A i \in 1 .. 7 : d[i] = Builds[i]
        BY <1>2, <1>3, <2>1, Joined
    <2> QED BY <2>2, <2>3, <2>4
<1>5. Steps(plan, 9) /\ plan[9] = c[1] /\ \A i \in 1 .. 8 : plan[i] = d[i]
    BY <1>2, <1>3, <1>4, Joined
<1>6. plan[8] = d[8] /\ \A i \in 1 .. 7 : plan[i] = Builds[i]
    BY <1>4, <1>5
<1> QED BY <1>2, <1>4, <1>5, <1>6 DEF plan, Step

LEMMA CleanSteps ==
    /\ Steps(CleanUp, 10)
    /\ \A i \in 1 .. 7 : CleanUp[i][1] = "drop"
    /\ CleanUp[8] = <<"close", "save">> /\ CleanUp[9] = <<"unload", "cartridge">>
    /\ CleanUp[10] = <<"clear", "memory">>
<1> DEFINE b == << Step("close", "save"), Step("unload", "cartridge"), Step("clear", "memory") >>
<1>1. /\ Step("close", "save") \in StepNames /\ Step("unload", "cartridge") \in StepNames
      /\ Step("clear", "memory") \in StepNames
    BY DEF Step, StepNames
<1>2. /\ Steps(b, 3) /\ b[1] = Step("close", "save")
      /\ b[2] = Step("unload", "cartridge") /\ b[3] = Step("clear", "memory")
    BY <1>1, Short
<1>3. Joins(CleanUp, Drops, b)
    BY DEF CleanUp, Joins
<1> HIDE DEF b
<1>4. /\ Steps(CleanUp, 10)
      /\ CleanUp[8] = b[1] /\ CleanUp[9] = b[2] /\ CleanUp[10] = b[3]
      /\ \A i \in 1 .. 7 : CleanUp[i] = Drops[i]
    <2>1. Steps(Drops, 7)
        BY DropsPlan
    <2>2. Steps(CleanUp, 10)
        BY <1>2, <1>3, <2>1, Joined
    <2>3. CleanUp[8] = b[1] /\ CleanUp[9] = b[2] /\ CleanUp[10] = b[3]
        BY <1>2, <1>3, <2>1, Added
    <2>4. \A i \in 1 .. 7 : CleanUp[i] = Drops[i]
        BY <1>2, <1>3, <2>1, Joined
    <2> QED BY <2>2, <2>3, <2>4
<1> QED BY <1>2, <1>4, DropsPlan DEF Step

LEMMA DestroySteps ==
    /\ Steps(DestroyPlan, 10)
    /\ \A i \in 1 .. 7 : DestroyPlan[i][1] = "drop"
    /\ DestroyPlan[8] = <<"close", "save">> /\ DestroyPlan[9] = <<"unload", "cartridge">>
    /\ DestroyPlan[10] = <<"erase", "emulator">>
<1> DEFINE b == << Step("close", "save"), Step("unload", "cartridge") >>
           c == << Step("erase", "emulator") >>
           d == Drops \o b
<1>1. /\ Step("close", "save") \in StepNames /\ Step("unload", "cartridge") \in StepNames
      /\ Step("erase", "emulator") \in StepNames
    BY DEF Step, StepNames
<1>2. /\ Steps(b, 2) /\ b[1] = Step("close", "save") /\ b[2] = Step("unload", "cartridge")
      /\ Steps(c, 1) /\ c[1] = Step("erase", "emulator")
    BY <1>1, Short
<1>3. Joins(d, Drops, b) /\ Joins(DestroyPlan, d, c)
    <2>1. b \in Seq(StepNames) /\ c \in Seq(StepNames) /\ Drops \in Seq(StepNames)
        BY <1>2, DropsPlan DEF Steps
    <2> QED BY <2>1 DEF DestroyPlan, Joins
<1> HIDE DEF b, c, d
<1>4. Steps(d, 9) /\ d[8] = b[1] /\ d[9] = b[2] /\ \A i \in 1 .. 7 : d[i] = Drops[i]
    <2>1. Steps(Drops, 7)
        BY DropsPlan
    <2>2. Steps(d, 9)
        BY <1>2, <1>3, <2>1, Joined
    <2>3. d[8] = b[1] /\ d[9] = b[2]
        BY <1>2, <1>3, <2>1, Joined
    <2>4. \A i \in 1 .. 7 : d[i] = Drops[i]
        BY <1>2, <1>3, <2>1, Joined
    <2> QED BY <2>2, <2>3, <2>4
<1>5. /\ Steps(DestroyPlan, 10) /\ DestroyPlan[10] = c[1]
      /\ \A i \in 1 .. 9 : DestroyPlan[i] = d[i]
    BY <1>2, <1>3, <1>4, Joined
<1>6. /\ DestroyPlan[8] = b[1] /\ DestroyPlan[9] = b[2]
      /\ \A i \in 1 .. 7 : DestroyPlan[i] = Drops[i]
    BY <1>4, <1>5
<1> QED BY <1>2, <1>5, <1>6, DropsPlan DEF Step

LEMMA ShortSteps ==
    /\ Steps(ShortPlan, 2)
    /\ ShortPlan[1] = <<"close", "save">> /\ ShortPlan[2] = <<"erase", "emulator">>
<1> DEFINE b == << Step("close", "save") >>
           c == << Step("erase", "emulator") >>
<1>1. Step("close", "save") \in StepNames /\ Step("erase", "emulator") \in StepNames
    BY DEF Step, StepNames
<1>2. /\ Steps(b, 1) /\ b[1] = Step("close", "save")
      /\ Steps(c, 1) /\ c[1] = Step("erase", "emulator")
    BY <1>1, Short
<1>3. Joins(ShortPlan, b, c)
    BY DEF ShortPlan, Joins
<1> HIDE DEF b, c
<1>4. Steps(ShortPlan, 2) /\ ShortPlan[1] = b[1] /\ ShortPlan[2] = c[1]
    BY <1>2, <1>3, Joined
<1> QED BY <1>2, <1>4 DEF Step

-----------------------------------------------------------------------------
\* The device table has room for all parts of either mode.
HasRoom == MaxDevices >= 12

LEMMA DeviceFields ==
    ASSUME NEW unit, NEW first, NEW last
    PROVE  /\ Device(unit, first, last).owner = unit /\ Device(unit, first, last).first = first
           /\ Device(unit, first, last).last = last
BY DEF Device

LEMMA LayoutIs ==
    /\ Layout[1] = Device("ppu", 64, 69) /\ Layout[2] = Device("ppu", 71, 75)
    /\ Layout[3] = Device("ppu", 104, 108) /\ Layout[4] = Device("timer", 4, 7)
    /\ Layout[5] = Device("input", 0, 0) /\ Layout[6] = Device("dma", 70, 70)
    /\ Layout[7] = Device("audio", 16, 38) /\ Layout[8] = Device("audio", 48, 63)
    /\ Layout[9] = Device("audio", 118, 119) /\ Layout[10] = Device("cgb", 77, 77)
    /\ Layout[11] = Device("cgb", 81, 85) /\ Layout[12] = Device("cgb", 86, 86)
BY DEF Layout

LEMMA LayoutOwners ==
    ASSUME NEW i \in 1 .. 12
    PROVE  /\ Layout[i].owner =
                 CASE i \in 1 .. 3 -> "ppu" [] i = 4 -> "timer" [] i = 5 -> "input"
                   [] i = 6 -> "dma" [] i \in 7 .. 9 -> "audio" [] OTHER -> "cgb"
           /\ Layout[i] # FreeSlot
<1>1. /\ Layout[1].owner = "ppu" /\ Layout[2].owner = "ppu" /\ Layout[3].owner = "ppu"
      /\ Layout[4].owner = "timer" /\ Layout[5].owner = "input" /\ Layout[6].owner = "dma"
      /\ Layout[7].owner = "audio" /\ Layout[8].owner = "audio" /\ Layout[9].owner = "audio"
      /\ Layout[10].owner = "cgb" /\ Layout[11].owner = "cgb" /\ Layout[12].owner = "cgb"
    BY LayoutIs, DeviceFields
<1>2. FreeSlot.owner = "none"
    BY DeviceFields DEF FreeSlot
<1>3. \/ i = 1 \/ i = 2 \/ i = 3 \/ i = 4 \/ i = 5 \/ i = 6 \/ i = 7 \/ i = 8 \/ i = 9
      \/ i = 10 \/ i = 11 \/ i = 12
    OBVIOUS
<1>4. Layout[i].owner =
         CASE i \in 1 .. 3 -> "ppu" [] i = 4 -> "timer" [] i = 5 -> "input"
           [] i = 6 -> "dma" [] i \in 7 .. 9 -> "audio" [] OTHER -> "cgb"
    BY <1>1, <1>3
<1>5. Layout[i].owner # "none"
    BY <1>1, <1>3
<1> QED BY <1>2, <1>4, <1>5

\* No two devices overlap.
LEMMA LayoutApart ==
    ASSUME NEW i \in 1 .. 12, NEW j \in 1 .. 12, i # j
    PROVE  Layout[j].last < Layout[i].first \/ Layout[j].first > Layout[i].last
<1>1. /\ Layout[1].first = 64 /\ Layout[1].last = 69 /\ Layout[2].first = 71 /\ Layout[2].last = 75
      /\ Layout[3].first = 104 /\ Layout[3].last = 108 /\ Layout[4].first = 4 /\ Layout[4].last = 7
      /\ Layout[5].first = 0 /\ Layout[5].last = 0 /\ Layout[6].first = 70 /\ Layout[6].last = 70
    BY LayoutIs, DeviceFields
<1>2. /\ Layout[7].first = 16 /\ Layout[7].last = 38 /\ Layout[8].first = 48 /\ Layout[8].last = 63
      /\ Layout[9].first = 118 /\ Layout[9].last = 119
      /\ Layout[10].first = 77 /\ Layout[10].last = 77
      /\ Layout[11].first = 81 /\ Layout[11].last = 85
      /\ Layout[12].first = 86 /\ Layout[12].last = 86
    BY LayoutIs, DeviceFields
<1>3. \/ i = 1 \/ i = 2 \/ i = 3 \/ i = 4 \/ i = 5 \/ i = 6 \/ i = 7 \/ i = 8 \/ i = 9
      \/ i = 10 \/ i = 11 \/ i = 12
    OBVIOUS
<1>4. \/ j = 1 \/ j = 2 \/ j = 3 \/ j = 4 \/ j = 5 \/ j = 6 \/ j = 7 \/ j = 8 \/ j = 9
      \/ j = 10 \/ j = 11 \/ j = 12
    OBVIOUS
<1> QED BY <1>1, <1>2, <1>3, <1>4

\* Mapping the next device of the layout adds it to the table.
Follows(unit, k, len, next) ==
    /\ k \in 1 .. Len(Ranges(unit)) /\ len \in 0 .. 11 /\ next = len + 1
    /\ Ranges(unit)[k][1] = Layout[next].first /\ Ranges(unit)[k][2] = Layout[next].last
    /\ Layout[next] = Device(unit, Layout[next].first, Layout[next].last)

LEMMA MapNext ==
    ASSUME LifecycleAssumption, HasRoom, NEW unit, NEW k, NEW len, NEW next,
           Follows(unit, k, len, next)
    PROVE  MapRange(Filled(len), unit, k) = Filled(next)
<1> DEFINE range == Ranges(unit)[k]
           table == Filled(len)
<1>0. next = len + 1 /\ len \in 0 .. 11
    BY DEF Follows
<1>1. /\ next \in 1 .. 12 /\ next \in 1 .. MaxDevices /\ MaxDevices \in Nat
    BY <1>0 DEF HasRoom, LifecycleAssumption
<1>2. /\ range[1] = Layout[next].first /\ range[2] = Layout[next].last
    BY DEF Follows
<1>3. DOMAIN table = 1 .. MaxDevices /\ table[next] = FreeSlot
      /\ \A i \in 1 .. MaxDevices : table[i] = IF i <= len THEN Layout[i] ELSE FreeSlot
    BY <1>0, <1>1 DEF Filled
<1> HIDE DEF table
<1>4. \A i \in DOMAIN table : ~Taken(table[i], range)
    <2> TAKE i \in DOMAIN table
    <2>1. CASE i <= len
        <3>1. i \in 1 .. 12 /\ i # next /\ table[i] = Layout[i]
            BY <1>0, <1>1, <1>3, <2>1, SMTT(30)
        <3>2. Layout[next].last < Layout[i].first \/ Layout[next].first > Layout[i].last
            BY <1>1, <3>1, LayoutApart
        <3> QED BY <1>2, <3>1, <3>2 DEF Taken
    <2>2. CASE ~(i <= len)
        BY <1>3, <2>2 DEF Taken
    <2> QED BY <2>1, <2>2
<1>5. CanMap(table, range)
    BY <1>1, <1>3, <1>4 DEF CanMap
<1>6. \A j \in 1 .. len : table[j] # FreeSlot
    <2> TAKE j \in 1 .. len
    <2>1. j \in 1 .. 12 /\ j \in 1 .. MaxDevices /\ j <= len
        BY <1>0, <1>1
    <2> QED BY <1>3, <2>1, LayoutOwners
<1>7. FirstFree(table) = next
    <2> DEFINE First(i) == table[i] = FreeSlot /\ \A j \in 1 .. i - 1 : table[j] # FreeSlot
    <2>1. next \in DOMAIN table /\ First(next)
        BY <1>0, <1>1, <1>3, <1>6
    <2>2. ASSUME NEW i \in DOMAIN table, First(i) PROVE i = next
        <3>1. i \in 1 .. MaxDevices /\ i \in Int /\ next \in Int
            BY <1>1, <1>3
        <3>2. ~(i < next)
            BY <1>0, <1>6, <2>2, <3>1
        <3>3. ~(next < i)
            BY <1>1, <1>3, <2>2, <3>1
        <3> QED BY <3>1, <3>2, <3>3
    <2>3. FirstFree(table) = CHOOSE i \in DOMAIN table : First(i)
        BY DEF FirstFree
    <2> QED BY <2>1, <2>2, <2>3
<1>8. table # NoTable
    <2>1. DOMAIN NoTable = {}
        BY DEF NoTable
    <2> QED BY <1>1, <1>3, <2>1
<1>9. MapRange(table, unit, k) = [table EXCEPT ![next] = Device(unit, range[1], range[2])]
    <2>1. ~(k > Len(Ranges(unit)))
        BY DEF Follows
    <2> QED BY <1>5, <1>7, <1>8, <2>1 DEF MapRange
<1>10. Device(unit, range[1], range[2]) = Layout[next]
    BY <1>2 DEF Follows
<1>11. [table EXCEPT ![next] = Layout[next]] = Filled(next)
    <2> DEFINE filled == [table EXCEPT ![next] = Layout[next]]
    <2>1. DOMAIN filled = 1 .. MaxDevices
          /\ \A i \in 1 .. MaxDevices : filled[i] = IF i = next THEN Layout[next] ELSE table[i]
        BY <1>3
    <2>2. filled = [i \in 1 .. MaxDevices |-> filled[i]]
        BY <2>1
    <2> HIDE DEF filled
    <2>3. \A i \in 1 .. MaxDevices : filled[i] = IF i <= next THEN Layout[i] ELSE FreeSlot
        BY <1>0, <1>1, <1>3, <2>1
    <2>4. filled = Filled(next)
        BY <2>2, <2>3 DEF Filled
    <2> QED BY <2>4 DEF filled
<1> QED BY <1>9, <1>10, <1>11 DEF table

\* A part with fewer ranges leaves the table alone after the last one.
Exhausted(unit, k) == k \in Nat /\ Len(Ranges(unit)) \in Nat /\ k > Len(Ranges(unit))

LEMMA MapNone ==
    ASSUME NEW table, NEW unit, NEW k, Exhausted(unit, k)
    PROVE  MapRange(table, unit, k) = table
BY DEF MapRange, Exhausted

LEMMA TableIsThere == LifecycleAssumption /\ HasRoom => \A len \in Nat : Filled(len) # NoTable
<1> SUFFICES ASSUME LifecycleAssumption, HasRoom, NEW len \in Nat PROVE Filled(len) # NoTable
    OBVIOUS
<1>1. DOMAIN NoTable = {}
    BY DEF NoTable
<1>2. 1 \in DOMAIN Filled(len)
    BY DEF Filled, HasRoom, LifecycleAssumption
<1> QED BY <1>1, <1>2

\* The ranges of a part, and the table after all of them.
LEMMA PartsMapped ==
    ASSUME LifecycleAssumption, HasRoom, memoryMode \in {"dmg", "cgb"}
    PROVE  /\ Mapped(Filled(0), "interrupt") = Filled(0)
           /\ Mapped(Filled(0), "ppu") = Filled(3)
           /\ Mapped(Filled(3), "timer") = Filled(4)
           /\ Mapped(Filled(4), "input") = Filled(5)
           /\ Mapped(Filled(5), "dma") = Filled(6)
           /\ Mapped(Filled(6), "audio") = Filled(IF memoryMode = "cgb" THEN 9 ELSE 8)
           /\ Mapped(Filled(9), "cgb") = Filled(12)
<1>1. Mapped(Filled(0), "interrupt") = Filled(0)
    <2>1. Ranges("interrupt") = <<>>
        BY DEF Ranges
    <2>2. Len(Ranges("interrupt")) = 0
        BY <2>1
    <2>3. Exhausted("interrupt", 1) /\ Exhausted("interrupt", 2) /\ Exhausted("interrupt", 3)
        BY <2>2 DEF Exhausted
    <2> QED BY <2>3, MapNext, MapNone DEF Mapped
<1>2. Mapped(Filled(0), "ppu") = Filled(3)
    <2>1. Ranges("ppu") = << <<64, 69>>, <<71, 75>>, <<104, 108>> >>
        BY DEF Ranges
    <2>2. Len(Ranges("ppu")) = 3
        BY <2>1
    <2>3. Follows("ppu", 1, 0, 1)
        <3>1. Ranges("ppu")[1][1] = 64 /\ Ranges("ppu")[1][2] = 69
            BY <2>1
        <3>2. Layout[1] = Device("ppu", 64, 69)
            BY LayoutIs
        <3> QED BY <3>1, <3>2, <2>2, DeviceFields DEF Follows
    <2>4. Follows("ppu", 2, 1, 2)
        <3>1. Ranges("ppu")[2][1] = 71 /\ Ranges("ppu")[2][2] = 75
            BY <2>1
        <3>2. Layout[2] = Device("ppu", 71, 75)
            BY LayoutIs
        <3> QED BY <3>1, <3>2, <2>2, DeviceFields DEF Follows
    <2>5. Follows("ppu", 3, 2, 3)
        <3>1. Ranges("ppu")[3][1] = 104 /\ Ranges("ppu")[3][2] = 108
            BY <2>1
        <3>2. Layout[3] = Device("ppu", 104, 108)
            BY LayoutIs
        <3> QED BY <3>1, <3>2, <2>2, DeviceFields DEF Follows
    <2> QED BY <2>3, <2>4, <2>5, MapNext, MapNone DEF Mapped
<1>3. Mapped(Filled(3), "timer") = Filled(4)
    <2>1. Ranges("timer") = << <<4, 7>> >>
        BY DEF Ranges
    <2>2. Len(Ranges("timer")) = 1
        BY <2>1
    <2>3. Follows("timer", 1, 3, 4)
        <3>1. Ranges("timer")[1][1] = 4 /\ Ranges("timer")[1][2] = 7
            BY <2>1
        <3>2. Layout[4] = Device("timer", 4, 7)
            BY LayoutIs
        <3> QED BY <3>1, <3>2, <2>2, DeviceFields DEF Follows
    <2>4. Exhausted("timer", 2) /\ Exhausted("timer", 3)
        BY <2>2 DEF Exhausted
    <2> QED BY <2>3, <2>4, MapNext, MapNone DEF Mapped
<1>4. Mapped(Filled(4), "input") = Filled(5)
    <2>1. Ranges("input") = << <<0, 0>> >>
        BY DEF Ranges
    <2>2. Len(Ranges("input")) = 1
        BY <2>1
    <2>3. Follows("input", 1, 4, 5)
        <3>1. Ranges("input")[1][1] = 0 /\ Ranges("input")[1][2] = 0
            BY <2>1
        <3>2. Layout[5] = Device("input", 0, 0)
            BY LayoutIs
        <3> QED BY <3>1, <3>2, <2>2, DeviceFields DEF Follows
    <2>4. Exhausted("input", 2) /\ Exhausted("input", 3)
        BY <2>2 DEF Exhausted
    <2> QED BY <2>3, <2>4, MapNext, MapNone DEF Mapped
<1>5. Mapped(Filled(5), "dma") = Filled(6)
    <2>1. Ranges("dma") = << <<70, 70>> >>
        BY DEF Ranges
    <2>2. Len(Ranges("dma")) = 1
        BY <2>1
    <2>3. Follows("dma", 1, 5, 6)
        <3>1. Ranges("dma")[1][1] = 70 /\ Ranges("dma")[1][2] = 70
            BY <2>1
        <3>2. Layout[6] = Device("dma", 70, 70)
            BY LayoutIs
        <3> QED BY <3>1, <3>2, <2>2, DeviceFields DEF Follows
    <2>4. Exhausted("dma", 2) /\ Exhausted("dma", 3)
        BY <2>2 DEF Exhausted
    <2> QED BY <2>3, <2>4, MapNext, MapNone DEF Mapped
<1>6. Mapped(Filled(6), "audio") = Filled(IF memoryMode = "cgb" THEN 9 ELSE 8)
    <2>1. CASE memoryMode = "cgb"
        <3>1. Ranges("audio") = << <<16, 38>>, <<48, 63>>, <<118, 119>> >>
            BY <2>1 DEF Ranges
        <3>2. Len(Ranges("audio")) = 3
            BY <3>1
        <3>3. Follows("audio", 1, 6, 7)
            <4>1. Ranges("audio")[1][1] = 16 /\ Ranges("audio")[1][2] = 38
                BY <3>1
            <4>2. Layout[7] = Device("audio", 16, 38)
                BY LayoutIs
            <4> QED BY <4>1, <4>2, <3>2, DeviceFields DEF Follows
        <3>4. Follows("audio", 2, 7, 8)
            <4>1. Ranges("audio")[2][1] = 48 /\ Ranges("audio")[2][2] = 63
                BY <3>1
            <4>2. Layout[8] = Device("audio", 48, 63)
                BY LayoutIs
            <4> QED BY <4>1, <4>2, <3>2, DeviceFields DEF Follows
        <3>5. Follows("audio", 3, 8, 9)
            <4>1. Ranges("audio")[3][1] = 118 /\ Ranges("audio")[3][2] = 119
                BY <3>1
            <4>2. Layout[9] = Device("audio", 118, 119)
                BY LayoutIs
            <4> QED BY <4>1, <4>2, <3>2, DeviceFields DEF Follows
        <3> QED BY <2>1, <3>3, <3>4, <3>5, MapNext, MapNone DEF Mapped
    <2>2. CASE memoryMode = "dmg"
        <3>1. Ranges("audio") = << <<16, 38>>, <<48, 63>> >>
            BY <2>2 DEF Ranges
        <3>2. Len(Ranges("audio")) = 2
            BY <3>1
        <3>3. Follows("audio", 1, 6, 7)
            <4>1. Ranges("audio")[1][1] = 16 /\ Ranges("audio")[1][2] = 38
                BY <3>1
            <4>2. Layout[7] = Device("audio", 16, 38)
                BY LayoutIs
            <4> QED BY <4>1, <4>2, <3>2, DeviceFields DEF Follows
        <3>4. Follows("audio", 2, 7, 8)
            <4>1. Ranges("audio")[2][1] = 48 /\ Ranges("audio")[2][2] = 63
                BY <3>1
            <4>2. Layout[8] = Device("audio", 48, 63)
                BY LayoutIs
            <4> QED BY <4>1, <4>2, <3>2, DeviceFields DEF Follows
        <3>5. Exhausted("audio", 3)
            BY <3>2 DEF Exhausted
        <3> QED BY <2>2, <3>3, <3>4, <3>5, MapNext, MapNone DEF Mapped
    <2> QED BY <2>1, <2>2
<1>7. Mapped(Filled(9), "cgb") = Filled(12)
    <2>1. Ranges("cgb") = << <<77, 77>>, <<81, 85>>, <<86, 86>> >>
        BY DEF Ranges
    <2>2. Len(Ranges("cgb")) = 3
        BY <2>1
    <2>3. Follows("cgb", 1, 9, 10)
        <3>1. Ranges("cgb")[1][1] = 77 /\ Ranges("cgb")[1][2] = 77
            BY <2>1
        <3>2. Layout[10] = Device("cgb", 77, 77)
            BY LayoutIs
        <3> QED BY <3>1, <3>2, <2>2, DeviceFields DEF Follows
    <2>4. Follows("cgb", 2, 10, 11)
        <3>1. Ranges("cgb")[2][1] = 81 /\ Ranges("cgb")[2][2] = 85
            BY <2>1
        <3>2. Layout[11] = Device("cgb", 81, 85)
            BY LayoutIs
        <3> QED BY <3>1, <3>2, <2>2, DeviceFields DEF Follows
    <2>5. Follows("cgb", 3, 11, 12)
        <3>1. Ranges("cgb")[3][1] = 86 /\ Ranges("cgb")[3][2] = 86
            BY <2>1
        <3>2. Layout[12] = Device("cgb", 86, 86)
            BY LayoutIs
        <3> QED BY <3>1, <3>2, <2>2, DeviceFields DEF Follows
    <2> QED BY <2>3, <2>4, <2>5, MapNext, MapNone DEF Mapped
<1> QED BY <1>1, <1>2, <1>3, <1>4, <1>5, <1>6, <1>7

\* The part a step of a build makes, and how far it fills the table.
LEMMA BuildStep ==
    ASSUME LifecycleAssumption, HasRoom, NEW mode \in {"dmg", "cgb"}, memoryMode = mode,
           NEW k \in 2 .. 8, NEW len \in Nat, Steps(BuildPlan(mode), len), k # len,
           Left(BuildPlan(mode), k)
    PROVE  /\ Head(todo) = <<"build", PartOrder[k - 1]>>
           /\ Mapped(Filled(MappedBefore[k]), PartOrder[k - 1]) = Filled(MappedBefore[k + 1])
           /\ MappedBefore[k + 1] \in Nat
<1> DEFINE plan == BuildPlan(mode)
<1>1. /\ PartOrder[1] = "interrupt" /\ PartOrder[2] = "ppu" /\ PartOrder[3] = "timer"
      /\ PartOrder[4] = "input" /\ PartOrder[5] = "dma" /\ PartOrder[6] = "audio"
      /\ PartOrder[7] = "cgb"
    BY DEF PartOrder
<1>2. /\ MappedBefore[2] = 0 /\ MappedBefore[3] = 0 /\ MappedBefore[4] = 3 /\ MappedBefore[5] = 4
      /\ MappedBefore[6] = 5 /\ MappedBefore[7] = 6
      /\ MappedBefore[8] = (IF memoryMode = "cgb" THEN 9 ELSE 8) /\ MappedBefore[9] = 12
    BY DEF MappedBefore
<1>3. /\ len = IF mode = "cgb" THEN 9 ELSE 8
      /\ \A i \in 1 .. 7 : plan[i] = Builds[i]
      /\ mode = "cgb" => plan[8] = <<"build", "cgb">>
    <2>1. Len(plan) = IF mode = "cgb" THEN 9 ELSE 8
        BY DmgSteps, CgbSteps DEF Steps
    <2>2. Len(plan) = len
        BY DEF Steps
    <2> QED BY <2>1, <2>2, DmgSteps, CgbSteps
<1>4. Head(todo) = plan[k]
    BY PlanRest
<1>5. k = 8 => mode = "cgb"
    BY <1>3
<1> HIDE DEF plan
<1>6. \/ k = 2 \/ k = 3 \/ k = 4 \/ k = 5 \/ k = 6 \/ k = 7 \/ k = 8
    OBVIOUS
<1>7. plan[k] = <<"build", PartOrder[k - 1]>>
    <2>1. /\ plan[2] = <<"build", "interrupt">> /\ plan[3] = <<"build", "ppu">>
          /\ plan[4] = <<"build", "timer">> /\ plan[5] = <<"build", "input">>
          /\ plan[6] = <<"build", "dma">> /\ plan[7] = <<"build", "audio">>
        BY <1>3, BuildsPlan
    <2> QED BY <1>1, <1>3, <1>5, <1>6, <2>1
<1>8. /\ Mapped(Filled(MappedBefore[k]), PartOrder[k - 1]) = Filled(MappedBefore[k + 1])
      /\ MappedBefore[k + 1] \in Nat
    <2>1. CASE k = 2
        BY <1>1, <1>2, <2>1, PartsMapped
    <2>2. CASE k = 3
        BY <1>1, <1>2, <2>2, PartsMapped
    <2>3. CASE k = 4
        BY <1>1, <1>2, <2>3, PartsMapped
    <2>4. CASE k = 5
        BY <1>1, <1>2, <2>4, PartsMapped
    <2>5. CASE k = 6
        BY <1>1, <1>2, <2>5, PartsMapped
    <2>6. CASE k = 7
        BY <1>1, <1>2, <2>6, PartsMapped
    <2>7. CASE k = 8
        BY <1>1, <1>2, <1>5, <2>7, PartsMapped
    <2> QED BY <1>6, <2>1, <2>2, <2>3, <2>4, <2>5, <2>6, <2>7
<1> QED BY <1>4, <1>7, <1>8

-----------------------------------------------------------------------------
\* The verbs of the steps of each call.
LEMMA LoadVerbs ==
    ASSUME NEW k \in 1 .. 13
    PROVE  LoadPlan[k][1] =
              CASE k = 1 -> "flush" [] k \in 2 .. 8 -> "drop" [] k = 9 -> "unload"
                [] k = 10 -> "clear" [] k = 11 -> "insert" [] k = 12 -> "attach"
                [] OTHER -> "choose"
<1>1. CASE k \in 2 .. 8
    BY <1>1, LoadSteps, SMTT(30)
<1>2. CASE k \notin 2 .. 8
    <2>1. k = 1 \/ k = 9 \/ k = 10 \/ k = 11 \/ k = 12 \/ k = 13
        BY <1>2
    <2>2. /\ LoadPlan[1][1] = "flush" /\ LoadPlan[9][1] = "unload" /\ LoadPlan[10][1] = "clear"
          /\ LoadPlan[11][1] = "insert" /\ LoadPlan[12][1] = "attach"
          /\ LoadPlan[13][1] = "choose"
        BY LoadSteps
    <2> QED BY <2>1, <2>2
<1> QED BY <1>1, <1>2

LEMMA CleanVerbs ==
    ASSUME NEW k \in 1 .. 10
    PROVE  CleanUp[k][1] =
              CASE k \in 1 .. 7 -> "drop" [] k = 8 -> "close" [] k = 9 -> "unload"
                [] OTHER -> "clear"
<1>1. CASE k \in 1 .. 7
    BY <1>1, CleanSteps
<1>2. CASE k \notin 1 .. 7
    <2>1. k = 8 \/ k = 9 \/ k = 10
        BY <1>2
    <2>2. CleanUp[8][1] = "close" /\ CleanUp[9][1] = "unload" /\ CleanUp[10][1] = "clear"
        BY CleanSteps
    <2> QED BY <2>1, <2>2
<1> QED BY <1>1, <1>2

LEMMA DestroyVerbs ==
    ASSUME NEW k \in 1 .. 10
    PROVE  DestroyPlan[k][1] =
              CASE k \in 1 .. 7 -> "drop" [] k = 8 -> "close" [] k = 9 -> "unload"
                [] OTHER -> "erase"
<1>1. CASE k \in 1 .. 7
    BY <1>1, DestroySteps
<1>2. CASE k \notin 1 .. 7
    <2>1. k = 8 \/ k = 9 \/ k = 10
        BY <1>2
    <2>2. DestroyPlan[8][1] = "close" /\ DestroyPlan[9][1] = "unload" /\ DestroyPlan[10][1] = "erase"
        BY DestroySteps
    <2> QED BY <2>1, <2>2
<1> QED BY <1>1, <1>2

LEMMA ShortVerbs ==
    ASSUME NEW k \in 1 .. 2
    PROVE  ShortPlan[k][1] = IF k = 1 THEN "close" ELSE "erase"
<1>1. k = 1 \/ k = 2
    OBVIOUS
<1>2. ShortPlan[1][1] = "close" /\ ShortPlan[2][1] = "erase"
    BY ShortSteps
<1> QED BY <1>1, <1>2

\* The length of a build.
BuildLength(mode) == IF mode = "cgb" THEN 9 ELSE 8

LEMMA BuildSteps ==
    ASSUME NEW mode \in {"dmg", "cgb"}
    PROVE  /\ Steps(BuildPlan(mode), BuildLength(mode))
           /\ BuildPlan(mode)[1] = <<"build", "memory">>
           /\ \A k \in 1 .. BuildLength(mode) :
                 BuildPlan(mode)[k][1] = IF k = BuildLength(mode) THEN "start" ELSE "build"
<1>1. \A i \in 1 .. 7 : BuildPlan(mode)[i] = Builds[i]
    BY DmgSteps, CgbSteps
<1>2. \A i \in 1 .. 7 : BuildPlan(mode)[i][1] = "build"
    <2>1. \A i \in 1 .. 7 : i = 1 \/ i = 2 \/ i = 3 \/ i = 4 \/ i = 5 \/ i = 6 \/ i = 7
        OBVIOUS
    <2>2. /\ Builds[1][1] = "build" /\ Builds[2][1] = "build" /\ Builds[3][1] = "build"
          /\ Builds[4][1] = "build" /\ Builds[5][1] = "build" /\ Builds[6][1] = "build"
          /\ Builds[7][1] = "build"
        BY BuildsPlan
    <2> QED BY <1>1, <2>1, <2>2
<1>3. BuildPlan(mode)[1] = <<"build", "memory">>
    BY <1>1, BuildsPlan
<1>4. CASE mode = "dmg"
    <2>1. BuildLength(mode) = 8
        BY <1>4 DEF BuildLength
    <2>2. BuildPlan(mode)[8][1] = "start"
        BY <1>4, DmgSteps
    <2>3. Steps(BuildPlan(mode), 8)
        BY <1>4, DmgSteps
    <2>4. \A k \in 1 .. 8 : k = 8 \/ (k # 8 /\ k \in 1 .. 7)
        OBVIOUS
    <2> QED BY <1>2, <1>3, <2>1, <2>2, <2>3, <2>4
<1>5. CASE mode = "cgb"
    <2>1. BuildLength(mode) = 9
        BY <1>5 DEF BuildLength
    <2>2. BuildPlan(mode)[8][1] = "build" /\ BuildPlan(mode)[9][1] = "start"
        BY <1>5, CgbSteps
    <2>3. Steps(BuildPlan(mode), 9)
        BY <1>5, CgbSteps
    <2>4. \A k \in 1 .. 9 : k = 9 \/ (k = 8 /\ k # 9) \/ (k # 9 /\ k \in 1 .. 7)
        OBVIOUS
    <2> QED BY <1>2, <1>3, <2>1, <2>2, <2>3, <2>4
<1> QED BY <1>4, <1>5

\* Where a call is when it takes a step of a kind.
LEMMA Places ==
    ASSUME Phase
    PROVE  /\ Idling => Rested
           /\ Doing("flush") => Left(LoadPlan, 1) /\ Rested
           /\ Doing("drop") => \/ \E k \in 2 .. 8 : Left(LoadPlan, k)
                               \/ \E k \in 1 .. 7 : Left(CleanUp, k) /\ Bare
                               \/ \E k \in 1 .. 7 : Left(DestroyPlan, k)
           /\ Doing("unload") => \/ Left(LoadPlan, 9)
                                 \/ Left(CleanUp, 9) /\ Bare
                                 \/ Left(DestroyPlan, 9)
           /\ Doing("clear") => \/ Left(LoadPlan, 10)
                                \/ Left(CleanUp, 10) /\ Bare /\ cartridge = NoCartridge
           /\ Doing("insert") => Left(LoadPlan, 11) /\ Bare
           /\ Doing("attach") => Left(LoadPlan, 12) /\ Bare /\ Inserted
           /\ Doing("choose") => Left(LoadPlan, 13) /\ Bare /\ Inserted
           /\ Doing("build") => \E m \in {"dmg", "cgb"}, k \in 1 .. 8 :
                 /\ memoryMode = m /\ Left(BuildPlan(m), k) /\ k # BuildLength(m) /\ Building(k)
           /\ Doing("start") => \E m \in {"dmg", "cgb"} :
                 /\ memoryMode = m /\ Left(BuildPlan(m), BuildLength(m))
                 /\ Building(BuildLength(m))
           /\ Doing("close") => \/ Left(CleanUp, 8) /\ Bare
                                \/ Left(DestroyPlan, 8)
                                \/ Left(ShortPlan, 1)
<1> DEFINE verb == Head(todo)[1]
<1>1. CASE todo = <<>> /\ Rested
    BY <1>1 DEF Doing, Idling
<1>2. CASE Left(LoadPlan, 1) /\ Rested
    <2>1. todo # <<>> /\ Head(todo) = LoadPlan[1]
        BY <1>2, LoadSteps, PlanRest
    <2>2. verb = "flush"
        BY <2>1, LoadSteps
    <2> QED BY <1>2, <2>1, <2>2 DEF Doing, Idling
<1>3. ASSUME NEW k \in 2 .. 10, Left(LoadPlan, k)
      PROVE  /\ ~Idling /\ (Doing("drop") => k \in 2 .. 8) /\ (Doing("unload") => k = 9)
             /\ (Doing("clear") => k = 10)
             /\ verb \in {"drop", "unload", "clear"}
    <2>1. todo # <<>> /\ Head(todo) = LoadPlan[k]
        BY <1>3, LoadSteps, PlanRest
    <2>2. verb = CASE k \in 2 .. 8 -> "drop" [] k = 9 -> "unload" [] OTHER -> "clear"
        <3>1. k \in 1 .. 13 /\ k # 1 /\ k # 11 /\ k # 12 /\ k # 13
            OBVIOUS
        <3>2. k \in 2 .. 8 \/ k = 9 \/ k = 10
            OBVIOUS
        <3> QED BY <2>1, <3>1, <3>2, LoadVerbs
    <2> QED BY <2>1, <2>2 DEF Doing, Idling
<1>4. CASE \E k \in 2 .. 10 : Left(LoadPlan, k)
    BY <1>3, <1>4 DEF Doing
<1>5. CASE Left(LoadPlan, 11) /\ Bare
    <2>1. todo # <<>> /\ Head(todo) = LoadPlan[11]
        BY <1>5, LoadSteps, PlanRest
    <2>2. verb = "insert"
        BY <2>1, LoadSteps, SMTT(30)
    <2> QED BY <1>5, <2>1, <2>2 DEF Doing, Idling
<1>6. CASE Left(LoadPlan, 12) /\ Bare /\ Inserted
    <2>1. todo # <<>> /\ Head(todo) = LoadPlan[12]
        BY <1>6, LoadSteps, PlanRest
    <2>2. verb = "attach"
        BY <2>1, LoadSteps, SMTT(30)
    <2> QED BY <1>6, <2>1, <2>2 DEF Doing, Idling
<1>7. CASE Left(LoadPlan, 13) /\ Bare /\ Inserted
    <2>1. todo # <<>> /\ Head(todo) = LoadPlan[13]
        BY <1>7, LoadSteps, PlanRest
    <2>2. verb = "choose"
        BY <2>1, LoadSteps
    <2> QED BY <1>7, <2>1, <2>2 DEF Doing, Idling
<1>8. ASSUME NEW m \in {"dmg", "cgb"}, NEW k \in 1 .. 9, Left(BuildPlan(m), k)
      PROVE  /\ todo # <<>>
             /\ verb = IF k = BuildLength(m) THEN "start" ELSE "build"
             /\ k # BuildLength(m) => k \in 1 .. 8
    <2>1. Steps(BuildPlan(m), BuildLength(m)) /\ BuildLength(m) \in {8, 9}
        BY BuildSteps DEF BuildLength
    <2>2. k \in 1 .. BuildLength(m) /\ todo # <<>> /\ Head(todo) = BuildPlan(m)[k]
        BY <1>8, <2>1, PlanRest
    <2>3. verb = IF k = BuildLength(m) THEN "start" ELSE "build"
        BY <2>2, BuildSteps
    <2> QED BY <2>1, <2>2, <2>3
<1>9. CASE \E m \in {"dmg", "cgb"}, k \in 1 .. 9 :
              memoryMode = m /\ Left(BuildPlan(m), k) /\ Building(k)
    <2>1. PICK m \in {"dmg", "cgb"}, k \in 1 .. 9 :
              memoryMode = m /\ Left(BuildPlan(m), k) /\ Building(k)
        BY <1>9
    <2>2. /\ todo # <<>>
          /\ verb = IF k = BuildLength(m) THEN "start" ELSE "build"
          /\ k # BuildLength(m) => k \in 1 .. 8
        BY <1>8, <2>1
    <2>3. CASE k = BuildLength(m)
        BY <2>1, <2>2, <2>3 DEF Doing, Idling
    <2>4. CASE k # BuildLength(m)
        <3>1. Doing("build") => \E mm \in {"dmg", "cgb"}, kk \in 1 .. 8 :
                 /\ memoryMode = mm /\ Left(BuildPlan(mm), kk) /\ kk # BuildLength(mm) /\ Building(kk)
            BY <2>1, <2>2, <2>4
        <3> QED BY <2>2, <2>4, <3>1 DEF Doing, Idling
    <2> QED BY <2>3, <2>4
<1>10. ASSUME NEW k \in 1 .. 10, Left(CleanUp, k)
       PROVE  /\ todo # <<>>
              /\ verb = CASE k \in 1 .. 7 -> "drop" [] k = 8 -> "close" [] k = 9 -> "unload"
                          [] OTHER -> "clear"
    <2>1. todo # <<>> /\ Head(todo) = CleanUp[k]
        BY <1>10, CleanSteps, PlanRest
    <2> QED BY <2>1, CleanVerbs
<1>11. CASE \E k \in 1 .. 9 : Left(CleanUp, k) /\ Bare
    <2>1. PICK k \in 1 .. 9 : Left(CleanUp, k) /\ Bare
        BY <1>11
    <2>2. k \in 1 .. 10 /\ (k \in 1 .. 7 \/ k = 8 \/ k = 9)
        OBVIOUS
    <2>3. /\ todo # <<>>
          /\ verb = CASE k \in 1 .. 7 -> "drop" [] k = 8 -> "close" [] k = 9 -> "unload"
                      [] OTHER -> "clear"
        BY <1>10, <2>1, <2>2
    <2>4. CASE k \in 1 .. 7
        BY <2>1, <2>3, <2>4 DEF Doing, Idling
    <2>5. CASE k = 8
        BY <2>1, <2>3, <2>5 DEF Doing, Idling
    <2>6. CASE k = 9
        BY <2>1, <2>3, <2>6 DEF Doing, Idling
    <2> QED BY <2>2, <2>4, <2>5, <2>6
<1>12. CASE Left(CleanUp, 10) /\ Bare /\ cartridge = NoCartridge
    <2>1. todo # <<>> /\ Head(todo) = CleanUp[10]
        BY <1>12, CleanSteps, PlanRest
    <2>2. verb = "clear"
        BY <2>1, CleanSteps
    <2> QED BY <1>12, <2>1, <2>2 DEF Doing, Idling
<1>13. CASE \E k \in 1 .. 10 : Left(DestroyPlan, k)
    <2>1. PICK k \in 1 .. 10 : Left(DestroyPlan, k)
        BY <1>13
    <2>2. todo # <<>> /\ Head(todo) = DestroyPlan[k]
        BY <2>1, DestroySteps, PlanRest
    <2>3. verb = CASE k \in 1 .. 7 -> "drop" [] k = 8 -> "close" [] k = 9 -> "unload"
                   [] OTHER -> "erase"
        BY <2>2, DestroyVerbs
    <2>4. CASE k \in 1 .. 7
        BY <2>1, <2>2, <2>3, <2>4 DEF Doing, Idling
    <2>5. CASE k = 8
        BY <2>1, <2>2, <2>3, <2>5 DEF Doing, Idling
    <2>6. CASE k = 9
        BY <2>1, <2>2, <2>3, <2>6 DEF Doing, Idling
    <2>7. CASE k = 10
        BY <2>1, <2>2, <2>3, <2>7 DEF Doing, Idling
    <2> QED BY <2>4, <2>5, <2>6, <2>7
<1>14. CASE \E k \in 1 .. 2 : Left(ShortPlan, k)
    <2>1. PICK k \in 1 .. 2 : Left(ShortPlan, k)
        BY <1>14
    <2>2. todo # <<>> /\ Head(todo) = ShortPlan[k]
        BY <2>1, ShortSteps, PlanRest
    <2>3. verb = IF k = 1 THEN "close" ELSE "erase"
        BY <2>2, ShortVerbs
    <2> QED BY <2>1, <2>2, <2>3 DEF Doing, Idling
<1>15. CASE \E k \in 12 .. 13 : Left(LoadPlan, k) /\ Bare /\ Inserted
    <2>1. PICK k \in 12 .. 13 : Left(LoadPlan, k) /\ Bare /\ Inserted
        BY <1>15
    <2>2. k = 12 \/ k = 13
        OBVIOUS
    <2> QED BY <1>6, <1>7, <2>1, <2>2
<1> QED BY <1>1, <1>2, <1>4, <1>5, <1>9, <1>11, <1>12, <1>13, <1>14, <1>15 DEF Phase

\* A step done leaves the rest of its call.
LEMMA Advance ==
    ASSUME NEW CONSTANT plan, NEW CONSTANT len \in Nat, Steps(plan, len), NEW CONSTANT k,
           Left(plan, k), k # len, todo' = Tail(todo)
    PROVE  Left(plan, k + 1)'
<1>1. k + 1 \in 1 .. Len(plan) /\ Tail(todo) = SubSeq(plan, k + 1, Len(plan))
    BY PlanRest
<1> QED BY <1>1 DEF Left

\* A call begins with its first step.
LEMMA Begin ==
    ASSUME NEW CONSTANT plan, NEW CONSTANT len \in Nat \ {0}, Steps(plan, len), todo' = plan
    PROVE  Left(plan, 1)'
<1>1. SubSeq(plan, 1, Len(plan)) = plan /\ 1 \in 1 .. Len(plan)
    BY Whole
<1> QED BY <1>1 DEF Left

-----------------------------------------------------------------------------
\* The phase after each step.
LEMMA AdvanceLoad ==
    ASSUME NEW CONSTANT k \in 1 .. 12, Left(LoadPlan, k), todo' = Tail(todo)
    PROVE  Left(LoadPlan, k + 1)'
<1>1. Steps(LoadPlan, 13) /\ 13 \in Nat
    BY LoadSteps
<1>2. k # 13
    OBVIOUS
<1> QED BY <1>1, <1>2, Advance

LEMMA AdvanceClean ==
    ASSUME NEW CONSTANT k \in 1 .. 9, Left(CleanUp, k), todo' = Tail(todo)
    PROVE  Left(CleanUp, k + 1)'
<1>1. Steps(CleanUp, 10) /\ 10 \in Nat
    BY CleanSteps
<1>2. k # 10
    OBVIOUS
<1> QED BY <1>1, <1>2, Advance

LEMMA AdvanceDestroy ==
    ASSUME NEW CONSTANT k \in 1 .. 9, Left(DestroyPlan, k), todo' = Tail(todo)
    PROVE  Left(DestroyPlan, k + 1)'
<1>1. Steps(DestroyPlan, 10) /\ 10 \in Nat
    BY DestroySteps
<1>2. k # 10
    OBVIOUS
<1> QED BY <1>1, <1>2, Advance

LEMMA StepFlush == ASSUME Phase, FlushSave PROVE Phase'
<1>1. Left(LoadPlan, 1) /\ Rested
    BY Places DEF FlushSave
<1>2. CASE Proceed
    <2>1. Left(LoadPlan, 1 + 1)'
        BY <1>1, <1>2, AdvanceLoad DEF Proceed
    <2>2. \E k \in 2 .. 10 : Left(LoadPlan, k)'
        BY <2>1
    <2> QED BY <2>2 DEF Phase
<1>3. CASE Abandon(<<>>, "flush")
    <2>1. Rested'
        BY <1>1 DEF FlushSave, hardware, wiring, Rested, Bare, IsWhole, Inserted
    <2> QED BY <1>3, <2>1 DEF Phase, Abandon
<1> QED BY <1>2, <1>3 DEF FlushSave

LEMMA StepClose == ASSUME Phase, CloseSave PROVE Phase'
<1>1. todo' = Tail(todo)
    BY DEF CloseSave, Proceed
<1>2. CASE Left(CleanUp, 8) /\ Bare
    <2>1. Left(CleanUp, 8 + 1)'
        BY <1>1, <1>2, AdvanceClean
    <2>2. Bare'
        BY <1>2 DEF CloseSave, hardware, wiring, Bare
    <2>3. \E k \in 1 .. 9 : Left(CleanUp, k)' /\ Bare'
        BY <2>1, <2>2
    <2> QED BY <2>3 DEF Phase
<1>3. CASE Left(DestroyPlan, 8)
    <2>1. Left(DestroyPlan, 8 + 1)'
        BY <1>1, <1>3, AdvanceDestroy
    <2>2. \E k \in 1 .. 10 : Left(DestroyPlan, k)'
        BY <2>1
    <2> QED BY <2>2 DEF Phase
<1>4. CASE Left(ShortPlan, 1)
    <2>1. Left(ShortPlan, 1 + 1)'
        BY <1>1, <1>4, ShortSteps, Advance
    <2>2. \E k \in 1 .. 2 : Left(ShortPlan, k)'
        BY <2>1
    <2> QED BY <2>2 DEF Phase
<1> QED BY <1>2, <1>3, <1>4, Places DEF CloseSave

LEMMA DropMoves ==
    ASSUME Phase, Doing("drop"), Proceed, Bare => Bare'
    PROVE  Phase'
<1>1. todo' = Tail(todo)
    BY DEF Proceed
<1>2. CASE \E k \in 2 .. 8 : Left(LoadPlan, k)
    <2>1. PICK k \in 2 .. 8 : Left(LoadPlan, k)
        BY <1>2
    <2>2. Left(LoadPlan, k + 1)'
        BY <1>1, <2>1, AdvanceLoad
    <2>3. \E i \in 2 .. 10 : Left(LoadPlan, i)'
        BY <2>2
    <2> QED BY <2>3 DEF Phase
<1>3. CASE \E k \in 1 .. 7 : Left(CleanUp, k) /\ Bare
    <2>1. PICK k \in 1 .. 7 : Left(CleanUp, k) /\ Bare
        BY <1>3
    <2>2. Left(CleanUp, k + 1)'
        BY <1>1, <2>1, AdvanceClean
    <2>3. \E i \in 1 .. 9 : Left(CleanUp, i)' /\ Bare'
        BY <2>1, <2>2
    <2> QED BY <2>3 DEF Phase
<1>4. CASE \E k \in 1 .. 7 : Left(DestroyPlan, k)
    <2>1. PICK k \in 1 .. 7 : Left(DestroyPlan, k)
        BY <1>4
    <2>2. Left(DestroyPlan, k + 1)'
        BY <1>1, <2>1, AdvanceDestroy
    <2>3. \E i \in 1 .. 10 : Left(DestroyPlan, i)'
        BY <2>2
    <2> QED BY <2>3 DEF Phase
<1> QED BY <1>2, <1>3, <1>4, Places

LEMMA StepDrops == ASSUME Phase, DropPart \/ DropAudio \/ DropInterrupt PROVE Phase'
<1>1. CASE DropPart
    <2>1. Bare => Bare'
        BY <1>1 DEF DropPart, Bare
    <2> QED BY <1>1, <2>1, DropMoves DEF DropPart
<1>2. CASE DropAudio
    <2>1. Bare => Bare'
        BY <1>2 DEF DropAudio, Bare
    <2> QED BY <1>2, <2>1, DropMoves DEF DropAudio
<1>3. CASE DropInterrupt
    <2>1. Bare => Bare'
        BY <1>3 DEF DropInterrupt, Bare
    <2> QED BY <1>3, <2>1, DropMoves DEF DropInterrupt
<1> QED BY <1>1, <1>2, <1>3

LEMMA StepUnload == ASSUME Phase, UnloadCartridge PROVE Phase'
<1>1. todo' = Tail(todo)
    BY DEF UnloadCartridge, Proceed
<1>2. CASE Left(LoadPlan, 9)
    <2>1. Left(LoadPlan, 9 + 1)'
        BY <1>1, <1>2, AdvanceLoad
    <2>2. \E k \in 2 .. 10 : Left(LoadPlan, k)'
        BY <2>1
    <2> QED BY <2>2 DEF Phase
<1>3. CASE Left(CleanUp, 9) /\ Bare
    <2>1. Left(CleanUp, 9 + 1)'
        BY <1>1, <1>3, AdvanceClean
    <2>2. Bare' /\ cartridge' = NoCartridge
        BY <1>3 DEF UnloadCartridge, hardware, wiring, Bare
    <2>3. Left(CleanUp, 10)'
        BY <2>1
    <2> QED BY <2>2, <2>3 DEF Phase
<1>4. CASE Left(DestroyPlan, 9)
    <2>1. Left(DestroyPlan, 9 + 1)'
        BY <1>1, <1>4, AdvanceDestroy
    <2>2. \E k \in 1 .. 10 : Left(DestroyPlan, k)'
        BY <2>1
    <2> QED BY <2>2 DEF Phase
<1> QED BY <1>2, <1>3, <1>4, Places DEF UnloadCartridge

LEMMA StepClear == ASSUME Phase, ClearMemory PROVE Phase'
<1>1. todo' = Tail(todo)
    BY DEF ClearMemory, Proceed
<1>2. CASE Left(LoadPlan, 10)
    <2>1. Left(LoadPlan, 10 + 1)'
        BY <1>1, <1>2, AdvanceLoad
    <2>2. Head(todo) = <<"clear", "all">>
        BY <1>2, LoadSteps, PlanRest
    <2>3. Bare'
        BY <2>2 DEF ClearMemory, Subject, Bare
    <2>4. Left(LoadPlan, 11)'
        BY <2>1
    <2> QED BY <2>3, <2>4 DEF Phase
<1>3. CASE Left(CleanUp, 10) /\ Bare /\ cartridge = NoCartridge
    <2>1. Tail(todo) = <<>> /\ Head(todo) = <<"clear", "memory">>
        BY <1>3, CleanSteps, PlanRest
    <2>2. Bare' /\ cartridge' = NoCartridge
        BY <1>3, <2>1 DEF ClearMemory, Subject, Bare, media
    <2>3. Rested'
        BY <2>2 DEF Rested
    <2> QED BY <1>1, <2>1, <2>3 DEF Phase
<1> QED BY <1>2, <1>3, Places DEF ClearMemory

LEMMA StepInsert == ASSUME Phase, InsertCartridge PROVE Phase'
<1>1. Left(LoadPlan, 11) /\ Bare
    BY Places DEF InsertCartridge
<1>2. Bare'
    BY <1>1 DEF InsertCartridge, hardware, wiring, Bare
<1>3. CASE cartridge' \in Cartridges /\ Proceed
    <2>1. Left(LoadPlan, 11 + 1)'
        BY <1>1, <1>3, AdvanceLoad DEF Proceed
    <2>2. Inserted'
        BY <1>3 DEF InsertCartridge, Inserted, Cartridges, NoCartridge
    <2>3. \E k \in 12 .. 13 : Left(LoadPlan, k)' /\ Bare' /\ Inserted'
        BY <1>2, <2>1, <2>2
    <2> QED BY <2>3 DEF Phase
<1>4. CASE cartridge' = NoCartridge /\ Abandon(<<>>, "file")
    BY <1>2, <1>4 DEF Phase, Rested, Abandon
<1> QED BY <1>3, <1>4 DEF InsertCartridge

LEMMA StepAttach == ASSUME Phase, AttachSave PROVE Phase'
<1>1. Left(LoadPlan, 12) /\ Bare /\ Inserted
    BY Places DEF AttachSave
<1>2. Bare'
    BY <1>1 DEF AttachSave, hardware, wiring, Bare
<1>3. CASE saveOpen' = TRUE /\ Proceed /\ UNCHANGED cartridge
    <2>1. Left(LoadPlan, 12 + 1)'
        BY <1>1, <1>3, AdvanceLoad DEF Proceed
    <2>2. Inserted'
        BY <1>1, <1>3 DEF AttachSave, Inserted
    <2>3. \E k \in 12 .. 13 : Left(LoadPlan, k)' /\ Bare' /\ Inserted'
        BY <1>2, <2>1, <2>2
    <2> QED BY <2>3 DEF Phase
<1>4. CASE saveOpen' = FALSE /\ cartridge' = NoCartridge /\ Abandon(<<>>, "save")
    BY <1>2, <1>4 DEF Phase, Rested, Abandon
<1> QED BY <1>3, <1>4 DEF AttachSave

LEMMA StepChoose == ASSUME Phase, ChooseMode PROVE Phase'
<1>1. Left(LoadPlan, 13) /\ Bare /\ Inserted
    BY Places DEF ChooseMode
<1>2. Bare' /\ Inserted'
    BY <1>1 DEF ChooseMode, media, wiring, Bare, Inserted
<1>3. CASE requested_mode = "dmg" /\ cartridge = "cgb"
    <2>1. todo' = CleanUp
        BY <1>3 DEF ChooseMode, Abandon
    <2>2. Left(CleanUp, 1)'
        BY <2>1, CleanSteps, Begin
    <2>3. \E k \in 1 .. 9 : Left(CleanUp, k)' /\ Bare'
        BY <1>2, <2>2
    <2> QED BY <2>3 DEF Phase
<1>4. CASE ~(requested_mode = "dmg" /\ cartridge = "cgb")
    <2> DEFINE mode == IF UseCgb THEN "cgb" ELSE "dmg"
    <2>1. mode \in {"dmg", "cgb"} /\ memoryMode' = mode
        BY <1>4 DEF ChooseMode
    <2>2. todo' = BuildPlan(mode)
        BY <1>4 DEF ChooseMode, BuildPlan
    <2>3. PICK m \in {"dmg", "cgb"} : memoryMode' = m /\ todo' = BuildPlan(m)
        BY <2>1, <2>2
    <2>4. Steps(BuildPlan(m), BuildLength(m)) /\ BuildLength(m) \in Nat \ {0}
        BY BuildSteps DEF BuildLength
    <2>5. Left(BuildPlan(m), 1)'
        BY <2>3, <2>4, Begin
    <2>6. Building(1)'
        BY <1>2 DEF Building
    <2>7. \E k \in 1 .. 9 : memoryMode' = m /\ Left(BuildPlan(m), k)' /\ Building(k)'
        BY <2>3, <2>5, <2>6
    <2> QED BY <2>7 DEF Phase
<1> QED BY <1>3, <1>4

LEMMA BuildAdvance ==
    ASSUME NEW CONSTANT m \in {"dmg", "cgb"}, NEW CONSTANT k \in 1 .. 8, Left(BuildPlan(m), k),
           k # BuildLength(m), todo' = Tail(todo)
    PROVE  Left(BuildPlan(m), k + 1)'
<1>1. Steps(BuildPlan(m), BuildLength(m)) /\ BuildLength(m) \in Nat
    BY BuildSteps DEF BuildLength
<1> QED BY <1>1, Advance

LEMMA StepBuildMemory ==
    ASSUME LifecycleAssumption, HasRoom, Phase, BuildMemory
    PROVE  Phase'
<1>1. PICK m \in {"dmg", "cgb"}, k \in 1 .. 8 :
         memoryMode = m /\ Left(BuildPlan(m), k) /\ k # BuildLength(m) /\ Building(k)
    BY Places DEF BuildMemory
<1>2. Steps(BuildPlan(m), BuildLength(m)) /\ BuildLength(m) \in Nat
    BY BuildSteps DEF BuildLength
<1>3. k = 1
    <2> SUFFICES ASSUME k # 1 PROVE FALSE
        OBVIOUS
    <2>1. Head(todo) = <<"build", PartOrder[k - 1]>>
        BY <1>1, <1>2, BuildStep
    <2>2. PartOrder[k - 1] # "memory"
        <3>1. k - 1 \in 1 .. 7
            OBVIOUS
        <3>2. \A i \in 1 .. 7 : PartOrder[i] # "memory"
            BY DEF PartOrder
        <3> QED BY <3>1, <3>2
    <2> QED BY <2>1, <2>2 DEF BuildMemory, Subject
<1>4. Bare /\ Inserted
    BY <1>1, <1>3 DEF Building
<1>5. Left(BuildPlan(m), 1 + 1)'
    BY <1>1, <1>3, BuildAdvance DEF BuildMemory, Proceed
<1>6. Built(2)'
    <2>1. MappedBefore'[2] = 0
        BY DEF MappedBefore
    <2>2. devices' = EmptyTable /\ controllers' = {"cartridge"} /\ built' = {}
          /\ ~apuCallback' /\ cgbLinks' = {}
        BY <1>4 DEF BuildMemory, Bare
    <2>3. EmptyTable = Filled(0)
        BY DEF EmptyTable, Filled
    <2>4. {PartOrder[i] : i \in 1 .. 0} = {}
        OBVIOUS
    <2> QED BY <2>1, <2>2, <2>3, <2>4 DEF Built
<1>7. Inserted' /\ memoryMode' = m
    BY <1>1, <1>4 DEF BuildMemory, media, Inserted
<1>8. \E i \in 1 .. 9 : memoryMode' = m /\ Left(BuildPlan(m), i)' /\ Building(i)'
    BY <1>5, <1>6, <1>7 DEF Building
<1> QED BY <1>8 DEF Phase

\* What a part adds to the ones built before it.
LEMMA BuiltMore ==
    ASSUME NEW k \in 2 .. 8, Built(k),
           devices' = Filled(MappedBefore[k + 1]), UNCHANGED memoryMode,
           controllers' = controllers \union ControllerOf(PartOrder[k - 1]),
           built' = built \union {PartOrder[k - 1]},
           apuCallback' = (apuCallback \/ PartOrder[k - 1] = "audio"),
           cgbLinks' = IF PartOrder[k - 1] = "cgb" THEN {"timer", "dma", "ppu"} ELSE cgbLinks
    PROVE  Built(k + 1)'
<1>1. /\ PartOrder[1] = "interrupt" /\ PartOrder[2] = "ppu" /\ PartOrder[3] = "timer"
      /\ PartOrder[4] = "input" /\ PartOrder[5] = "dma" /\ PartOrder[6] = "audio"
      /\ PartOrder[7] = "cgb"
    BY DEF PartOrder
<1>2. \/ k = 2 \/ k = 3 \/ k = 4 \/ k = 5 \/ k = 6 \/ k = 7 \/ k = 8
    OBVIOUS
<1>3. built' = {PartOrder[i] : i \in 1 .. k - 1}
    <2>1. 1 .. k - 1 = (1 .. k - 2) \union {k - 1}
        OBVIOUS
    <2> QED BY <2>1 DEF Built
<1>4. devices' = Filled(MappedBefore'[k + 1])
    BY DEF MappedBefore
<1>5. controllers' = {"cartridge"} \union (IF k + 1 > 2 THEN {"interrupt"} ELSE {})
                        \union (IF k + 1 > 3 THEN {"video"} ELSE {})
                        \union (IF k + 1 > 6 THEN {"dma"} ELSE {})
    <2>1. CASE k = 2
        BY <1>1, <2>1 DEF Built, ControllerOf
    <2>2. CASE k = 3
        BY <1>1, <2>2 DEF Built, ControllerOf
    <2>3. CASE k = 4
        BY <1>1, <2>3 DEF Built, ControllerOf
    <2>4. CASE k = 5
        BY <1>1, <2>4 DEF Built, ControllerOf
    <2>5. CASE k = 6
        BY <1>1, <2>5 DEF Built, ControllerOf
    <2>6. CASE k = 7
        BY <1>1, <2>6 DEF Built, ControllerOf
    <2>7. CASE k = 8
        BY <1>1, <2>7 DEF Built, ControllerOf
    <2> QED BY <1>2, <2>1, <2>2, <2>3, <2>4, <2>5, <2>6, <2>7
<1>6. apuCallback' <=> k + 1 > 7
    <2>1. apuCallback <=> k > 7
        BY DEF Built
    <2>2. PartOrder[k - 1] = "audio" <=> k = 7
        BY <1>1, <1>2
    <2>3. apuCallback' <=> (apuCallback \/ PartOrder[k - 1] = "audio")
        BY Zenon
    <2>4. k + 1 > 7 <=> (k > 7 \/ k = 7)
        OBVIOUS
    <2> QED BY <2>1, <2>2, <2>3, <2>4, Zenon
<1>7. cgbLinks' = IF k + 1 > 8 THEN {"timer", "dma", "ppu"} ELSE {}
    <2>1. cgbLinks = {}
        BY DEF Built
    <2>2. PartOrder[k - 1] = "cgb" <=> k = 8
        BY <1>1, <1>2
    <2> QED BY <2>1, <2>2
<1>8. k + 1 - 2 = k - 1
    OBVIOUS
<1> QED BY <1>3, <1>4, <1>5, <1>6, <1>7, <1>8 DEF Built

LEMMA StepBuildPart ==
    ASSUME LifecycleAssumption, HasRoom, Phase, BuildPart
    PROVE  Phase' /\ UNCHANGED refused /\ Subject \in Parts /\ DOMAIN devices' = 1 .. MaxDevices
<1>1. PICK m \in {"dmg", "cgb"}, k \in 1 .. 8 :
         memoryMode = m /\ Left(BuildPlan(m), k) /\ k # BuildLength(m) /\ Building(k)
    BY Places DEF BuildPart
<1>2. Steps(BuildPlan(m), BuildLength(m)) /\ BuildLength(m) \in Nat
    BY BuildSteps DEF BuildLength
<1>3. k \in 2 .. 8
    <2> SUFFICES ASSUME k = 1 PROVE FALSE
        OBVIOUS
    <2>1. Head(todo) = BuildPlan(m)[1]
        BY <1>1, <1>2, PlanRest
    <2> QED BY <2>1, BuildSteps DEF BuildPart, Subject
<1>4. Inserted /\ Built(k)
    BY <1>1, <1>3 DEF Building
<1> DEFINE unit == PartOrder[k - 1]
<1>5. /\ Subject = unit /\ Mapped(Filled(MappedBefore[k]), unit) = Filled(MappedBefore[k + 1])
      /\ MappedBefore[k + 1] \in Nat
    BY <1>1, <1>2, <1>3, BuildStep DEF Subject
<1>6. /\ Mapped(devices, Subject) = Filled(MappedBefore[k + 1])
      /\ Mapped(devices, Subject) # NoTable
    BY <1>4, <1>5, TableIsThere DEF Built
<1>7. /\ devices' = Filled(MappedBefore[k + 1])
      /\ controllers' = controllers \union ControllerOf(unit)
      /\ built' = built \union {unit}
      /\ apuCallback' = (apuCallback \/ unit = "audio")
      /\ cgbLinks' = IF unit = "cgb" THEN {"timer", "dma", "ppu"} ELSE cgbLinks
      /\ Proceed /\ UNCHANGED <<media, memoryMode>>
    BY <1>5, <1>6 DEF BuildPart
<1> HIDE DEF unit
<1>8. Left(BuildPlan(m), k + 1)'
    BY <1>1, <1>7, BuildAdvance DEF Proceed
<1>9. Built(k + 1)'
    BY <1>3, <1>4, <1>7, BuiltMore DEF unit
<1>10. Inserted' /\ memoryMode' = m
    BY <1>1, <1>4, <1>7 DEF media, Inserted
<1>11. \E i \in 1 .. 9 : memoryMode' = m /\ Left(BuildPlan(m), i)' /\ Building(i)'
    <2>1. k + 1 \in 1 .. 9 /\ k + 1 # 1
        OBVIOUS
    <2> QED BY <1>8, <1>9, <1>10, <2>1 DEF Building
<1>12. Subject \in Parts
    <2>1. k - 1 \in 1 .. 7
        BY <1>3
    <2>2. \A i \in 1 .. 7 : PartOrder[i] \in Parts
        BY DEF PartOrder, Parts
    <2> QED BY <1>5, <2>1, <2>2 DEF unit
<1>13. DOMAIN devices' = 1 .. MaxDevices
    BY <1>7 DEF Filled
<1> QED BY <1>7, <1>11, <1>12, <1>13 DEF Phase, Proceed

\* With its processor the machine is whole.
LEMMA StepStart ==
    ASSUME LifecycleAssumption, HasRoom, Phase, StartCpu
    PROVE  Phase'
<1>1. PICK m \in {"dmg", "cgb"} :
         memoryMode = m /\ Left(BuildPlan(m), BuildLength(m)) /\ Building(BuildLength(m))
    BY Places DEF StartCpu
<1> DEFINE last == BuildLength(m)
<1>2. Steps(BuildPlan(m), last) /\ last \in Nat /\ last = (IF m = "cgb" THEN 9 ELSE 8)
    BY BuildSteps DEF BuildLength
<1>3. todo' = <<>>
    BY <1>1, <1>2, PlanRest DEF StartCpu, Proceed
<1>4. Inserted /\ Built(last)
    BY <1>1, <1>2 DEF Building
<1>5. Inserted' /\ memoryMode' = m
    BY <1>1, <1>4 DEF StartCpu, media, Inserted
<1> HIDE DEF last
<1>6. /\ PartOrder[1] = "interrupt" /\ PartOrder[2] = "ppu" /\ PartOrder[3] = "timer"
      /\ PartOrder[4] = "input" /\ PartOrder[5] = "dma" /\ PartOrder[6] = "audio"
      /\ PartOrder[7] = "cgb"
    BY DEF PartOrder
<1>7. \A i \in 1 .. 7 : i = 1 \/ i = 2 \/ i = 3 \/ i = 4 \/ i = 5 \/ i = 6 \/ i = 7
    OBVIOUS
<1>8. \A i \in 1 .. 6 : i = 1 \/ i = 2 \/ i = 3 \/ i = 4 \/ i = 5 \/ i = 6
    OBVIOUS
<1>9. built' = IF m = "cgb" THEN Parts ELSE Parts \ {"cgb"}
    <2>1. CASE m = "cgb"
        <3>1. last - 2 = 7
            BY <1>2, <2>1
        <3>2. built = {PartOrder[i] : i \in 1 .. 7}
            BY <1>4, <3>1 DEF Built
        <3>3. built = Parts \ {"cpu"}
            BY <1>6, <1>7, <3>2 DEF Parts
        <3> QED BY <2>1, <3>3 DEF StartCpu, Parts
    <2>2. CASE m = "dmg"
        <3>1. last - 2 = 6
            BY <1>2, <2>2
        <3>2. built = {PartOrder[i] : i \in 1 .. 6}
            BY <1>4, <3>1 DEF Built
        <3>3. built = Parts \ {"cpu", "cgb"}
            BY <1>6, <1>8, <3>2 DEF Parts
        <3> QED BY <2>2, <3>3 DEF StartCpu, Parts
    <2> QED BY <2>1, <2>2
<1>10. devices' = Filled(IF m = "cgb" THEN 12 ELSE 8)
    <2>1. MappedBefore[last] = (IF m = "cgb" THEN 12 ELSE 8)
        BY <1>1, <1>2 DEF MappedBefore
    <2> QED BY <1>4, <2>1 DEF Built, StartCpu
<1>11. ASSUME NEW i \in 1 .. 12 PROVE Layout[i].owner = TickOrder[i]
    <2>1. /\ TickOrder[1] = "ppu" /\ TickOrder[2] = "ppu" /\ TickOrder[3] = "ppu"
          /\ TickOrder[4] = "timer" /\ TickOrder[5] = "input" /\ TickOrder[6] = "dma"
          /\ TickOrder[7] = "audio" /\ TickOrder[8] = "audio" /\ TickOrder[9] = "audio"
          /\ TickOrder[10] = "cgb" /\ TickOrder[11] = "cgb" /\ TickOrder[12] = "cgb"
        BY DEF TickOrder
    <2>2. \/ i = 1 \/ i = 2 \/ i = 3 \/ i = 4 \/ i = 5 \/ i = 6 \/ i = 7 \/ i = 8 \/ i = 9
          \/ i = 10 \/ i = 11 \/ i = 12
        OBVIOUS
    <2> QED BY <2>1, <2>2, LayoutOwners
<1>12. \A i \in DOMAIN devices' :
          devices'[i].owner = IF i <= (IF m = "cgb" THEN 12 ELSE 8) THEN TickOrder[i] ELSE "none"
    <2> DEFINE len == IF m = "cgb" THEN 12 ELSE 8
    <2>1. len \in 0 .. 12 /\ devices' = Filled(len)
        BY <1>10
    <2> HIDE DEF len
    <2> SUFFICES ASSUME NEW i \in DOMAIN devices'
                 PROVE  devices'[i].owner = IF i <= len THEN TickOrder[i] ELSE "none"
        BY DEF len
    <2>2. i \in 1 .. MaxDevices /\ i \in Int /\ i >= 1
          /\ devices'[i] = IF i <= len THEN Layout[i] ELSE FreeSlot
        BY <2>1 DEF Filled, LifecycleAssumption
    <2>3. FreeSlot.owner = "none"
        BY DeviceFields DEF FreeSlot
    <2>4. i <= len => i \in 1 .. 12
        BY <2>1, <2>2
    <2> QED BY <1>11, <2>2, <2>3, <2>4
<1>13. controllers' = {"cartridge", "interrupt", "video", "dma"}
    BY <1>2, <1>4 DEF Built, StartCpu
<1>14. apuCallback'
    BY <1>2, <1>4 DEF Built, StartCpu
<1>15. cgbLinks' = IF m = "cgb" THEN {"timer", "dma", "ppu", "cpu"} ELSE {}
    <2>1. cgbLinks = IF m = "cgb" THEN {"timer", "dma", "ppu"} ELSE {}
        BY <1>2, <1>4 DEF Built
    <2>2. "cgb" \in built <=> m = "cgb"
        <3>1. "cgb" \in built' <=> m = "cgb"
            BY <1>9 DEF Parts
        <3> QED BY <3>1 DEF StartCpu
    <2> QED BY <2>1, <2>2 DEF StartCpu
<1>16. IsWhole'
    BY <1>5, <1>9, <1>12, <1>13, <1>14, <1>15 DEF IsWhole
<1>17. Rested'
    BY <1>5, <1>16 DEF Rested, Inserted
<1> QED BY <1>3, <1>17 DEF Phase

LEMMA StepLoadCall == ASSUME Phase, LoadCall PROVE Phase'
<1>1. Rested
    BY Places DEF LoadCall
<1>2. CASE cartInitialized
    <2>1. todo' = LoadPlan
        BY <1>2 DEF LoadCall, LoadPlan
    <2>2. Left(LoadPlan, 1)'
        <3>1. Steps(LoadPlan, 13) /\ 13 \in Nat \ {0}
            BY LoadSteps
        <3> QED BY <2>1, <3>1, Begin
    <2>3. Rested'
        BY <1>1 DEF LoadCall, hardware, media, wiring, Rested, Bare, IsWhole, Inserted
    <2> QED BY <2>2, <2>3 DEF Phase
<1>3. CASE ~cartInitialized
    <2>1. Bare
        BY <1>1, <1>3 DEF Rested, Inserted
    <2>2. todo' = Loading
        BY <1>3 DEF LoadCall, Loading
    <2>3. Left(LoadPlan, 11)'
        BY <2>2, LoadSteps DEF Left
    <2>4. Bare'
        BY <2>1 DEF LoadCall, hardware, wiring, Bare
    <2> QED BY <2>3, <2>4 DEF Phase
<1> QED BY <1>2, <1>3

LEMMA StepResetCall == ASSUME Phase, ResetCall PROVE Phase'
<1>1. Rested /\ todo' = <<>>
    BY Places DEF ResetCall, Idling
<1>2. Rested'
    BY <1>1 DEF ResetCall, media, Rested, Bare, IsWhole, Inserted
<1> QED BY <1>1, <1>2 DEF Phase

LEMMA StepDestroyCall == ASSUME DestroyCall PROVE Phase'
<1>1. CASE cartInitialized
    <2>1. todo' = DestroyPlan
        BY <1>1 DEF DestroyCall, DestroyPlan
    <2>2. Left(DestroyPlan, 1)'
        <3>1. Steps(DestroyPlan, 10) /\ 10 \in Nat \ {0}
            BY DestroySteps
        <3> QED BY <2>1, <3>1, Begin
    <2>3. \E k \in 1 .. 10 : Left(DestroyPlan, k)'
        BY <2>2
    <2> QED BY <2>3 DEF Phase
<1>2. CASE ~cartInitialized
    <2>1. todo' = ShortPlan
        BY <1>2 DEF DestroyCall, ShortPlan
    <2>2. Left(ShortPlan, 1)'
        <3>1. Steps(ShortPlan, 2) /\ 2 \in Nat \ {0}
            BY ShortSteps
        <3> QED BY <2>1, <3>1, Begin
    <2>3. \E k \in 1 .. 2 : Left(ShortPlan, k)'
        BY <2>2
    <2> QED BY <2>3 DEF Phase
<1> QED BY <1>1, <1>2

LEMMA StepErase == ASSUME Erase PROVE Phase'
<1>1. Rested'
    BY DEF Erase, Rested, Bare
<1> QED BY <1>1 DEF Erase, Phase

LEMMA PhaseStutter == ASSUME Phase, UNCHANGED lifeVars PROVE Phase'
BY ZenonT(60) DEF lifeVars, hardware, media, wiring, Phase, Left, Rested, Bare, IsWhole, Inserted, Building,
       Built, MappedBefore

LEMMA PhaseMoves ==
    ASSUME LifecycleAssumption, HasRoom, Phase, LifeNext PROVE Phase'
BY StepLoadCall, StepFlush, StepClose, StepDrops, StepUnload, StepClear, StepInsert, StepAttach,
   StepChoose, StepBuildMemory, StepBuildPart, StepStart, StepResetCall, StepDestroyCall,
   StepErase DEF LifeNext

LEMMA PhaseShort == Phase => Len(todo) <= 16
<1> SUFFICES ASSUME Phase PROVE Len(todo) <= 16
    OBVIOUS
<1>1. ASSUME NEW plan, NEW len \in Nat, Steps(plan, len), len <= 16, NEW k, Left(plan, k)
      PROVE  Len(todo) <= 16
    BY <1>1, PlanRest
<1>2. CASE todo = <<>>
    BY <1>2
<1>3. ASSUME NEW k, Left(LoadPlan, k) PROVE Len(todo) <= 16
    BY <1>1, <1>3, LoadSteps
<1>4. ASSUME NEW k, Left(CleanUp, k) PROVE Len(todo) <= 16
    BY <1>1, <1>4, CleanSteps
<1>5. ASSUME NEW k, Left(DestroyPlan, k) PROVE Len(todo) <= 16
    BY <1>1, <1>5, DestroySteps
<1>6. ASSUME NEW k, Left(ShortPlan, k) PROVE Len(todo) <= 16
    BY <1>1, <1>6, ShortSteps
<1>7. ASSUME NEW m \in {"dmg", "cgb"}, NEW k, Left(BuildPlan(m), k) PROVE Len(todo) <= 16
    <2>1. Steps(BuildPlan(m), BuildLength(m)) /\ BuildLength(m) \in Nat /\ BuildLength(m) <= 16
        BY BuildSteps DEF BuildLength
    <2> QED BY <1>1, <1>7, <2>1
<1> QED BY <1>2, <1>3, <1>4, <1>5, <1>6, <1>7 DEF Phase

\* The state besides the rest of the call.
MachineTypes ==
    /\ requested_mode \in RequestedModes
    /\ cartridge \in Cartridges \union {NoCartridge}
    /\ memoryMode \in {"dmg", "cgb"}
    /\ DOMAIN devices = 1 .. MaxDevices
    /\ built \subseteq Parts /\ cgbLinks \subseteq Parts
    /\ controllers \subseteq {"cartridge", "interrupt", "video", "dma"}

LEMMA MachineMoves ==
    ASSUME LifecycleAssumption, HasRoom, Phase, MachineTypes, GoodRomLoads, LifeNext
    PROVE  MachineTypes' /\ GoodRomLoads'
<1> USE DEF MachineTypes, GoodRomLoads
<1>1. CASE LoadCall \/ ResetCall \/ DestroyCall
    BY <1>1 DEF LoadCall, ResetCall, DestroyCall, media, hardware, wiring
<1>2. CASE FlushSave \/ CloseSave
    BY <1>2 DEF FlushSave, CloseSave, Proceed, Abandon, hardware, wiring
<1>3. CASE DropPart
    BY <1>3 DEF DropPart, Proceed, Unmapped, media
<1>4. CASE DropAudio
    BY <1>4 DEF DropAudio, Proceed, media
<1>5. CASE DropInterrupt
    BY <1>5 DEF DropInterrupt, Proceed, media
<1>6. CASE UnloadCartridge
    BY <1>6 DEF UnloadCartridge, Proceed, hardware, wiring
<1>7. CASE ClearMemory
    BY <1>7 DEF ClearMemory, Proceed, media, EmptyTable
<1>8. CASE InsertCartridge \/ AttachSave
    BY <1>8 DEF InsertCartridge, AttachSave, Proceed, Abandon, hardware, wiring
<1>9. CASE ChooseMode
    BY <1>9 DEF ChooseMode, Abandon, media, wiring
<1>10. CASE BuildMemory
    BY <1>10 DEF BuildMemory, Proceed, media, EmptyTable
<1>11. CASE BuildPart
    <2>1. UNCHANGED refused /\ Subject \in Parts /\ DOMAIN devices' = 1 .. MaxDevices
        BY <1>11, StepBuildPart
    <2>2. \A unit : ControllerOf(unit) \subseteq {"cartridge", "interrupt", "video", "dma"}
        BY DEF ControllerOf
    <2>3. {"timer", "dma", "ppu"} \subseteq Parts
        BY DEF Parts
    <2> QED BY <1>11, <2>1, <2>2, <2>3 DEF BuildPart, media, wiring
<1>12. CASE StartCpu
    BY <1>12 DEF StartCpu, Proceed, media, Parts
<1>13. CASE Erase
    BY <1>13 DEF Erase, EmptyTable
<1> QED BY <1>1, <1>2, <1>3, <1>4, <1>5, <1>6, <1>7, <1>8, <1>9, <1>10, <1>11, <1>12, <1>13
        DEF LifeNext

LEMMA LifeStarts == ASSUME LifecycleAssumption, LifeInit PROVE LifeInv
<1>1. todo = <<>> /\ Rested
    BY DEF LifeInit, NewEmulator, Rested, Bare
<1>2. Len(todo) <= 16
    BY <1>1
<1>3. MachineTypes /\ GoodRomLoads
    BY DEF LifeInit, NewEmulator, EmptyTable, MachineTypes, GoodRomLoads
<1> QED BY <1>1, <1>2, <1>3 DEF LifeInv, LifeTypeOK, MachineTypes, Phase

LEMMA LifeInductive == ASSUME HasRoom, LifeInv, [LifeNext]_lifeVars PROVE LifeInv'
<1>1. Phase /\ MachineTypes /\ GoodRomLoads
    BY DEF LifeInv, LifeTypeOK, MachineTypes
<1>2. CASE LifeNext
    <2>1. Phase' /\ MachineTypes' /\ GoodRomLoads'
        BY <1>1, <1>2, PhaseMoves, MachineMoves, LifecycleAssumption
    <2>2. (Len(todo) <= 16)'
        BY <2>1, PhaseShort, PTL
    <2> QED BY <2>1, <2>2 DEF LifeInv, LifeTypeOK, MachineTypes
<1>3. CASE UNCHANGED lifeVars
    <2>1. Phase'
        BY <1>1, <1>3, PhaseStutter
    <2>2. LifeTypeOK' /\ GoodRomLoads'
        BY <1>3 DEF LifeInv, LifeTypeOK, GoodRomLoads, lifeVars, hardware, media, wiring
    <2> QED BY <2>1, <2>2 DEF LifeInv
<1> QED BY <1>2, <1>3

LEMMA LifeInvariant == ASSUME HasRoom PROVE LifeSpec => []LifeInv
<1>1. LifeInit => LifeInv
    BY LifeStarts, LifecycleAssumption
<1>2. LifeInv /\ [LifeNext]_lifeVars => LifeInv'
    BY LifeInductive
<1> QED BY <1>1, <1>2, PTL DEF LifeSpec

\* The calls in progress and the device table keep their ranges, for any room
\* in the table for the twelve devices of a machine in CGB mode.
THEOREM LifeTypeCorrect == ASSUME HasRoom PROVE LifeSpec => []LifeTypeOK
<1>1. LifeInv => LifeTypeOK
    BY DEF LifeInv
<1> QED BY <1>1, LifeInvariant, PTL

\* After any sequence of loads, failed loads, resets and restarts a loaded
\* cartridge has a whole machine, and without one nothing is mapped or called.
THEOREM LoadedWhole == ASSUME HasRoom PROVE LifeSpec => []LoadedIsWhole
<1>1. LifeInv => LoadedIsWhole
    <2> SUFFICES ASSUME LifeInv PROVE LoadedIsWhole
        OBVIOUS
    <2>1. Idling => Rested
        BY Places DEF LifeInv
    <2> QED BY <2>1 DEF LifeInv, LoadedIsWhole, Rested, Bare
<1> QED BY <1>1, LifeInvariant, PTL

-----------------------------------------------------------------------------
(* The joypad and the life of the hardware together behave as each does.     *)
LEMMA HostParts == McSpec => JoypadSpec /\ LifeSpec
<1>1. McInit => JoypadInit /\ LifeInit
    BY DEF McInit
<1>2. [McNext]_mcVars => [JoypadNext]_joypadVars /\ [LifeNext]_lifeVars
    BY DEF McNext, mcVars, JoypadStep, LifeStep
<1> QED BY <1>1, <1>2, PTL DEF McSpec, JoypadSpec, LifeSpec

(* Port, menus and queue, the device table and the calls keep their ranges.  *)
THEOREM HostTypeCorrect == ASSUME HasRoom PROVE McSpec => []HostTypeOK
<1>1. JoypadTypeOK /\ LifeTypeOK => HostTypeOK
    BY DEF HostTypeOK
<1> QED BY <1>1, HostParts, JoypadTypeCorrect, LifeTypeCorrect, PTL
=============================================================================
