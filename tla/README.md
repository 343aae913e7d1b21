# Verification of the Game Boy Color emulator

TLA+ models of the emulator in `src/src/`, from the CPU to the SDL3 host loop, the TLC
runs that check them on small instances, and TLAPS proofs for every value of the
constants. `PROJECT.json` maps each definition to the lines it models and lists the
runs, the mutants, the hazards and the theorems.

## The system

The emulator is a single thread. The host loop calls `gb_emulator_step`; one step
is one CPU instruction (or an interrupt entry, an idle cycle of HALT, or four
cycles of a DMA stall). Nothing runs in parallel, yet everything interleaves: each
bus access and each machine cycle of an instruction calls `gb_memory_tick`, which
ticks every device in the order of the device table, and a device may raise an
interrupt, steal the bus, stall the CPU or rewrite memory in the middle of the
instruction. Around it, the player presses keys, plugs pads and drops files while SDL
queues what happened, and the file system may fail or the process die at any call.

| component | state | operations | hard behaviour |
|---|---|---|---|
| CPU (`cpu/`), interrupts (`interrupt/`) | registers, IME and its EI countdown, halted, stopped, faulted, halt_bug; IF, IE | `gb_cpu_step`, interrupt entry, some 500 opcodes, requests, acknowledgement | requests in every machine cycle; pushes that land on IE/IF; decisions taken before and after a tick; ticked against reported time |
| Timer (`timer/`) | divider, TIMA, TMA, TAC, reload delay | tick, register writes, speed change | falling edges made by writes; delayed reload against writes; APU clock |
| PPU (`ppu/`) | mode, LY, dot, STAT line, registers, frame buffer | tick, register writes, LCD on/off | STAT line edges, LCD switched off in mid-frame |
| OAM DMA (`dma/`) | active, source, index, delay, remainder | FF46 write, tick, access rule, speed change | the source changes while it is read; CPU shut out |
| CGB unit (`cgb/`) | KEY1, HDMA registers and transfer, previous PPU mode, CPU stall | register writes, tick, speed switch | transfer spread over lines, cancelled, stalled |
| Joypad (`input/`) | select bits, pressed mask, last lines; the adapter's two masks, pad and bindings | reads, writes, SDL events, keyboard poll | edges from several sources; masks cleared and read again while events are queued |
| Audio (`audio/`) | channels, frame sequencer, sample ring | tick, register writes, timer callback, pump | two clock sources, ring overflow |
| Cartridge (`cartridge/`) | bank registers, RAM, MBC3 clock | load, unload, reads and writes, tick | zero adjustment against wrapping; latch, carries and writes of the clock |
| Save RAM (`save/`) | save path, last result; the RAM and its dirty mark | attach, load, save, flush, destroy | crashes and failures between file-system calls |
| Memory (`memory/`) | WRAM/VRAM/OAM/HRAM, banks, device table, controllers | CPU and DMA accesses, tick, map and unmap | access rules, order of device ticks |
| Emulator (`emulator/`) | which parts are initialised | load ROM, reset, step, run frame, save, destroy | partial failures while building and replacing |
| SDL3 host (`platform/`) | cycle budget, pause, menu | event loop, menu, audio pump | catch-up after a delay, events between batches, errors |
| Debug (`debug/`) | breakpoints, counters | observation only | none |

## Modules

### CPU

`Cpu` - one `gb_cpu_step` is several actions, cut where the code calls out of the
CPU, because a device may request an interrupt there: `IdleHalted`; `BeginService`,
`PushHigh`, `PushLow`, `EnterVector` for `cpu_interrupt_service`; `Fetch`, one
`Exec...` per opcode that changes the control state, and `Retire`, which runs the tail
cycles and the EI countdown. `phase` says where the step is. `StackWrite` lets a stack
pointer aimed at IF or IE rewrite them. A bus error ends emulation (`failed`) until a
reset, as the host loop does. `CpuHistory` adds two history variables for the
properties that relate a step to earlier ones.

`Instructions` - what every opcode does with the bus, the program counter and the stack:
a `Row` per kind of opcode lists its machine cycles, the time it reports and what it
does in the end. `BusCycle` runs one cycle, `RetireRow` reports the time. A byte on the
stack is one half of a word, or junk. The history variables are `drift` (ticked and not
yet reported) and `frames` (the words on the stack that nothing has disturbed).

`Alu` - A and the flags, with full 8-bit arithmetic: one action per group of opcodes of
the CPU that touch them. `decimal` and `answer` follow a program that adds or subtracts in
decimal and adjusts with DAA.

### Cartridge and saves

`Mapper` - `prepare_metadata` (which headers and files are accepted) and the bank
registers of MBC1, 2, 3 and 5, which are never in use together and share two variables;
`LowerBank`, `UpperBank` and `RamBank` are the windows. `Rtc` - the clock of MBC3 with its
select register, latch and cascade of counters; `RealTimeClock` is what it promises: one
number that counts, or is set digit by digit, with a sticky carry and a snapshot.

`SaveRam` - the files at the save path and at `.tmp`, the RAM and its mark, and
`gb_save_ram_save` as four actions (open, write, remove, rename), each of which may
fail, with crashes in between; `why` is the caller, which decides what an error
does. `Faults` is the set of faults that may happen. `DurableStore` is what a
player is promised: one saved value per game, replaced in one step. `SaveRam`
implements it under the mapping `Stored`, which counts a save from the removal of
the old file on.

### DMA

`Hdma` - the transfer registers of `gb_cgb.c` with addresses counted in blocks, over
`PpuModes`, and an instruction as a sequence of machine cycles, each with at most one
register write before its tick. `CgbTick` is `gb_cgb_tick` with `cgb_tick_hblank`.

`OamDma` - the transfer of `gb_dma.c`, memory as one page per region, and every way
memory can change: CPU writes and bank switches, if `Allowed`, and HBlank DMA.

### Clocked devices

`Ppu` - the loop of `gb_ppu_tick` dot by dot (`StartPpuTick`, then one `Dot` for each dot
of the tick), with one action per end of mode, and the writes to LCDC, STAT and LYC
between ticks. Drawing a line is reduced to its two effects on time and state: the
length of mode 3, any of `Mode3Dots`, and whether the window moved on.
`UpdateStatIrqLine` ends every action, as `update_stat_irq_line` ends every path of the
code; `raised` is what the last step requested. `PpuHistory` counts the dots since the
LCD came on and keeps a ledger, `asked`, of where in a frame without register writes STAT
interrupts were requested. `PpuModes` is the PPU as the CGB unit sees it, mode and line after each
tick; `Ppu` implements it, under the mapping `seen`.

`Timer` - the 16-bit divider, TIMA with its delayed reload, TMA and TAC. A tick is
taken clock by clock (`StartTimerTick`, then `Advance` or `Reload` until no clock is
left), because a register access may fall between two ticks only; falling edges are
found by comparing `Signal` before and after, for clocks and for writes alike. `calls`
holds what the last step did outside the timer. `TimerHistory` measures the time since
DIV was last zero, since TIMA overflowed and since the last audio clock.

`Apu` - power, the frame sequencer with both of its clock sources, and per channel the
DAC, length, envelope and active flag, each as one record. `Sweep` - the frequency of
channel 1 in its three copies. Both are one action per register write and one per
clock; where one needs the other it uses the weakest view of it (`silenced` in `Apu`,
`RunOut` in `Sweep`). `ApuHistory` times each note; `SweepHistory` remembers whether the
last calculation still stands and whether the sweep has lowered the note since its trigger. `SampleRing` is the ring between emulation and host with
its two positions and its count; `DropOldest` is what it promises, a queue, and
`SampleRing` implements it with `queue` mapped to the slots from the read position on.

### Host

`HostLoop` - `gb_sdl3_run`: `stage` says where in the loop it is, host time passes at any
point (`ClockRuns`), `EarnBudget` turns it into cycles with both caps, batches spend it in
steps of the emulator, and events come at the top of the loop and between two batches.
The history variables are `owed`, the host time neither played nor forgiven, and
`playedInMenu`.

`Joypad` - the port FF00, the adapter of `gb_input_sdl3.c`, and the event loop and menu of
`gb_sdl3.c` that decide which events reach it. The world (`PressKey`, `PlugPad`,
`LoseFocus`, `DropRom`...) changes what is held and plugged and queues events; a poll
(`StartPoll`, `HandleEvent`, `PollEmpty`, `SyncKeyboard`) handles them one by one while
more arrive; the game reads between polls.

`Lifecycle` - `gb_emulator_load_rom`, `_reset` and `_destroy` as lists of steps in `todo`,
each step one action and any of them able to fail as in the code; the device table of
`gb_memory.c` with the real ranges, the controllers memory calls, and the pointers the
parts keep to each other.

### Composition

Components that share state are modelled in one module, each with the other's effect on
it: `Hdma` over `PpuModes`, which `Ppu` is shown to implement; `OamDma` with the accesses
of CPU and HDMA; `Joypad` with menu and event loop; `SaveRam` with the emulator's calls;
`Lifecycle` with device table and parts. Components that share no variable are run
together in one model with a variable `part`: their steps commute, so a behaviour may as
well be all of one part, and the states add up instead of multiplying. `MCCore`,
`MCCartridge`, `MCTransfers`, `MCDevices` and `MCHost` do this; `MCHdma`, `MCOamDma`, `MCTimer` and
`MCSaveRam` hold the small values of the constants of one component. The `...Proofs` modules
hold the proofs. Operators marked as mutants are plausible bugs, used only to confirm that
each property can fail.

## Runs

| run | module, configuration | what it checks | result | distinct states |
|---|---|---|---|---|
| `core` | `MCCore`, `MCCore.cfg` | CPU control and its history, instructions, arithmetic, host loop | holds | 409,987 |
| `cartridge` | `MCCartridge`, `MCCartridge.cfg` | save RAM with every fault, bank registers, MBC3 clock | holds | 365,419 |
| `transfers` | `MCTransfers`, `MCTransfers.cfg` | VRAM DMA, OAM DMA, and save RAM without rename failures and crashes in the commit window | holds | 945,543 |
| `devices` | `MCDevices`, `MCDevices.cfg` | timer, audio, PPU | holds | 1,195,373 |
| `host` | `MCHost`, `MCHost.cfg` | joypad with menu and pads, life cycle of the hardware | holds | 1,680,541 |
| `save_ram_window` | `MCSaveRam`, `MCSaveRamWindow.cfg` | `SaveNeverLost` | violated | |
| `hdma_burst` | `MCHdma`, `MCHdmaBurst.cfg` | `AtMostOneBlockPerHblank` | violated | |
| `oam_dma_restart` | `MCOamDma`, `MCOamDmaRestart.cfg` | `RestartTakesEffect` | violated | |
| `timer_512` | `MCTimer`, `MCTimer512.cfg` | `FrameSequencerAt512` | violated | |
| `rom_only` | `Mapper`, `MCRomOnly.cfg` | `DirectlyMapped` | violated | |
| `host_speed` | `HostLoop`, `MCHostSpeed.cfg` | `KeepsPace` for games in double speed | violated | |
| `save_ram_shutdown` | `MCSaveRam`, `MCSaveRamShutdown.cfg` | `ShutdownSaves` when opening a file or `rename` may fail | violated | |

What the properties of the passing runs say:

- `core`. EI takes effect after one instruction; HALT wakes for a request whenever it
  arrives; no request is lost, and the vector entered is that of the acknowledged
  source, though devices and the pushes rewrite IF and IE in between. The cycles an
  instruction reports are those the devices were ticked for (`TimeAgrees`); a return or
  POP gets what its call or PUSH left (`ReturnsToCaller`); DAA after any addition or
  subtraction of decimal bytes is exact (`BcdExact`). Host time is played or forgiven
  (`KeepsPace`); behind the menu at most one budget is played (`PauseTakesHold`); the loop
  always comes back to the event queue (`EventsServed`).
- `cartridge`. A save file is never half written; clean RAM is on disk after a successful
  save. The banks in reach are exactly those of the file, whatever the registers hold
  (`BanksAreTheFile`). The clock implements `RealTimeClock`.
- `transfers`. The blocks HDMA copied are a prefix of those asked for; every stall ends. An
  OAM transfer looks instantaneous and its time is accounted to the cycle. Saving implements
  `DurableStore`; an attached game that is replaced or left is on disk.
- `devices`. Timer: every overflow interrupts on time, DIV lags by one clock per reload and
  no more, audio clocks have one rate at both speeds, an enabled timer keeps
  interrupting. Audio: an active channel has power, DAC and length, a note lasts its
  length, the sweep sounds only while its next step is in range, a note the sweep
  has lowered is not raised again before the next trigger, the ring implements `DropOldest`. PPU: lines and frames on
  schedule whatever mode 3 takes, `PpuModes` implemented; in a frame without register writes
  the STAT interrupts come once each at the first dot of exactly the modes where an enabled
  source holds after one where none did, whatever earlier writes or the LCD switch did to the
  line (`StatAsksOnRises`).
- `host`. When the queue has been served the game sees every bound key as it is held and no
  button that is not (`InputsAreSeen`); the joypad interrupt is requested at falls of the
  lines and at no other time (`RequestsAreFalls`). A loaded game has every part built,
  connected and mapped in order, and without a game nothing is (`LoadedIsWhole`).

What the violations show:

- `save_ram_window`: `remove` before `rename` leaves a moment without a save file
  (`gb_save.c:286`).
- `hdma_burst`: `previous_ppu_mode` is stale after a block, so the next tick of the same
  HBlank copies another (`gb_cgb.c:201`).
- `oam_dma_restart`: a write to FF46 is shut out by the running transfer (`gb_dma.c:45`).
- `timer_512`: bit 4 of the divider clocks the frame sequencer, not bit 12
  (`gb_timer.c:52`).
- `rom_only`: without a mapper the upper window shows bank 0 again, never the second half
  of the file (`gb_cartridge.c:740`).
- `host_speed`: the budget is earned at the base clock and spent in CPU cycles, so a game
  in double speed runs at half its pace (`gb_sdl3.c:871`). The run `core` checks the same
  property for games at the base clock, where it holds.
- `save_ram_shutdown`: a normal shutdown reports success without the game on disk. In the
  run's trace the flush of the game to be replaced fails and its save state is released
  all the same; the old game runs on and nothing saves it (`gb_emulator.c:395`).
  `LeftGameIsSaved` says the same of games still attached, and holds. With `rename` as the only
  fault it happens too: after an explicit save of clean RAM neither file is left, and the
  RAM still counts as clean (`gb_save.c:293`). `CleanMeansSaved` holds after saves that succeeded.

Seen while modelling, and not runs of their own:

- `Hdma`: a transfer cancelled in HBlank leaves `previous_ppu_mode` behind, so one
  started late in the next mode 3 copies nothing in its first HBlank (`gb_cgb.c:193`).
- `Cpu`: EI; HALT with a request pending arms the HALT bug and is then interrupted;
  `cpu_interrupt_service` does not clear `halt_bug`, so the first byte of the handler is
  the one fetched twice (`gb_cpu.c:525`).
- `Hdma`: a general transfer that meets an invalid source block stops with `hdma_active` set
  (`gb_cgb.c:173`). The error stops emulation, and the reset that lets it go on clears the
  registers: `CopiedIsPrefix` holds of what is copied after it.
- `Sweep`: the subtraction a trigger tries out ahead is not latched (`gb_audio.c:196-201`), so a
  note turned round by NR10 before its first sweep clock plays on, and rises;
  `NoteNeverTurns` therefore speaks of notes the sweep has lowered.
- `Timer`: DIV loses a clock at each reload of TIMA (`gb_timer.c:125`); `DividerLagsByReloads`
  states exactly this.
- `Apu`: after `gb_emulator_reset` the fallback clock runs besides the timer's, because
  `gb_audio_reset` drops the pointer to the timer (`gb_audio.c:461`).
- `Lifecycle`: `gb_audio_reset` also clears the mark by which `gb_audio_destroy` would unmap
  its registers; the load that follows clears the whole table, so nothing comes of it.
- `Ppu`: switching the LCD off may request a STAT interrupt for a condition that held
  already (`gb_ppu.c:509`).
- `HostLoop`: opening the menu inside the catch-up loop does not stop it
  (`gb_sdl3.c:882`), and a ROM dropped there that fails to load ends the program through
  the next step (`:666`); at the top of the loop the same drop only shows the waiting
  window. Nothing in the repository promises either, and `EventsServed` counts a program that
  returned as served.
- `Joypad`: a pad button still held after a pause or a lost focus stays released until it is
  pressed anew (`gb_input_sdl3.c:140`), hence the weaker half of `InputsAreSeen` for pads;
  a pad removed behind a menu stays open in the adapter and blocks the next one, and one
  plugged in there is never opened (`gb_sdl3.c:698`); a pad plugged in and out again between two polls cannot be opened,
  which ends the program (`gb_input_sdl3.c:223`); so does binding a key after a bad drop
  while the menu waits for one (`gb_sdl3.c:276`); a bad drop also forgets the bindings. The
  RETURN that resumes is read as START by the poll that follows. A key tapped within one
  poll requests the interrupt and is never seen.

### Bounds

`core`: two sources are enough for a priority decision and for one source overtaking
another; four addresses give each handler its own and leave two for the program. Two words
and a stack of four bytes let calls nest, overwrite each other and wrap. A is a full byte;
the operands are decimal and other bytes with every combination of carries. One cycle is
two clock ticks, so that remainders occur; a budget of four cycles is more than a batch
(two) and than the longest instruction (three); the clock may run past what one reading
counts (`MaxElapsed`) up to `MaxLag`.

`cartridge`: two games and two RAM contents beside the blank one are enough for a file to be
mixed up, stale or torn. Bank registers are two or three bits narrower than the hardware's,
with headers of 2, 4, 6 and 16 banks, so that a ROM may be smaller than its register, not a
power of two, and too large; a byte written to them has 16 values (`ByteSize`), twice what the
widest register keeps. A clock with digits of two values, and a tick of one or two
halves of a second, carries through all digits.

`transfers`: three VRAM blocks, transfers of up to three, six source blocks of which the
last two are invalid, so that no transfer wraps, as in the code; instructions of two machine
cycles and two visible lines out of three; stalls of two steps, so that they overlap a mode
change. Pages of two bytes and two byte values; ticks of four and two cycles. Games and
contents as in `cartridge`.

`devices`: a divider of 32 with the masks in the proportion of the code, three values of TIMA,
ticks of two and four clocks; the selectable bits are far enough apart for a reload to
end before the next edge, as they are in the code. Two visible lines and two of VBlank, of
seven dots, with two lengths of mode 3 and ticks of one and two dots, no longer than any
mode, as in the code (ticks of at most four dots, modes of at least 80). One channel with an
envelope and the wave channel, lengths up to two, two volumes and periods; sweep frequencies
below 8 in two registers, shifts up to 2, periods up to 3, so that a step may stay in range,
leave it, or not move; a ring of three slots, batches up to more than it holds.

`host`: one column with a button on each row, so that they share a line; the three keys that
open, leave, select and move in the menus, two of them bound to the buttons; one pad, which
may come and go, and a queue of two events: a game runs between any two of them. The device
table has its real sixteen slots and the parts their real ranges, in every mode and for
every kind of cartridge.

No counter is capped except `elapsed` of `OamDma` (`MaxElapsed`, which no transfer that ends
in time reaches), `burst` of `Hdma` (2 stands for more), `lost` of `TimerHistory`
(`MaxLost`), `dropped_frames` of `SampleRing` (`MaxDropped`), `elapsed` of `HostLoop`
(`MaxLag`), and in `Joypad` the pads ever plugged in (`MaxPads`) and the queue
(`MaxEvents`).

### Fairness

Weakly fair are only steps the program takes of its own accord: `StepCpu`, `StalledStep`,
`MachineCycle` and `EndInstruction`, `TimePasses`, and the steps `Loop` of `gb_sdl3_run`. The
host loop calls `gb_emulator_step` as long as it runs, and a step that is possible stays
possible until it is taken or the machine is reset. The game's writes, the player, time,
faults and resets are never fair. `EventsServed` needs no assumption on the length of a
batch: every step of a running CPU takes time, and one of a stopped CPU ends the batch. No
liveness is claimed of a CPU in STOP. Deadlock is checked in every run.

## Proofs

Every theorem holds for all values of the constants under the assumptions its modules name
(`...Assumption`), which TLC evaluates in the runs. Each proof has the same form: an
inductive invariant, shown to hold initially and to be kept by every action, that implies
the property. The type invariants of the components also hold of the models that compose
them: a lemma per composition (`CoreParts`, `CartridgeParts`, `DeviceParts`,
`HostParts`) shows that its steps are steps or stutters of each of its parts. So every
invariant and every action property a passing run checks is a theorem. Those of the two DMA
units and of saving are proved of each; the run `transfers` composes them.

What a liveness property says is "eventually", which needs fairness and `ENABLED` and so is
left to TLC. What makes it true is not: in each case a quantity that cannot fall for ever and
that every step of the program brings down, or leaves alone only where it brings down the
next. Four theorems state this as action properties of the specification without
fairness: `SleepIsBrief` (for `HaltWakes`), `EventsAreNear` (`EventsServed`), `StallDrains`
(`StallEnds`) and `InterruptNears` (`EnabledTimerInterrupts`).

`CpuProofs`: `CpuTypeOK`, `EntryIsMasked` and `OneSleepState` for any sources, address space
and vector table. `OneSleepState` is not inductive alone: it needs to know in which phases a sleep state can be on, which its inductive
invariant adds. Of the history: `EiDelaysOneInstruction`, `RequestsAreKept` and
`EntersAcknowledgedVector`. `SleepsBetweenSteps`, that a halted CPU is at the end of HALT or
between two steps, gives `SleepIsBrief`: with a request pending it may stay halted for the end of HALT
only, which keeps the request. `ShadowInv` ties the history variable to the countdown of EI,
phase by phase; `MaskIsAcked` says that the mask held while PC is pushed is the
source acknowledged, whatever happens to IF and IE meanwhile. `BcdExact` of `Alu`: `AluInv`
says what an addition or subtraction leaves for DAA in accumulator, half carry and
carry (`SumLeft`, `DifferenceLeft`), as equations between the digits; DAA then has a case
for each correction of a digit.

`TimeProofs`: `TimeAgrees` for any stack and address space, and `KeepsPace` for any rate,
caps, batch size and instruction times. For the first, a lemma per group of opcodes shows
that each row reports four T-cycles per machine cycle (`RowsTimed`), and `TimeInv` says that
what was ticked and what is still to come is what will be reported. For the second,
`PaceInv` adds the types to the equation; earning a budget keeps it by the division lemma,
playing by linear arithmetic. It assumes `Speeds = {1}`; the run `host_speed` shows what
happens otherwise. `PauseTakesHold` follows from `PauseInv`, given that instructions have a
longest time (`HasLongest`); so do the types of the host loop, for which `BudgetInv` adds that
a batch never has more left than the budget. `EventsAreNear` counts the steps from each stage
of the loop to the next look at the event queue (`ToEvents`, at most `MaxBatch + 5`) and shows
that every step but the passing of time takes one off. `ReturnsToCaller` holds for any size of the stack: `RowsUsable` says how the
cycles of each row use the stack, `Standing` where the words stand while an instruction has yet to
push or pop, is half through, or has popped; the ring lemmas show that half a push spoils
at most the word that reaches around, which `Remember` drops.

`CartridgeProofs`: `DiskNeverTorn`, `CleanMeansSaved` and the refinement `IsDurable` for any
games, RAM contents and faults. The invariant `SaveInv` says what each step of a save
knows: from the removal on, the temporary file holds the RAM; after the removal no
file stands at the path. The refinement assumes `rename` and `windowCrash` are not
among the faults - the run `save_ram_window` shows what happens otherwise; so do
`SavesAreKept`, the property that run violates without this assumption, and
`LeftGameIsSaved`, by `CleanIsStored`. The clock: its types, and the refinement
`IsRealTimeClock` for any sizes of the digits. The time is a weighted sum of the digits;
one lemma per digit shows that a carry adds one unit of it, another that replacing a digit
leaves the others. `BanksAreTheFile` for registers of any width and any headers: `MapperInv`
adds to the types that the game inserted is one the loader accepts and that MBC5's register
stays below twice its low half. That no bank beyond the file is shown is then arithmetic of
the remainder; that all banks are needs for each bank and each mapper the values to write, which
`Reached` takes.

`DmaProofs`: `OamDmaTypeOK`, `TransferIsSnapshot`, `TimeIsAccounted` and `OamIsSnapshot` for
any transfer length and byte values. The invariant adds that a running transfer has bytes
left; the arithmetic of a tick is a lemma of its own for the two divisors 2 and 4.
`HdmaTypeOK` and `CopiedIsPrefix` for any VRAM, source space, stall and screen: what is left
and what is copied add up to what was asked for, and `LinesInv` ties modes to lines. The same
equation gives `StallDrains`: a block copied during a stall prolongs it, but there is one
less to come, and a tick without a block drains it.

`TimerProofs`: `TimerTypeOK` and `ReloadWindowReadsZero` for any sizes and masks, assuming that
the selectable bits fall at least `ReloadDelay` clocks apart (`EdgesAssumption`, true of
the masks of the code). The invariant `Window` says how far the divider is past the
edge that overflowed. `InterruptNears` needs of the masks that each selectable bit falls within
a period of the divider (`PeriodAssumption`), and `Window` that no edge is lost in a reload. Of the history: `DividerLagsByReloads` (`LagInv` is the equation modulo
the divider), `InterruptFollowsOverflow` (`WaitInv`, with `Window`) and `ApuRateIsFixed`
(`RateInv`, given that the divider is a whole number of periods of the audio clock, as
it is in the code).

`AudioProofs`: `RingTypeOK` and the refinement `IsDropOldest` for any capacity; `RingInv` ties
the three counters together (write is read plus count), and one lemma per operation
computes the queue after it. `NoteNeverTurns` and `SoundsOnlyInRange` for any sizes;
`NoteNeverTurns` needs `Latched`, that a note which was lowered has set the latch of the code
and that a note which sounds with the latch set still subtracts, besides the type invariant:
a step goes down only when NR10 subtracts (`SlideDirection`).
`ApuTypeOK`, `ActiveMeansDriven` and `NoteLasts` for any channels and lengths: `NoteInv` relates
the clocks a note has had to the length it has left. `SweepTypeOK`: a step down never goes
below zero as what is subtracted is a quotient of the frequency, and a step up is only
stored when it fits.

`PpuProofs`: `PpuTypeOK`, `OnSchedule`, `StatOnRise` and the refinement `IsPpuModes`, for any
lengths of modes, lines, frames and ticks of which no mode fits in a tick
(`DotsAssumption`, `TickAssumption`, true of the code). `ScanInv` ties the mode to its
lines and its length; with it a dot either stays in its line or ends it, so the age of the
frame moves with the position. `LineInv` says the stored STAT line is its condition, and
with it that STAT interrupts are its rises (`StatOnRise`, which no run repeats). For
`StatAsksOnRises`, `NextPassage` shows that a dot that ends a mode enters the one passage of the
frame whose predecessor it leaves, and `BelongNext` that the ledger gains exactly its entry. For the
refinement, `SeenInv` says that after a change of mode in a tick the dots that are left
do not reach the next one.

`HostProofs`: `JoypadTypeOK`, `RequestsAreFalls` and `InputsAreSeen` for any matrix of buttons,
keys and bindings, any number of pads and any queue. `PortInv` says that the remembered
lines are the lines and that the masks are empty behind a menu. `InputsAreSeen` needs two
invariants more: `KeysInv`, that a key that moved since the last poll is in the queue; and
`MaskInv` with `QueueInv`, that whatever the adapter, or an event on its way to it, says of
the pad is true or will be corrected by a later event in the queue.

`LoadedIsWhole` of `Lifecycle`, also in `HostProofs`, for any requested modes and any device
table with room for the twelve devices of a machine in CGB mode (`HasRoom`; the code has 16).
It speaks of the states between two calls, so its invariant `LifeInv` has to say what is there
at each step of a call: `Phase` lists the five calls as lists of steps and says, for each
place in a list, what the hardware is - bare, whole, or built up to the part whose turn it
is (`Built`), with the first so many devices of `Layout` in the table. `Places` finds the place
from the step to be taken; `MapNext` shows that the next range of the layout overlaps no
earlier one and goes into the next slot, so that mapping never fails; then one lemma per action
moves the phase on. After the hardware of an old game is dropped nothing is known until the
memory is cleared: the audio unit leaves its devices in the table (see "Seen while modelling"), and the
proof needs the clearing that follows.

Only model-checked: the step from progress to "eventually" in the four liveness properties
(`HaltWakes`, `EventsServed`, `StallEnds`, `EnabledTimerInterrupts`), and what the runs that
expect a violation refute.

## Not modelled

- Pixels, palettes and the sprite search; waveforms, mixing and filtering; moves and
  16-bit sums between CPU registers; the decoding of addresses and the bytes of memory:
  pure computation.
- Window, renderer, audio device, and the menu items for volume and scale; argument parsing
  and printing of both front ends; titles, checksums and reading of ROM files: I/O and data
  checks. A file that is wrong is a failing step of `Lifecycle` or a file that `Accepted`
  refuses.
- The debugging layer, which only observes; a breakpoint is a `StepFails` of `HostLoop`.
- The infrared port and KEY1; the speed switch appears where it has consequences, in
  `OamDma`, `Timer` and `HostLoop`. The VRAM and OAM access rule of the PPU.
- `gb_emulator_load_rom_buffer`, which only tests call, and which destroys the hardware before
  it flushes the save RAM; and `gb_emulator_run_frame` of the console front end, which does
  not return while a game leaves the LCD off.
- In `Joypad`, "Exit" in the menu ends the program at once; the code handles the rest of the
  queue first. Auto-repeated keys, which every path ignores.
