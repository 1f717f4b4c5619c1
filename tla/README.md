# DKC2Recomp-Switch: verification project

TLA+ models of the parts of DKC2Recomp-Switch that keep state and must survive
failures, threads, other people's timing and long sequences of legal calls; the
TLC runs that check them on small instances; and the theorems TLAPS proves about
them for every value of their constants.

Paths below are relative to the repository. `runner/` holds the program, `src/`
the analysis core, `app/` and `tools/` command-line programs.

## 1. Inventory

The program is a static recompilation of a SNES cartridge: generated C code runs
on an emulated console (an external runtime), and a *host* owns the window, the
controllers, the audio device, the files and the settings. There are three hosts
(Switch, SDL desktop, Windows), a headless runner, and a second, independent
analysis core that interprets and analyses the ROM.

| Component | Code | State | Operations | Hard part |
| --- | --- | --- | --- | --- |
| SRAM and settings store | `switch_sram.c` | `path`, `path.bak`, `path.tmp` | `SwitchSramRead`, `SwitchSramWrite` | any of eight calls fails, lies, or is the last before a power loss |
| Switch host loop | `switch_main.c` | `s_saved_sram`, `s_save_failed`, `s_config_failed`, settings, lifecycle, menu, latches, `next_save`, audio device | applet hook, SDL events, pad update, menu rows, frame, autosave, exit | two notions of focus, the callback's thread, saves that fail, actions that discard the game |
| Switch glue | `switch_host.c`, `switch_policy.h` | log line count, APU mutex | log rotation, breadcrumbs, locks, deadline rule | lock order; limits |
| Rewind history | `desktop_rewind.c` | ring of snapshots, `write_index`, `count` | init, push, pop; emptied by the host | wrapping in both directions after being emptied anywhere |
| SDL desktop loop | `sdl_main.c` | overlay, latches, slots, speed mode, rewind, audio queue, recorder, pads | event pump, controls, state files, rewind, frames, pacing | what must be restarted when the console's state jumps |
| Windows host | `desktop_main.c`, `windows_menu.c`, `windows_input.c` | eight audio blocks, blocked keys, taps, menu and focus | pacing by the audio device, messages, native menu, boxes | blocks the device owns; keys that cross menus and windows |
| Overlay model, chord, bindings | `desktop_overlay_model.c`, `desktop_input.c` | pending requests, slot, assist, chord latch, capture | request, take, shift, gate, capture | requests that outlive their permission |
| Input recorder and playback | `input_recording.c`, `input_playback.c` | open stream, script position | line per frame, replay | one line per emulated frame in every mode |
| Co-op policy | `dkc2_coop.c` | policy, loss mask, stomp/mount/pickup records, banana rectangle, stomp events | hooks in the cartridge's code | records that outlive what they describe; state the snapshot has only partly |
| Frame scheduler, snapshots | `dkc2_game.c` | resume address, frame deadline, host snapshot | run frame, NMI, save/load | interrupting the cartridge anywhere |
| Widescreen picture | `dkc2_video.c`, `dkc2_game.c`, `dkc2_kongs.c` | bias, hold, edge policy, page verdicts | draw, cull, prefill | what lags the camera; what a stale stamp vouches for |
| Frame pacing | `desktop_pacer.c`, `desktop_vsync.c`, `desktop_audio_rate.c`, `SwitchDeadline`, `PaceFrame` | deadline, refresh average, lock | observe, wait, re-anchor | late frames, drift |
| Music replacement | `dkc2_music.c`, `dkc2_msu1.c`, `dkc2_spc_music.c` | pack, song, variant, mute patch, resampling phase | command, load, enable, state loaded, mix | mute patch and playing track agree |
| HDMA scan | `dkc2_hdma.c` | channel cursors | scan | table ends and repeats |
| Analysis I/O | `src/snes_io.c`, `app/boot_main.c` | beam, NMI/IRQ, autojoy, math, video ports, DMA/HDMA | advance clock, read, write | everything against one clock; half-written registers |
| Analysis memory | `src/bus.c`, `hirom.c`, `rom.c`, `apu.c` | RAM, save RAM, open bus | map, read, write | mirrors |
| Analysis CPU | `src/cpu.c`, `decode.c`, `execute.c` | registers, static width state | decode, step, interrupts | register widths |
| Control-flow analyzer | `app/analyze_main.c` | worklist, visited points, return words | walk paths | what is dropped when an array is full |
| Rendering, presentation, launcher, tools | the rest | pictures, windows, settings files | | mostly data or library calls |

How they interact: the hosts call `RtlRunFrame`, which runs the cartridge up to a
deadline; the cartridge's code calls the co-op, music, culling and sprite hooks.
Hosts read and write save data through `g_sram`, state files and the rewind ring
through the snapshot functions, which call `Dkc2SaveExtra`/`Dkc2LoadExtra` and
through them the co-op policy. SDL's audio thread calls the host back for samples;
the Switch's operating system calls `LifecycleHook` while the main thread processes
its messages; the wave device gives blocks back to the Windows host.

What makes each correct, in one line: the **store** always has a complete copy and
says yes only when the image can be read; the **Switch host** loses no more than an
autosave period, discards nothing unsaved, and touches what the callback reads only
when it is stopped; the **rewind ring** restores the newest snapshots and no
garbage; the **desktop loop** never plays, rewinds into, or records something that
does not belong to the picture, and keeps the assist gate; the **Windows host**
fills only blocks the device is done with, in order, and gives the game no key that
was held through a menu; the **co-op policy** gives reactions, items and the lead to
the right Kong and revives none; **music** is muted exactly when a replacement
plays, and the replacement is the file, from its start through its loop; **pacing**
neither drifts nor bursts; the **widescreen picture** shows nothing from beyond a
wall, nothing the game has culled and no page that is being streamed; the **HDMA
scan** foretells what the lines will show; the **analysis core** raises every event
once at its cycle, keeps short index registers short, computes what the integers
do, and moves every byte of an upload to its place; the **analyzer** decodes what
the processor can reach, with the lengths it has there.

`PROJECT.json` lists every component with its status and every hazard at its line.

## 2. Modules

### Hosts

| Module | Models | State and actions |
| --- | --- | --- |
| `DurableStore` | what a checked store promises | `stored`, `asked`: a write commits its image or changes nothing |
| `SramStore` | `switch_sram.c` | three files; one action per file-system call (`Open` `Fill` `Discard` `Validate` `DropBackup` `Rotate` `DropPrimary` `Promote`), `Boot` is `SwitchSramRead`, `Crash`, `Damage` |
| `SwitchHost` | `switch_main.c` | `pc` is the place in the loop; `Launch`, `FocusHook`, `LoopTop`, `FocusEvent`/`QuitEvent`/`EventsDone`, `Input`, `MenuPass`, `Play`, `Present`, `Leave`; `AudioStarts`/`AudioReturns` are SDL's thread; `Stop` is a kill |
| `BoundedStack` | what a history of snapshots promises | a sequence of the newest `Capacity` snapshots |
| `RewindHistory` | `desktop_rewind.c` | `storage`, `count`, `write_index`; `Push`, `Pop`, `Forget` |
| `DesktopLoop` | `sdl_main.c` with the overlay model, the chord and the gate; instantiates `RewindHistory` | `Control` is one iteration up to its frames, then `Rewind`, `RunFrame` for each frame, `Present`, `PaceEnds`; events, the overlay's widgets and `DevicePull` run between them |
| `SoundLine` | what a player hears of sound handed over in blocks | `line`, `partial`; samples join and leave in order, a jump empties the line |
| `WaveAudio` | the audio device in `desktop_main.c` | `queued` at the device, `done` flags, `next`, `submitted`, `staging`; `Control` with every reset, `AppendAudio`, `SubmitCompleteAudioBlock`, `SubmitFails`, `Pace`, `Close`; `BlockDone` is the device. Refines `SoundLine` |
| `WindowsKeys` | the keyboard in `desktop_main.c`, `windows_menu.c`, `windows_input.c` | `down` keys, `mail` of messages, `blocked_keys`, `taps`; key, menu, box and focus messages, `ReadControls` |

### Console, picture and sound

| Module | Models | State and actions |
| --- | --- | --- |
| `CoopParty` | `dkc2_coop.c` and the co-op part of `dkc2_game.c` | `guest` is the cartridge's words; `Dispatch`, `PickUp`, `TeamUp`, `Accept`, `Stomp`, `Mount`, `BananaSecondWidth`, `BananaNextPass`, `TakeStompEvents`, `SetMode`, `Save`, `Load`; the cartridge's own actions below them |
| `MusicPolicy` | `dkc2_music.c`, `dkc2_spc_music.c` | the two policy bytes in the image and in the sound RAM, track, voices; commands, loads, enables, mixing, saved states |
| `MsuPlayer` | the player in `dkc2_msu1.c` | `phase`, the two frames held, file position; `Dkc2Msu1Select`, `Dkc2Msu1Mix` |
| `FramePacing` | `SwitchDeadline`, `PaceFrame`, the master-clock budget of `Dkc2RunOneFrame` and its snapshot | deadline's lateness and fraction; `PacedFrame`, `Restart`, `SaveSnapshot`, `LoadSnapshot` |
| `PlaneGate` | `dkc2_game.c` lines 112 to 261 | stamps of VRAM pages, cached verdicts, anchor and camera; `RunFrame`, `SaveWorld`, `LoadWorld`, `Draw` |
| `WideWindow` | the bias and margins of `dkc2_video.c` and `dkc2_game.c`, and the widened cull | camera, hold, `bias`, the host's copy, what was culled; `GuestFrame`, `EnterScene`, `DrawWorld`, `DrawBounded`, `StateLoaded`, edge policy and aspect |
| `HdmaTables` | HDMA tables as read by `snes_io.c` and by `dkc2_hdma.c` | operators only |
| `HdmaScan` | both readings side by side | one step is a scanline of the console and of the dry run; the bands recorded |

### Analysis core

| Module | Models | State and actions |
| --- | --- | --- |
| `SnesIo` | the clock of `snes_io.c` and the loop of `boot_main.c` | beam, latches, pads, units; `Step` (an instruction and its cycles), `ServiceNmi`, `ServiceIrq`, `WaitLine`, `GiveUp`, `SetController` |
| `Bus` | `bus.c`, `hirom.c` | operators on an address and a console record |
| `VideoPorts` | the video ports, `$2180`-`$2183` and general DMA of `snes_io.c` | one console record; `StorePort`, `StoreByte`, `SetUpChannel`, `StartDma`, `LoadWmdata` |
| `Decoder` | `decode.c`, `cpu.c` | operators only: lengths, flows, static width states |
| `Processor` | `execute.c`, with the static state beside it | `Execute`, `Trap`, `Nmi`, `Irq`, `Rti`, `CpuReset` |
| `Arithmetic` | binary and decimal arithmetic of `execute.c` | an accumulator and its flags; `AluNext` |
| `ControlFlow` | `analyze_main.c` | worklist, current point, visited points, counts; `TakePath`, `Finish`, `Meet`, one action per kind of instruction |

`MC...` modules hold instances for TLC; `...Proofs` modules hold theorems.
`MCParts` and `MCConsole` each explore several modules that share no state: the
variable `part` names the one a behaviour is about, the others keep their initial
state. `MCDesktopPlay` restricts `DesktopLoop` to three kinds of game.

Each action is a whole handler. Where a handler calls something that can fail, the
outcome is a choice inside the action; where the program can be interrupted between
two calls with a visible difference (the store), each call is an action.

### What stands for what

* **Images and consoles.** Save data and files are model values. In `DesktopLoop`
  the console is deterministic, so its state is the sequence of inputs that led to
  it: a prefix is an earlier moment, another branch another sequence.
* **Time.** The autosave timer and the audio queue are counted in frames; the
  sub-frame arithmetic is in `FramePacing`, with the host's counter relative to the
  deadline and its fraction carried exactly.
* **The store inside the host.** `SwitchHost` writes in one step with a result,
  `DurableStore`'s step: `SramStore!Refinement` is why this is sound. A boot may
  recover an older copy or none when a read fails; `blind` says so.
* **History variables** (marked *history* in the modules) never guard an action of
  the code; properties use them to say what happened before. In `WaveAudio` a
  sample carries the number of the frame it was made in.
* **The cartridge.** `CoopParty` has no access to the cartridge's code. Its actions
  `Hurt`, `Leaves`, `Rescue`, `Plays`, `Item`, `Dismount`, `Swap` and `Accept`'s
  trigger are an environment drawn from how `dkc2_coop.c` and its tests read the
  words: a state is dispatched at least once per frame before it changes; a Kong
  that leads is not drawn in the follower's order (which the reconstruction of the
  loss mask from old snapshots relies on); a swap needs the follower present. The
  sound program's voices and uploads in `MusicPolicy`, the writes to VRAM pages in
  `PlaneGate` and the camera in `WideWindow` are the cartridge's in the same way.
  All are marked external in the map.
* **Registers.** `Processor` keeps only what decides how many bytes the next
  instruction has. `Arithmetic` has the values, with digits instead of bytes.
  `VideoPorts` has bytes of `ByteRange` values, banks of eight pages, remaps and long
  steps of smaller sizes, each a constant with the relations the code's sizes have.
* **Unsupported registers.** `Bus`'s I/O window stands for the registers the core
  does not support; reading one raises the barrier the loop stops at.
* **Foretelling.** `HdmaScan` excuses two places where the dry run and the console
  are known to part: a table that runs off the end of the memory the dry run was
  given (the console wraps), and the repeat count of the descriptor `$80`.

## 3. Runs

| Run | Instance | Shows |
| --- | --- | --- |
| `sram_backup_message` | two images | finding (violation) |
| `host_save` | two images, autosave after 1 frame, three failures, the rows reset and quit | `LossWindow`, `NoSilentLoss`, `LeavingIsSaved`, and the liveness property `SavedAgain` |
| `host_menu` | one image, two volumes, both chords, buttons that end the menu held across its edges | `StaleInputWithheld`, `ChangeIsKept`, `SoundIsExcluded` |
| `desktop_play` | silent recorded games with branching input, a pad and a former state file; heard games of five frames, queue target 3, pulls of 2; games of one frame with all keys, overlay buttons, chords and views, two slots of which one is written; ring of 2 in all | `HistoryIsPast`, `RecordingReplays`, `SoundMatchesPicture`, `UnpacedBurst`, `AssistHolds` |
| `desktop_quick_slot` | a native menu | finding (violation) |
| `desktop_pads` | one pad | finding (violation) |
| `coop_party` | seven kinds of game, one snapshot | `LostUntilRescued`, `OwnerIsHolder`, `SelectorsPaired`, `RectRestored`, `HandsStayOpen`, `ReactionsFindTheirKong` |
| `coop_switch` | hurts and policy changes | finding (violation) |
| `coop_stomp` | stomps and choices of the policy | finding (violation) |
| `parts` | the store, the ring, the executor, the analyzer, the arithmetic, the wave device, the Windows keyboard | store: `Refinement` of `DurableStore`, `HealthyWriteCommits`; ring: `RingRefinement` of `BoundedStack`; executor: `StaticCovers`, `LengthsAgree`, `WidthsKept`; analyzer: `RoomIsLeft`, `DecodesTheReachable`, `AnalysisEnds`; `AluMeetsReference`; device: `LineRefinement` of `SoundLine`, `BlockComes`; keyboard: `KeysAreFresh` |
| `windows_keys` | two keys | finding (violation) |
| `console` | the clock in four groups of registers, HDMA, music, player, pacing, planes, window, ports | `ConsoleTypeOK`, `ClockKept`, `ScanForetells`, `OneSoundtrack`, `PlaysAsWritten`, `PacingKept`, `PlaneIsTrue`, `WindowKept`, `PortsKept` |

What the less obvious ones say. `ClockKept`: paying any number of cycles does what
paying them one at a time does, and a result or an interrupt that was armed comes in
time; the run compares the payments of 0 to 9 cycles in `Payments`, one and a half of
its lines. `LeavingIsSaved`: reset happens only with the save RAM on the card, and
save-and-quit ends the program only with both files written.
`ReactionsFindTheirKong`: a stomp or mount reaches the Kong that collided, through
swaps and later collisions, while the policy's record of it stands. A choice of the
policy or a load erases the record and leaves the cartridge's reaction queued; then the
leader is served (as the classic policy always has it), and never the Kong of another
collision or of an abandoned future. The history `struck` is kept over both, so that
the case is checked; `coop_stomp` reports where the documents promise more. `PortsKept`: from any state of toggles and
latches, an upload by DMA arrives whole and changes nothing else. `PlaneIsTrue`: a
plane drawn from the static pages shows what the pages hold, and none that is being
streamed. `WindowKept`: the picture slid by the late bias is in the level, and what
it shows was not culled by the bias of the drawing before.

### Bounds, and why they are enough

* *Three images* tell the image being written, the newest one and its predecessor
  apart; a fourth is only another name.
* *`MaxFaults` 3* is the least for which the periodic save, the save on entering the
  menu and the save the reset row asks for all fail, so that the reset is asked for
  with unsaved data. *`SaveEvery` 1* makes the timer due in every frame that was
  reached without a save; the theorem covers every period.
* *`Levels`* is 1 where the volume plays no part and 2 in `host_menu`, where a
  change must be visible. *`Rows`* and *`Grips`* restrict what the player does to
  the rows and buttons a run is about.
* *Capacity 4* with three snapshots lets the ring wrap both ways, with a
  snapshot repeated; *capacity 2* in the loop evicts with three captures.
* *`MaxFrames`* bounds the length of a console's past: two frames make two
  branches (the constraint `Short` keeps recorded games at two, and lets pads come
  and go before the first frame only); five frames fill and drain an audio queue
  with a target of three.
* *`Games`* lists what happens together in one game. A team-up needs no
  snapshots and a stomp no bananas; stomps and mounts meet swaps, choices of the policy
  and loads between their acceptance and their service; the actions that change the leader (hurt, swap,
  mount, team-up) occur with every record they could upset. *`MaxSaves` 1*: one
  snapshot can be loaded any number of times, after anything.
* *The executor* runs every opcode, with one interrupt nested and, inside a handler,
  `SEC`, `REP` and `XCE`. *The analyzer* meets every program of
  three addresses over an opcode of each flow, with limits below and above its size.
* *Arithmetic* is byte-wide, every accumulator against operands at the edges of
  decimal and binary range, with every carry; the theorem is about both widths.
* *Three blocks of two samples* and frames of one or three make a frame end before,
  at and after a block; *two messages* are one for the key and one for what the key
  is mixed up with.
* *The clock* has lines of six cycles, four lines, and timers at a line's start,
  within it and beyond the frame; an instruction costs less than, about, or more
  than a line. *HDMA* is run over every table of five bytes of four values. *Pacing*
  has `Num/Den` = 13/4 so that every fraction occurs, and passes that take from
  nothing to several frames.
* *The player's* rates are 11 to 8, so that a mixed frame moves one or two source
  frames and every phase occurs; files have one to four frames, with every loop point.
* *`MaxAccesses` 2*: two accesses leave any toggle half-way, or run any set-up
  transfer, before an upload is tried.
* *The window* has margins of one and three pixels, a glide of two, a camera of two
  pixels a frame, and a level as narrow as the assumption allows: the tight case.

Deadlock is not checked for `DesktopLoop` (the loop ends in `"stopped"`, and the
bound on frames stops it too) nor for `parts` and `console` (a program, a track, a
scan or an analysis ends). All other specifications run with deadlock checked.

Fairness: `SwitchHost` states `WF_vars(Loop)`, that the main thread is scheduled and
its loop's own steps are taken. `parts` states the same of the analyzer, of the
Windows loop's own steps, and that the wave device goes on playing what it has
(`BlockDone`). Nothing is assumed of players, applets, SDL's thread or of failures
ending, other than the run's bound on failures; `SavedAgain` has the game being
played as its premise.

Each property of a passing run has a mutant in `PROJECT.json`, a plausible bug in
the operator named, under which TLC finds the property violated.

## 4. Findings

* **A refused write can cost the backup** (`sram_backup_message`). When
  `rename(path, path.bak)` fails, `path.bak` has already been removed, while the
  messages of `switch_main.c` say "Previous backup retained". The primary is still
  complete (theorem `BackupIsGivenUpSafely`), so nothing is lost by that step alone.
* **Quick Save uses the selected slot** (`desktop_quick_slot`), not slot 1.
* **A pad attached while the overlay is open is never opened** (`desktop_pads`): the
  overlay consumes the event and nothing looks again.
* **A loss under the classic policy is not seen** (`coop_switch`): after switching to
  simultaneous, input revives the lost Kong.
* **Choosing a policy forgets whose stomp is queued** (`coop_stomp`): `Dkc2CoopSetMode`
  erases the record also when the policy stays the same (a restore of the defaults),
  while the reaction stays queued, so the follower's stomp bounces the leader;
  `docs/HARDWARE_NOTES.md:190` says that it is remembered. A load erases it too, which
  `docs/ARCHITECTURE.md:1663` says of the mount.
* **A key pressed in another window reaches the game** (`windows_keys`): held keys
  are captured when the focus is lost, and not again when it comes back; the press
  that ends the About box is one.

Noted while modelling, without a run of their own: an IRQ latched before its mode was
switched off is still delivered; a processor that waits for an interrupt that cannot
come (a line beyond the frame, or a masked IRQ) loops without counting instructions;
DMA to registers `ppu_write` does not know is dropped silently; a drawing without a
frame of the game (the overlay, a pause) still moves the bias; after a narrower aspect
is chosen the old bias shrinks a pixel a drawing, and until it fits the east end of
the cull is short; the first drawing of a new map uses the bias of the map before; a
state file without the loss mask that was written after a mount in a game with a lost
Kong revives it and loses the other (section 5).

## 5. Proofs

Every proof holds for every value of the constants under the named assumption of the
module: `ImageAssumption`, `HostAssumption`, `LoopAssumption`, `KeysAssumption`,
`CpuAssumption`, `TableAssumption` and `LineAssumption` (a byte has two
halves, a bank an address), `FlowAssumption` (an address holds a byte, or nothing),
`TimingAssumption`, `MusicAssumption`, `PlayerAssumption` (the file's rate is less than twice the
output's: 44100 Hz against the 32040 Hz that every caller of `Dkc2MusicMix` passes),
`PacingAssumption`, `WaveAssumption`, `KeyboardAssumption`, `WindowAssumption`,
`GateAssumption` (a map has a page), `AluAssumption` (an accumulator has
two digits or four, and so have operands), `CoopAssumption`, `BusAssumption` (the image fits the
64 banks of the cartridge; save RAM divides its window), `PortAssumption` (a byte has an
even number of values, a bank a word's), `SampleAssumption` (what the run tries is an
upload, a pair of writes, an address) and the ring's positive
capacity. TLC evaluates each in the run that extends its module, as it does those of
the modules that are only model-checked.

`SramStoreProofs`. The inductive invariant is `TypeOK /\ Progress`; `Progress` says
what each call finds on the disk (the temporary is the data after validation; a
primary that is rotated is complete; targets of renames are free). The lemma
`WriteStep` sums up a step of the write (committed, refused with the store unchanged
and a fault, or under way with the store unchanged); `StoreIsNeverLost`,
`AcknowledgedIsStored`, `HealthyWritesCommit` and `ImplementsDurableStore` follow.

`SwitchHostProofs`. Four separate inductive invariants, each for one concern:
`AudioInv` (where in the loop the device can play and the callback run; needed
because playing in the foreground alone does not say that the frame that starts the
device is in focus), `CardInv` (the saved copy mirrors the card, with
`NoSilentLoss`), `TimerInv` (unsaved frames and the timer add up to at most the
period; `LossWindow` alone is not inductive), `InputInv` (nothing is stale once input
is released). `SoundIsAlwaysExcluded` and `LeavingIsAlwaysSaved` are action properties
from them; `ChangesAreKept` rests on the lemma on the last settings written in a pass.

`RewindHistoryProofs`. `Held(st, c, w)` is the sequence the ring holds; `Wrap` and
`Steps` isolate the modular arithmetic; `PushIsPush`, `PopIsPop`, `ForgetIsForget`
show that each operation simulates `BoundedStack`'s, and `ImplementsBoundedStack`
combines them.

`DesktopLoopProofs`. `TypeOK` comes first, by itself: the ring's part of it is taken
from `RewindHistoryProofs`, instantiated with consoles as the snapshots. On top of it:

* `SoundInv`: `SoundMatchesPicture` needs that nothing is queued while frames are not
  played at normal speed, or the way back to normal would uncover old sound;
* `RecordingReplays` is inductive with the types;
* `BurstInv`: `UnpacedBurst` holds where the loop waits; inside an iteration the frames
  since the last wait must be bounded by what they put in the queue, or nothing after
  a wait;
* `AssistInv` bridges the iteration: the mode chosen at its top is not rewind unless
  the tools are on. `AssistHolds` is an action property from it;
* `PastInv`: every snapshot the ring holds is a strict prefix of the next, and the
  last of the console. That no frame divides two snapshots' order is the ring's own
  theorem about what `Push`, `Pop` and `Forget` leave (`Held`), so nothing about
  indices is proved twice.

`AnalysisProofs` holds the theorems of the processor, of the analyzer, of the ports and
of the arithmetic. `CpuInv`
adds `FrameCovered` for every saved interrupt frame to the types, `StaticCovers` and
`WidthsKept`: what is known of a pushed status must be true of it, or a return would
lose the argument. One lemma for each family of opcodes. `LengthsAgree` follows from
it: `Row0` to `Row15` compare the decoder's table of modes with the sets of opcodes
the executor fetches operands for (`OpcodesFit`), and widths of which the known ones
are real therefore give equal lengths (`LengthsFit`). `FlowInv` is
`Typed /\ Counted`: each decoded instruction adds at most one path, two edges and one
call site, so the four arrays, whose capacities are multiples of the instruction
limit, never fill while the analysis goes on. `ReachInv`, on top of it, gives
`DecodesTheReachable`: below the limit every successor of a visited point is visited,
queued, or where the path is (`Awaited`), and every visited or queued point but the
first succeeds an earlier one (`Rooted`), so a walk back from it ends at the entry.
`CodeStays` keeps both when a byte is read for the first time.

The ports, in the same module, are proved for `PortsSpec`: every port, byte, address,
channel and start. Their state is one record of 27 fields, so a lemma for each port says
what it stores and what it leaves alone (`OamWrites`, `VramWrites`, `ScrollWrites`, ...;
`Keeps`), and everything later rests on those. `PortsInv` adds to the types that the
product and the first sprite follow their registers. A transfer is a loop of as many
turns as it has bytes: `MovedIs` and `TurnsAre` unfold the two recursive functions (by
`Recursion`, that such a function exists and is unique), and `SentAll` is the induction,
`Sent` its hypothesis: after n bytes the memory is what `Expected` says of n, the toggle
and the address are those of the n-th byte, and nothing else has moved, so that the
source still reads as it did (`SourceStands`). Sprites are the awkward case: the first
byte of a word waits in the latch. `Least` is proved here again, since the module of the
clock cannot be extended together with the analyzer's.

The arithmetic is proved for `AluSpec`, with both widths and any operands. The loops over
two or four digits are recursive functions of the model: `PlacesAre`, `WeighedIs`,
`SumsAre` and `DifferencesAre` unfold them once and for all, and what is left of a loop
is a step from one digit to the next. `HasDigits` and `PackedIs` say that a word is its
digits and that packing them loses none. In decimal mode `SumDigit` and
`DifferenceDigit` are one turn of the loop: the corrected digit is decimal and ten times
the carry makes up for the correction, also for the borrow. `SpellsSum` and
`SpellsDifference` add the turns up, each with the place it counts for, so that the
carries between them cancel. In binary mode `BinarySum` and `BinaryDifference` compare
the tests of signs with the range of signed numbers. `AluInv` says that
the accumulator is what the instruction remembered makes of the one it met, and both
have the width.

`WindowsProofs`. `WaveInv`: the blocks the device has are the ones before `next_block`
in the ring, oldest first, and none of them is marked done (`Lent`); before the ring
has gone round once each block used is done or with the device (`Begun`); and the
loop's place tells how full the staging block is (`Flow`). `ImplementsSoundLine` is
the refinement. `KeysInv` is `KeysTypeOK /\ Withheld`: every key held since a
transition is blocked while it is down, and every tap was told after it.

`CoopPartyProofs`. Three invariants, for every set of parts a game may have and with
the policy changing at will. `CoopInv` adds to the types and the pairing of the six
words that a Kong in the air is the follower, held by the leader and present, with no
reaction queued (a mount served then would hand the lead over and open the hands), that
the rectangle kept for the extra pass, or else the one in place, is the animal's, and
all of it of the snapshot, which `Load` brings back. `ReactionOK`, on top of it, says
that a record exists only while its reaction is queued and nothing has erased it, and
then names the Kong that collided and the sprite it hit; `StompIsOwed` and `MountIsOwed`
take from it whom `Stomp` and `Mount` serve, in both cases of `Owed`.
`OwnerOK` says whose hands may hold what: nobody but its holder carries an item, nobody
carries when nothing is held, and a held partner is leaping or carried.

`LostUntilRescued` needs a fourth, `LossInv`, and a hypothesis, `SteadyGames`: a game
with losses neither changes the policy nor has mounts together with saved states. The
first is the finding of section 4. The second was found by the attempt to prove it
without: a state file of before the mask was kept has only the words, and a mount
accepted while one Kong is lost hands that Kong the lead, after which `Load` takes the
other for the lost one. `SteadyGames` holds of every game of the runs but the one of
the finding. `LossInv`: a Kong out of the game is hurt and will be dispatched before
it moves, or it waits and the mask knows it; of a snapshot the same. In games that
also save, the drawing order tells a lost Kong from a follower that waits (`BackOK`),
which is all the reconstruction has to go by, and an accepted pickup has its Kong in
front.

`ConsoleProofs` holds the theorems about the music, the pacing and the picture.
`MusicInv` carries `TrackIsSongs` and, for the running and for the saved sound RAM, that
no music voice is on when the bytes mute it.
`PacingInv`: a run of frames' gain and the host's lateness are bounded
together, `burst + Lateness <= Slack * Den`, since neither is alone; the fraction
carried on a re-anchoring is part of it. `WindowInv`: `LagBounded`, the bias has Pace
times the room it still has to give up between the camera and the wall, where Pace is
the larger of the camera's speed and the glide, one pixel of it owed while a frame
awaits its drawing; and `CullKnown`, the cull is the one the presented bias makes.
The assumption names how wide a level must be for its aspect. `PlaneInv`: a verdict
that is still in use has been wrong for as many drawn frames in a row as it is old, at
most (`WrongAsOld`), which the refresh then bounds; until a load sets stamps back, a
verdict with the newest stamp is about the map as it is (`StampsTell`), and a page
whose stamp the gate has seen was not written since, so the gate knows how far the
camera has been from where it stood then (`GateSees`). `MsuInv`: for some k the
output frames heard are k source frames and the phase, the player holds frames k and
k + 1 of what the file should sound like, has read no further, and knows whether the
second was the last; or it has stopped behind a file that does not loop. `Successor`
and `FrameFollows` carry the loop's modular arithmetic. The mix's `while` is two
steps in the model: under the assumption on the rates it never takes a third.

The clock, in the same module, is proved for `IoSpec`: any program, any payment. That a
payment does what its cycles do one at a time is no invariant but a fact about a loop
of any number of turns, so the proof goes by induction on the number of cycles, in the
form of the least number for which it could fail (`Least`, from the library's
well-founded sets, whose theorems take no operator). `TurnsAre` unfolds the recursive
function, `TurnsSuffice` shows that the turns counted end every payment, `AdvanceIs` is
its first turn and a shorter payment, and `OneCycleMore` the result: `PassedAdds` is
its step within a line, `CycleIsTurn` the step over a line's end. `ClockInv` carries
`ClockKept`: the registers hold what was asked and the time left to it (`SumOf`), and
the lines a CPU has waited and those still to come to the event that will wake it are a
frame at most (`WaitOf`); a waited line passes that event or brings it a line nearer
(`LinePasses`, `TimerNears`).

The foretelling of lines, in the same module too, is proved for `ScanSpec`: every table,
any number of channels, every size of a byte and of a bank. `Mates` relates a channel of
the console with its copy in the dry run: both are read or neither, from the same place
(the one wraps its address, the other's pointer may stand at the end of the store), and
one byte with the count and the repeat bit holds what the other keeps in two. `LoadsAgree`
is the descriptor, `BytesAre` the one or two bytes of a transfer, and `LinesAgree` their
sum: a line keeps two mates together and both write the same, unless it is one of the two
encodings section 2 names. `LineKeepsTogether` is the induction over the channels, which
share their registers and run in order. `ScanInv` adds that the bands end at the last
line drawn, hold every line, and that each shows what its lines were drawn with.

Only model-checked:

* the liveness properties `SavedAgain`, `AnalysisEnds` and `BlockComes`, since fairness
  and ENABLED are out of the prover's reach;
* `ConsoleTypeOK`, which only joins the types of the modules of `console`. Each of them
  is proved by itself (`IoTypeCorrect`, `ScanTypeCorrect`, `MusicTypeCorrect`,
  `MsuTypeCorrect`, `PacingTypeCorrect`, `GateTypeCorrect`, `WindowTypeCorrect`,
  `PortsTypeCorrect`); the last is in another module of proofs than the rest, because
  the two components use the same names.

## 6. Not modelled

Drawing, presentation and pixel filters (no control state); parsing of command
lines, environment and settings text; the external runtime and the cartridge (not in
the repository); decoding and mixing of audio; generated code and vendored code;
headless runner and reports.

Left out of a component that is modelled:

* `CoopParty`: hooks that only replace an operand (held words, palettes, clipping,
  margins, handoff positions, candidate colliders) and change no state.
* `SnesIo`: sound ports, open bus of registers, the latch of the horizontal scroll in
  HDMA writes; DMA takes no time. `VideoPorts`: ports that only keep what is written,
  the fixed colour, the marks of used features, the DMA counters, the confirmation of
  a cleared VRAM; accesses beyond $213F pass through it without the code's check, which only
  allows more. `Bus`: ROM identification. `HdmaScan`: vertical scroll and main layers,
  against the transfers of the analysis core.
* `MusicPolicy`, `MsuPlayer`: search for folders, headers, the arithmetic of the mix.
* `PlaneGate`: broken rows, bases of characters and stream, the second axis.
* `WideWindow`: maps whose camera goes below their first page, and levels narrower
  than its assumption: there a fast camera may show what is past a wall. Mirrored edge
  tiles, level layouts, prefill and sprite replacement are data.
* `WaveAudio`: the unpaced prefill and the time after a stall; a message that
  restarts the loop within the wait only ends it. `WindowsKeys`: gamepads, the chord,
  the performance key, fullscreen and the muting of Alt.
* `ControlFlow`: labels, options that only print. `Arithmetic`: instructions other
  than addition, subtraction and comparison.
* `SwitchHost`: the APU mutex and SDL's device lock. Who waits for whom depends on
  library calls that are not in the repository.

## 7. Plan

1. `FrameScheduler`: NMI at the resume address, first frame, save and load between
   any two frames, once the runtime's contract is written down.
2. The rest of `dkc2_video.c` and of the prefill in `dkc2_game.c`: scroll unwrap,
   level layouts and the mirrored edge as operators against references.
3. The display lock and the audio stretch (`desktop_pacer.c`, `desktop_vsync.c`,
   `desktop_audio_rate.c`) beside `FramePacing`.
4. Bindings and their capture, the playback parser, log rotation, the handshake with
   the sound processor.
5. Proofs: the arithmetic of shifts, of `INC` and of `BIT`, once it is modelled.
