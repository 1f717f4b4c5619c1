---------------------------- MODULE DesktopLoop -----------------------------
(***************************************************************************)
(* The SDL desktop host's main loop (RunGame in runner/sdl_main.c) with    *)
(* the overlay model (desktop_overlay_model.c), the menu chord and the     *)
(* assist gate (desktop_input.c), the rewind ring (RewindHistory), the     *)
(* audio queue, save slots and the input recorder.                         *)
(*                                                                         *)
(* The console is deterministic, so its state is the sequence of inputs    *)
(* that led to it.  Audio is counted in frames of the game.  Presentation, *)
(* settings and the test hooks are left out; a frame's deadline is too.    *)
(***************************************************************************)
EXTENDS Integers, Sequences, SequencesExt

CONSTANTS Inputs,       \* controller words; Neutral is one of them
          Neutral,
          Fresh,        \* what malloc leaves in the rewind ring
          Capacity,     \* kRewindSnapshotCapacity
          Interval,     \* kRewindSnapshotInterval
          Speed,        \* kHostSpeedMultiplier
          Slots,        \* save slots (5 in the code)
          Pads,         \* game controllers the player can plug in (at most 2)
          Missing,      \* no file
          Legacy,       \* the former file of slot 0, or Missing
          Target,       \* frames of audio rate control aims for
          Pull,         \* frames of audio the device takes at a time
          Sounds,       \* whether there can be audio at the start: a set of Booleans
          Recorders,    \* whether the input can be recorded: a set of Booleans
          Clicks,       \* what the player uses in the overlay
          Chords,       \* what is held of Start and Back: "none", "one", "both"
          Views,        \* "in" focus, "alt" held, focus "out"
          HostKeys,     \* sets of assist bindings held together
          Platform,     \* sets of commands of the native menu
          MaxFrames     \* bound on the frames that lead to a console state

ASSUME LoopAssumption ==
  /\ Neutral \in Inputs
  /\ {Capacity, Interval, Speed, Slots, Target, Pull} \subseteq Nat \ {0}
  /\ Sounds \subseteq BOOLEAN /\ Recorders \subseteq BOOLEAN
  /\ MaxFrames \in Nat
  /\ Fresh \subseteq BoundedSeq(Inputs, MaxFrames)
  /\ Legacy \in BoundedSeq(Inputs, MaxFrames) \cup {Missing}

Actions == {"rewind", "ff", "save", "load"}
FileActions == {"save", "load"}
ASSUME KeysAssumption ==
  /\ Clicks \subseteq FileActions \cup {"resume", "quit", "assist", "slot"}
  /\ HostKeys \subseteq SUBSET Actions /\ Platform \subseteq SUBSET FileActions
  /\ Chords \subseteq {"none", "one", "both"} /\ Views \subseteq {"in", "alt", "out"}

Consoles == BoundedSeq(Inputs, MaxFrames)

VARIABLES
  pc,          \* "pump", "run", "pace" or "stopped"
  console,     \* the inputs that led to the console's state
  storage, count, write_index, restored,      \* the rewind ring
  available,   \* rewind_available
  counter,     \* rewind_capture_counter
  slots,       \* the files of the save slots
  open, assist, slot, pending,                \* Dkc2DesktopOverlayModel
  latch,       \* host.menu_chord_previous
  wasOpen,     \* previous_overlay_open; the device is paused with it
  mode,        \* previous_mode, this iteration's once it is known
  held,        \* previous_state_actions
  input,       \* controls.controller
  runs,        \* frames this iteration still runs
  ready,       \* frame_ready
  queued,      \* frames in the audio queue
  primed, audible,                            \* audio_primed, audio_available
  running,     \* host.running
  recording, recorded,    \* the input recorder's stream is open; its lines
  plugged, opened, padEvent,   \* controllers, host.controllers, an event waits
  heard,       \* history: the console state of the newest queued audio
  burst,       \* history: unpaced iterations since the device last pulled
  travelled    \* history: a rewind or a load happened

History == INSTANCE RewindHistory WITH Snapshot <- Consoles

ringVars == <<storage, count, write_index, restored>>
rewind   == <<ringVars, available, counter>>
menu     == <<open, assist, slot, pending>>
control  == <<latch, wasOpen, mode, held, input>>
audio    == <<queued, primed, audible, heard, burst>>
recorder == <<recording, recorded>>
pads     == <<plugged, opened, padEvent>>
iter     == <<runs, ready>>
vars     == <<pc, console, rewind, slots, menu, control, iter, audio, running, recorder,
              pads, travelled>>

TypeOK ==
  /\ pc \in {"pump", "run", "pace", "stopped"}
  /\ console \in Consoles /\ heard \in Consoles /\ recorded \in Seq(Inputs)
  /\ History!RingTypeOK
  /\ {available, open, assist, latch, wasOpen, ready, primed, audible, running,
      recording, padEvent, travelled} \subseteq BOOLEAN
  /\ counter \in 0 .. Interval - 1
  /\ slots \in [0 .. Slots - 1 -> Consoles \cup {Missing}]
  /\ slot \in 0 .. Slots - 1
  /\ pending \subseteq FileActions \cup {"quit"}
  /\ mode \in {"normal", "rewind", "ff"} /\ held \subseteq FileActions
  /\ input \in Inputs /\ runs \in 0 .. Speed
  /\ queued \in Nat /\ burst \in Nat
  /\ opened \subseteq Pads /\ plugged \subseteq Pads

-----------------------------------------------------------------------------
\* RunGame up to the loop; audio may be unavailable and the first snapshot
\* may not fit.
Init ==
  /\ pc = "pump" /\ console = <<>>
  /\ available \in BOOLEAN /\ counter = 0
  /\ storage \in [History!Cells -> Fresh] /\ restored = <<>>
  /\ count = IF available THEN 1 ELSE 0
  /\ write_index = count % Capacity
  /\ available => storage[0] = <<>>
  /\ slots = [s \in 0 .. Slots - 1 |-> Missing]
  /\ open = FALSE /\ assist \in BOOLEAN /\ slot = 0 /\ pending = {}
  /\ latch = FALSE /\ wasOpen = FALSE /\ mode = "normal" /\ held = {} /\ input = Neutral
  /\ runs = 0 /\ ready = FALSE
  /\ queued = 0 /\ primed = FALSE /\ audible \in Sounds
  /\ running = TRUE /\ recording \in Recorders /\ recorded = <<>>
  /\ plugged = {} /\ opened = {} /\ padEvent = FALSE
  /\ heard = <<>> /\ burst = 0 /\ travelled = FALSE

\* Events are pumped at the top of the loop and while a frame is paced.
Pumping == pc \in {"pump", "pace"}

\* Escape or the Guide button (outside fullscreen).
ToggleEvent ==
  /\ Pumping
  /\ open' = ~open
  /\ UNCHANGED <<pc, console, rewind, slots, assist, slot, pending, control, iter, audio,
                 running, recorder, pads, travelled>>

\* The open overlay consumes every other event, the window's too; only a
\* native menu can still quit.
QuitEvent ==
  /\ Pumping /\ (~open \/ Platform # {{}})
  /\ running' = FALSE
  /\ UNCHANGED <<pc, console, rewind, slots, menu, control, iter, audio, recorder, pads,
                 travelled>>

Plug(now) ==
  /\ now # plugged
  /\ plugged' = now /\ padEvent' = TRUE
  /\ UNCHANGED <<pc, console, rewind, slots, menu, control, iter, audio, running, recorder,
                 opened, travelled>>

PadEvent ==
  /\ Pumping /\ padEvent
  /\ padEvent' = FALSE
  /\ opened' = IF open THEN opened ELSE plugged
  /\ UNCHANGED <<pc, console, rewind, slots, menu, control, iter, audio, running, recorder,
                 plugged, travelled>>

\* While the overlay is drawn its buttons work; it may be drawn just before
\* or just after the events of a paced frame.
Drawn == pc = "pace" /\ open

Request(action) ==
  /\ Drawn /\ action \in Clicks
  /\ action \in FileActions => assist
  /\ pending' = IF action = "resume" THEN pending ELSE pending \cup {action}
  /\ open' = (action # "resume")
  /\ UNCHANGED <<pc, console, rewind, slots, assist, slot, control, iter, audio, running,
                 recorder, pads, travelled>>

\* The other widgets of its assist page.
AssistPage ==
  /\ Drawn
  /\ \/ "assist" \in Clicks /\ assist' = ~assist /\ UNCHANGED slot
     \/ /\ "slot" \in Clicks /\ assist
        /\ slot' \in {(slot + 1) % Slots, (slot + Slots - 1) % Slots}
        /\ UNCHANGED assist
  /\ UNCHANGED <<pc, console, rewind, slots, open, pending, control, iter, audio, running,
                 recorder, pads, travelled>>

-----------------------------------------------------------------------------
\* Dkc2UpdateMenuChord: the latch and what the chord asks for.
ChordToggles(c) == c = "both" /\ ~latch
ChordBlocks(c)  == ChordToggles(c) \/ (c # "none" /\ latch)
ChordLatch(c)   == c # "none" /\ (latch \/ c = "both")

\* Mutant: the overlay's requests are let through.
GatedKeys(keys, requests, platform) ==
  (IF assist THEN keys ELSE {}) \cup requests \cup platform

\* Dkc2ApplyAssistGate; the native menu's commands pass it.
Gated(keys, requests, platform) ==
  (IF assist THEN keys \cup requests ELSE {}) \cup platform

\* A state key works once each time it goes down.
NewPress(wanted) == wanted \ held

\* Mutant: a load leaves the ring alone.
KeepRewind(state) == UNCHANGED <<ringVars, counter>>

\* What a load does to rewind: the ring starts again at the loaded state.
RestartRewind(state) ==
  /\ counter' = 0 /\ UNCHANGED restored
  /\ \/ /\ available
        /\ storage' = [storage EXCEPT ![0] = state]
        /\ count' = 1 /\ write_index' = 1 % Capacity
     \/ /\ count' = 0 /\ write_index' = 0           \* the snapshot failed
        /\ UNCHANGED storage

\* What RtlLoadSnapshot can find for the slot.
Files == ({slots'[slot]} \cup (IF slot = 0 THEN {Legacy} ELSE {})) \ {Missing}

\* Saving and loading, in this order; either may fail.
StateFiles(wanted, loaded) ==
  /\ \/ "save" \in wanted /\ slots' = [slots EXCEPT ![slot] = console]
     \/ UNCHANGED slots
  /\ travelled' = (travelled \/ loaded)
  /\ IF loaded
     THEN "load" \in wanted /\ console' \in Files /\ RestartRewind(console')
     ELSE UNCHANGED <<console, ringVars, counter>>

\* Mutant: the queue is kept over a load.
ResetsOnSwitch(loaded, switched) == switched

\* ResetAudio runs on a load, and when the overlay or the speed changes.
ResetsAudio(loaded, switched) == loaded \/ switched

\* One iteration up to the frames it runs: the pad and its chord, the
\* overlay's requests, the assist gate, the state files and the speed.
Control(pad, keys, chord, platform, view) ==
  LET openNow == IF view = "in" /\ ChordToggles(chord) THEN ~open ELSE open
      muted   == view # "in" \/ ChordBlocks(chord) \/ openNow
      gated   == Gated(IF muted THEN {} ELSE keys, pending, platform)
      speed   == IF "rewind" \in gated THEN "rewind"
                 ELSE IF "ff" \in gated THEN "ff" ELSE "normal"
  IN
  /\ pc = "pump" /\ "quit" \notin pending
  /\ pc' = "run"
  /\ latch' = CASE view = "in" -> ChordLatch(chord) [] view = "alt" -> latch [] OTHER -> FALSE
  /\ open' = openNow /\ wasOpen' = openNow
  /\ pending' = {}
  /\ input' = IF muted THEN Neutral ELSE pad
  /\ held' = gated \cap FileActions
  /\ mode' = speed
  /\ \E loaded \in BOOLEAN :
       /\ StateFiles(NewPress(held'), loaded)
       /\ IF ResetsAudio(loaded, openNow # wasOpen \/ speed # mode)
          THEN queued' = 0 /\ primed' = FALSE /\ burst' = 0
          ELSE UNCHANGED <<queued, primed, burst>>
  /\ runs' = IF openNow \/ speed = "rewind" \/ ~running THEN 0
             ELSE IF speed = "ff" THEN Speed ELSE 1
  /\ ready' = openNow
  /\ UNCHANGED <<available, assist, slot, audible, heard, running, recorder, pads>>

\* The overlay's quit button.
QuitRequest ==
  /\ pc = "pump" /\ "quit" \in pending
  /\ pc' = "stopped" /\ running' = FALSE /\ pending' = {}
  /\ UNCHANGED <<console, rewind, slots, open, assist, slot, control, iter, audio, recorder,
                 pads, travelled>>

Failed ==
  /\ pc' = "stopped"
  /\ UNCHANGED <<slots, menu, control, iter, audio, pads, travelled>>

\* Rewinding: the newest snapshot is taken and restored, if there is one.
Rewind ==
  /\ pc = "run" /\ mode = "rewind" /\ ~ready
  /\ available /\ History!Pop
  /\ UNCHANGED <<available, counter, recorder>>
  /\ \/ /\ console' = restored' /\ ready' = TRUE /\ travelled' = TRUE
        /\ pc' = "run"
        /\ UNCHANGED <<slots, menu, control, runs, audio, running, pads>>
     \/ UNCHANGED <<console, running>> /\ Failed          \* it is refused

\* Mutant: the recorder writes once for an iteration.
RecordOnce == recording /\ runs = (IF mode = "ff" THEN Speed ELSE 1)

Records == recording

\* One emulated frame, recorded first, then captured and heard.  Without
\* rewind the counter is never read.
RunFrame ==
  /\ pc = "run" /\ runs > 0
  /\ Len(console) < MaxFrames                                       \* bound
  /\ runs' = runs - 1 /\ ready' = TRUE
  /\ recorded' = IF Records THEN Append(recorded, input) ELSE recorded
  /\ console' = Append(console, input)
  /\ IF available /\ counter + 1 >= Interval
     THEN /\ counter' = 0
          /\ \/ History!Push(console') /\ UNCHANGED available
             \/ available' = FALSE /\ UNCHANGED ringVars
     ELSE /\ counter' = (counter + 1) % Interval
          /\ UNCHANGED <<ringVars, available>>
  /\ \/ /\ mode = "normal" /\ audible
        /\ \/ queued' = queued + 1 /\ heard' = console' /\ UNCHANGED audible
           \/ audible' = FALSE /\ UNCHANGED <<queued, heard>>
     \/ /\ mode # "normal" \/ ~audible
        /\ UNCHANGED <<queued, heard, audible>>
  /\ UNCHANGED <<pc, slots, menu, control, primed, burst, running, recording, pads, travelled>>

\* The recorder cannot write, or the native code stopped after its line.
FrameFails ==
  /\ pc = "run" /\ runs > 0
  /\ \/ recording /\ running' = FALSE /\ UNCHANGED recorded
     \/ /\ recorded' = IF Records THEN Append(recorded, input) ELSE recorded
        /\ UNCHANGED running
  /\ UNCHANGED <<console, rewind, recording>>
  /\ Failed

\* Mutant: without audio nothing paces the loop.
PacedByQueueOnly(fill) ==
  open \/ mode # "normal" \/ fill >= (IF primed' THEN 1 ELSE Target)

\* At normal speed the loop runs unpaced until the queue is filled, and again
\* when it has drained.
Paced(fill) ==
  open \/ mode # "normal" \/ ~audible \/ fill >= (IF primed' THEN 1 ELSE Target)

LoopEnd == IF running THEN "pump" ELSE "stopped"

\* The frame is shown, if there is one; PaceFrame waits or is passed over.
Present ==
  /\ pc = "run" /\ runs = 0
  /\ mode = "rewind" => ready \/ ~available \/ count = 0
  /\ primed' = (primed \/ (audible /\ queued >= Target))
  /\ IF Paced(IF audible THEN queued ELSE 0)
     THEN pc' = "pace" /\ burst' = 0
     ELSE pc' = LoopEnd /\ burst' = burst + 1
  /\ UNCHANGED <<console, rewind, slots, menu, control, iter, queued, audible, heard, running,
                 recorder, pads, travelled>>

\* The deadline has come, or the window was closed meanwhile.
PaceEnds ==
  /\ pc = "pace" /\ pc' = LoopEnd
  /\ UNCHANGED <<console, rewind, slots, menu, control, iter, audio, running, recorder, pads,
                 travelled>>

\* The device takes what it needs from the queue; it is paused in the overlay.
DevicePull ==
  /\ ~wasOpen /\ queued > 0
  /\ queued' = IF queued > Pull THEN queued - Pull ELSE 0
  /\ burst' = 0
  /\ UNCHANGED <<pc, console, rewind, slots, menu, control, iter, primed, audible, heard,
                 running, recorder, pads, travelled>>

\* What the player does when an iteration begins.
Iteration(words, views) ==
  \E pad \in words, keys \in HostKeys, chord \in Chords, platform \in Platform,
     view \in views : Control(pad, keys, chord, platform, view)

Rest == QuitRequest \/ Rewind \/ RunFrame \/ FrameFails \/ Present \/ PaceEnds

\* The device, the events and the overlay's widgets.
Around ==
  \/ DevicePull
  \/ ToggleEvent \/ QuitEvent \/ PadEvent
  \/ \E now \in SUBSET Pads : Plug(now)
  \/ \E action \in FileActions \cup {"resume", "quit"} : Request(action)
  \/ AssistPage

Next == Iteration(Inputs, Views) \/ Rest \/ Around

Spec == Init /\ [][Next]_vars

-----------------------------------------------------------------------------
\* Everything rewind can restore lies on the way to the console's present
\* state, in order: over captures, rewinds, fast-forward, loads and failures
\* the ring keeps its bounds and holds nothing else.
HistoryIsPast ==
  /\ TypeOK
  /\ pc # "stopped" =>
       \A k \in 1 .. count :
         /\ IsPrefix(History!Kept[k], console)
         /\ k > 1 => IsStrictPrefix(History!Kept[k - 1], History!Kept[k])

\* What is left in the audio queue ends where the picture is: nothing from
\* before a load, a rewind or a change of speed is played after it.
SoundMatchesPicture == audible /\ queued > 0 /\ pc # "stopped" => heard = console

\* The loop runs unpaced only to fill the queue: no more iterations than the
\* frames aimed for, until the device pulls or the queue is emptied.  Without
\* audio, in the overlay and at other speeds every iteration is paced.
UnpacedBurst == pc # "stopped" => burst <= Target

\* Until a rewind or a load, the recording reproduces the console's state.
RecordingReplays == recording /\ ~travelled /\ pc # "stopped" => recorded = console

\* With the assist tools off and no native menu, no state file is written and
\* the game only goes forward, frame by frame.
AssistHolds ==
  [][~assist /\ Platform = {{}} =>
       slots' = slots /\ (console' = console \/ console' = Append(console, input))]_vars

\* Quick Save and Quick Load of the native menu use the first slot.
QuickUsesFirstSlot == [][~assist => \A s \in 1 .. Slots - 1 : slots'[s] = slots[s]]_vars

\* A pad that was plugged in while the program runs is opened.
PadsAreOpened == pc = "run" /\ ~wasOpen /\ ~padEvent => opened = plugged
=============================================================================
