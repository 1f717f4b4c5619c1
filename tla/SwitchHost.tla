----------------------------- MODULE SwitchHost -----------------------------
(***************************************************************************)
(* The Switch host (runner/switch_main.c): start-up, the main loop with    *)
(* the pause menu, the applet lifecycle hook, SDL window events, the audio *)
(* callback on SDL's thread, and when the save data and the settings are   *)
(* written.  SwitchSramWrite is the one-step store SramStore implements: a *)
(* write commits its image or leaves the card alone.  Wall-clock time is   *)
(* counted in frames; drawing, logging and frame pacing are left out.      *)
(***************************************************************************)
EXTENDS Integers, Sequences, SequencesExt

CONSTANTS Image,      \* contents of g_sram
          Blank,      \* g_sram after SnesInit, before any file is read
          Nothing,    \* no file could be read
          Grips,      \* sets of P1 buttons that can be held together
          Levels,     \* volume levels (11 in the code)
          Rows,       \* menu rows the player activates or changes
          SaveEvery,  \* frames between two periodic saves (30 s)
          MaxFaults   \* bound on failed writes

ASSUME HostAssumption ==
  /\ Blank \in Image /\ Nothing \notin Image
  /\ Levels \in Nat \ {0} /\ SaveEvery \in Nat \ {0} /\ MaxFaults \in Nat

Buttons == {"zlzr", "lrminus", "A", "B", "Up", "Down", "Left", "Right"}
ASSUME PlayerAssumption ==
  {} \in Grips /\ Grips \subseteq SUBSET Buttons /\ Rows \subseteq 0 .. 6

VARIABLES
  pc,            \* where the main thread is in main(), "off" or "exited"
  sram,          \* g_sram
  saved,         \* s_saved_sram
  stored,        \* what SwitchSramRead would recover from the card
  blind,         \* this run's read of the card failed and nothing was written
  saveFailed,    \* s_save_failed
  settings,      \* s_settings; settings.volume is s_volume too
  config,        \* the settings on the card, or Nothing
  configFailed,  \* s_config_failed
  life,          \* SwitchLifecycle.save_failed
  inFocus,       \* appletGetFocusState() = InFocus
  focused,       \* the SDL window has the focus
  running, menu, confirm, selected,
  grip,          \* P1 buttons held at the last padUpdate
  pressed,       \* of those, the ones padGetButtonsDown reports
  chordHeld, release,
  device,        \* an audio device was opened
  paused,        \* the audio device is paused
  callback,      \* SwitchAudioCallback is running on SDL's thread
  timer,         \* frames until next_save
  faults,        \* failed writes so far (bounds the model)
  stale,         \* history: buttons held without a break since the menu or a
                 \* pad change
  given,         \* history: buttons the frame to be presented was given
  didReset,      \* history: RtlReset ran in this iteration
  unsaved,       \* history: frames with unsaved data since the last attempt
  shown          \* history: ShowError told the player of a failed last save

store == <<saved, stored, blind, saveFailed, faults, unsaved>>
cfg   == <<settings, config, configFailed>>
ui    == <<menu, confirm, selected, grip, pressed, chordHeld, release, stale>>
focus == <<life, inFocus, focused>>
audio == <<device, paused, callback>>
other == <<sram, running, timer, given, didReset, shown>>
vars  == <<pc, store, cfg, ui, focus, audio, other>>

Settings == [wide : BOOLEAN, volume : 0 .. Levels - 1, smooth : BOOLEAN, shortcut : BOOLEAN]
Defaults == [wide |-> TRUE, volume |-> Levels - 1, smooth |-> FALSE, shortcut |-> FALSE]

Points == {"off", "top", "events", "input", "menu", "play", "present", "leave", "exited"}

TypeOK ==
  /\ pc \in Points
  /\ sram \in Image /\ saved \in Image /\ stored \in Image \cup {Nothing}
  /\ settings \in Settings /\ config \in Settings \cup {Nothing}
  /\ {blind, saveFailed, configFailed, life, inFocus, focused, running, menu, confirm,
      chordHeld, release, device, paused, callback, didReset, shown} \subseteq BOOLEAN
  /\ selected \in 0 .. 6
  /\ grip \in Grips /\ pressed \subseteq grip /\ stale \subseteq grip
  /\ given \subseteq Buttons
  /\ timer \in 0 .. SaveEvery /\ faults \in 0 .. MaxFaults /\ unsaved \in 0 .. SaveEvery + 1

-----------------------------------------------------------------------------
NoSave == UNCHANGED store

\* Mutant: the snapshot is taken before the result of the write is known.
SnapshotFirst(ok) ==
  /\ unsaved' = 0
  /\ saved' = sram
  /\ \/ sram = saved /\ ok = TRUE /\ UNCHANGED <<stored, blind, saveFailed, faults>>
     \/ /\ sram # saved /\ ok = TRUE
        /\ stored' = sram /\ blind' = FALSE /\ saveFailed' = FALSE /\ UNCHANGED faults
     \/ /\ sram # saved /\ ok = FALSE /\ faults < MaxFaults
        /\ saveFailed' = TRUE /\ faults' = faults + 1 /\ UNCHANGED <<stored, blind>>

\* SaveChangedSram; ok is its result.
SaveChangedSram(ok) ==
  /\ unsaved' = 0
  /\ \/ /\ sram = saved /\ ok = TRUE
        /\ UNCHANGED <<saved, stored, blind, saveFailed, faults>>
     \/ /\ sram # saved /\ ok = TRUE
        /\ saved' = sram /\ stored' = sram /\ blind' = FALSE /\ saveFailed' = FALSE
        /\ UNCHANGED faults
     \/ /\ sram # saved /\ ok = FALSE /\ faults < MaxFaults
        /\ saveFailed' = TRUE /\ faults' = faults + 1
        /\ UNCHANGED <<saved, stored, blind>>

\* Mutant: the result of the write is dropped.
StoreQuietly(versions) ==
  /\ config' \in {config} \cup ToSet(versions)
  /\ UNCHANGED configFailed

\* StoreSettings, called once for each version in turn.
StoreSettings(versions) ==
  IF versions = <<>> THEN UNCHANGED <<config, configFailed>>
  ELSE \/ config' = Last(versions) /\ configFailed' = FALSE
       \/ config' \in {config} \cup ToSet(Front(versions)) /\ configFailed' = TRUE

\* SDL_PauseAudioDevice(1) waits for the device lock the callback holds.
PauseAudio ==
  /\ device => ~callback
  /\ paused' = TRUE
  /\ UNCHANGED <<device, callback>>

-----------------------------------------------------------------------------
Init ==
  /\ pc = "off"
  /\ sram = Blank /\ saved = Blank /\ stored = Nothing /\ blind = FALSE /\ saveFailed = FALSE
  /\ settings = Defaults /\ config = Nothing /\ configFailed = FALSE
  /\ life = FALSE /\ inFocus = TRUE /\ focused = TRUE
  /\ running = TRUE /\ menu = FALSE /\ confirm = FALSE /\ selected = 0
  /\ grip = {} /\ pressed = {} /\ chordHeld = FALSE /\ release = FALSE
  /\ device = FALSE /\ paused = TRUE /\ callback = FALSE
  /\ timer = SaveEvery /\ faults = 0
  /\ stale = {} /\ given = {} /\ didReset = FALSE /\ unsaved = 0 /\ shown = FALSE

\* main() up to the loop: a read of the card may fail and recover an older
\* copy or none, and audio may be unavailable.  A failure of another start-up step ends the program.
Launch ==
  /\ pc = "off"
  /\ pc' \in {"top", "exited"}
  /\ sram' \in IF stored = Nothing THEN {Blank} ELSE Image
  /\ saved' = sram' /\ blind' = (stored # Nothing /\ sram' # stored)
  /\ settings' \in IF config = Nothing THEN {Defaults} ELSE {config, Defaults}
  /\ device' \in BOOLEAN /\ paused' = TRUE /\ callback' = FALSE
  /\ saveFailed' = FALSE /\ configFailed' = FALSE
  /\ life' = FALSE /\ inFocus' \in BOOLEAN /\ focused' = TRUE
  /\ running' = TRUE /\ menu' = FALSE /\ confirm' = FALSE /\ selected' = 0
  /\ grip' = {} /\ pressed' = {} /\ chordHeld' = FALSE /\ release' = FALSE
  /\ timer' = SaveEvery
  /\ stale' = {} /\ given' = {} /\ didReset' = FALSE /\ unsaved' = 0 /\ shown' = FALSE
  /\ UNCHANGED <<stored, config, faults>>

\* LifecycleHook, dispatched while appletMainLoop processes messages.
FocusHook(now) ==
  /\ pc = "top" /\ running
  /\ inFocus' = now
  /\ \/ now /\ UNCHANGED <<life, store, audio>>
     \/ ~now /\ PauseAudio /\ \E ok \in BOOLEAN : SaveChangedSram(ok) /\ life' = ~ok
  /\ UNCHANGED <<pc, cfg, ui, focused, other>>

\* The loop condition, and the notice a failed hook left.
LoopTop ==
  /\ pc = "top"
  /\ \/ running /\ pc' = "events"
     \/ pc' = "leave"                  \* running is false, or the OS asks to exit
  /\ saveFailed' = (saveFailed \/ (pc' = "events" /\ life))
  /\ life' = (life /\ pc' = "leave")
  /\ didReset' = FALSE
  /\ UNCHANGED <<saved, stored, blind, faults, unsaved, cfg, ui, inFocus, focused, audio,
                 sram, running, timer, given, shown>>

QuitEvent ==
  /\ pc = "events" /\ running' = FALSE
  /\ UNCHANGED <<pc, store, cfg, ui, focus, audio, sram, timer, given, didReset, shown>>

FocusEvent(gained) ==
  /\ pc = "events"
  /\ focused' = gained
  /\ \/ gained /\ UNCHANGED <<store, audio>>
     \/ ~gained /\ PauseAudio /\ \E ok \in BOOLEAN : SaveChangedSram(ok)
  /\ UNCHANGED <<pc, cfg, ui, life, inFocus, other>>

\* The queue is empty: leave, sleep until the focus returns, or go on.
EventsDone ==
  /\ pc = "events"
  /\ pc' = IF ~running THEN "leave" ELSE IF focused /\ inFocus THEN "input" ELSE "top"
  /\ UNCHANGED <<store, cfg, ui, focus, audio, other>>

Chord == IF settings.shortcut THEN "lrminus" ELSE "zlzr"

\* The cursor after the keys that went down; the reset question holds it.
Cursor(keys) ==
  LET up == IF "Up" \in keys THEN (selected + 6) % 7 ELSE selected
  IN  IF confirm /\ "B" \notin keys THEN selected
      ELSE IF "Down" \in keys THEN (up + 1) % 7 ELSE up

Acts == {"A", "Left", "Right"}

\* Mutant: the menu opens without pausing the device.
ToggleMenuOnly(toggle) ==
  /\ UNCHANGED audio
  /\ IF toggle /\ menu' THEN \E ok \in BOOLEAN : SaveChangedSram(ok) ELSE NoSave

\* What the chord does besides turning the menu on or off.
ToggleMenu(toggle) ==
  /\ IF toggle THEN PauseAudio ELSE UNCHANGED audio
  /\ IF toggle /\ menu' THEN \E ok \in BOOLEAN : SaveChangedSram(ok) ELSE NoSave

\* padUpdate, pad changes and the edge of the menu chord.
Input(g, replugged) ==
  LET chordNow == Chord \in g
      toggle   == chordNow /\ ~chordHeld
  IN
  /\ pc = "input"
  /\ grip' = g /\ pressed' = g \ grip
  /\ menu' = (IF toggle THEN ~menu ELSE menu) /\ confirm' = (confirm /\ ~toggle)
  /\ menu' /\ pressed' \cap Acts # {} => Cursor(pressed') \in Rows      \* bound
  /\ release' = (release \/ replugged \/ toggle)
  /\ stale' = IF replugged \/ toggle THEN g ELSE stale \cap g
  /\ chordHeld' = chordNow
  /\ pc' = IF menu' THEN "menu" ELSE "play"
  /\ ToggleMenu(toggle)
  /\ UNCHANGED <<cfg, selected, focus, other>>

Changed(row, delta) ==
  CASE row = 1 -> [settings EXCEPT !.wide = ~@]
    [] row = 2 -> [settings EXCEPT !.volume = (@ + delta + Levels) % Levels]
    [] row = 3 -> [settings EXCEPT !.smooth = ~@]
    [] row = 4 -> [settings EXCEPT !.shortcut = ~@]

\* Mutant: the settings may be unwritten.
QuitSramOnly(ok) == ok

ResetGranted(ok) == ok
QuitGranted(ok)  == ok /\ ~configFailed'

\* One pass of the menu: B, the cursor, then the row the cursor is on.
MenuPass ==
  LET back     == "B" \in pressed
      closing  == back /\ ~confirm
      asking   == confirm /\ ~back
      row      == Cursor(pressed)
      activate == "A" \in pressed
      option   == row \in 1 .. 4 /\ pressed \cap Acts # {}
      saving   == activate /\ (row = 6 \/ (row = 5 /\ asking))
      stores   == option \/ (activate /\ row \in {0, 6})
  IN
  /\ pc = "menu" /\ pc' = "top"
  /\ selected' = row
  /\ settings' = IF option THEN Changed(row, IF "Left" \in pressed THEN -1 ELSE 1)
                 ELSE settings
  /\ StoreSettings((IF closing THEN <<settings>> ELSE <<>>) \o
                   (IF stores THEN <<settings'>> ELSE <<>>))
  /\ \E ok \in BOOLEAN :
       /\ IF saving THEN SaveChangedSram(ok) ELSE ok = FALSE /\ NoSave
       /\ didReset' = (saving /\ row = 5 /\ ResetGranted(ok))
       /\ menu' = (~closing /\ ~(activate /\ row = 0) /\ ~didReset')
       /\ running' = (running /\ ~(saving /\ row = 6 /\ QuitGranted(ok)))
  /\ confirm' = IF activate /\ row = 5 THEN ~asking ELSE asking
  /\ release' = TRUE /\ stale' = grip /\ pressed' = {}
  /\ UNCHANGED <<grip, chordHeld, focus, audio, sram, timer, given, shown>>

\* Mutant: only the second pad and the sticks are looked at.
NeutralOthers(idle) == idle

Neutral(idle) == grip = {} /\ idle

\* One frame of the game, which may write its save RAM.  idle: the second
\* pad and the sticks are neutral.
Play(idle, image) ==
  /\ pc = "play" /\ pc' = "present"
  /\ release' = (release /\ ~Neutral(idle))
  /\ given' = IF release THEN {} ELSE grip
  /\ sram' = image
  /\ paused' = (paused /\ ~device)
  /\ pressed' = {} /\ timer' = IF timer = 0 THEN 0 ELSE timer - 1
  /\ UNCHANGED <<store, cfg, menu, confirm, selected, grip, chordHeld, stale, focus,
                 device, callback, running, didReset, shown>>

\* Counted up to one past the bound the property below sets.
FramesUnsaved ==
  IF sram = saved THEN 0 ELSE IF unsaved > SaveEvery THEN unsaved ELSE unsaved + 1

\* Mutant: a failed save is not tried again.
PresentNoRetry ==
  /\ pc = "present" /\ pc' = "top"
  /\ \/ /\ timer = 0 /\ ~saveFailed /\ timer' = SaveEvery
        /\ \E ok \in BOOLEAN : SaveChangedSram(ok)
     \/ /\ timer # 0 \/ saveFailed
        /\ unsaved' = FramesUnsaved
        /\ UNCHANGED <<saved, stored, blind, saveFailed, faults, timer>>
  /\ given' = {}
  /\ UNCHANGED <<cfg, ui, focus, audio, sram, running, didReset, shown>>

\* The frame is on the screen; the periodic save is due or not.
Present ==
  /\ pc = "present" /\ pc' = "top"
  /\ \/ /\ timer = 0 /\ timer' = SaveEvery
        /\ \E ok \in BOOLEAN : SaveChangedSram(ok)
     \/ /\ timer # 0 /\ UNCHANGED timer
        /\ unsaved' = FramesUnsaved
        /\ UNCHANGED <<saved, stored, blind, saveFailed, faults>>
  /\ given' = {}
  /\ UNCHANGED <<cfg, ui, focus, audio, sram, running, didReset, shown>>

\* After the loop: the hook is removed, audio stops, the last save.
Leave ==
  /\ pc = "leave" /\ pc' = "exited"
  /\ PauseAudio
  /\ \E ok \in BOOLEAN : SaveChangedSram(ok) /\ shown' = ~ok
  /\ UNCHANGED <<cfg, ui, focus, sram, running, timer, given, didReset>>

AudioStarts ==
  /\ device /\ ~paused /\ ~callback
  /\ callback' = TRUE
  /\ UNCHANGED <<pc, store, cfg, ui, focus, device, paused, other>>

AudioReturns ==
  /\ callback /\ callback' = FALSE
  /\ UNCHANGED <<pc, store, cfg, ui, focus, device, paused, other>>

\* The process is killed, or ended and is started again: memory is lost.
Stop ==
  /\ pc # "off" /\ pc' = "off"
  /\ sram' = Blank /\ saved' = Blank /\ blind' = FALSE /\ saveFailed' = FALSE
  /\ configFailed' = FALSE /\ life' = FALSE /\ inFocus' = TRUE /\ focused' = TRUE
  /\ running' = TRUE /\ menu' = FALSE /\ confirm' = FALSE /\ selected' = 0
  /\ grip' = {} /\ pressed' = {} /\ chordHeld' = FALSE /\ release' = FALSE
  /\ device' = FALSE /\ paused' = TRUE /\ callback' = FALSE /\ timer' = SaveEvery
  /\ stale' = {} /\ given' = {} /\ didReset' = FALSE /\ unsaved' = 0 /\ shown' = FALSE
  /\ UNCHANGED <<stored, settings, config, faults>>

Loop ==
  \/ LoopTop \/ EventsDone
  \/ \E g \in Grips, replugged \in BOOLEAN : Input(g, replugged)
  \/ MenuPass
  \/ \E idle \in BOOLEAN, image \in Image : Play(idle, image)
  \/ Present

Next ==
  \/ Launch \/ Loop \/ Leave
  \/ \E now \in BOOLEAN : FocusHook(now) \/ FocusEvent(now)
  \/ QuitEvent \/ AudioStarts \/ AudioReturns \/ Stop

Spec == Init /\ [][Next]_vars

\* The main thread is scheduled; players, applets and failures are not.
FairSpec == Spec /\ WF_vars(Loop)

-----------------------------------------------------------------------------
\* Unless the card could not be read, s_saved_sram is what a restart would
\* read, so that "unchanged" means saved: also after failed writes.
MirrorOfCard ==
  pc # "off" /\ ~blind => saved = (IF stored = Nothing THEN Blank ELSE stored)

\* Frames are never played with unsaved data for longer than the autosave
\* period without an attempt to write it, over menus, focus changes, resets
\* and failed attempts.
LossWindow == unsaved <= SaveEvery

\* A run that ends in order has put the game's last data on the card, where a
\* restart will read it, or has told the player it could not.
NoSilentLoss ==
  pc = "exited" /\ ~shown =>
    /\ sram = saved
    /\ ~blind => sram = (IF stored = Nothing THEN Blank ELSE stored)

\* Neither way to give the running game up from the menu loses it: SALVAR E
\* SAIR ends the program only with both files written, and RtlReset runs only
\* on a confirmed request with the save data on the card.
LeavingIsSaved ==
  [][/\ pc = "menu" /\ running /\ ~running' => saved' = sram /\ config' = settings'
     /\ didReset' /\ ~didReset => menu /\ confirm /\ saved' = sram]_vars

\* A changed setting is on the card, or its failure is on the screen, when
\* the menu pass ends, whichever way the menu is closed.
ChangeIsKept ==
  [][pc = "menu" /\ settings' # settings => config' = settings' \/ configFailed']_vars

\* The device plays only in the foreground game: the menu and both kinds of
\* focus loss pause it, and only a game frame starts it again.
PlayingIsForeground ==
  ~paused => focused /\ inFocus /\ ~menu /\ pc \notin {"off", "exited"}

\* The callback reads s_volume and the emulated DSP: no step lets it play
\* behind the menu or another applet, and the volume changes and the console
\* is reset only while it is stopped.
SoundIsExcluded ==
  [][/\ PlayingIsForeground'
     /\ settings'.volume # settings.volume \/ (didReset' /\ ~didReset)
          => paused /\ ~callback]_vars

\* A button held since the menu was shown, or since a pad changed, reaches
\* the game only after it was released.
StaleInputWithheld == pc = "present" => given \cap stale = {}

\* Writes that fail now and then do not keep a played game from being saved.
SavedAgain ==
  (<>[](pc \notin {"off", "exited"}) /\ []<>(pc = "present")) => []<>(sram = saved)

=============================================================================
