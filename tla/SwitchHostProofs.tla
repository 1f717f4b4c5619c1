-------------------------- MODULE SwitchHostProofs --------------------------
(***************************************************************************)
(* Proofs about SwitchHost for every set of save images, every way to hold *)
(* the buttons, every autosave period and any number of failed writes.     *)
(***************************************************************************)
EXTENDS SwitchHost, TLAPS

-----------------------------------------------------------------------------
\* Where the device can be playing, and what the control points know: the
\* strengthening that makes PlayingIsForeground inductive.
AudioInv ==
  /\ callback => device /\ ~paused
  /\ ~paused => focused /\ inFocus /\ ~menu /\ pc \notin {"off", "exited"}
  /\ pc = "menu" => menu
  /\ pc \in {"input", "play"} => focused /\ inFocus
  /\ pc = "play" => ~menu

LEMMA AudioStep ==
  ASSUME AudioInv, [Next]_vars
  PROVE  AudioInv'
<1> USE DEF AudioInv, PauseAudio
<1>1. CASE Launch
  BY <1>1 DEF Launch
<1>2. CASE LoopTop
  BY <1>2 DEF LoopTop, ui, audio
<1>3. CASE EventsDone
  BY <1>3 DEF EventsDone, ui, focus, audio
<1>4. ASSUME NEW g \in Grips, NEW replugged \in BOOLEAN, Input(g, replugged)
      PROVE  AudioInv'
  <2> DEFINE toggle == (Chord \in g) /\ ~chordHeld
  <2>1. CASE toggle
    BY <1>4, <2>1 DEF Input, ToggleMenu, focus
  <2>2. CASE ~toggle
    BY <1>4, <2>2 DEF Input, ToggleMenu, focus, audio
  <2> QED BY <2>1, <2>2
<1>5. CASE MenuPass
  BY <1>5 DEF MenuPass, focus, audio
<1>6. ASSUME NEW idle \in BOOLEAN, NEW image \in Image, Play(idle, image)
      PROVE  AudioInv'
  BY <1>6 DEF Play, focus
<1>7. CASE Present
  BY <1>7 DEF Present, ui, focus, audio
<1>8. CASE Leave
  BY <1>8 DEF Leave, ui, focus
<1>9. ASSUME NEW now \in BOOLEAN, FocusHook(now)
      PROVE  AudioInv'
  BY <1>9 DEF FocusHook, ui, audio
<1>10. ASSUME NEW now \in BOOLEAN, FocusEvent(now)
       PROVE  AudioInv'
  BY <1>10 DEF FocusEvent, ui, audio
<1>11. CASE QuitEvent
  BY <1>11 DEF QuitEvent, ui, focus, audio
<1>12. CASE AudioStarts
  BY <1>12 DEF AudioStarts, ui, focus
<1>13. CASE AudioReturns
  BY <1>13 DEF AudioReturns, ui, focus
<1>14. CASE Stop
  BY <1>14, HostAssumption DEF Stop, ui, focus
<1>15. CASE UNCHANGED vars
  BY <1>15 DEF vars, ui, focus, audio
<1> QED
  BY <1>1, <1>2, <1>3, <1>4, <1>5, <1>6, <1>7, <1>8, <1>9, <1>10, <1>11, <1>12, <1>13,
     <1>14, <1>15 DEF Next, Loop

LEMMA AudioInvariance == Spec => []AudioInv
<1>1. Init => AudioInv
  BY DEF Init, AudioInv
<1>2. AudioInv /\ [Next]_vars => AudioInv'
  BY AudioStep
<1> QED BY <1>1, <1>2, PTL DEF Spec

\* The device plays only in the foreground game.
THEOREM DevicePlaysInForeground == Spec => []PlayingIsForeground
<1>1. AudioInv => PlayingIsForeground
  BY DEF AudioInv, PlayingIsForeground
<1> QED BY <1>1, AudioInvariance, PTL

-----------------------------------------------------------------------------
\* The volume changes and the console is reset only while the callback is
\* stopped: both happen in the menu, or before the device is opened.
THEOREM SoundIsAlwaysExcluded == Spec => SoundIsExcluded
<1> DEFINE Excluded == settings'.volume # settings.volume \/ (didReset' /\ ~didReset)
                         => paused /\ ~callback
<1>1. AudioInv /\ [Next]_vars => Excluded
  <2> SUFFICES ASSUME AudioInv, [Next]_vars PROVE Excluded
    OBVIOUS
  <2>1. CASE Launch
    BY <2>1 DEF Launch, AudioInv
  <2>2. CASE MenuPass
    BY <2>2 DEF MenuPass, AudioInv
  <2>3. CASE ~Launch /\ ~MenuPass
    <3>1. settings' = settings
      BY <2>3 DEF Next, Loop, LoopTop, EventsDone, Input, Play, Present, Leave, FocusHook,
                  FocusEvent, QuitEvent, AudioStarts, AudioReturns, Stop, cfg, vars
    <3>2. ~(didReset' /\ ~didReset)
      BY <2>3 DEF Next, Loop, LoopTop, EventsDone, Input, Play, Present, Leave, FocusHook,
                  FocusEvent, QuitEvent, AudioStarts, AudioReturns, Stop, other, vars
    <3> QED BY <3>1, <3>2
  <2> QED BY <2>1, <2>2, <2>3
<1>2. AudioInv /\ AudioInv' /\ [Next]_vars => PlayingIsForeground' /\ Excluded
  BY <1>1 DEF AudioInv, PlayingIsForeground
<1> QED BY <1>2, AudioInvariance, PTL DEF Spec, SoundIsExcluded

\* The console is reset only in the open menu, on a confirmed request, with
\* the save data on the card.
LEMMA ResetsAreSaved ==
  ASSUME AudioInv, [Next]_vars, didReset', ~didReset
  PROVE  menu /\ confirm /\ saved' = sram
<1>1. CASE MenuPass
  <2> DEFINE asking == confirm /\ ~("B" \in pressed)
             row    == Cursor(pressed)
             saving == "A" \in pressed /\ (row = 6 \/ (row = 5 /\ asking))
  <2>1. PICK ok \in BOOLEAN :
          /\ IF saving THEN SaveChangedSram(ok) ELSE ok = FALSE /\ NoSave
          /\ didReset' = (saving /\ row = 5 /\ ResetGranted(ok))
    BY <1>1, Zenon DEF MenuPass
  <2>2. saving /\ row = 5 /\ ok
    BY <2>1, Zenon DEF ResetGranted
  <2>3. SaveChangedSram(ok)
    BY <2>1, <2>2
  <2>4. saved' = sram
    BY <2>2, <2>3 DEF SaveChangedSram
  <2>5. menu
    BY <1>1 DEF MenuPass, AudioInv
  <2> QED BY <2>2, <2>4, <2>5
<1>2. CASE ~MenuPass
  BY <1>2 DEF Next, Loop, Launch, LoopTop, EventsDone, Input, Play, Present, Leave,
              FocusHook, FocusEvent, QuitEvent, AudioStarts, AudioReturns, Stop, other, vars
<1> QED BY <1>1, <1>2

-----------------------------------------------------------------------------
\* The card and the snapshot: the strengthening behind MirrorOfCard and
\* NoSilentLoss.
CardInv ==
  /\ sram \in Image
  /\ MirrorOfCard
  /\ NoSilentLoss

LEMMA SaveKeepsMirror ==
  ASSUME CardInv, NEW ok \in BOOLEAN, SaveChangedSram(ok), pc # "off", sram' = sram
  PROVE  /\ ok => sram' = saved'
         /\ ~blind' => saved' = (IF stored' = Nothing THEN Blank ELSE stored')
BY HostAssumption DEF CardInv, MirrorOfCard, SaveChangedSram

LEMMA CardStep ==
  ASSUME CardInv, [Next]_vars
  PROVE  CardInv'
<1> USE DEF CardInv, MirrorOfCard, NoSilentLoss
<1>1. CASE Launch
  BY <1>1, HostAssumption DEF Launch
<1>2. CASE Leave
  <2>1. PICK ok \in BOOLEAN : SaveChangedSram(ok) /\ shown' = ~ok
    BY <1>2 DEF Leave
  <2>2. sram' = sram /\ pc = "leave"
    BY <1>2 DEF Leave
  <2>3. ~shown' => ok
    BY <2>1, Zenon
  <2> QED BY <2>1, <2>2, <2>3, SaveKeepsMirror
<1>3. CASE \E now \in BOOLEAN : FocusHook(now) \/ FocusEvent(now)
  <2>1. sram' = sram /\ pc' = pc /\ pc \in {"top", "events"}
    BY <1>3 DEF FocusHook, FocusEvent, other
  <2>2. CASE UNCHANGED store
    BY <2>1, <2>2 DEF store
  <2>3. CASE \E ok \in BOOLEAN : SaveChangedSram(ok)
    BY <2>1, <2>3, SaveKeepsMirror
  <2> QED BY <1>3, <2>2, <2>3 DEF FocusHook, FocusEvent
<1>4. ASSUME NEW g \in Grips, NEW replugged \in BOOLEAN, Input(g, replugged)
      PROVE  CardInv'
  <2>1. sram' = sram /\ pc = "input" /\ pc' \in {"menu", "play"}
    BY <1>4 DEF Input, other
  <2>2. UNCHANGED store \/ \E ok \in BOOLEAN : SaveChangedSram(ok)
    BY <1>4 DEF Input, ToggleMenu, NoSave
  <2> QED BY <2>1, <2>2, SaveKeepsMirror DEF store
<1>5. CASE MenuPass
  <2>1. sram' = sram /\ pc = "menu" /\ pc' = "top"
    BY <1>5 DEF MenuPass
  <2>2. UNCHANGED store \/ \E ok \in BOOLEAN : SaveChangedSram(ok)
    BY <1>5 DEF MenuPass, NoSave
  <2> QED BY <2>1, <2>2, SaveKeepsMirror DEF store
<1>6. ASSUME NEW idle \in BOOLEAN, NEW image \in Image, Play(idle, image)
      PROVE  CardInv'
  BY <1>6 DEF Play, store
<1>7. CASE Present
  <2>1. sram' = sram /\ pc = "present" /\ pc' = "top"
    BY <1>7 DEF Present
  <2>2. \/ UNCHANGED <<saved, stored, blind>>
        \/ \E ok \in BOOLEAN : SaveChangedSram(ok)
    BY <1>7 DEF Present
  <2> QED BY <2>1, <2>2, SaveKeepsMirror
<1>8. CASE LoopTop
  BY <1>8 DEF LoopTop
<1>9. CASE EventsDone \/ QuitEvent \/ AudioStarts \/ AudioReturns \/ UNCHANGED vars
  BY <1>9 DEF EventsDone, QuitEvent, AudioStarts, AudioReturns, vars, store, other
<1>10. CASE Stop
  BY <1>10, HostAssumption DEF Stop, MirrorOfCard, NoSilentLoss, CardInv
<1> QED
  BY <1>1, <1>2, <1>3, <1>4, <1>5, <1>6, <1>7, <1>8, <1>9, <1>10 DEF Next, Loop

LEMMA CardInvariance == Spec => []CardInv
<1>1. Init => CardInv
  BY HostAssumption DEF Init, CardInv, MirrorOfCard, NoSilentLoss
<1>2. CardInv /\ [Next]_vars => CardInv'
  BY CardStep
<1> QED BY <1>1, <1>2, PTL DEF Spec

\* What the host believes to be saved is what a restart would read.
THEOREM SnapshotMirrorsCard == Spec => []MirrorOfCard
<1>1. CardInv => MirrorOfCard
  BY DEF CardInv
<1> QED BY <1>1, CardInvariance, PTL

\* An orderly end has saved the game or told the player.
THEOREM NoLossIsSilent == Spec => []NoSilentLoss
<1>1. CardInv => NoSilentLoss
  BY DEF CardInv
<1> QED BY <1>1, CardInvariance, PTL

-----------------------------------------------------------------------------
\* The autosave timer pays for every frame with unsaved data.
TimerInv ==
  /\ timer \in 0 .. SaveEvery /\ unsaved \in 0 .. SaveEvery
  /\ pc = "present" => unsaved + timer < SaveEvery
  /\ pc \notin {"off", "present", "exited"} => 0 < timer /\ unsaved + timer <= SaveEvery

LEMMA TimerStep ==
  ASSUME TimerInv, [Next]_vars
  PROVE  TimerInv'
<1> USE HostAssumption DEF TimerInv
<1>1. CASE Launch
  BY <1>1 DEF Launch
<1>2. CASE Leave
  BY <1>2 DEF Leave, SaveChangedSram
<1>3. CASE \E now \in BOOLEAN : FocusHook(now) \/ FocusEvent(now)
  BY <1>3 DEF FocusHook, FocusEvent, SaveChangedSram, store, other
<1>4. ASSUME NEW g \in Grips, NEW replugged \in BOOLEAN, Input(g, replugged)
      PROVE  TimerInv'
  <2>1. timer' = timer /\ pc = "input" /\ pc' \in {"menu", "play"}
    BY <1>4 DEF Input, other
  <2>2. unsaved' = unsaved \/ unsaved' = 0
    BY <1>4 DEF Input, ToggleMenu, NoSave, SaveChangedSram, store
  <2> QED BY <2>1, <2>2
<1>5. CASE MenuPass
  <2>1. timer' = timer /\ pc = "menu" /\ pc' = "top"
    BY <1>5 DEF MenuPass
  <2>2. unsaved' = unsaved \/ unsaved' = 0
    BY <1>5 DEF MenuPass, NoSave, SaveChangedSram, store
  <2> QED BY <2>1, <2>2
<1>6. ASSUME NEW idle \in BOOLEAN, NEW image \in Image, Play(idle, image)
      PROVE  TimerInv'
  BY <1>6 DEF Play, store
<1>7. CASE Present
  BY <1>7 DEF Present, SaveChangedSram, FramesUnsaved
<1>8. CASE LoopTop
  BY <1>8 DEF LoopTop
<1>9. CASE EventsDone \/ QuitEvent \/ AudioStarts \/ AudioReturns \/ UNCHANGED vars
  BY <1>9 DEF EventsDone, QuitEvent, AudioStarts, AudioReturns, vars, store, other
<1>10. CASE Stop
  BY <1>10 DEF Stop
<1> QED
  BY <1>1, <1>2, <1>3, <1>4, <1>5, <1>6, <1>7, <1>8, <1>9, <1>10 DEF Next, Loop

\* No play of more than the autosave period goes without an attempt to save.
THEOREM LossWindowIsBounded == Spec => []LossWindow
<1>1. Init => TimerInv
  BY HostAssumption DEF Init, TimerInv
<1>2. TimerInv /\ [Next]_vars => TimerInv'
  BY TimerStep
<1>3. TimerInv => LossWindow
  BY HostAssumption DEF TimerInv, LossWindow
<1> QED BY <1>1, <1>2, <1>3, PTL DEF Spec

-----------------------------------------------------------------------------
\* Input stays suppressed while a button is held since the menu.
InputInv ==
  /\ stale \subseteq grip
  /\ ~release => stale = {}
  /\ StaleInputWithheld

LEMMA InputStep ==
  ASSUME InputInv, [Next]_vars
  PROVE  InputInv'
<1> USE DEF InputInv, StaleInputWithheld
<1>1. CASE Launch
  BY <1>1 DEF Launch
<1>2. ASSUME NEW g \in Grips, NEW replugged \in BOOLEAN, Input(g, replugged)
      PROVE  InputInv'
  <2> DEFINE toggle == (Chord \in g) /\ ~chordHeld
  <2>1. /\ grip' = g /\ pc' \in {"menu", "play"}
        /\ release' = (release \/ replugged \/ toggle)
        /\ stale' = IF replugged \/ toggle THEN g ELSE stale \cap g
    BY <1>2 DEF Input
  <2>2. CASE replugged \/ toggle
    BY <2>1, <2>2
  <2>3. CASE ~(replugged \/ toggle)
    BY <2>1, <2>3
  <2> QED BY <2>2, <2>3
<1>3. CASE MenuPass
  BY <1>3 DEF MenuPass
<1>4. ASSUME NEW idle \in BOOLEAN, NEW image \in Image, Play(idle, image)
      PROVE  InputInv'
  <2>1. /\ stale' = stale /\ grip' = grip
        /\ given' = IF release THEN {} ELSE grip
        /\ release' = (release /\ ~Neutral(idle))
    BY <1>4 DEF Play
  <2>2. CASE release
    BY <2>1, <2>2 DEF Neutral
  <2>3. CASE ~release
    BY <2>1, <2>3
  <2> QED BY <2>2, <2>3
<1>5. CASE Present
  BY <1>5 DEF Present, ui
<1>6. CASE Stop
  BY <1>6 DEF Stop
<1>7. CASE Leave \/ LoopTop
  BY <1>7 DEF Leave, LoopTop, ui
<1>8. CASE \E now \in BOOLEAN : FocusHook(now) \/ FocusEvent(now)
  BY <1>8 DEF FocusHook, FocusEvent, ui, other
<1>9. CASE EventsDone \/ QuitEvent \/ AudioStarts \/ AudioReturns \/ UNCHANGED vars
  BY <1>9 DEF EventsDone, QuitEvent, AudioStarts, AudioReturns, vars, ui, other
<1> QED
  BY <1>1, <1>2, <1>3, <1>4, <1>5, <1>6, <1>7, <1>8, <1>9 DEF Next, Loop

\* A held button crosses the menu's edge or a pad change only after it was
\* released.
THEOREM StaleInputIsWithheld == Spec => []StaleInputWithheld
<1>1. Init => InputInv
  BY DEF Init, InputInv, StaleInputWithheld
<1>2. InputInv /\ [Next]_vars => InputInv'
  BY InputStep
<1>3. InputInv => StaleInputWithheld
  BY DEF InputInv
<1> QED BY <1>1, <1>2, <1>3, PTL DEF Spec

-----------------------------------------------------------------------------
LEMMA LastOfAppended ==
  ASSUME NEW S, NEW s \in Seq(S), NEW x \in S
  PROVE  s \o <<x>> # <<>> /\ Last(s \o <<x>>) = x
<1>1. <<x>> \in Seq(S) /\ Len(<<x>>) = 1 /\ <<x>>[1] = x
  OBVIOUS
<1>2. Len(s \o <<x>>) = Len(s) + 1 /\ Len(s) \in Nat
  BY <1>1
<1>3. (s \o <<x>>)[Len(s) + 1] = x
  BY <1>1
<1>4. s \o <<x>> # <<>>
  BY <1>2
<1> QED BY <1>2, <1>3, <1>4 DEF Last

\* After one or two writes the last one is on the card or reported.
LEMMA LastVersion ==
  ASSUME NEW first, NEW last, NEW closing \in BOOLEAN,
         StoreSettings((IF closing THEN <<first>> ELSE <<>>) \o <<last>>)
  PROVE  config' = last \/ configFailed'
<1> DEFINE early == IF closing THEN <<first>> ELSE <<>>
<1>1. early \in Seq({first, last})
  <2>1. <<first>> \in Seq({first, last}) /\ <<>> \in Seq({first, last})
    OBVIOUS
  <2> QED BY <2>1
<1> HIDE DEF early
<1>2. early \o <<last>> # <<>> /\ Last(early \o <<last>>) = last
  BY <1>1, LastOfAppended
<1>3. StoreSettings(early \o <<last>>)
  BY DEF early
<1> DEFINE versions == early \o <<last>>
<1>4. versions # <<>> /\ Last(versions) = last
  BY <1>2
<1>5. StoreSettings(versions)
  BY <1>3
<1> HIDE DEF versions
<1>6. config' = Last(versions) \/ configFailed' = TRUE
  BY <1>4, <1>5, Zenon DEF StoreSettings
<1> QED BY <1>4, <1>6

\* A menu pass that changes a setting, or leaves through the menu's own rows,
\* ends with the settings written or the failure recorded.
LEMMA MenuPassStores ==
  ASSUME MenuPass,
         \/ settings' # settings
         \/ "A" \in pressed /\ Cursor(pressed) = 6
  PROVE  config' = settings' \/ configFailed'
<1> DEFINE closing == "B" \in pressed /\ ~confirm
           option  == Cursor(pressed) \in 1 .. 4 /\ pressed \cap Acts # {}
           stores  == option \/ ("A" \in pressed /\ Cursor(pressed) \in {0, 6})
<1>1. /\ StoreSettings((IF closing THEN <<settings>> ELSE <<>>) \o
                       (IF stores THEN <<settings'>> ELSE <<>>))
      /\ ~option => settings' = settings
  BY Zenon DEF MenuPass
<1>2. stores
  BY <1>1
<1>3. (IF stores THEN <<settings'>> ELSE <<>>) = <<settings'>>
  BY <1>2
<1>4. StoreSettings((IF closing THEN <<settings>> ELSE <<>>) \o <<settings'>>)
  BY <1>1, <1>3
<1>5. closing \in BOOLEAN
  OBVIOUS
<1> HIDE DEF closing
<1> QED BY <1>4, <1>5, LastVersion

\* A changed setting is on the card or its failure on the screen.
THEOREM ChangesAreKept == Spec => ChangeIsKept
<1> DEFINE Kept == pc = "menu" /\ settings' # settings => config' = settings' \/ configFailed'
<1>1. [Next]_vars => Kept
  <2> SUFFICES ASSUME [Next]_vars PROVE Kept
    OBVIOUS
  <2>1. CASE MenuPass
    BY <2>1, MenuPassStores
  <2>2. CASE ~MenuPass
    BY <2>2 DEF Next, Loop, Launch, LoopTop, EventsDone, Input, Play, Present, Leave,
                FocusHook, FocusEvent, QuitEvent, AudioStarts, AudioReturns, Stop, cfg, vars
  <2> QED BY <2>1, <2>2
<1> QED BY <1>1, PTL DEF Spec, ChangeIsKept

\* Save-and-quit ends the program only with the game and the settings kept,
\* and a reset runs only with the game kept.
THEOREM LeavingIsAlwaysSaved == Spec => LeavingIsSaved
<1> DEFINE Safe == pc = "menu" /\ running /\ ~running' => saved' = sram /\ config' = settings'
<1>1. [Next]_vars => Safe
  <2> SUFFICES ASSUME [Next]_vars PROVE Safe
    OBVIOUS
  <2>1. CASE MenuPass
    <3> DEFINE asking == confirm /\ ~("B" \in pressed)
               row    == Cursor(pressed)
               saving == "A" \in pressed /\ (row = 6 \/ (row = 5 /\ asking))
    <3> SUFFICES ASSUME running, ~running' PROVE saved' = sram /\ config' = settings'
      OBVIOUS
    <3>1. PICK ok \in BOOLEAN :
            /\ IF saving THEN SaveChangedSram(ok) ELSE ok = FALSE /\ NoSave
            /\ running' = (running /\ ~(saving /\ row = 6 /\ QuitGranted(ok)))
      BY <2>1, Zenon DEF MenuPass
    <3>2. saving /\ row = 6 /\ ok /\ ~configFailed'
      BY <3>1, Zenon DEF QuitGranted
    <3>3. SaveChangedSram(ok)
      BY <3>1, <3>2
    <3>4. saved' = sram
      BY <3>2, <3>3 DEF SaveChangedSram
    <3>5. config' = settings'
      BY <2>1, <3>2, MenuPassStores
    <3> QED BY <3>4, <3>5
  <2>2. CASE ~MenuPass
    BY <2>2 DEF Next, Loop, Launch, LoopTop, EventsDone, Input, Play, Present, Leave,
                FocusHook, FocusEvent, QuitEvent, AudioStarts, AudioReturns, Stop, other, vars
  <2> QED BY <2>1, <2>2
<1>2. AudioInv /\ [Next]_vars => (didReset' /\ ~didReset => menu /\ confirm /\ saved' = sram)
  BY ResetsAreSaved
<1> QED BY <1>1, <1>2, AudioInvariance, PTL DEF Spec, LeavingIsSaved
=============================================================================
